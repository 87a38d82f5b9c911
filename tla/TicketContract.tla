---------------------------- MODULE TicketContract ----------------------------
(***************************************************************************)
(* What the ticket service promises its clients: every operation is one    *)
(* indivisible step on the current ticket, all of its checks hold at the   *)
(* moment it takes effect, and its audit row is written with it.           *)
(* TicketLifecycle is the service; the run tickets_serial shows that it    *)
(* keeps this promise while requests do not overlap, with one exception,   *)
(* which UnversionedUpdate names.                                          *)
(***************************************************************************)
EXTENDS TicketRules

CONSTANTS Calls, CreatedTickets

VARIABLES tickets, dependencies, auditLogs, dependencyLogs

contractVars == <<tickets, dependencies, auditLogs, dependencyLogs>>

ContractInit ==
  /\ tickets \in [Tickets -> CreatedTickets]
  /\ dependencies = {}
  /\ auditLogs = [id \in Tickets |-> <<CreateLog(tickets[id])>>]
  /\ dependencyLogs = [link \in Tickets \X Tickets |-> <<>>]

Blocked(id) == \E b \in Tickets : /\ <<id, b>> \in dependencies
                                  /\ ~tickets[b].deleted /\ tickets[b].status # "DONE"

Set(id, row, log) ==
  /\ tickets' = [tickets EXCEPT ![id] = row]
  /\ auditLogs' = [auditLogs EXCEPT ![id] = Append(@, log)]
  /\ UNCHANGED <<dependencies, dependencyLogs>>

\* Slice 10: 'success increments version'.
Revised(object, now) == [object EXCEPT !.version = @ + 1, !.updatedAt = now]

Update(id, dto) ==
  /\ UpdateAllowed(tickets[id], dto)
  /\ dto.status = "DONE" => ~Blocked(id)
  /\ Set(id, Revised(Patched(tickets[id], dto), Len(auditLogs[id])),
         UpdateLog(tickets[id], dto))

Escalate(id, asOf) ==
  /\ MustEscalate(tickets[id], asOf)
  /\ Set(id, Revised(Escalated(tickets[id]), Len(auditLogs[id])),
         EscalateLog(tickets[id]))

Remove(id) ==
  /\ ~tickets[id].deleted
  /\ Set(id, Revised([tickets[id] EXCEPT !.deleted = TRUE], Len(auditLogs[id])),
         BlankLog("DELETE"))

Restore(id) ==
  /\ tickets[id].deleted
  /\ Set(id, Revised([tickets[id] EXCEPT !.deleted = FALSE], Len(auditLogs[id])),
         BlankLog("RESTORE"))

Relink(links, link, action) ==
  /\ dependencies' = links
  /\ dependencyLogs' = [dependencyLogs EXCEPT ![link] = Append(@, action)]
  /\ UNCHANGED <<tickets, auditLogs>>

Block(id, blockerId) ==
  /\ id # blockerId /\ ProjectOf[id] = ProjectOf[blockerId]
  /\ ~tickets[id].deleted /\ ~tickets[blockerId].deleted
  /\ <<id, blockerId>> \notin dependencies
  /\ Relink(dependencies \cup {<<id, blockerId>>}, <<id, blockerId>>, "CREATE")

Unblock(id, blockerId) ==
  /\ ~tickets[id].deleted /\ ~tickets[blockerId].deleted
  /\ <<id, blockerId>> \in dependencies
  /\ Relink(dependencies \ {<<id, blockerId>>}, <<id, blockerId>>, "DELETE")

ContractNext ==
  \E c \in Calls :
    \/ c.op = "update" /\ Update(c.id, c.dto)
    \/ c.op = "remove" /\ Remove(c.id)
    \/ c.op = "restore" /\ Restore(c.id)
    \/ c.op = "addDependency" /\ Block(c.id, c.blockerId)
    \/ c.op = "removeDependency" /\ Unblock(c.id, c.blockerId)
    \/ c.op = "escalate" /\ \E id \in Tickets : Escalate(id, c.asOf)

ContractSpec == ContractInit /\ [][ContractNext]_contractVars

----------------------------------------------------------------------------

\* What the service does beside the contract.  A PATCH that leaves every column
\* as it is, such as one to the status the ticket has, succeeds and writes an
\* UPDATE row, but the version stays: the ORM sends no UPDATE for an object
\* equal to its row.  The document's 'success increments version' fails here.
UnversionedUpdate(id, dto) ==
  /\ UpdateAllowed(tickets[id], dto)
  /\ Patched(tickets[id], dto) = tickets[id]
  /\ Set(id, tickets[id], UpdateLog(tickets[id], dto))

ServiceNext ==
  \/ ContractNext
  \/ \E c \in Calls : c.op = "update" /\ UnversionedUpdate(c.id, c.dto)

ServiceSpec == ContractInit /\ [][ServiceNext]_contractVars

==============================================================================
