--------------------------- MODULE TicketLifecycle ---------------------------
(***************************************************************************)
(* The write side of TicketsService on tickets that exist: PATCH, DELETE,  *)
(* restore, the blocker links and runAutoEscalation, with their audit rows.*)
(* Each request is a process.  A step is what runs between two awaits and  *)
(* ends in one SQL statement; between two steps of a request the others    *)
(* run.  PostgreSQL runs at READ COMMITTED: a SELECT sees the last commit, *)
(* and the final UPDATE or INSERT of a transaction, its audit row and its  *)
(* COMMIT are one step, because the row stays locked between them and      *)
(* nobody sees it before the commit.                                       *)
(***************************************************************************)
EXTENDS TicketRules

CONSTANTS
  Requests,        \* HTTP requests and escalation runs, each served once
  Calls,           \* what a request may ask for
  CreatedTickets   \* rows as POST /tickets leaves them

Call == [op : {"update"}, id : Tickets, dto : UpdateTicketDto]
        \cup [op : {"remove", "restore"}, id : Tickets]
        \cup [op : {"addDependency", "removeDependency"}, id : Tickets, blockerId : Tickets]
        \cup [op : {"escalate"}, asOf : Nat]

ASSUME CallsAssumption == Calls \subseteq Call

ASSUME CreatedTicketsAssumption ==
  \A ticket \in CreatedTickets :
    /\ ticket \in Ticket
    /\ ticket.version = 1 /\ ticket.updatedAt = 0
    /\ ~ticket.isOverdue /\ ~ticket.deleted

VARIABLES
  tickets,         \* the committed rows
  dependencies,    \* the committed <<ticketId, blockerId>> links
  auditLogs,       \* per ticket, its audit rows in commit order
  dependencyLogs,  \* per link, its audit actions in commit order
  pc,              \* per request, where it is
  call,            \* per request, its parameters
  entity,          \* per request, the ticket objects it read, by id
  reloaded         \* per request, the row its save() has read again

database == <<tickets, dependencies, auditLogs, dependencyLogs>>
memory == <<call, entity, reloaded>>
vars == <<tickets, dependencies, auditLogs, dependencyLogs, pc, call, entity, reloaded>>

Answers == {"ok", "rejected"}

Locations == {"idle", "checked", "unblocked", "updateReloaded",
              "escalating", "escalationReloaded", "removing", "restoring",
              "findBlocker", "linking", "findDependency", "unlinking"} \cup Answers

\* Ticket objects in a request's memory, NULL where it holds none.
Objects == [Tickets -> Ticket \cup {NULL}]
Nothing == [id \in Tickets |-> NULL]
Held(objects) == {id \in Tickets : objects[id] # NULL}

Init ==
  /\ tickets \in [Tickets -> CreatedTickets]
  /\ dependencies = {}
  /\ auditLogs = [id \in Tickets |-> <<CreateLog(tickets[id])>>]
  /\ dependencyLogs = [link \in Tickets \X Tickets |-> <<>>]
  /\ pc = [r \in Requests |-> "idle"]
  /\ call = [r \in Requests |-> NULL]
  /\ entity = [r \in Requests |-> Nothing]
  /\ reloaded = [r \in Requests |-> Nothing]

----------------------------------------------------------------------------
(* Helpers                                                                 *)

InFlight(r) == pc[r] \notin {"idle"} \cup Answers

At(r, location, op) == pc[r] = location /\ call[r].op = op

Goto(r, location) == pc' = [pc EXCEPT ![r] = location]

\* The first step of request c: it has read objects and continues at location.
Begin(r, c, location, objects) ==
  /\ Goto(r, location)
  /\ call' = [call EXCEPT ![r] = c]
  /\ entity' = [entity EXCEPT ![r] = objects]
  /\ UNCHANGED reloaded

Answer(r, outcome) ==
  /\ Goto(r, outcome)
  /\ call' = [call EXCEPT ![r] = NULL]
  /\ entity' = [entity EXCEPT ![r] = Nothing]
  /\ reloaded' = [reloaded EXCEPT ![r] = Nothing]

\* An exception: the HTTP answer is an error and nothing is committed.
Reject(r) == Answer(r, "rejected") /\ UNCHANGED database

\* A time no earlier write of this ticket carries.
Now(id) == Len(auditLogs[id])

\* Fault: an UPDATE row is only written when the status changes.
CommitTicketAuditsMoves(id, row, log) ==
  /\ tickets' = [tickets EXCEPT ![id] = row]
  /\ auditLogs' = IF log.action = "UPDATE" /\ log.to = NULL
                  THEN auditLogs
                  ELSE [auditLogs EXCEPT ![id] = Append(@, log)]
  /\ UNCHANGED <<dependencies, dependencyLogs>>

CommitTicket(id, row, log) ==
  /\ tickets' = [tickets EXCEPT ![id] = row]
  /\ auditLogs' = [auditLogs EXCEPT ![id] = Append(@, log)]
  /\ UNCHANGED <<dependencies, dependencyLogs>>

CommitLinks(links, link, action) ==
  /\ dependencies' = links
  /\ dependencyLogs' = [dependencyLogs EXCEPT ![link] = Append(@, action)]
  /\ UNCHANGED <<tickets, auditLogs>>

UnresolvedBlockers(id) ==
  {b \in Tickets : /\ <<id, b>> \in dependencies
                   /\ ~tickets[b].deleted
                   /\ tickets[b].status # "DONE"}

----------------------------------------------------------------------------
(* PATCH /tickets/:ticketId                                                *)

\* Outside the transaction: read, check, assign.  The object is kept as it
\* was read; Patched is what the assignments made of it.
BeginUpdate(r) ==
  /\ pc[r] = "idle"
  /\ \E c \in Calls :
       /\ c.op = "update"
       /\ \/ /\ UpdateAllowed(tickets[c.id], c.dto)
             /\ Begin(r, c, "checked", [Nothing EXCEPT ![c.id] = tickets[c.id]])
             /\ UNCHANGED database
          \/ ~UpdateAllowed(tickets[c.id], c.dto) /\ Reject(r)

\* Fault: the blockers are not counted.
CountNoBlockers(r) ==
  /\ At(r, "checked", "update")
  /\ Goto(r, "unblocked")
  /\ UNCHANGED <<database, memory>>

\* The transaction begins: a move to DONE counts the unresolved blockers.
CountBlockers(r) ==
  /\ At(r, "checked", "update")
  /\ \/ /\ call[r].dto.status = "DONE" => UnresolvedBlockers(call[r].id) = {}
        /\ Goto(r, "unblocked")
        /\ UNCHANGED <<database, memory>>
     \/ /\ call[r].dto.status = "DONE" /\ UnresolvedBlockers(call[r].id) # {}
        /\ Reject(r)

Reload(r, id, location) ==
  /\ reloaded' = [reloaded EXCEPT ![r] = [@ EXCEPT ![id] = tickets[id]]]
  /\ Goto(r, location)
  /\ UNCHANGED <<database, call, entity>>

ReloadForUpdate(r) ==
  /\ At(r, "unblocked", "update")
  /\ Reload(r, call[r].id, "updateReloaded")

CommitUpdate(r) ==
  /\ At(r, "updateReloaded", "update")
  /\ LET id     == call[r].id
         before == entity[r][id]
         object == Patched(before, call[r].dto)
     IN  CommitTicket(id, Saved(tickets[id], object, reloaded[r][id], Now(id)),
                      UpdateLog(before, call[r].dto))
  /\ Answer(r, "ok")

----------------------------------------------------------------------------
(* runAutoEscalation                                                       *)

BeginEscalation(r) ==
  /\ pc[r] = "idle"
  /\ \E c \in Calls :
       /\ c.op = "escalate"
       /\ Begin(r, c, "escalating",
                [id \in Tickets |->
                   IF EscalationCandidate(tickets[id], c.asOf) THEN tickets[id] ELSE NULL])
  /\ UNCHANGED database

\* Fault: a skipped candidate stays the next one.
SkipCandidateForever(r) ==
  /\ At(r, "escalating", "escalate")
  /\ \E id \in Held(entity[r]) : ~MustEscalate(entity[r][id], call[r].asOf)
  /\ UNCHANGED vars

\* The query orders nothing, so the next candidate is any of those left.
SkipCandidate(r) ==
  /\ At(r, "escalating", "escalate")
  /\ \E id \in Held(entity[r]) :
       /\ ~MustEscalate(entity[r][id], call[r].asOf)
       /\ entity' = [entity EXCEPT ![r] = [@ EXCEPT ![id] = NULL]]
  /\ UNCHANGED <<database, pc, call, reloaded>>

ReloadForEscalation(r) ==
  /\ At(r, "escalating", "escalate")
  /\ \E id \in Held(entity[r]) :
       /\ MustEscalate(entity[r][id], call[r].asOf)
       /\ Reload(r, id, "escalationReloaded")

CommitEscalation(r) ==
  /\ At(r, "escalationReloaded", "escalate")
  /\ \E id \in Held(reloaded[r]) :
       LET before == entity[r][id]
       IN  /\ CommitTicket(id, Saved(tickets[id], Escalated(before), reloaded[r][id], Now(id)),
                           EscalateLog(before))
           /\ entity' = [entity EXCEPT ![r] = [@ EXCEPT ![id] = NULL]]
  /\ reloaded' = [reloaded EXCEPT ![r] = Nothing]
  /\ Goto(r, "escalating")
  /\ UNCHANGED call

FinishEscalation(r) ==
  /\ At(r, "escalating", "escalate")
  /\ Held(entity[r]) = {}
  /\ Answer(r, "ok")
  /\ UNCHANGED database

----------------------------------------------------------------------------
(* DELETE /tickets/:ticketId and POST /tickets/:ticketId/restore           *)

BeginRemove(r) ==
  /\ pc[r] = "idle"
  /\ \E c \in Calls :
       /\ c.op = "remove"
       /\ \/ /\ ~tickets[c.id].deleted
             /\ Begin(r, c, "removing", Nothing)
             /\ UNCHANGED database
          \/ tickets[c.id].deleted /\ Reject(r)

CommitRemove(r) ==
  /\ At(r, "removing", "remove")
  /\ LET id == call[r].id
     IN  CommitTicket(id, DeletionSet(tickets[id], TRUE, Now(id)), BlankLog("DELETE"))
  /\ Answer(r, "ok")

\* Fault: a ticket that is not deleted is restored.
BeginRestoreAnyTicket(r) ==
  /\ pc[r] = "idle"
  /\ \E c \in Calls :
       /\ c.op = "restore"
       /\ Begin(r, c, "restoring", Nothing)
       /\ UNCHANGED database

BeginRestore(r) ==
  /\ pc[r] = "idle"
  /\ \E c \in Calls :
       /\ c.op = "restore"
       /\ \/ /\ tickets[c.id].deleted
             /\ Begin(r, c, "restoring", Nothing)
             /\ UNCHANGED database
          \/ ~tickets[c.id].deleted /\ Reject(r)

CommitRestore(r) ==
  /\ At(r, "restoring", "restore")
  /\ LET id == call[r].id
     IN  CommitTicket(id, DeletionSet(tickets[id], FALSE, Now(id)), BlankLog("RESTORE"))
  /\ Answer(r, "ok")

----------------------------------------------------------------------------
(* POST and DELETE /tickets/:ticketId/dependencies                         *)

\* A ticket may not block itself; the ticket must be active.
BeginDependency(r) ==
  /\ pc[r] = "idle"
  /\ \E c \in Calls :
       LET accepted == /\ c.op = "addDependency" => c.id # c.blockerId
                       /\ ~tickets[c.id].deleted
       IN  /\ c.op \in {"addDependency", "removeDependency"}
           /\ \/ /\ accepted
                 /\ Begin(r, c, "findBlocker", Nothing)
                 /\ UNCHANGED database
              \/ ~accepted /\ Reject(r)

SameProject(id, blockerId) == ProjectOf[id] = ProjectOf[blockerId]

FindBlocker(r) ==
  /\ pc[r] = "findBlocker"
  /\ LET id      == call[r].id
         blocker == call[r].blockerId
         adding  == call[r].op = "addDependency"
         found   == /\ ~tickets[blocker].deleted
                    /\ adding => SameProject(id, blocker)
     IN  \/ /\ found
            /\ Goto(r, IF adding THEN "linking" ELSE "findDependency")
            /\ UNCHANGED <<database, memory>>
         \/ ~found /\ Reject(r)

Link(r) == <<call[r].id, call[r].blockerId>>

\* Fault: without the unique constraint a second link is accepted.
AddDependencyAgain(r) ==
  /\ At(r, "linking", "addDependency")
  /\ CommitLinks(dependencies \cup {Link(r)}, Link(r), "CREATE")
  /\ Answer(r, "ok")

\* The unique constraint on (ticketId, blockerId) turns a second link into 409.
AddDependency(r) ==
  /\ At(r, "linking", "addDependency")
  /\ \/ /\ Link(r) \notin dependencies
        /\ CommitLinks(dependencies \cup {Link(r)}, Link(r), "CREATE")
        /\ Answer(r, "ok")
     \/ Link(r) \in dependencies /\ Reject(r)

\* Fault: a link that does not exist is removed and audited.
FindAnyDependency(r) ==
  /\ At(r, "findDependency", "removeDependency")
  /\ Goto(r, "unlinking")
  /\ UNCHANGED <<database, memory>>

FindDependency(r) ==
  /\ At(r, "findDependency", "removeDependency")
  /\ \/ /\ Link(r) \in dependencies
        /\ Goto(r, "unlinking")
        /\ UNCHANGED <<database, memory>>
     \/ Link(r) \notin dependencies /\ Reject(r)

RemoveDependency(r) ==
  /\ At(r, "unlinking", "removeDependency")
  /\ CommitLinks(dependencies \ {Link(r)}, Link(r), "DELETE")
  /\ Answer(r, "ok")

----------------------------------------------------------------------------

\* The connection or the process is lost: the open transaction rolls back and
\* an escalation run stops where it is.
Fail(r) == InFlight(r) /\ Reject(r)

\* Everything idle or answered: nobody sends another request.
Quiescent == (\A r \in Requests : pc[r] \in Answers) /\ UNCHANGED vars

\* A step of the server on a request it has begun to serve.
Proceed(r) ==
  \/ CountBlockers(r) \/ ReloadForUpdate(r) \/ CommitUpdate(r)
  \/ SkipCandidate(r) \/ ReloadForEscalation(r) \/ CommitEscalation(r) \/ FinishEscalation(r)
  \/ CommitRemove(r) \/ CommitRestore(r)
  \/ FindBlocker(r) \/ AddDependency(r) \/ FindDependency(r) \/ RemoveDependency(r)

Arrive(r) ==
  BeginUpdate(r) \/ BeginEscalation(r) \/ BeginRemove(r) \/ BeginRestore(r) \/ BeginDependency(r)

Next == (\E r \in Requests : Arrive(r) \/ Proceed(r) \/ Fail(r)) \/ Quiescent

\* Node runs every continuation whose query has returned, and no statement
\* waits for ever: the locks of a transaction end with it.
Spec == Init /\ [][Next]_vars /\ \A r \in Requests : WF_vars(Proceed(r))

\* One request at a time, as the end-to-end suite drives the service.
SerialNext ==
  \/ \E r \in Requests : /\ \A q \in Requests \ {r} : ~InFlight(q)
                         /\ Arrive(r) \/ Proceed(r) \/ Fail(r)
  \/ Quiescent

SerialSpec == Init /\ [][SerialNext]_vars

----------------------------------------------------------------------------
(* Properties                                                              *)

DatabaseTypeOK ==
  /\ tickets \in [Tickets -> Ticket]
  /\ dependencies \subseteq Tickets \X Tickets
  /\ auditLogs \in [Tickets -> Seq(AuditLog)]
  /\ dependencyLogs \in [Tickets \X Tickets -> Seq({"CREATE", "DELETE"})]

MemoryTypeOK ==
  /\ pc \in [Requests -> Locations]
  /\ call \in [Requests -> Calls \cup {NULL}]
  /\ entity \in [Requests -> Objects]
  /\ reloaded \in [Requests -> Objects]

\* Every variable holds what its column, object or program counter may hold.
TypeOK == DatabaseTypeOK /\ MemoryTypeOK

LegalTransition(log) ==
  log.action = "UPDATE" /\ log.to # NULL => OneStepForward(log.from, log.to)

\* However stale the object update() saves, the transition its audit row
\* reports is one step of the lifecycle: an UPDATE row never reports a backward,
\* a repeated or a skipping move, nor one that leaves DONE.
AuditedTransitionsAreLegal ==
  \A id \in Tickets : \A i \in DOMAIN auditLogs[id] : LegalTransition(auditLogs[id][i])

\* What log says the change started from is something the earlier rows report.
StartsOnRecord(log, earlier) ==
  /\ log.from # NULL => \E e \in earlier : e.to = log.from
  /\ log.previousPriority # NULL => \E e \in earlier : e.priority = log.previousPriority
  /\ log.action = "RESTORE" => \E e \in earlier : e.action = "DELETE"

\* However stale what a request works on, the change its audit row reports
\* starts from what earlier rows of the ticket report: a move from a status the
\* ticket was moved to or created with, an escalation from a priority it was
\* given, a restore after a DELETE.
AuditedChangesStartOnRecord ==
  \A id \in Tickets : \A i \in DOMAIN auditLogs[id] :
    StartsOnRecord(auditLogs[id][i], {auditLogs[id][j] : j \in 1..(i - 1)})

\* The status in a row was put there by some audited move or by the creation:
\* saving stale objects can bring an old status back, never an unheard-of one.
\* In particular a DONE ticket was created DONE or has an UPDATE row to DONE.
StatusIsAudited ==
  \A id \in Tickets : \E i \in DOMAIN auditLogs[id] :
    auditLogs[id][i].to = tickets[id].status

\* The last audit row of a kind in kinds has that action.
LatestIs(logs, kinds, action) ==
  \E i \in DOMAIN logs : /\ logs[i].action = action
                         /\ \A j \in DOMAIN logs : j > i => logs[j].action \notin kinds

\* A ticket that is hidden as deleted was deleted and not restored since: the
\* last DELETE or RESTORE row of its history is a DELETE.  (The converse does
\* not hold when requests overlap: the save of a stale object undeletes.)
DeletedIsAudited ==
  \A id \in Tickets :
    tickets[id].deleted => LatestIs(auditLogs[id], {"DELETE", "RESTORE"}, "DELETE")

\* A version number is never ahead of the writes: the row's version is at most
\* the number of its audit rows, even when a stale save moves it backwards.
VersionIsBacked ==
  \A id \in Tickets : tickets[id].version <= Len(auditLogs[id])

\* removeDependency finds a link in one statement and deletes it in another, and
\* addDependency looks for none: overlapping removals may both write a DELETE
\* row.  Still a link exists exactly while its last row is a CREATE, its
\* history begins with a CREATE, and every later one follows a DELETE.
LinksFollowTheirAudit ==
  \A link \in Tickets \X Tickets :
    LET logs == dependencyLogs[link]
    IN  /\ link \in dependencies <=> logs # <<>> /\ logs[Len(logs)] = "CREATE"
        /\ logs # <<>> => logs[1] = "CREATE"
        /\ \A i \in DOMAIN logs \ {1} : logs[i] = "CREATE" => logs[i - 1] = "DELETE"

\* Every request that the service has begun to serve is answered, and an
\* escalation run comes to the end of its candidates.
EveryRequestIsAnswered ==
  \A r \in Requests : InFlight(r) ~> pc[r] \in Answers

----------------------------------------------------------------------------
(* What the documentation says of the lifecycle.  Under SerialSpec it holds;*)
(* under Spec the runs overlap_* show where it does not.                   *)

\* Slice 5: TODO, IN_PROGRESS, IN_REVIEW, DONE, forward only.  No step of any
\* request moves the status of a row other than one step forward.
LifecycleForwardOnly ==
  [][\A id \in Tickets :
       tickets'[id].status # tickets[id].status
         => OneStepForward(tickets[id].status, tickets'[id].status)]_tickets

\* Slice 10: a stale version is a 409 with no mutation and no audit row.  When
\* an update commits, the row still has the version its client named.
StaleVersionIsRejected ==
  [][\A r \in Requests :
       pc[r] = "updateReloaded" /\ pc'[r] = "ok"
         => tickets[call[r].id].version = call[r].dto.version]_vars

\* 'Cannot transition to DONE while ticket has unresolved blockers': when a
\* row becomes DONE, no active blocker of it is short of DONE.
DoneHasNoOpenBlockers ==
  [][\A id \in Tickets :
       tickets[id].status # "DONE" /\ tickets'[id].status = "DONE"
         => UnresolvedBlockers(id) = {}]_vars

\* Slice 12: 'no self-dependency; soft-deleted tickets excluded'.  When a link
\* is inserted, neither of its tickets is deleted.
LinksJoinActiveTickets ==
  [][\A link \in dependencies' \ dependencies :
       ~tickets[link[1]].deleted /\ ~tickets[link[2]].deleted]_vars

\* The state history derived from the audit rows ends in the ticket's present
\* status, priority, overdue mark and deletion: nothing happened unaudited.
HistoryExplainsTicket ==
  \A id \in Tickets :
    LET logs == auditLogs[id]
        row  == tickets[id]
    IN  /\ \E i \in DOMAIN logs :
             logs[i].to = row.status /\ \A j \in DOMAIN logs : j > i => logs[j].to = NULL
        /\ \E i \in DOMAIN logs :
             /\ logs[i].priority = row.priority /\ logs[i].isOverdue = row.isOverdue
             /\ \A j \in DOMAIN logs : j > i => logs[j].priority = NULL
        /\ row.deleted <=> LatestIs(logs, {"DELETE", "RESTORE"}, "DELETE")

\* A link exists exactly while the last audit row about it is a CREATE, and
\* CREATE and DELETE rows alternate.
LinkHistoryExplainsLinks ==
  \A link \in Tickets \X Tickets :
    LET logs == dependencyLogs[link]
    IN  /\ \A i \in DOMAIN logs : logs[i] = (IF i % 2 = 1 THEN "CREATE" ELSE "DELETE")
        /\ link \in dependencies <=> Len(logs) % 2 = 1

\* The overdue mark is only ever seen on a CRITICAL ticket.
OverdueIsCritical ==
  \A id \in Tickets : tickets[id].isOverdue => tickets[id].priority = "CRITICAL"

Contract == INSTANCE TicketContract WITH
  tickets <- tickets,
  dependencies <- dependencies,
  auditLogs <- auditLogs,
  dependencyLogs <- dependencyLogs

\* Served one at a time, the requests implement the contract, but for the
\* PATCH that changes nothing and keeps its version: every commit is one
\* indivisible, fully checked operation, and every other step a stutter.
KeepsContract == Contract!ServiceSpec

==============================================================================
