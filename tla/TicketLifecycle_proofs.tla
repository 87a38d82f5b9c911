------------------------ MODULE TicketLifecycle_proofs ------------------------
(***************************************************************************)
(* Proofs about TicketLifecycle for every set of tickets, requests and     *)
(* calls.                                                                  *)
(***************************************************************************)
EXTENDS TicketLifecycle, SequenceTheorems, TLAPS

----------------------------------------------------------------------------
(* Lemmas about the operators of TicketRules                               *)

\* The assignments of update() keep an object a ticket.
LEMMA PatchedType ==
  ASSUME NEW ticket \in Ticket, NEW dto \in UpdateTicketDto,
         AssigneeFound(dto.assigneeId)
  PROVE  Patched(ticket, dto) \in Ticket
  <1>1. /\ Given(dto.title, ticket.title) \in Titles
        /\ Given(dto.status, ticket.status) \in TicketStatus
        /\ Given(dto.priority, ticket.priority) \in TicketPriority
        /\ Given(dto.assigneeId, ticket.assigneeId) \in Users \cup {NULL}
        /\ Given(dto.dueDate, ticket.dueDate) \in Nat \cup {NULL}
    BY DEF Given, Ticket, UpdateTicketDto, AssigneeFound
  <1>2. (IF dto.priority = Undefined THEN ticket.isOverdue ELSE FALSE) \in BOOLEAN
    BY DEF Ticket
  <1> QED BY <1>1, <1>2 DEF Patched, Ticket

\* So do those of the escalation.
LEMMA EscalatedType ==
  ASSUME NEW ticket \in Ticket
  PROVE  Escalated(ticket) \in Ticket
  <1>1. CASE ticket.priority = "CRITICAL"
    BY <1>1 DEF Escalated, Ticket
  <1>2. CASE ticket.priority # "CRITICAL"
    <2>1. ticket.priority \in {"LOW", "MEDIUM", "HIGH"}
      BY <1>2 DEF Ticket, TicketPriority
    <2>2. NEXT_PRIORITY[ticket.priority] \in TicketPriority
      BY <2>1 DEF NEXT_PRIORITY, TicketPriority
    <2> QED BY <1>2, <2>2 DEF Escalated, Ticket
  <1> QED BY <1>1, <1>2

\* What the ORM leaves in a row is a ticket.
LEMMA SavedType ==
  ASSUME NEW row \in Ticket, NEW object \in Ticket, NEW old \in Ticket, NEW now \in Nat
  PROVE  Saved(row, object, old, now) \in Ticket
  BY DEF Saved, Ticket

\* So is a row that softDelete or restore leaves.
LEMMA DeletionSetType ==
  ASSUME NEW row \in Ticket, NEW deleted \in BOOLEAN, NEW now \in Nat
  PROVE  DeletionSet(row, deleted, now) \in Ticket
  <1>1. row.version + 1 \in Nat
    BY DEF Ticket
  <1>2. CASE deleted = TRUE
    BY <1>1, <1>2 DEF DeletionSet, Ticket
  <1>3. CASE deleted = FALSE
    BY <1>1, <1>3 DEF DeletionSet, Ticket
  <1> QED BY <1>2, <1>3

\* The audit rows have the columns of the table.
LEMMA LogTypes ==
  ASSUME NEW ticket \in Ticket
  PROVE  /\ CreateLog(ticket) \in AuditLog
         /\ EscalateLog(ticket) \in AuditLog
         /\ \A dto \in UpdateTicketDto : UpdateLog(ticket, dto) \in AuditLog
         /\ \A action \in {"DELETE", "RESTORE"} : BlankLog(action) \in AuditLog
  <1>1. CreateLog(ticket) \in AuditLog
    BY DEF CreateLog, BlankLog, AuditLog, Ticket
  <1>2. EscalateLog(ticket) \in AuditLog
    BY EscalatedType DEF EscalateLog, BlankLog, AuditLog, Ticket
  <1>3. \A dto \in UpdateTicketDto : UpdateLog(ticket, dto) \in AuditLog
    BY DEF UpdateLog, BlankLog, AuditLog, Ticket, UpdateTicketDto, Given
  <1>4. \A action \in {"DELETE", "RESTORE"} : BlankLog(action) \in AuditLog
    BY DEF BlankLog, AuditLog
  <1> QED BY <1>1, <1>2, <1>3, <1>4

----------------------------------------------------------------------------
(* Lemmas about the building blocks of the actions                         *)

\* The parameters of a call have the types of its kind.
LEMMA CallTypes ==
  ASSUME NEW c \in Calls
  PROVE  /\ c.op = "update" => c.id \in Tickets /\ c.dto \in UpdateTicketDto
         /\ c.op \in {"remove", "restore"} => c.id \in Tickets
         /\ c.op \in {"addDependency", "removeDependency"}
              => c.id \in Tickets /\ c.blockerId \in Tickets
         /\ c.op = "escalate" => c.asOf \in Nat
  BY CallsAssumption DEF Call

\* What a request in flight relies on: it serves a call of the kind its program
\* counter says, the objects it holds passed the checks made when they were
\* read, and it has read a row again only when it is about to write it.
RequestOK(r) ==
  LET Serves(ops) == call[r] \in Calls /\ call[r].op \in ops
  IN  /\ pc[r] \in {"checked", "unblocked", "updateReloaded"} =>
           /\ Serves({"update"})
           /\ entity[r][call[r].id] # NULL
           /\ UpdateAllowed(entity[r][call[r].id], call[r].dto)
      /\ pc[r] = "updateReloaded" => reloaded[r][call[r].id] # NULL
      /\ pc[r] \notin {"updateReloaded", "escalationReloaded"} => reloaded[r] = Nothing
      /\ pc[r] \in {"escalating", "escalationReloaded"} =>
           /\ Serves({"escalate"})
           /\ \A id \in Held(entity[r]) : EscalationCandidate(entity[r][id], call[r].asOf)
      /\ pc[r] = "escalationReloaded" =>
           \A id \in Held(reloaded[r]) :
             id \in Held(entity[r]) /\ MustEscalate(entity[r][id], call[r].asOf)
      /\ pc[r] = "removing" => Serves({"remove"})
      /\ pc[r] = "restoring" => Serves({"restore"})
      /\ pc[r] = "findBlocker" =>
           /\ Serves({"addDependency", "removeDependency"})
           /\ call[r].op = "addDependency" => call[r].id # call[r].blockerId
      /\ pc[r] = "linking" =>
           /\ Serves({"addDependency"})
           /\ call[r].id # call[r].blockerId
           /\ SameProject(call[r].id, call[r].blockerId)
      /\ pc[r] \in {"findDependency", "unlinking"} => Serves({"removeDependency"})

\* What another request than r has in memory.
Frame(r) ==
  \A q \in Requests \ {r} : /\ pc'[q] = pc[q]
                            /\ call'[q] = call[q]
                            /\ entity'[q] = entity[q]
                            /\ reloaded'[q] = reloaded[q]

\* A step that touches only its own request's memory keeps RequestOK of all
\* the others.
LEMMA FrameKeepsOthers ==
  ASSUME NEW r \in Requests, Frame(r), \A q \in Requests : RequestOK(q), RequestOK(r)'
  PROVE  \A q \in Requests : RequestOK(q)'
  <1> SUFFICES ASSUME NEW q \in Requests \ {r} PROVE RequestOK(q)'
    OBVIOUS
  <1>1. /\ pc'[q] = pc[q] /\ call'[q] = call[q]
        /\ entity'[q] = entity[q] /\ reloaded'[q] = reloaded[q]
    BY DEF Frame
  <1>2. RequestOK(q)
    OBVIOUS
  <1> QED BY <1>1, <1>2 DEF RequestOK

\* Objects is closed under storing a ticket or clearing an entry.
LEMMA ObjectsType ==
  /\ Nothing \in Objects
  /\ \A objects \in Objects : \A id \in Tickets : \A value \in Ticket \cup {NULL} :
       [objects EXCEPT ![id] = value] \in Objects
  /\ Held(Nothing) = {}
  BY DEF Objects, Nothing, Held

\* Beginning a request sets only its own memory.
LEMMA BeginStep ==
  ASSUME MemoryTypeOK, NEW r \in Requests, NEW c \in Calls,
         NEW location \in Locations, NEW objects \in Objects,
         Begin(r, c, location, objects)
  PROVE  /\ MemoryTypeOK'
         /\ Frame(r)
         /\ pc'[r] = location /\ call'[r] = c /\ entity'[r] = objects
         /\ reloaded'[r] = reloaded[r]
  BY DEF MemoryTypeOK, Begin, Goto, Frame

\* Going on to another location leaves the rest of the memory.
LEMMA GotoStep ==
  ASSUME MemoryTypeOK, NEW r \in Requests, NEW location \in Locations,
         Goto(r, location), UNCHANGED memory
  PROVE  /\ MemoryTypeOK'
         /\ Frame(r)
         /\ pc'[r] = location /\ call'[r] = call[r]
         /\ entity'[r] = entity[r] /\ reloaded'[r] = reloaded[r]
  BY DEF MemoryTypeOK, memory, Goto, Frame

\* An answered request holds nothing, and relies on nothing.
LEMMA AnswerStep ==
  ASSUME MemoryTypeOK, NEW r \in Requests, NEW outcome \in Answers, Answer(r, outcome)
  PROVE  /\ MemoryTypeOK'
         /\ Frame(r)
         /\ RequestOK(r)'
         /\ entity'[r] = Nothing
  <1>1. /\ MemoryTypeOK' /\ Frame(r) /\ pc'[r] \in Answers
        /\ entity'[r] = Nothing /\ reloaded'[r] = Nothing
    BY ObjectsType DEF MemoryTypeOK, Answer, Goto, Frame, Locations
  <1>2. RequestOK(r)'
    BY <1>1 DEF RequestOK, Answers
  <1> QED BY <1>1, <1>2

\* Reading a row again stores it under its id.
LEMMA ReloadStep ==
  ASSUME DatabaseTypeOK, MemoryTypeOK, NEW r \in Requests, NEW id \in Tickets,
         NEW location \in Locations, Reload(r, id, location)
  PROVE  /\ MemoryTypeOK'
         /\ Frame(r)
         /\ UNCHANGED database
         /\ pc'[r] = location /\ call'[r] = call[r] /\ entity'[r] = entity[r]
         /\ reloaded'[r] = [reloaded[r] EXCEPT ![id] = tickets[id]]
  <1>1. [reloaded[r] EXCEPT ![id] = tickets[id]] \in Objects
    BY ObjectsType DEF MemoryTypeOK, DatabaseTypeOK
  <1> QED BY <1>1 DEF MemoryTypeOK, Reload, Goto, Frame

\* Committing a ticket and its audit row keeps the tables well typed.
LEMMA CommitTicketStep ==
  ASSUME DatabaseTypeOK, NEW id \in Tickets, NEW row \in Ticket, NEW log \in AuditLog,
         CommitTicket(id, row, log)
  PROVE  /\ DatabaseTypeOK'
         /\ tickets'[id] = row
         /\ auditLogs'[id] = Append(auditLogs[id], log)
         /\ \A i \in Tickets \ {id} : tickets'[i] = tickets[i] /\ auditLogs'[i] = auditLogs[i]
         /\ UNCHANGED <<dependencies, dependencyLogs>>
  <1>1. Append(auditLogs[id], log) \in Seq(AuditLog)
    BY DEF DatabaseTypeOK
  <1> QED BY <1>1 DEF DatabaseTypeOK, CommitTicket

\* So does committing a link and its audit row.
LEMMA CommitLinksStep ==
  ASSUME DatabaseTypeOK, NEW link \in Tickets \X Tickets,
         NEW links \in SUBSET (Tickets \X Tickets), NEW action \in {"CREATE", "DELETE"},
         CommitLinks(links, link, action)
  PROVE  DatabaseTypeOK' /\ dependencies' = links /\ UNCHANGED <<tickets, auditLogs>>
  <1>1. Append(dependencyLogs[link], action) \in Seq({"CREATE", "DELETE"})
    BY DEF DatabaseTypeOK
  <1> QED BY <1>1 DEF DatabaseTypeOK, CommitLinks

----------------------------------------------------------------------------
(* Types and control: one lemma per action                                 *)

ControlInv == TypeOK /\ \A r \in Requests : RequestOK(r)

\* A step of r that is well typed, touches r's memory only and leaves r in
\* order preserves ControlInv.
LEMMA ControlStep ==
  ASSUME ControlInv, NEW r \in Requests,
         DatabaseTypeOK', MemoryTypeOK', Frame(r), RequestOK(r)'
  PROVE  ControlInv'
  BY FrameKeepsOthers DEF ControlInv, TypeOK

\* So does a step that ends the request.
LEMMA AnswerKeepsControl ==
  ASSUME ControlInv, NEW r \in Requests, DatabaseTypeOK',
         NEW outcome \in Answers, Answer(r, outcome)
  PROVE  ControlInv'
  BY AnswerStep, ControlStep DEF ControlInv, TypeOK

\* A rejection in particular.
LEMMA RejectKeepsControl ==
  ASSUME ControlInv, NEW r \in Requests, Reject(r)
  PROVE  ControlInv'
  <1>1. DatabaseTypeOK'
    BY DEF ControlInv, TypeOK, DatabaseTypeOK, Reject, database
  <1> QED BY <1>1, AnswerKeepsControl DEF Reject, Answers

\* A request that has not begun has read nothing again.
LEMMA IdleHoldsNothing ==
  ASSUME ControlInv, NEW r \in Requests, pc[r] = "idle"
  PROVE  reloaded[r] = Nothing
  BY DEF ControlInv, RequestOK

\* PATCH: the read, the checks and the assignments.
LEMMA BeginUpdateKeepsControl ==
  ASSUME ControlInv, NEW r \in Requests, BeginUpdate(r)
  PROVE  ControlInv'
  <1>1. PICK c \in Calls :
          /\ c.op = "update"
          /\ \/ /\ UpdateAllowed(tickets[c.id], c.dto)
                /\ Begin(r, c, "checked", [Nothing EXCEPT ![c.id] = tickets[c.id]])
                /\ UNCHANGED database
             \/ ~UpdateAllowed(tickets[c.id], c.dto) /\ Reject(r)
    BY DEF BeginUpdate
  <1>2. CASE Reject(r)
    BY <1>2, RejectKeepsControl
  <1>3. CASE /\ UpdateAllowed(tickets[c.id], c.dto)
             /\ Begin(r, c, "checked", [Nothing EXCEPT ![c.id] = tickets[c.id]])
             /\ UNCHANGED database
    <2> DEFINE objects == [Nothing EXCEPT ![c.id] = tickets[c.id]]
    <2>1. c.id \in Tickets /\ tickets[c.id] \in Ticket
      BY <1>1, CallTypes DEF ControlInv, TypeOK, DatabaseTypeOK
    <2>2. objects \in Objects /\ objects[c.id] = tickets[c.id]
      BY <2>1, ObjectsType DEF Nothing
    <2>3. DatabaseTypeOK'
      BY <1>3 DEF ControlInv, TypeOK, DatabaseTypeOK, database
    <2>4. "checked" \in Locations
      BY DEF Locations
    <2>5. /\ MemoryTypeOK' /\ Frame(r)
          /\ pc'[r] = "checked" /\ call'[r] = c /\ entity'[r] = objects
          /\ reloaded'[r] = Nothing
      BY <1>3, <2>2, <2>4, BeginStep, IdleHoldsNothing DEF ControlInv, TypeOK, BeginUpdate
    <2>6. RequestOK(r)'
      BY <1>1, <1>3, <2>1, <2>2, <2>5, NoTicketAssumption DEF RequestOK
    <2> QED BY <2>3, <2>5, <2>6, ControlStep
  <1> QED BY <1>1, <1>2, <1>3

\* PATCH: the count of the blockers.
LEMMA CountBlockersKeepsControl ==
  ASSUME ControlInv, NEW r \in Requests, CountBlockers(r)
  PROVE  ControlInv'
  <1>1. CASE Reject(r)
    BY <1>1, RejectKeepsControl
  <1>2. CASE Goto(r, "unblocked") /\ UNCHANGED <<database, memory>>
    <2>1. DatabaseTypeOK'
      BY <1>2 DEF ControlInv, TypeOK, DatabaseTypeOK, database
    <2>2. "unblocked" \in Locations
      BY DEF Locations
    <2>3. /\ MemoryTypeOK' /\ Frame(r) /\ pc'[r] = "unblocked"
          /\ call'[r] = call[r] /\ entity'[r] = entity[r] /\ reloaded'[r] = reloaded[r]
      BY <1>2, <2>2, GotoStep DEF ControlInv, TypeOK
    <2>4. RequestOK(r) /\ pc[r] = "checked"
      BY DEF ControlInv, CountBlockers, At
    <2>5. RequestOK(r)'
      BY <2>3, <2>4 DEF RequestOK
    <2> QED BY <2>1, <2>3, <2>5, ControlStep
  <1> QED BY <1>1, <1>2 DEF CountBlockers

\* PATCH: save() reads the row again.
LEMMA ReloadForUpdateKeepsControl ==
  ASSUME ControlInv, NEW r \in Requests, ReloadForUpdate(r)
  PROVE  ControlInv'
  <1>1. RequestOK(r) /\ pc[r] = "unblocked"
    BY DEF ControlInv, ReloadForUpdate, At
  <1>2. call[r] \in Calls /\ call[r].op = "update"
    BY <1>1 DEF RequestOK
  <1>3. call[r].id \in Tickets /\ "updateReloaded" \in Locations
    BY <1>2, CallTypes DEF Locations
  <1>4. /\ MemoryTypeOK' /\ Frame(r) /\ UNCHANGED database
        /\ pc'[r] = "updateReloaded" /\ call'[r] = call[r] /\ entity'[r] = entity[r]
        /\ reloaded'[r] = [reloaded[r] EXCEPT ![call[r].id] = tickets[call[r].id]]
    BY <1>3, ReloadStep DEF ControlInv, TypeOK, ReloadForUpdate
  <1>5. reloaded'[r][call[r].id] # NULL
    BY <1>3, <1>4, NoTicketAssumption
       DEF ControlInv, TypeOK, DatabaseTypeOK, MemoryTypeOK, Objects
  <1>6. RequestOK(r)'
    BY <1>1, <1>4, <1>5 DEF RequestOK
  <1>7. DatabaseTypeOK'
    BY <1>4 DEF ControlInv, TypeOK, DatabaseTypeOK, database
  <1> QED BY <1>4, <1>6, <1>7, ControlStep

\* What update() commits: the row the ORM writes and its audit row.
LEMMA CommitUpdateParts ==
  ASSUME ControlInv, NEW r \in Requests, At(r, "updateReloaded", "update")
  PROVE  LET id     == call[r].id
             before == entity[r][id]
             row    == Saved(tickets[id], Patched(before, call[r].dto), reloaded[r][id], Now(id))
         IN  /\ id \in Tickets /\ before \in Ticket
             /\ call[r].dto \in UpdateTicketDto /\ UpdateAllowed(before, call[r].dto)
             /\ reloaded[r][id] \in Ticket /\ Patched(before, call[r].dto) \in Ticket
             /\ row \in Ticket /\ UpdateLog(before, call[r].dto) \in AuditLog
  <1> DEFINE id == call[r].id
             before == entity[r][id]
  <1>1. RequestOK(r) /\ pc[r] = "updateReloaded"
    BY DEF ControlInv, At
  <1>2. /\ call[r] \in Calls /\ call[r].op = "update"
        /\ before # NULL /\ UpdateAllowed(before, call[r].dto) /\ reloaded[r][id] # NULL
    BY <1>1 DEF RequestOK
  <1>3. id \in Tickets /\ call[r].dto \in UpdateTicketDto
    BY <1>2, CallTypes
  <1>4. before \in Ticket /\ reloaded[r][id] \in Ticket
    BY <1>2, <1>3 DEF ControlInv, TypeOK, MemoryTypeOK, Objects
  <1>5. Patched(before, call[r].dto) \in Ticket
    BY <1>2, <1>3, <1>4, PatchedType DEF UpdateAllowed
  <1>6. tickets[id] \in Ticket /\ Now(id) \in Nat
    BY <1>3 DEF ControlInv, TypeOK, DatabaseTypeOK, Now
  <1>7. Saved(tickets[id], Patched(before, call[r].dto), reloaded[r][id], Now(id)) \in Ticket
    BY <1>4, <1>5, <1>6, SavedType
  <1>8. UpdateLog(before, call[r].dto) \in AuditLog
    BY <1>3, <1>4, LogTypes
  <1> QED BY <1>2, <1>3, <1>4, <1>5, <1>7, <1>8

\* PATCH: the UPDATE, its audit row and the commit.
LEMMA CommitUpdateKeepsControl ==
  ASSUME ControlInv, NEW r \in Requests, CommitUpdate(r)
  PROVE  ControlInv'
  <1>1. At(r, "updateReloaded", "update") /\ Answer(r, "ok")
    BY DEF CommitUpdate
  <1>2. DatabaseTypeOK'
    BY <1>1, CommitUpdateParts, CommitTicketStep DEF CommitUpdate, ControlInv, TypeOK
  <1> QED BY <1>1, <1>2, AnswerKeepsControl DEF Answers

\* Escalation: the query loads the candidates.
LEMMA BeginEscalationKeepsControl ==
  ASSUME ControlInv, NEW r \in Requests, BeginEscalation(r)
  PROVE  ControlInv'
  <1> DEFINE candidates(c) ==
        [id \in Tickets |-> IF EscalationCandidate(tickets[id], c.asOf) THEN tickets[id] ELSE NULL]
  <1>1. PICK c \in Calls : c.op = "escalate" /\ Begin(r, c, "escalating", candidates(c))
    BY DEF BeginEscalation
  <1>2. candidates(c) \in Objects
    BY DEF ControlInv, TypeOK, DatabaseTypeOK, Objects
  <1>3. \A id \in Held(candidates(c)) : EscalationCandidate(candidates(c)[id], c.asOf)
    BY DEF Held
  <1>4. DatabaseTypeOK'
    BY DEF ControlInv, TypeOK, DatabaseTypeOK, database, BeginEscalation
  <1>5. /\ MemoryTypeOK' /\ Frame(r)
        /\ pc'[r] = "escalating" /\ call'[r] = c /\ entity'[r] = candidates(c)
        /\ reloaded'[r] = Nothing
    <2> HIDE DEF candidates
    <2>1. "escalating" \in Locations
      BY DEF Locations
    <2> QED BY <1>1, <1>2, <2>1, BeginStep, IdleHoldsNothing
            DEF ControlInv, TypeOK, BeginEscalation
  <1>6. RequestOK(r)'
    <2> HIDE DEF candidates
    <2> QED BY <1>1, <1>3, <1>5 DEF RequestOK, Held
  <1> QED BY <1>4, <1>5, <1>6, ControlStep

\* Escalation: a candidate needs nothing.
LEMMA SkipCandidateKeepsControl ==
  ASSUME ControlInv, NEW r \in Requests, SkipCandidate(r)
  PROVE  ControlInv'
  <1>1. PICK id \in Held(entity[r]) : entity' = [entity EXCEPT ![r] = [@ EXCEPT ![id] = NULL]]
    BY DEF SkipCandidate
  <1>2. UNCHANGED <<database, pc, call, reloaded>> /\ pc[r] = "escalating" /\ RequestOK(r)
    BY DEF SkipCandidate, At, ControlInv
  <1>3. entity[r] \in Objects /\ id \in Tickets
    BY <1>1 DEF ControlInv, TypeOK, MemoryTypeOK, Held
  <1>4. [entity[r] EXCEPT ![id] = NULL] \in Objects
    BY <1>3, ObjectsType
  <1>5. DatabaseTypeOK' /\ MemoryTypeOK' /\ Frame(r)
    BY <1>1, <1>2, <1>4
       DEF ControlInv, TypeOK, DatabaseTypeOK, MemoryTypeOK, database, Frame
  <1>6. \A i \in Held(entity'[r]) : i \in Held(entity[r]) /\ entity'[r][i] = entity[r][i]
    BY <1>1, <1>3 DEF ControlInv, TypeOK, MemoryTypeOK, Held, Objects
  <1>7. RequestOK(r)'
    BY <1>2, <1>6 DEF RequestOK, Held
  <1> QED BY <1>5, <1>7, ControlStep

\* Escalation: save() reads the row of a candidate again.
LEMMA ReloadForEscalationKeepsControl ==
  ASSUME ControlInv, NEW r \in Requests, ReloadForEscalation(r)
  PROVE  ControlInv'
  <1>1. PICK id \in Held(entity[r]) : /\ MustEscalate(entity[r][id], call[r].asOf)
                                      /\ Reload(r, id, "escalationReloaded")
    BY DEF ReloadForEscalation
  <1>2. RequestOK(r) /\ pc[r] = "escalating"
    BY DEF ReloadForEscalation, At, ControlInv
  <1>3. id \in Tickets /\ "escalationReloaded" \in Locations
    BY DEF Held, Locations
  <1>4. /\ MemoryTypeOK' /\ Frame(r) /\ UNCHANGED database
        /\ pc'[r] = "escalationReloaded" /\ call'[r] = call[r] /\ entity'[r] = entity[r]
        /\ reloaded'[r] = [reloaded[r] EXCEPT ![id] = tickets[id]]
    BY <1>1, <1>3, ReloadStep DEF ControlInv, TypeOK
  <1>5. \A i \in Held(reloaded'[r]) : i = id
    BY <1>2, <1>3, <1>4 DEF RequestOK, Held, Nothing
  <1>6. RequestOK(r)'
    BY <1>1, <1>2, <1>4, <1>5 DEF RequestOK, Held
  <1>7. DatabaseTypeOK'
    BY <1>4 DEF ControlInv, TypeOK, DatabaseTypeOK, database
  <1> QED BY <1>4, <1>6, <1>7, ControlStep

\* What an escalation commits for the candidate it has read again.
LEMMA CommitEscalationParts ==
  ASSUME ControlInv, NEW r \in Requests, At(r, "escalationReloaded", "escalate"),
         NEW id \in Held(reloaded[r])
  PROVE  LET before == entity[r][id]
             row    == Saved(tickets[id], Escalated(before), reloaded[r][id], Now(id))
         IN  /\ id \in Tickets /\ before \in Ticket /\ MustEscalate(before, call[r].asOf)
             /\ reloaded[r][id] \in Ticket /\ Escalated(before) \in Ticket
             /\ row \in Ticket /\ EscalateLog(before) \in AuditLog
  <1> DEFINE before == entity[r][id]
  <1>1. RequestOK(r) /\ pc[r] = "escalationReloaded"
    BY DEF ControlInv, At
  <1>2. id \in Held(entity[r]) /\ MustEscalate(before, call[r].asOf) /\ id \in Tickets
    BY <1>1 DEF RequestOK, Held
  <1>3. before \in Ticket /\ reloaded[r][id] \in Ticket
    BY <1>2 DEF ControlInv, TypeOK, MemoryTypeOK, Objects, Held
  <1>4. tickets[id] \in Ticket /\ Now(id) \in Nat
    BY <1>2 DEF ControlInv, TypeOK, DatabaseTypeOK, Now
  <1>5. Escalated(before) \in Ticket
    BY <1>3, EscalatedType
  <1>6. Saved(tickets[id], Escalated(before), reloaded[r][id], Now(id)) \in Ticket
    BY <1>3, <1>4, <1>5, SavedType
  <1>7. EscalateLog(before) \in AuditLog
    BY <1>3, LogTypes
  <1> QED BY <1>2, <1>3, <1>5, <1>6, <1>7

\* Escalation: the UPDATE of a candidate, its audit row and the commit.
LEMMA CommitEscalationKeepsControl ==
  ASSUME ControlInv, NEW r \in Requests, CommitEscalation(r)
  PROVE  ControlInv'
  <1>1. At(r, "escalationReloaded", "escalate")
    BY DEF CommitEscalation
  <1>2. PICK id \in Held(reloaded[r]) :
          LET before == entity[r][id]
          IN  /\ CommitTicket(id, Saved(tickets[id], Escalated(before), reloaded[r][id], Now(id)),
                              EscalateLog(before))
              /\ entity' = [entity EXCEPT ![r] = [@ EXCEPT ![id] = NULL]]
    BY DEF CommitEscalation
  <1>3. DatabaseTypeOK'
    BY <1>1, <1>2, CommitEscalationParts, CommitTicketStep DEF ControlInv, TypeOK
  <1>4. /\ reloaded' = [reloaded EXCEPT ![r] = Nothing]
        /\ pc' = [pc EXCEPT ![r] = "escalating"] /\ UNCHANGED call
    BY DEF CommitEscalation, Goto
  <1>5. id \in Tickets /\ entity[r] \in Objects
    BY DEF Held, ControlInv, TypeOK, MemoryTypeOK
  <1>6. [entity[r] EXCEPT ![id] = NULL] \in Objects /\ "escalating" \in Locations
    BY <1>5, ObjectsType DEF Locations
  <1>7. MemoryTypeOK' /\ Frame(r)
    BY <1>2, <1>4, <1>6, ObjectsType DEF ControlInv, TypeOK, MemoryTypeOK, Frame
  <1>8. \A i \in Held(entity'[r]) : i \in Held(entity[r]) /\ entity'[r][i] = entity[r][i]
    BY <1>2, <1>5 DEF ControlInv, TypeOK, MemoryTypeOK, Held, Objects
  <1>9. RequestOK(r) /\ pc[r] = "escalationReloaded" /\ pc'[r] = "escalating"
        /\ reloaded'[r] = Nothing /\ call'[r] = call[r]
    BY <1>1, <1>4 DEF At, ControlInv, TypeOK, MemoryTypeOK
  <1>10. RequestOK(r)'
    BY <1>8, <1>9 DEF RequestOK, Held
  <1> QED BY <1>3, <1>7, <1>10, ControlStep

\* Escalation: no candidate is left.
LEMMA FinishEscalationKeepsControl ==
  ASSUME ControlInv, NEW r \in Requests, FinishEscalation(r)
  PROVE  ControlInv'
  <1>1. DatabaseTypeOK'
    BY DEF FinishEscalation, ControlInv, TypeOK, DatabaseTypeOK, database
  <1> QED BY <1>1, AnswerKeepsControl DEF FinishEscalation, Answers

\* DELETE and restore: the first read.
LEMMA BeginDeletionKeepsControl ==
  ASSUME ControlInv, NEW r \in Requests, BeginRemove(r) \/ BeginRestore(r)
  PROVE  ControlInv'
  <1>1. CASE Reject(r)
    BY <1>1, RejectKeepsControl
  <1>2. CASE \E c \in Calls : /\ c.op = "remove" /\ Begin(r, c, "removing", Nothing)
                              /\ UNCHANGED database
    <2>1. PICK c \in Calls : c.op = "remove" /\ Begin(r, c, "removing", Nothing)
      BY <1>2
    <2>2. "removing" \in Locations
      BY DEF Locations
    <2>3. /\ MemoryTypeOK' /\ Frame(r) /\ pc'[r] = "removing" /\ call'[r] = c
          /\ reloaded'[r] = Nothing
      BY <2>1, <2>2, BeginStep, ObjectsType, IdleHoldsNothing
         DEF ControlInv, TypeOK, BeginRemove, BeginRestore
    <2>4. DatabaseTypeOK'
      BY <1>2 DEF ControlInv, TypeOK, DatabaseTypeOK, database
    <2>5. RequestOK(r)'
      BY <2>1, <2>3 DEF RequestOK
    <2> QED BY <2>3, <2>4, <2>5, ControlStep
  <1>3. CASE \E c \in Calls : /\ c.op = "restore" /\ Begin(r, c, "restoring", Nothing)
                              /\ UNCHANGED database
    <2>1. PICK c \in Calls : c.op = "restore" /\ Begin(r, c, "restoring", Nothing)
      BY <1>3
    <2>2. "restoring" \in Locations
      BY DEF Locations
    <2>3. /\ MemoryTypeOK' /\ Frame(r) /\ pc'[r] = "restoring" /\ call'[r] = c
          /\ reloaded'[r] = Nothing
      BY <2>1, <2>2, BeginStep, ObjectsType, IdleHoldsNothing
         DEF ControlInv, TypeOK, BeginRemove, BeginRestore
    <2>4. DatabaseTypeOK'
      BY <1>3 DEF ControlInv, TypeOK, DatabaseTypeOK, database
    <2>5. RequestOK(r)'
      BY <2>1, <2>3 DEF RequestOK
    <2> QED BY <2>3, <2>4, <2>5, ControlStep
  <1> QED BY <1>1, <1>2, <1>3 DEF BeginRemove, BeginRestore

\* What DELETE and restore commit.
LEMMA CommitDeletionParts ==
  ASSUME ControlInv, NEW r \in Requests,
         At(r, "removing", "remove") \/ At(r, "restoring", "restore")
  PROVE  /\ call[r].id \in Tickets
         /\ \A deleted \in BOOLEAN :
              DeletionSet(tickets[call[r].id], deleted, Now(call[r].id)) \in Ticket
         /\ \A action \in {"DELETE", "RESTORE"} : BlankLog(action) \in AuditLog
  <1>1. call[r] \in Calls /\ call[r].op \in {"remove", "restore"}
    BY DEF ControlInv, RequestOK, At
  <1>2. call[r].id \in Tickets
    BY <1>1, CallTypes
  <1>3. tickets[call[r].id] \in Ticket /\ Now(call[r].id) \in Nat
    BY <1>2 DEF ControlInv, TypeOK, DatabaseTypeOK, Now
  <1>4. \A action \in {"DELETE", "RESTORE"} : BlankLog(action) \in AuditLog
    BY <1>3, LogTypes
  <1> QED BY <1>2, <1>3, <1>4, DeletionSetType

\* DELETE and restore: the UPDATE, the audit row and the commit.
LEMMA CommitDeletionKeepsControl ==
  ASSUME ControlInv, NEW r \in Requests, CommitRemove(r) \/ CommitRestore(r)
  PROVE  ControlInv'
  <1>1. CASE CommitRemove(r)
    <2>1. At(r, "removing", "remove") /\ Answer(r, "ok")
      BY <1>1 DEF CommitRemove
    <2>2. DatabaseTypeOK'
      BY <1>1, <2>1, CommitDeletionParts, CommitTicketStep DEF CommitRemove, ControlInv, TypeOK
    <2> QED BY <2>1, <2>2, AnswerKeepsControl DEF Answers
  <1>2. CASE CommitRestore(r)
    <2>1. At(r, "restoring", "restore") /\ Answer(r, "ok")
      BY <1>2 DEF CommitRestore
    <2>2. DatabaseTypeOK'
      BY <1>2, <2>1, CommitDeletionParts, CommitTicketStep DEF CommitRestore, ControlInv, TypeOK
    <2> QED BY <2>1, <2>2, AnswerKeepsControl DEF Answers
  <1> QED BY <1>1, <1>2

\* A link: the ticket is read, and the blocker after it.
LEMMA BeginDependencyKeepsControl ==
  ASSUME ControlInv, NEW r \in Requests, BeginDependency(r)
  PROVE  ControlInv'
  <1>1. CASE Reject(r)
    BY <1>1, RejectKeepsControl
  <1>2. CASE ~Reject(r)
    <2>1. PICK c \in Calls : /\ c.op \in {"addDependency", "removeDependency"}
                             /\ c.op = "addDependency" => c.id # c.blockerId
                             /\ Begin(r, c, "findBlocker", Nothing)
                             /\ UNCHANGED database
      BY <1>2 DEF BeginDependency
    <2>2. "findBlocker" \in Locations
      BY DEF Locations
    <2>3. /\ MemoryTypeOK' /\ Frame(r) /\ pc'[r] = "findBlocker" /\ call'[r] = c
          /\ reloaded'[r] = Nothing
      BY <2>1, <2>2, BeginStep, ObjectsType, IdleHoldsNothing
         DEF ControlInv, TypeOK, BeginDependency
    <2>4. DatabaseTypeOK'
      BY <2>1 DEF ControlInv, TypeOK, DatabaseTypeOK, database
    <2>5. RequestOK(r)'
      BY <2>1, <2>3 DEF RequestOK
    <2> QED BY <2>3, <2>4, <2>5, ControlStep
  <1> QED BY <1>1, <1>2

\* A link: the blocker is read, and its project compared.
LEMMA FindBlockerKeepsControl ==
  ASSUME ControlInv, NEW r \in Requests, FindBlocker(r)
  PROVE  ControlInv'
  <1>1. CASE Reject(r)
    BY <1>1, RejectKeepsControl
  <1>2. CASE ~Reject(r)
    <2> DEFINE adding == call[r].op = "addDependency"
               location == IF adding THEN "linking" ELSE "findDependency"
    <2>1. /\ pc[r] = "findBlocker" /\ RequestOK(r)
          /\ adding => SameProject(call[r].id, call[r].blockerId)
          /\ Goto(r, location) /\ UNCHANGED <<database, memory>>
      BY <1>2 DEF FindBlocker, ControlInv
    <2>2. location \in Locations
      BY DEF Locations
    <2>3. /\ MemoryTypeOK' /\ Frame(r) /\ pc'[r] = location
          /\ call'[r] = call[r] /\ entity'[r] = entity[r] /\ reloaded'[r] = reloaded[r]
      <3> HIDE DEF location
      <3> QED BY <2>1, <2>2, GotoStep DEF ControlInv, TypeOK
    <2>4. DatabaseTypeOK'
      BY <2>1 DEF ControlInv, TypeOK, DatabaseTypeOK, database
    <2>5. RequestOK(r)'
      BY <2>1, <2>3 DEF RequestOK
    <2> QED BY <2>3, <2>4, <2>5, ControlStep
  <1> QED BY <1>1, <1>2

\* The link a request adds or removes joins two tickets.
LEMMA LinkType ==
  ASSUME ControlInv, NEW r \in Requests,
         At(r, "linking", "addDependency") \/ At(r, "findDependency", "removeDependency")
         \/ At(r, "unlinking", "removeDependency")
  PROVE  Link(r) \in Tickets \X Tickets
  <1>1. call[r] \in Calls /\ call[r].op \in {"addDependency", "removeDependency"}
    BY DEF ControlInv, RequestOK, At
  <1> QED BY <1>1, CallTypes DEF Link

\* A link is inserted with its audit row.
LEMMA AddDependencyKeepsControl ==
  ASSUME ControlInv, NEW r \in Requests, AddDependency(r)
  PROVE  ControlInv'
  <1>1. CASE Reject(r)
    BY <1>1, RejectKeepsControl
  <1>2. CASE ~Reject(r)
    <2>1. /\ CommitLinks(dependencies \cup {Link(r)}, Link(r), "CREATE")
          /\ Answer(r, "ok")
      BY <1>2 DEF AddDependency
    <2>2. Link(r) \in Tickets \X Tickets
      BY LinkType DEF AddDependency
    <2>3. dependencies \cup {Link(r)} \in SUBSET (Tickets \X Tickets)
      BY <2>2 DEF ControlInv, TypeOK, DatabaseTypeOK
    <2>4. DatabaseTypeOK'
      BY <2>1, <2>2, <2>3, CommitLinksStep DEF ControlInv, TypeOK
    <2> QED BY <2>1, <2>4, AnswerKeepsControl DEF Answers
  <1> QED BY <1>1, <1>2

\* The link to remove is read.
LEMMA FindDependencyKeepsControl ==
  ASSUME ControlInv, NEW r \in Requests, FindDependency(r)
  PROVE  ControlInv'
  <1>1. CASE Reject(r)
    BY <1>1, RejectKeepsControl
  <1>2. CASE ~Reject(r)
    <2>1. /\ pc[r] = "findDependency" /\ RequestOK(r)
          /\ Goto(r, "unlinking") /\ UNCHANGED <<database, memory>>
      BY <1>2 DEF FindDependency, At, ControlInv
    <2>2. "unlinking" \in Locations
      BY DEF Locations
    <2>3. /\ MemoryTypeOK' /\ Frame(r) /\ pc'[r] = "unlinking"
          /\ call'[r] = call[r] /\ entity'[r] = entity[r] /\ reloaded'[r] = reloaded[r]
      BY <2>1, <2>2, GotoStep DEF ControlInv, TypeOK
    <2>4. DatabaseTypeOK'
      BY <2>1 DEF ControlInv, TypeOK, DatabaseTypeOK, database
    <2>5. RequestOK(r)'
      BY <2>1, <2>3 DEF RequestOK
    <2> QED BY <2>3, <2>4, <2>5, ControlStep
  <1> QED BY <1>1, <1>2

\* A link is deleted with its audit row.
LEMMA RemoveDependencyKeepsControl ==
  ASSUME ControlInv, NEW r \in Requests, RemoveDependency(r)
  PROVE  ControlInv'
  <1>1. /\ CommitLinks(dependencies \ {Link(r)}, Link(r), "DELETE")
        /\ Answer(r, "ok")
    BY DEF RemoveDependency
  <1>2. Link(r) \in Tickets \X Tickets
    BY LinkType DEF RemoveDependency
  <1>3. dependencies \ {Link(r)} \in SUBSET (Tickets \X Tickets)
    BY DEF ControlInv, TypeOK, DatabaseTypeOK
  <1>4. DatabaseTypeOK'
    BY <1>1, <1>2, <1>3, CommitLinksStep DEF ControlInv, TypeOK
  <1> QED BY <1>1, <1>4, AnswerKeepsControl DEF Answers

----------------------------------------------------------------------------

\* The control invariant holds at the start.
LEMMA InitControl == Init => ControlInv
  <1> SUFFICES ASSUME Init PROVE ControlInv
    OBVIOUS
  <1>1. \A id \in Tickets : tickets[id] \in Ticket /\ CreateLog(tickets[id]) \in AuditLog
    BY CreatedTicketsAssumption, LogTypes DEF Init
  <1>2. tickets \in [Tickets -> Ticket]
    BY <1>1 DEF Init
  <1>3. auditLogs \in [Tickets -> Seq(AuditLog)]
    <2>1. \A id \in Tickets : <<CreateLog(tickets[id])>> \in Seq(AuditLog)
      BY <1>1
    <2> QED BY <2>1 DEF Init
  <1>4. dependencyLogs \in [Tickets \X Tickets -> Seq({"CREATE", "DELETE"})]
    BY DEF Init
  <1>5. MemoryTypeOK
    BY ObjectsType DEF Init, MemoryTypeOK, Locations
  <1>6. \A r \in Requests : RequestOK(r)
    BY DEF Init, RequestOK
  <1> QED BY <1>2, <1>3, <1>4, <1>5, <1>6 DEF Init, ControlInv, TypeOK, DatabaseTypeOK

\* Every step of every interleaving preserves the types and the control
\* invariant.
LEMMA NextControl == ControlInv /\ [Next]_vars => ControlInv'
  <1> SUFFICES ASSUME ControlInv, [Next]_vars PROVE ControlInv'
    OBVIOUS
  <1>1. CASE UNCHANGED vars
    BY <1>1 DEF vars, ControlInv, TypeOK, DatabaseTypeOK, MemoryTypeOK, RequestOK
  <1>2. ASSUME NEW r \in Requests, Arrive(r) PROVE ControlInv'
    BY <1>2, BeginUpdateKeepsControl, BeginEscalationKeepsControl, BeginDeletionKeepsControl,
       BeginDependencyKeepsControl DEF Arrive
  <1>3. ASSUME NEW r \in Requests, Proceed(r) PROVE ControlInv'
    BY <1>3, CountBlockersKeepsControl, ReloadForUpdateKeepsControl, CommitUpdateKeepsControl,
       SkipCandidateKeepsControl, ReloadForEscalationKeepsControl,
       CommitEscalationKeepsControl, FinishEscalationKeepsControl,
       CommitDeletionKeepsControl, FindBlockerKeepsControl, AddDependencyKeepsControl,
       FindDependencyKeepsControl, RemoveDependencyKeepsControl DEF Proceed
  <1>4. ASSUME NEW r \in Requests, Fail(r) PROVE ControlInv'
    BY <1>4, RejectKeepsControl DEF Fail
  <1>5. CASE Quiescent
    BY <1>1, <1>5 DEF Quiescent
  <1> QED BY <1>1, <1>2, <1>3, <1>4, <1>5 DEF Next

\* Type correctness, whatever the interleaving of the requests.
THEOREM TypeCorrect == Spec => []TypeOK
  <1>1. Spec => []ControlInv
    BY InitControl, NextControl, PTL DEF Spec
  <1>2. ControlInv => TypeOK
    BY DEF ControlInv
  <1> QED BY <1>1, <1>2, PTL

----------------------------------------------------------------------------
(* The audit rows account for the tickets                                  *)

\* The status and the priority of a ticket object are ones its audit rows report.
Reported(id, ticket) ==
  /\ \E i \in DOMAIN auditLogs[id] : auditLogs[id][i].to = ticket.status
  /\ \E i \in DOMAIN auditLogs[id] : auditLogs[id][i].priority = ticket.priority

Deleted(id) == \E i \in DOMAIN auditLogs[id] : auditLogs[id][i].action = "DELETE"

Before(logs, i) == {logs[j] : j \in 1..(i - 1)}

\* The audit invariant of one ticket.
TicketAudited(id) ==
  /\ \A i \in DOMAIN auditLogs[id] : LegalTransition(auditLogs[id][i])
  /\ \A i \in DOMAIN auditLogs[id] : StartsOnRecord(auditLogs[id][i], Before(auditLogs[id], i))
  /\ Reported(id, tickets[id])
  /\ tickets[id].version <= Len(auditLogs[id])
  /\ tickets[id].deleted => LatestIs(auditLogs[id], {"DELETE", "RESTORE"}, "DELETE")

\* What a request read before others committed is still backed by the audit: the
\* status, priority and version of a ticket object, the deletion that a restore
\* found and the link that a removal found.
MemoryIsAudited(r) ==
  /\ \A id \in Held(entity[r]) : /\ entity[r][id].version <= Len(auditLogs[id])
                                 /\ Reported(id, entity[r][id])
  /\ pc[r] = "restoring" => Deleted(call[r].id)
  /\ pc[r] = "unlinking" => dependencyLogs[Link(r)] # <<>>

AuditInv ==
  /\ LinksFollowTheirAudit
  /\ \A id \in Tickets : TicketAudited(id)
  /\ \A r \in Requests : MemoryIsAudited(r)

\* Rows are only ever appended to the audit logs.
LogsGrow ==
  /\ \A id \in Tickets :
       /\ Len(auditLogs[id]) <= Len(auditLogs'[id])
       /\ \A i \in DOMAIN auditLogs[id] :
            i \in DOMAIN auditLogs'[id] /\ auditLogs'[id][i] = auditLogs[id][i]
  /\ \A link \in Tickets \X Tickets :
       dependencyLogs[link] # <<>> => dependencyLogs'[link] # <<>>

\* A request's memory only holds what it held or the row as it is.
ObjectsAreRead ==
  \A r \in Requests : \A id \in Held(entity'[r]) :
    \/ id \in Held(entity[r]) /\ entity'[r][id] = entity[r][id]
    \/ entity'[r][id] = tickets[id]

\* A request goes to restore a ticket it sees deleted, and to remove a link it
\* sees.
FindingsAreRead ==
  \A r \in Requests :
    /\ pc'[r] = "restoring" => \/ pc[r] = "restoring" /\ call'[r] = call[r]
                               \/ tickets[call'[r].id].deleted
    /\ pc'[r] = "unlinking" => \/ pc[r] = "unlinking" /\ call'[r] = call[r]
                               \/ Link(r)' \in dependencies

\* Memory that was audited stays audited, because the logs only grow.
LEMMA MemoryStaysAudited ==
  ASSUME ControlInv, ControlInv', AuditInv, LogsGrow, ObjectsAreRead, FindingsAreRead
  PROVE  \A r \in Requests : MemoryIsAudited(r)'
  <1> SUFFICES ASSUME NEW r \in Requests PROVE MemoryIsAudited(r)'
    OBVIOUS
  <1>1. ASSUME NEW id \in Held(entity'[r])
        PROVE  entity'[r][id].version <= Len(auditLogs'[id]) /\ Reported(id, entity[r][id])'
    <2>1. id \in Tickets
      BY DEF Held
    <2>2. /\ entity'[r][id].version <= Len(auditLogs[id])
          /\ Reported(id, entity'[r][id])
      BY <1>1, <2>1 DEF ObjectsAreRead, AuditInv, MemoryIsAudited, TicketAudited
    <2>3. entity'[r][id].version \in Nat
      BY <1>1, <2>1 DEF ControlInv, TypeOK, MemoryTypeOK, Objects, Held, Ticket
    <2>4. Len(auditLogs[id]) \in Nat /\ Len(auditLogs'[id]) \in Nat
      BY <2>1, LenProperties DEF ControlInv, TypeOK, DatabaseTypeOK
    <2>5. Len(auditLogs[id]) <= Len(auditLogs'[id])
      BY <2>1 DEF LogsGrow
    <2>6. entity'[r][id].version <= Len(auditLogs'[id])
      BY <2>2, <2>3, <2>4, <2>5
    <2>7. Reported(id, entity[r][id])'
      BY <2>1, <2>2 DEF LogsGrow, Reported
    <2> QED BY <2>6, <2>7
  <1>2. ASSUME pc'[r] = "restoring" PROVE Deleted(call[r].id)'
    <2>1. call'[r].id \in Tickets
      BY <1>2, CallTypes DEF ControlInv, RequestOK
    <2>2. \E i \in DOMAIN auditLogs[call'[r].id] : auditLogs[call'[r].id][i].action = "DELETE"
      BY <1>2, <2>1 DEF FindingsAreRead, AuditInv, MemoryIsAudited, TicketAudited, LatestIs, Deleted
    <2> QED BY <2>1, <2>2 DEF LogsGrow, Deleted
  <1>3. ASSUME pc'[r] = "unlinking" PROVE dependencyLogs'[Link(r)'] # <<>>
    <2>1. Link(r)' \in Tickets \X Tickets
      BY <1>3, CallTypes DEF ControlInv, RequestOK, Link
    <2>2. dependencyLogs[Link(r)'] # <<>>
      BY <1>3, <2>1 DEF FindingsAreRead, AuditInv, MemoryIsAudited, LinksFollowTheirAudit, Link
    <2> QED BY <2>1, <2>2 DEF LogsGrow
  <1> QED BY <1>1, <1>2, <1>3 DEF MemoryIsAudited, Held

\* A row and an audit row keep a ticket audited when the audit row is legal and
\* starts on record, the status and the priority were reported before or are
\* now, the version is at most one ahead of the log, and a deleted row was
\* deleted before or is now.
LEMMA CommitKeepsAudited ==
  ASSUME ControlInv, AuditInv, NEW id \in Tickets, NEW row \in Ticket, NEW log \in AuditLog,
         CommitTicket(id, row, log),
         LegalTransition(log), StartsOnRecord(log, Before(auditLogs[id], Len(auditLogs[id]) + 1)),
         log.to = row.status \/ \E i \in DOMAIN auditLogs[id] : auditLogs[id][i].to = row.status,
         \/ log.priority = row.priority
         \/ \E i \in DOMAIN auditLogs[id] : auditLogs[id][i].priority = row.priority,
         row.version <= Len(auditLogs[id]) + 1,
         row.deleted => \/ log.action = "DELETE"
                        \/ tickets[id].deleted /\ log.action \notin {"DELETE", "RESTORE"}
  PROVE  (\A i \in Tickets : TicketAudited(i)') /\ LogsGrow /\ LinksFollowTheirAudit'
  <1> DEFINE logs == auditLogs[id]
             n    == Len(logs)
  <1>1. logs \in Seq(AuditLog) /\ n \in Nat /\ DOMAIN logs = 1..n
    BY LenProperties DEF ControlInv, TypeOK, DatabaseTypeOK
  <1>2. /\ tickets'[id] = row /\ auditLogs'[id] = Append(logs, log)
        /\ \A i \in Tickets \ {id} : tickets'[i] = tickets[i] /\ auditLogs'[i] = auditLogs[i]
        /\ UNCHANGED <<dependencies, dependencyLogs>>
    BY CommitTicketStep DEF ControlInv, TypeOK
  <1>3. /\ Len(auditLogs'[id]) = n + 1 /\ DOMAIN auditLogs'[id] = 1..(n + 1)
        /\ auditLogs'[id][n + 1] = log
        /\ \A i \in 1..n : auditLogs'[id][i] = logs[i]
    BY <1>1, <1>2, AppendProperties
  <1>4. \A i \in Tickets \ {id} : TicketAudited(i)'
    <2> SUFFICES ASSUME NEW i \in Tickets \ {id} PROVE TicketAudited(i)'
      OBVIOUS
    <2>1. tickets'[i] = tickets[i] /\ auditLogs'[i] = auditLogs[i] /\ TicketAudited(i)
      BY <1>2 DEF AuditInv
    <2>2. \A j \in DOMAIN auditLogs'[i] : StartsOnRecord(auditLogs'[i][j], Before(auditLogs'[i], j))
      BY <2>1 DEF TicketAudited
    <2>3. /\ \A j \in DOMAIN auditLogs'[i] : LegalTransition(auditLogs'[i][j])
          /\ Reported(i, tickets[i])' /\ tickets'[i].version <= Len(auditLogs'[i])
          /\ tickets'[i].deleted => LatestIs(auditLogs'[i], {"DELETE", "RESTORE"}, "DELETE")
      BY <2>1 DEF TicketAudited, Reported
    <2> QED BY <2>2, <2>3 DEF TicketAudited, LegalTransition, StartsOnRecord, Before, LatestIs
  <1>5. TicketAudited(id)'
    <2>1. TicketAudited(id)
      BY DEF AuditInv
    <2>2. \A i \in DOMAIN auditLogs'[id] : LegalTransition(auditLogs'[id][i])
      BY <1>1, <1>3, <2>1 DEF TicketAudited
    <2>3. ASSUME NEW i \in DOMAIN auditLogs'[id]
          PROVE  StartsOnRecord(auditLogs'[id][i], Before(auditLogs'[id], i))
      <3>1. i \in 1..(n + 1) /\ 1..(i - 1) \subseteq 1..n
        BY <1>1, <1>3, <2>3
      <3>2. Before(auditLogs'[id], i) = Before(logs, i)
        BY <1>3, <3>1 DEF Before
      <3>3. CASE i = n + 1
        BY <1>3, <3>2, <3>3
      <3>4. CASE i # n + 1
        <4>1. i \in 1..n
          BY <1>1, <3>1, <3>4
        <4>2. StartsOnRecord(logs[i], Before(logs, i))
          BY <1>1, <2>1, <4>1 DEF TicketAudited
        <4> QED BY <1>3, <3>2, <4>1, <4>2
      <3> QED BY <3>3, <3>4
    <2>4. Reported(id, tickets[id])'
      BY <1>1, <1>2, <1>3 DEF Reported
    <2>5. tickets'[id].version <= Len(auditLogs'[id])
      BY <1>2, <1>3
    <2>6. tickets'[id].deleted => LatestIs(auditLogs'[id], {"DELETE", "RESTORE"}, "DELETE")
      <3>1. CASE log.action = "DELETE"
        BY <1>1, <1>3, <3>1 DEF LatestIs
      <3>2. CASE row.deleted /\ tickets[id].deleted /\ log.action \notin {"DELETE", "RESTORE"}
        <4>1. PICK i \in DOMAIN logs :
                /\ logs[i].action = "DELETE"
                /\ \A j \in DOMAIN logs : j > i => logs[j].action \notin {"DELETE", "RESTORE"}
          BY <2>1, <3>2 DEF TicketAudited, LatestIs
        <4>2. i \in DOMAIN auditLogs'[id] /\ auditLogs'[id][i].action = "DELETE"
          BY <1>1, <1>3, <4>1
        <4>3. \A j \in DOMAIN auditLogs'[id] :
                j > i => auditLogs'[id][j].action \notin {"DELETE", "RESTORE"}
          <5> SUFFICES ASSUME NEW j \in 1..(n + 1), j > i
                       PROVE  auditLogs'[id][j].action \notin {"DELETE", "RESTORE"}
            BY <1>3
          <5>1. CASE j = n + 1
            BY <1>3, <3>2, <5>1
          <5>2. CASE j # n + 1
            <6>1. j \in 1..n
              BY <1>1, <5>2
            <6> QED BY <1>1, <1>3, <4>1, <6>1
          <5> QED BY <5>1, <5>2
        <4> QED BY <4>2, <4>3 DEF LatestIs
      <3> QED BY <1>2, <3>1, <3>2
    <2> QED BY <2>2, <2>3, <2>4, <2>5, <2>6 DEF TicketAudited, LegalTransition, StartsOnRecord,
                                                Before, LatestIs
  <1>6. LogsGrow
    <2>1. ASSUME NEW i \in Tickets
          PROVE  /\ Len(auditLogs[i]) <= Len(auditLogs'[i])
                 /\ \A j \in DOMAIN auditLogs[i] :
                      j \in DOMAIN auditLogs'[i] /\ auditLogs'[i][j] = auditLogs[i][j]
      <3>1. CASE i = id
        BY <1>1, <1>3, <3>1
      <3>2. CASE i # id
        <4>1. Len(auditLogs[i]) \in Nat
          BY LenProperties DEF ControlInv, TypeOK, DatabaseTypeOK
        <4> QED BY <1>2, <3>2, <4>1
      <3> QED BY <3>1, <3>2
    <2> QED BY <1>2, <2>1 DEF LogsGrow
  <1>7. LinksFollowTheirAudit'
    BY <1>2 DEF AuditInv, LinksFollowTheirAudit
  <1> QED BY <1>4, <1>5, <1>6, <1>7

\* The version a save may write stays behind one more audit row.
LEMMA VersionBound ==
  ASSUME NEW held \in Nat, NEW current \in Nat, NEW rows \in Nat,
         held <= rows, current <= rows, NEW saved \in {held, current, current + 1}
  PROVE  saved <= rows + 1
  OBVIOUS

\* A saved row takes each column from the object or from the current row; a
\* save of an object read from a live row never deletes.
LEMMA SavedColumns ==
  ASSUME NEW row \in Ticket, NEW object \in Ticket, NEW old \in Ticket, NEW now \in Nat
  PROVE  LET saved == Saved(row, object, old, now)
         IN  /\ saved.status \in {object.status, row.status}
             /\ saved.priority \in {object.priority, row.priority}
             /\ saved.version \in {object.version, row.version, row.version + 1}
             /\ saved.deleted => object.deleted \/ row.deleted
  <1>1. CASE object = old
    BY <1>1 DEF Saved
  <1>2. CASE object # old
    BY <1>2 DEF Saved, Ticket
  <1> QED BY <1>1, <1>2

\* The audit row of an update that passed its checks reports a legal move from
\* the status read, and says where the patched status and priority come from.
LEMMA UpdateLogIsLegal ==
  ASSUME NEW before \in Ticket, NEW dto \in UpdateTicketDto, UpdateAllowed(before, dto)
  PROVE  LET log == UpdateLog(before, dto)
         IN  /\ LegalTransition(log) /\ log.action = "UPDATE"
             /\ log.from \in {NULL, before.status} /\ log.previousPriority = NULL
             /\ Patched(before, dto).status \in {log.to, before.status}
             /\ Patched(before, dto).priority \in {log.priority, before.priority}
             /\ Patched(before, dto).version = before.version
             /\ ~Patched(before, dto).deleted
  <1> DEFINE log == UpdateLog(before, dto)
  <1>1. /\ log.action = "UPDATE"
        /\ log.from \in {NULL, before.status} /\ log.previousPriority = NULL
    BY DEF UpdateLog, BlankLog
  <1>2. ASSUME dto.status \notin {Undefined, before.status}
        PROVE  LegalTransition(log) /\ Patched(before, dto).status = log.to
    <2>1. log.from = before.status /\ log.to = dto.status
      BY <1>2 DEF UpdateLog, BlankLog
    <2>2. OneStepForward(before.status, dto.status)
      BY <1>2 DEF UpdateAllowed
    <2>3. Patched(before, dto).status = dto.status
      BY <1>2 DEF Patched, Given, Ticket
    <2> HIDE DEF log
    <2> QED BY <2>1, <2>2, <2>3 DEF LegalTransition
  <1>3. ASSUME dto.status \in {Undefined, before.status}
        PROVE  LegalTransition(log) /\ Patched(before, dto).status = before.status
    <2>1. log.to = NULL
      BY <1>3 DEF UpdateLog, BlankLog
    <2>2. Patched(before, dto).status = before.status
      BY <1>3 DEF Patched, Given, Ticket
    <2> HIDE DEF log
    <2> QED BY <2>1, <2>2 DEF LegalTransition
  <1>4. Patched(before, dto).version = before.version /\ ~Patched(before, dto).deleted
    BY DEF Patched, Ticket, UpdateAllowed
  <1>5. Patched(before, dto).priority \in {log.priority, before.priority}
    BY DEF Patched, Given, UpdateLog, BlankLog, Ticket
  <1> QED BY <1>1, <1>2, <1>3, <1>4, <1>5

\* The audit row of an escalation reports the priority read and the one given.
LEMMA EscalateLogIsLegal ==
  ASSUME NEW before \in Ticket
  PROVE  LET log == EscalateLog(before)
         IN  /\ LegalTransition(log) /\ log.action = "AUTO_ESCALATE" /\ log.from = NULL
             /\ log.previousPriority = before.priority
             /\ Escalated(before).priority = log.priority
             /\ Escalated(before).status = before.status
             /\ Escalated(before).version = before.version
             /\ Escalated(before).deleted = before.deleted
  <1>1. CASE before.priority = "CRITICAL"
    BY <1>1 DEF Escalated, EscalateLog, BlankLog, LegalTransition, Ticket
  <1>2. CASE before.priority # "CRITICAL"
    BY <1>2 DEF Escalated, EscalateLog, BlankLog, LegalTransition, Ticket
  <1> QED BY <1>1, <1>2

\* DELETE and RESTORE rows report no move and no priority.
LEMMA DeletionLogIsLegal ==
  ASSUME NEW action \in {"DELETE", "RESTORE"}
  PROVE  /\ LegalTransition(BlankLog(action)) /\ BlankLog(action).action = action
         /\ BlankLog(action).from = NULL /\ BlankLog(action).previousPriority = NULL
  BY DEF BlankLog, LegalTransition

\* The rows before the one to be appended are all there are.
LEMMA BeforeAppend ==
  ASSUME ControlInv, NEW id \in Tickets, NEW i \in DOMAIN auditLogs[id]
  PROVE  auditLogs[id][i] \in Before(auditLogs[id], Len(auditLogs[id]) + 1)
  <1>1. Len(auditLogs[id]) \in Nat /\ DOMAIN auditLogs[id] = 1..Len(auditLogs[id])
    BY LenProperties DEF ControlInv, TypeOK, DatabaseTypeOK
  <1>2. i \in 1..(Len(auditLogs[id]) + 1 - 1)
    BY <1>1
  <1> QED BY <1>2 DEF Before

\* PATCH keeps the audit.
LEMMA CommitUpdateKeepsAudit ==
  ASSUME ControlInv, AuditInv, NEW r \in Requests, CommitUpdate(r)
  PROVE  (\A i \in Tickets : TicketAudited(i)') /\ LogsGrow /\ LinksFollowTheirAudit'
  <1> DEFINE id     == call[r].id
             before == entity[r][id]
             object == Patched(before, call[r].dto)
             row    == Saved(tickets[id], object, reloaded[r][id], Now(id))
             log    == UpdateLog(before, call[r].dto)
  <1>1. At(r, "updateReloaded", "update") /\ CommitTicket(id, row, log)
    BY DEF CommitUpdate
  <1>2. /\ id \in Tickets /\ before \in Ticket
        /\ call[r].dto \in UpdateTicketDto /\ UpdateAllowed(before, call[r].dto)
        /\ reloaded[r][id] \in Ticket /\ object \in Ticket
        /\ row \in Ticket /\ log \in AuditLog
    BY <1>1, CommitUpdateParts
  <1>3. /\ LegalTransition(log) /\ log.action = "UPDATE"
        /\ log.from \in {NULL, before.status} /\ log.previousPriority = NULL
        /\ object.status \in {log.to, before.status}
        /\ object.priority \in {log.priority, before.priority}
        /\ object.version = before.version /\ ~object.deleted
    BY <1>2, UpdateLogIsLegal
  <1>4. /\ row.status \in {object.status, tickets[id].status}
        /\ row.priority \in {object.priority, tickets[id].priority}
        /\ row.version \in {object.version, tickets[id].version, tickets[id].version + 1}
        /\ row.deleted => object.deleted \/ tickets[id].deleted
    <2>1. tickets[id] \in Ticket /\ Now(id) \in Nat
      BY <1>2 DEF ControlInv, TypeOK, DatabaseTypeOK, Now
    <2> QED BY <1>2, <2>1, SavedColumns
  <1>5. /\ before.version <= Len(auditLogs[id]) /\ tickets[id].version <= Len(auditLogs[id])
        /\ Reported(id, before) /\ Reported(id, tickets[id])
    <2>1. id \in Held(entity[r])
      BY <1>2, NoTicketAssumption DEF Held
    <2> QED BY <1>2, <2>1 DEF AuditInv, TicketAudited, MemoryIsAudited
  <1>6. row.version <= Len(auditLogs[id]) + 1
    <2>1. /\ before.version \in Nat /\ tickets[id].version \in Nat
          /\ Len(auditLogs[id]) \in Nat
      BY <1>2, LenProperties DEF ControlInv, TypeOK, DatabaseTypeOK, Ticket
    <2>2. row.version \in {before.version, tickets[id].version, tickets[id].version + 1}
      BY <1>3, <1>4
    <2> HIDE DEF id, before, object, row, log
    <2> QED BY <1>5, <2>1, <2>2, VersionBound
  <1>7. log.to = row.status \/ \E i \in DOMAIN auditLogs[id] : auditLogs[id][i].to = row.status
    BY <1>3, <1>4, <1>5 DEF Reported
  <1>8. \/ log.priority = row.priority
        \/ \E i \in DOMAIN auditLogs[id] : auditLogs[id][i].priority = row.priority
    BY <1>3, <1>4, <1>5 DEF Reported
  <1>9. row.deleted => tickets[id].deleted /\ log.action \notin {"DELETE", "RESTORE"}
    BY <1>3, <1>4
  <1>10. StartsOnRecord(log, Before(auditLogs[id], Len(auditLogs[id]) + 1))
    <2>1. PICK i \in DOMAIN auditLogs[id] : auditLogs[id][i].to = before.status
      BY <1>5 DEF Reported
    <2>2. auditLogs[id][i] \in Before(auditLogs[id], Len(auditLogs[id]) + 1)
      BY <1>2, BeforeAppend
    <2> HIDE DEF id, before, object, row, log
    <2> QED BY <1>3, <2>1, <2>2 DEF StartsOnRecord
  <1> HIDE DEF id, row, log
  <1> QED BY <1>1, <1>2, <1>3, <1>6, <1>7, <1>8, <1>9, <1>10, CommitKeepsAudited

\* So does an escalation.
LEMMA CommitEscalationKeepsAudit ==
  ASSUME ControlInv, AuditInv, NEW r \in Requests, CommitEscalation(r)
  PROVE  (\A i \in Tickets : TicketAudited(i)') /\ LogsGrow /\ LinksFollowTheirAudit'
  <1>1. PICK id \in Held(reloaded[r]) :
          CommitTicket(id, Saved(tickets[id], Escalated(entity[r][id]), reloaded[r][id], Now(id)),
                       EscalateLog(entity[r][id]))
    BY DEF CommitEscalation
  <1> DEFINE before == entity[r][id]
             object == Escalated(before)
             row    == Saved(tickets[id], object, reloaded[r][id], Now(id))
             log    == EscalateLog(before)
  <1>2. /\ id \in Tickets /\ before \in Ticket /\ MustEscalate(before, call[r].asOf)
        /\ reloaded[r][id] \in Ticket /\ object \in Ticket
        /\ row \in Ticket /\ log \in AuditLog
    BY CommitEscalationParts DEF CommitEscalation
  <1>3. /\ LegalTransition(log) /\ log.action = "AUTO_ESCALATE" /\ log.from = NULL
        /\ log.previousPriority = before.priority /\ object.priority = log.priority
        /\ object.status = before.status
        /\ object.version = before.version /\ object.deleted = before.deleted
    BY <1>2, EscalateLogIsLegal
  <1>4. ~before.deleted
    BY <1>2 DEF MustEscalate, EscalationCandidate
  <1>5. /\ row.status \in {object.status, tickets[id].status}
        /\ row.priority \in {object.priority, tickets[id].priority}
        /\ row.version \in {object.version, tickets[id].version, tickets[id].version + 1}
        /\ row.deleted => object.deleted \/ tickets[id].deleted
    <2>1. tickets[id] \in Ticket /\ Now(id) \in Nat
      BY <1>2 DEF ControlInv, TypeOK, DatabaseTypeOK, Now
    <2> QED BY <1>2, <2>1, SavedColumns
  <1>6. /\ before.version <= Len(auditLogs[id]) /\ tickets[id].version <= Len(auditLogs[id])
        /\ Reported(id, before) /\ Reported(id, tickets[id])
    <2>1. id \in Held(entity[r])
      BY <1>2, NoTicketAssumption DEF Held
    <2> QED BY <1>2, <2>1 DEF AuditInv, TicketAudited, MemoryIsAudited
  <1>7. row.version <= Len(auditLogs[id]) + 1
    <2>1. /\ before.version \in Nat /\ tickets[id].version \in Nat
          /\ Len(auditLogs[id]) \in Nat
      BY <1>2, LenProperties DEF ControlInv, TypeOK, DatabaseTypeOK, Ticket
    <2>2. row.version \in {before.version, tickets[id].version, tickets[id].version + 1}
      BY <1>3, <1>5
    <2> HIDE DEF before, object, row, log
    <2> QED BY <1>6, <2>1, <2>2, VersionBound
  <1>8. /\ \E i \in DOMAIN auditLogs[id] : auditLogs[id][i].to = row.status
        /\ \/ log.priority = row.priority
           \/ \E i \in DOMAIN auditLogs[id] : auditLogs[id][i].priority = row.priority
    BY <1>3, <1>5, <1>6 DEF Reported
  <1>9. row.deleted => tickets[id].deleted /\ log.action \notin {"DELETE", "RESTORE"}
    BY <1>3, <1>4, <1>5
  <1>10. StartsOnRecord(log, Before(auditLogs[id], Len(auditLogs[id]) + 1))
    <2>1. PICK i \in DOMAIN auditLogs[id] : auditLogs[id][i].priority = before.priority
      BY <1>6 DEF Reported
    <2>2. auditLogs[id][i] \in Before(auditLogs[id], Len(auditLogs[id]) + 1)
      BY <1>2, BeforeAppend
    <2> HIDE DEF before, object, row, log
    <2> QED BY <1>3, <2>1, <2>2 DEF StartsOnRecord
  <1> HIDE DEF row, log
  <1> QED BY <1>1, <1>2, <1>3, <1>7, <1>8, <1>9, <1>10, CommitKeepsAudited DEF row, log

\* So do DELETE and restore.
LEMMA CommitDeletionKeepsAudit ==
  ASSUME ControlInv, AuditInv, NEW r \in Requests, CommitRemove(r) \/ CommitRestore(r)
  PROVE  (\A i \in Tickets : TicketAudited(i)') /\ LogsGrow /\ LinksFollowTheirAudit'
  <1> DEFINE id == call[r].id
             row(deleted) == DeletionSet(tickets[id], deleted, Now(id))
  <1>1. /\ id \in Tickets
        /\ \A deleted \in BOOLEAN : row(deleted) \in Ticket
        /\ \A action \in {"DELETE", "RESTORE"} : BlankLog(action) \in AuditLog
    BY CommitDeletionParts DEF CommitRemove, CommitRestore
  <1>2. \A deleted \in BOOLEAN : /\ row(deleted).status = tickets[id].status
                                 /\ row(deleted).priority = tickets[id].priority
                                 /\ row(deleted).version = tickets[id].version + 1
                                 /\ row(deleted).deleted = deleted
    BY <1>1 DEF DeletionSet, ControlInv, TypeOK, DatabaseTypeOK, Ticket
  <1>3. /\ tickets[id].version + 1 <= Len(auditLogs[id]) + 1
        /\ \E i \in DOMAIN auditLogs[id] : auditLogs[id][i].to = tickets[id].status
        /\ \E i \in DOMAIN auditLogs[id] : auditLogs[id][i].priority = tickets[id].priority
    <2>1. /\ tickets[id].version <= Len(auditLogs[id])
          /\ \E i \in DOMAIN auditLogs[id] : auditLogs[id][i].to = tickets[id].status
          /\ \E i \in DOMAIN auditLogs[id] : auditLogs[id][i].priority = tickets[id].priority
      BY <1>1 DEF AuditInv, TicketAudited, Reported
    <2>2. tickets[id].version \in Nat /\ Len(auditLogs[id]) \in Nat
      BY <1>1, LenProperties DEF ControlInv, TypeOK, DatabaseTypeOK, Ticket
    <2> QED BY <2>1, <2>2
  <1>4. CASE CommitRemove(r)
    <2>1. CommitTicket(id, row(TRUE), BlankLog("DELETE"))
      BY <1>4 DEF CommitRemove
    <2> HIDE DEF id, row
    <2>2. StartsOnRecord(BlankLog("DELETE"), Before(auditLogs[id], Len(auditLogs[id]) + 1))
      BY DeletionLogIsLegal DEF StartsOnRecord
    <2> QED BY <1>1, <1>2, <1>3, <2>1, <2>2, CommitKeepsAudited, DeletionLogIsLegal
  <1>5. CASE CommitRestore(r)
    <2>1. CommitTicket(id, row(FALSE), BlankLog("RESTORE")) /\ Deleted(id)
      BY <1>5 DEF CommitRestore, At, AuditInv, MemoryIsAudited
    <2> HIDE DEF id, row
    <2>2. StartsOnRecord(BlankLog("RESTORE"), Before(auditLogs[id], Len(auditLogs[id]) + 1))
      BY <1>1, <2>1, BeforeAppend, DeletionLogIsLegal DEF StartsOnRecord, Deleted
    <2> QED BY <1>1, <1>2, <1>3, <2>1, <2>2, CommitKeepsAudited, DeletionLogIsLegal
  <1> QED BY <1>4, <1>5

\* A step that commits nothing keeps the audit.
LEMMA IdleDatabaseKeepsAudit ==
  ASSUME ControlInv, AuditInv, UNCHANGED database
  PROVE  (\A i \in Tickets : TicketAudited(i)') /\ LogsGrow /\ LinksFollowTheirAudit'
  <1>1. \A i \in Tickets : Len(auditLogs[i]) \in Nat
    BY LenProperties DEF ControlInv, TypeOK, DatabaseTypeOK
  <1> QED BY <1>1 DEF database, AuditInv, TicketAudited, Reported, LatestIs, LogsGrow,
                      LinksFollowTheirAudit

\* The history of a link after one more row: it keeps its beginning, and a
\* CREATE is only ever appended to nothing or to a DELETE.
LEMMA AppendedLinkHistory ==
  ASSUME NEW logs \in Seq({"CREATE", "DELETE"}), NEW action \in {"CREATE", "DELETE"},
         logs # <<>> => logs[1] = "CREATE",
         \A i \in DOMAIN logs \ {1} : logs[i] = "CREATE" => logs[i - 1] = "DELETE",
         action = "CREATE" => logs = <<>> \/ logs[Len(logs)] # "CREATE",
         action = "DELETE" => logs # <<>>
  PROVE  LET new == Append(logs, action)
         IN  /\ new # <<>> /\ new[Len(new)] = action /\ new[1] = "CREATE"
             /\ \A i \in DOMAIN new \ {1} : new[i] = "CREATE" => new[i - 1] = "DELETE"
  <1> DEFINE n   == Len(logs)
             new == Append(logs, action)
  <1>1. n \in Nat /\ DOMAIN logs = 1..n /\ \A i \in 1..n : logs[i] \in {"CREATE", "DELETE"}
    BY LenProperties
  <1>2. /\ Len(new) = n + 1 /\ DOMAIN new = 1..(n + 1) /\ new[n + 1] = action
        /\ \A i \in 1..n : new[i] = logs[i]
    BY <1>1, AppendProperties
  <1>3. logs = <<>> <=> n = 0
    BY EmptySeq
  <1> HIDE DEF n, new
  <1>4. new # <<>> /\ new[Len(new)] = action
    <2>1. new # <<>>
      BY DEF new
    <2> QED BY <1>2, <2>1
  <1>5. new[1] = "CREATE"
    BY <1>1, <1>2, <1>3
  <1>6. ASSUME NEW i \in DOMAIN new \ {1}, new[i] = "CREATE" PROVE new[i - 1] = "DELETE"
    <2>1. i \in 2..(n + 1)
      BY <1>1, <1>2, <1>6
    <2>2. CASE i = n + 1
      <3>1. n # 0 /\ logs[n] # "CREATE"
        BY <1>1, <1>2, <1>3, <1>6, <2>1, <2>2 DEF n
      <3> QED BY <1>1, <1>2, <2>2, <3>1
    <2>3. CASE i # n + 1
      BY <1>1, <1>2, <1>6, <2>1, <2>3
    <2> QED BY <2>2, <2>3
  <1> QED BY <1>4, <1>5, <1>6 DEF new

\* A link and its audit row are committed together, an insertion only where
\* there is no link, a removal only where one was found.
LEMMA CommitLinksKeepsAudit ==
  ASSUME ControlInv, AuditInv, NEW r \in Requests, AddDependency(r) \/ RemoveDependency(r)
  PROVE  (\A i \in Tickets : TicketAudited(i)') /\ LogsGrow /\ LinksFollowTheirAudit'
  <1>1. CASE Reject(r)
    BY <1>1, IdleDatabaseKeepsAudit DEF Reject
  <1>2. ASSUME NEW links, NEW action \in {"CREATE", "DELETE"},
               Link(r) \in Tickets \X Tickets, CommitLinks(links, Link(r), action),
               \A link \in Tickets \X Tickets \ {Link(r)} :
                 link \in links <=> link \in dependencies,
               Link(r) \in links <=> action = "CREATE",
               action = "CREATE" => Link(r) \notin dependencies,
               action = "DELETE" => dependencyLogs[Link(r)] # <<>>
        PROVE  (\A i \in Tickets : TicketAudited(i)') /\ LogsGrow /\ LinksFollowTheirAudit'
    <2> DEFINE own  == Link(r)
               logs == dependencyLogs[own]
    <2>1. UNCHANGED <<tickets, auditLogs>> /\ dependencies' = links
      BY <1>2 DEF CommitLinks
    <2>2. \A i \in Tickets : Len(auditLogs[i]) \in Nat
      BY LenProperties DEF ControlInv, TypeOK, DatabaseTypeOK
    <2>3. \A i \in Tickets : TicketAudited(i)'
      BY <2>1 DEF AuditInv, TicketAudited, Reported, LatestIs
    <2>4. logs \in Seq({"CREATE", "DELETE"})
      BY <1>2 DEF ControlInv, TypeOK, DatabaseTypeOK
    <2>5. /\ dependencyLogs'[own] = Append(logs, action)
          /\ \A link \in Tickets \X Tickets \ {own} : dependencyLogs'[link] = dependencyLogs[link]
      BY <1>2 DEF CommitLinks, ControlInv, TypeOK, DatabaseTypeOK
    <2>6. /\ own \in dependencies <=> logs # <<>> /\ logs[Len(logs)] = "CREATE"
          /\ logs # <<>> => logs[1] = "CREATE"
          /\ \A i \in DOMAIN logs \ {1} : logs[i] = "CREATE" => logs[i - 1] = "DELETE"
      BY <1>2 DEF AuditInv, LinksFollowTheirAudit
    <2> DEFINE new == Append(logs, action)
    <2>7. /\ new # <<>> /\ new[Len(new)] = action /\ new[1] = "CREATE"
          /\ \A i \in DOMAIN new \ {1} : new[i] = "CREATE" => new[i - 1] = "DELETE"
      <3> HIDE DEF logs, own
      <3> QED BY <1>2, <2>4, <2>6, AppendedLinkHistory DEF logs, own
    <2> HIDE DEF new
    <2>8. LogsGrow
      BY <2>1, <2>2, <2>5, <2>7 DEF LogsGrow, new
    <2>9. LinksFollowTheirAudit'
      <3> SUFFICES ASSUME NEW link \in Tickets \X Tickets
                   PROVE  /\ link \in links <=> /\ dependencyLogs'[link] # <<>>
                                               /\ dependencyLogs'[link][Len(dependencyLogs'[link])] = "CREATE"
                          /\ dependencyLogs'[link] # <<>> => dependencyLogs'[link][1] = "CREATE"
                          /\ \A i \in DOMAIN dependencyLogs'[link] \ {1} :
                               dependencyLogs'[link][i] = "CREATE"
                                 => dependencyLogs'[link][i - 1] = "DELETE"
        BY <2>1 DEF LinksFollowTheirAudit
      <3>1. CASE link = own
        <4>1. dependencyLogs'[link] = new
          BY <2>5, <3>1 DEF new
        <4> QED BY <1>2, <2>7, <3>1, <4>1
      <3>2. CASE link # own
        <4>1. dependencyLogs'[link] = dependencyLogs[link] /\ (link \in links <=> link \in dependencies)
          BY <1>2, <2>5, <3>2
        <4> QED BY <4>1 DEF AuditInv, LinksFollowTheirAudit
      <3> QED BY <3>1, <3>2
    <2> QED BY <2>3, <2>8, <2>9
  <1>3. CASE AddDependency(r) /\ ~Reject(r)
    <2>1. /\ Link(r) \notin dependencies
          /\ CommitLinks(dependencies \cup {Link(r)}, Link(r), "CREATE")
      BY <1>3 DEF AddDependency
    <2>2. Link(r) \in Tickets \X Tickets
      BY <1>3, LinkType DEF AddDependency
    <2> QED BY <1>2, <2>1, <2>2
  <1>4. CASE RemoveDependency(r)
    <2>1. /\ CommitLinks(dependencies \ {Link(r)}, Link(r), "DELETE")
          /\ dependencyLogs[Link(r)] # <<>>
      BY <1>4 DEF RemoveDependency, At, AuditInv, MemoryIsAudited
    <2>2. Link(r) \in Tickets \X Tickets
      BY <1>4, LinkType DEF RemoveDependency
    <2> QED BY <1>2, <2>1, <2>2
  <1> QED BY <1>1, <1>3, <1>4

\* What the memory of r may become, and what that says of all the memory.
LEMMA ReadsOfOne ==
  ASSUME ControlInv, NEW r \in Requests, NEW objects,
         entity' = [entity EXCEPT ![r] = objects],
         \A id \in Held(objects) : \/ id \in Held(entity[r]) /\ objects[id] = entity[r][id]
                                   \/ objects[id] = tickets[id]
  PROVE  ObjectsAreRead
  BY DEF ObjectsAreRead, ControlInv, TypeOK, MemoryTypeOK

\* No step puts anything into memory but rows it reads.
LEMMA StepReads ==
  ASSUME ControlInv, NEW r \in Requests, Arrive(r) \/ Proceed(r) \/ Fail(r)
  PROVE  ObjectsAreRead
  <1>1. CASE UNCHANGED entity
    BY <1>1 DEF ObjectsAreRead
  <1>2. CASE entity' = [entity EXCEPT ![r] = Nothing]
    BY <1>2, ReadsOfOne, ObjectsType
  <1>3. CASE \E id \in Tickets : entity' = [entity EXCEPT ![r] = [@ EXCEPT ![id] = NULL]]
    <2>1. PICK id \in Tickets : entity' = [entity EXCEPT ![r] = [@ EXCEPT ![id] = NULL]]
      BY <1>3
    <2> DEFINE objects == [entity[r] EXCEPT ![id] = NULL]
    <2>2. entity' = [entity EXCEPT ![r] = objects]
      BY <2>1
    <2>3. \A i \in Held(objects) : \/ i \in Held(entity[r]) /\ objects[i] = entity[r][i]
                                   \/ objects[i] = tickets[i]
      BY DEF Held, ControlInv, TypeOK, MemoryTypeOK, Objects
    <2> HIDE DEF objects
    <2>4. entity'[r] = objects /\ \A q \in Requests \ {r} : entity'[q] = entity[q]
      BY <2>2 DEF ControlInv, TypeOK, MemoryTypeOK
    <2> QED BY <2>3, <2>4 DEF ObjectsAreRead
  <1>4. CASE \E id \in Tickets :
               entity' = [entity EXCEPT ![r] = [Nothing EXCEPT ![id] = tickets[id]]]
    <2>1. PICK id \in Tickets :
                 entity' = [entity EXCEPT ![r] = [Nothing EXCEPT ![id] = tickets[id]]]
      BY <1>4
    <2> DEFINE objects == [Nothing EXCEPT ![id] = tickets[id]]
    <2>2. entity' = [entity EXCEPT ![r] = objects]
      BY <2>1
    <2>3. \A i \in Held(objects) : \/ i \in Held(entity[r]) /\ objects[i] = entity[r][i]
                                   \/ objects[i] = tickets[i]
      BY DEF Held, Nothing
    <2> HIDE DEF objects
    <2>4. entity'[r] = objects /\ \A q \in Requests \ {r} : entity'[q] = entity[q]
      BY <2>2 DEF ControlInv, TypeOK, MemoryTypeOK
    <2> QED BY <2>3, <2>4 DEF ObjectsAreRead
  <1>5. CASE BeginEscalation(r)
    <2> DEFINE candidates(c) == [id \in Tickets |->
                 IF EscalationCandidate(tickets[id], c.asOf) THEN tickets[id] ELSE NULL]
    <2>1. PICK c \in Calls : entity' = [entity EXCEPT ![r] = candidates(c)]
      BY <1>5 DEF BeginEscalation, Begin
    <2> DEFINE objects == candidates(c)
    <2>2. entity' = [entity EXCEPT ![r] = objects]
      BY <2>1
    <2>3. \A i \in Held(objects) : \/ i \in Held(entity[r]) /\ objects[i] = entity[r][i]
                                   \/ objects[i] = tickets[i]
      BY DEF Held
    <2> HIDE DEF objects, candidates
    <2>4. entity'[r] = objects /\ \A q \in Requests \ {r} : entity'[q] = entity[q]
      BY <2>2 DEF ControlInv, TypeOK, MemoryTypeOK
    <2> QED BY <2>3, <2>4 DEF ObjectsAreRead
  <1>6. CASE BeginUpdate(r)
    <2>1. PICK c \in Calls :
            /\ c.op = "update"
            /\ \/ Begin(r, c, "checked", [Nothing EXCEPT ![c.id] = tickets[c.id]])
               \/ Reject(r)
      BY <1>6 DEF BeginUpdate
    <2>2. c.id \in Tickets
      BY <2>1, CallTypes
    <2> QED BY <1>2, <1>4, <2>1, <2>2 DEF Begin, Reject, Answer
  <1>7. CASE BeginRemove(r) \/ BeginRestore(r) \/ BeginDependency(r) \/ Fail(r)
    BY <1>2, <1>7 DEF BeginRemove, BeginRestore, BeginDependency, Fail, Begin, Reject, Answer
  <1>8. CASE CommitEscalation(r) \/ SkipCandidate(r)
    BY <1>3, <1>8 DEF CommitEscalation, SkipCandidate, Held
  <1>9. CASE CountBlockers(r) \/ FindBlocker(r) \/ FindDependency(r)
    BY <1>1, <1>2, <1>9 DEF CountBlockers, FindBlocker, FindDependency, Reject, Answer, memory
  <1>10. CASE ReloadForUpdate(r) \/ ReloadForEscalation(r)
    BY <1>1, <1>10 DEF ReloadForUpdate, ReloadForEscalation, Reload
  <1>11. CASE CommitUpdate(r) \/ FinishEscalation(r) \/ CommitRemove(r) \/ CommitRestore(r)
              \/ AddDependency(r) \/ RemoveDependency(r)
    BY <1>2, <1>11 DEF CommitUpdate, FinishEscalation, CommitRemove, CommitRestore,
                       AddDependency, RemoveDependency, Reject, Answer
  <1> QED BY <1>5, <1>6, <1>7, <1>8, <1>9, <1>10, <1>11 DEF Arrive, Proceed

\* No step goes to restore or to remove anything but what it finds.
LEMMA StepFinds ==
  ASSUME ControlInv, NEW r \in Requests, Arrive(r) \/ Proceed(r) \/ Fail(r)
  PROVE  FindingsAreRead
  <1> DEFINE Finds == /\ pc'[r] = "restoring" => tickets[call'[r].id].deleted
                      /\ pc'[r] = "unlinking" => Link(r)' \in dependencies
  <1> SUFFICES /\ \A q \in Requests \ {r} : pc'[q] = pc[q] /\ call'[q] = call[q]
               /\ pc'[r] \in {"restoring", "unlinking"} => Finds
    BY DEF FindingsAreRead
  <1>1. pc \in [Requests -> Locations] /\ call \in [Requests -> Calls \cup {NULL}]
    BY DEF ControlInv, TypeOK, MemoryTypeOK
  <1>2. ASSUME NEW location, Goto(r, location)
        PROVE  pc'[r] = location /\ \A q \in Requests \ {r} : pc'[q] = pc[q]
    BY <1>1, <1>2 DEF Goto
  <1>3. ASSUME NEW outcome \in Answers, Answer(r, outcome)
        PROVE  /\ \A q \in Requests \ {r} : pc'[q] = pc[q] /\ call'[q] = call[q]
               /\ pc'[r] \notin {"restoring", "unlinking"}
    BY <1>1, <1>2, <1>3 DEF Answer, Answers
  <1>4. CASE Reject(r)
    BY <1>3, <1>4 DEF Reject, Answers
  <1>5. CASE Answer(r, "ok")
    BY <1>3, <1>5 DEF Answers
  <1>6. ASSUME NEW c, NEW location, NEW objects, Begin(r, c, location, objects)
        PROVE  /\ \A q \in Requests \ {r} : pc'[q] = pc[q] /\ call'[q] = call[q]
               /\ pc'[r] = location /\ call'[r] = c
    BY <1>1, <1>2, <1>6 DEF Begin
  <1>7. ASSUME NEW location, Goto(r, location), UNCHANGED call
        PROVE  /\ \A q \in Requests \ {r} : pc'[q] = pc[q] /\ call'[q] = call[q]
               /\ pc'[r] = location /\ call'[r] = call[r]
    BY <1>2, <1>7
  <1>8. CASE BeginUpdate(r) \/ BeginEscalation(r) \/ BeginRemove(r) \/ BeginDependency(r)
    <2>1. CASE ~Reject(r)
      <3>1. \E c, objects : \E location \in {"checked", "escalating", "removing", "findBlocker"} :
              Begin(r, c, location, objects)
        BY <1>8, <2>1 DEF BeginUpdate, BeginEscalation, BeginRemove, BeginDependency
      <3> QED BY <1>6, <3>1
    <2> QED BY <1>4, <2>1
  <1>9. CASE BeginRestore(r)
    <2>1. CASE ~Reject(r)
      <3>1. PICK c \in Calls : tickets[c.id].deleted /\ Begin(r, c, "restoring", Nothing)
        BY <1>9, <2>1 DEF BeginRestore
      <3> QED BY <1>6, <3>1
    <2> QED BY <1>4, <2>1
  <1>10. CASE SkipCandidate(r)
    BY <1>10 DEF SkipCandidate, At
  <1>11. CASE CountBlockers(r) \/ FindBlocker(r)
    <2>1. CASE ~Reject(r)
      BY <1>7, <1>11, <2>1 DEF CountBlockers, FindBlocker, memory
    <2> QED BY <1>4, <2>1
  <1>12. CASE ReloadForUpdate(r) \/ ReloadForEscalation(r) \/ CommitEscalation(r)
    BY <1>7, <1>12 DEF ReloadForUpdate, ReloadForEscalation, Reload, CommitEscalation
  <1>13. CASE FindDependency(r)
    <2>1. CASE ~Reject(r)
      <3>1. Link(r) \in dependencies /\ Goto(r, "unlinking") /\ UNCHANGED call
        BY <1>13, <2>1 DEF FindDependency, memory
      <3> QED BY <1>7, <3>1 DEF Link
    <2> QED BY <1>4, <2>1
  <1>14. CASE CommitUpdate(r) \/ FinishEscalation(r) \/ CommitRemove(r) \/ CommitRestore(r)
              \/ AddDependency(r) \/ RemoveDependency(r)
    BY <1>4, <1>5, <1>14 DEF CommitUpdate, FinishEscalation, CommitRemove, CommitRestore,
                             AddDependency, RemoveDependency
  <1>15. CASE Fail(r)
    BY <1>4, <1>15 DEF Fail
  <1> HIDE DEF Finds
  <1> QED BY <1>8, <1>9, <1>10, <1>11, <1>12, <1>13, <1>14, <1>15 DEF Arrive, Proceed

\* Every step of every interleaving keeps the audit.
LEMMA NextAudit == ControlInv /\ ControlInv' /\ AuditInv /\ [Next]_vars => AuditInv'
  <1> SUFFICES ASSUME ControlInv, ControlInv', AuditInv, [Next]_vars PROVE AuditInv'
    OBVIOUS
  <1> DEFINE Kept == (\A i \in Tickets : TicketAudited(i)') /\ LogsGrow /\ LinksFollowTheirAudit'
  <1>1. CASE UNCHANGED vars
    <2>1. Kept
      BY <1>1, IdleDatabaseKeepsAudit DEF vars, database
    <2>2. ObjectsAreRead /\ FindingsAreRead
      BY <1>1 DEF vars, ObjectsAreRead, FindingsAreRead
    <2> QED BY <2>1, <2>2, MemoryStaysAudited DEF AuditInv
  <1>2. ASSUME NEW r \in Requests, Arrive(r) \/ Proceed(r) \/ Fail(r) PROVE AuditInv'
    <2>1. Kept
      <3>1. CASE UNCHANGED database
        BY <3>1, IdleDatabaseKeepsAudit
      <3>2. CASE Arrive(r) \/ Fail(r)
        BY <3>1, <3>2 DEF Arrive, Fail, BeginUpdate, BeginEscalation, BeginRemove,
                          BeginRestore, BeginDependency, Reject
      <3>3. CASE CountBlockers(r) \/ ReloadForUpdate(r) \/ SkipCandidate(r)
                 \/ ReloadForEscalation(r) \/ FinishEscalation(r) \/ FindBlocker(r)
                 \/ FindDependency(r)
        BY <3>1, <3>3 DEF CountBlockers, ReloadForUpdate, SkipCandidate, ReloadForEscalation,
                          FinishEscalation, FindBlocker, FindDependency, Reload, Reject
      <3> HIDE DEF Kept
      <3>4. CASE CommitUpdate(r)
        BY <3>4, CommitUpdateKeepsAudit DEF Kept
      <3>5. CASE CommitEscalation(r)
        BY <3>5, CommitEscalationKeepsAudit DEF Kept
      <3>6. CASE CommitRemove(r) \/ CommitRestore(r)
        BY <3>6, CommitDeletionKeepsAudit DEF Kept
      <3>7. CASE AddDependency(r) \/ RemoveDependency(r)
        BY <3>7, CommitLinksKeepsAudit DEF Kept
      <3> QED BY <1>2, <3>2, <3>3, <3>4, <3>5, <3>6, <3>7 DEF Proceed
    <2>2. ObjectsAreRead /\ FindingsAreRead
      BY <1>2, StepReads, StepFinds
    <2> QED BY <2>1, <2>2, MemoryStaysAudited DEF AuditInv
  <1>3. CASE Quiescent
    BY <1>1, <1>3 DEF Quiescent
  <1> QED BY <1>1, <1>2, <1>3 DEF Next

\* The tickets as created are audited by their CREATE rows.
LEMMA InitAudit == Init => AuditInv
  <1> SUFFICES ASSUME Init PROVE AuditInv
    OBVIOUS
  <1>1. \A id \in Tickets : TicketAudited(id)
    <2> SUFFICES ASSUME NEW id \in Tickets PROVE TicketAudited(id)
      OBVIOUS
    <2>1. /\ tickets[id] \in Ticket /\ tickets[id].version = 1 /\ ~tickets[id].deleted
          /\ auditLogs[id] = <<CreateLog(tickets[id])>>
      BY CreatedTicketsAssumption DEF Init
    <2>2. Len(auditLogs[id]) = 1 /\ DOMAIN auditLogs[id] = {1}
          /\ auditLogs[id][1] = CreateLog(tickets[id])
      BY <2>1
    <2>3. LET log == CreateLog(tickets[id])
          IN  /\ log.action = "CREATE" /\ log.from = NULL /\ log.previousPriority = NULL
              /\ log.to = tickets[id].status /\ log.priority = tickets[id].priority
      BY <2>1 DEF CreateLog, BlankLog, Ticket
    <2>4. LegalTransition(auditLogs[id][1])
      BY <2>2, <2>3 DEF LegalTransition
    <2>5. StartsOnRecord(auditLogs[id][1], Before(auditLogs[id], 1))
      BY <2>2, <2>3 DEF StartsOnRecord
    <2>6. Reported(id, tickets[id])
      BY <2>2, <2>3 DEF Reported
    <2> QED BY <2>1, <2>2, <2>4, <2>5, <2>6 DEF TicketAudited
  <1>2. LinksFollowTheirAudit
    BY DEF Init, LinksFollowTheirAudit
  <1>3. \A r \in Requests : MemoryIsAudited(r)
    BY ObjectsType DEF Init, MemoryIsAudited
  <1> QED BY <1>1, <1>2, <1>3 DEF AuditInv

\* Both invariants hold in every reachable state of every interleaving.
THEOREM InvariantsHold == Spec => [](ControlInv /\ AuditInv)
  <1>1. Init => ControlInv /\ AuditInv
    BY InitControl, InitAudit
  <1>2. (ControlInv /\ AuditInv) /\ [Next]_vars => (ControlInv /\ AuditInv)'
    BY NextControl, NextAudit
  <1> QED BY <1>1, <1>2, PTL DEF Spec

\* However additions and removals of a link overlap, its audit rows say whether
\* it exists.
THEOREM LinksAudited == Spec => []LinksFollowTheirAudit
  <1>1. AuditInv => LinksFollowTheirAudit
    BY DEF AuditInv
  <1> QED BY <1>1, InvariantsHold, PTL

\* No interleaving audits an illegal move.
THEOREM TransitionsLegal == Spec => []AuditedTransitionsAreLegal
  <1>1. AuditInv => AuditedTransitionsAreLegal
    BY DEF AuditInv, TicketAudited, AuditedTransitionsAreLegal
  <1> QED BY <1>1, InvariantsHold, PTL

\* However stale the objects, what an audit row says a change started from is on
\* record before it.
THEOREM ChangesStartOnRecord == Spec => []AuditedChangesStartOnRecord
  <1>1. AuditInv => AuditedChangesStartOnRecord
    BY DEF AuditInv, TicketAudited, AuditedChangesStartOnRecord, Before
  <1> QED BY <1>1, InvariantsHold, PTL

\* Whatever stale objects are saved, a row's status was audited.
THEOREM StatusAudited == Spec => []StatusIsAudited
  <1>1. AuditInv => StatusIsAudited
    BY DEF AuditInv, TicketAudited, Reported, StatusIsAudited
  <1> QED BY <1>1, InvariantsHold, PTL

\* A deleted ticket's last deletion row is a DELETE.
THEOREM DeletionAudited == Spec => []DeletedIsAudited
  <1>1. AuditInv => DeletedIsAudited
    BY DEF AuditInv, TicketAudited, DeletedIsAudited
  <1> QED BY <1>1, InvariantsHold, PTL

\* Versions never run ahead of the audit.
THEOREM VersionBacked == Spec => []VersionIsBacked
  <1>1. AuditInv => VersionIsBacked
    BY DEF AuditInv, TicketAudited, VersionIsBacked
  <1> QED BY <1>1, InvariantsHold, PTL

==============================================================================
