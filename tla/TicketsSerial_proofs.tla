------------------------- MODULE TicketsSerial_proofs -------------------------
(***************************************************************************)
(* Proofs about TicketLifecycle when one request is served at a time: it   *)
(* implements TicketContract, and so keeps what the slices of the          *)
(* documentation promise, which overlapping requests break.                *)
(***************************************************************************)
EXTENDS TicketLifecycle_proofs

----------------------------------------------------------------------------
(* The inductive invariant: what the request has read is what the tables   *)
(* say, and what it has checked still holds.                               *)

Updating == {"checked", "unblocked", "updateReloaded"}

Escalating == {"escalating", "escalationReloaded"}

Linking == {"linking", "findDependency", "unlinking"}

ReadIsCurrent(r) ==
  /\ pc[r] \in Updating => entity[r][call[r].id] = tickets[call[r].id]
  /\ pc[r] \in {"unblocked", "updateReloaded"} =>
       (call[r].dto.status = "DONE" => UnresolvedBlockers(call[r].id) = {})
  /\ pc[r] = "updateReloaded" => reloaded[r][call[r].id] = tickets[call[r].id]
  /\ pc[r] \in Escalating => \A id \in Held(entity[r]) : entity[r][id] = tickets[id]
  /\ pc[r] = "escalationReloaded" => \A id \in Held(reloaded[r]) : reloaded[r][id] = tickets[id]
  /\ pc[r] = "removing" => ~tickets[call[r].id].deleted
  /\ pc[r] = "restoring" => tickets[call[r].id].deleted
  /\ pc[r] \in Linking \cup {"findBlocker"} => ~tickets[call[r].id].deleted
  /\ pc[r] \in Linking => ~tickets[call[r].blockerId].deleted
  /\ pc[r] = "unlinking" => Link(r) \in dependencies

Alone(r) == \A q \in Requests \ {r} : ~InFlight(q)

SerialInv ==
  /\ ControlInv
  /\ \A r, q \in Requests : InFlight(r) /\ InFlight(q) => r = q
  /\ \A r \in Requests : ReadIsCurrent(r)

----------------------------------------------------------------------------
(* Its preservation                                                        *)

\* A request that is not being served has read nothing that could be stale.
LEMMA AtRestIsCurrent ==
  ASSUME NEW r \in Requests, ~InFlight(r)
  PROVE  ReadIsCurrent(r)
  BY DEF ReadIsCurrent, InFlight, Answers, Updating, Escalating, Linking

\* What a step of the one request being served has to show.
LEMMA OnlyRequest ==
  ASSUME SerialInv, NEW r \in Requests, Alone(r), Frame(r), ControlInv', ReadIsCurrent(r)'
  PROVE  SerialInv'
  <1>1. ASSUME NEW q \in Requests \ {r}
        PROVE  ~InFlight(q)'
    BY DEF Alone, Frame, InFlight
  <1>2. ASSUME NEW q \in Requests
        PROVE  ReadIsCurrent(q)'
    <2>1. CASE q = r
      BY <2>1
    <2>2. CASE q # r
      <3>1. ~InFlight(q)'
        BY <1>1, <2>2
      <3> QED BY <3>1 DEF ReadIsCurrent, InFlight, Answers, Updating, Escalating, Linking
    <2> QED BY <2>1, <2>2
  <1> QED BY <1>1, <1>2 DEF SerialInv

\* An answered request relies on nothing.
LEMMA AnswerIsSerial ==
  ASSUME SerialInv, NEW r \in Requests, Alone(r), ControlInv',
         NEW outcome \in Answers, Answer(r, outcome)
  PROVE  SerialInv'
  <1>1. Frame(r) /\ pc'[r] \in Answers
    BY AnswerStep DEF SerialInv, ControlInv, TypeOK, Answer, Goto, MemoryTypeOK
  <1>2. ReadIsCurrent(r)'
    BY <1>1 DEF ReadIsCurrent, Answers, Updating, Escalating, Linking
  <1> QED BY <1>1, <1>2, OnlyRequest

\* A rejection is an answer.
LEMMA RejectIsSerial ==
  ASSUME SerialInv, NEW r \in Requests, Alone(r), Reject(r)
  PROVE  SerialInv'
  <1>1. ControlInv'
    BY RejectKeepsControl DEF SerialInv
  <1> QED BY <1>1, AnswerIsSerial DEF Reject, Answers

\* A request begins with what the tables say.
LEMMA ArriveIsSerial ==
  ASSUME SerialInv, NEW r \in Requests, Alone(r), Arrive(r), ControlInv'
  PROVE  SerialInv'
  <1>1. ControlInv /\ MemoryTypeOK /\ DatabaseTypeOK
    BY DEF SerialInv, ControlInv, TypeOK
  <1>2. ASSUME NEW c \in Calls, NEW location \in Locations, NEW objects \in Objects,
               Begin(r, c, location, objects), UNCHANGED database,
               \/ /\ location = "checked"
                  /\ objects[c.id] = tickets[c.id]
               \/ /\ location = "escalating"
                  /\ \A id \in Held(objects) : objects[id] = tickets[id]
               \/ location = "removing" /\ ~tickets[c.id].deleted
               \/ location = "restoring" /\ tickets[c.id].deleted
               \/ location = "findBlocker" /\ ~tickets[c.id].deleted
        PROVE  SerialInv'
    <2>1. Frame(r) /\ pc'[r] = location /\ call'[r] = c /\ entity'[r] = objects
      BY <1>1, <1>2, BeginStep
    <2>2. ReadIsCurrent(r)'
      BY <1>2, <2>1 DEF ReadIsCurrent, database, Updating, Escalating, Linking, Held
    <2> QED BY <2>1, <2>2, OnlyRequest
  <1>3. CASE Reject(r)
    BY <1>3, RejectIsSerial
  <1>4. CASE BeginUpdate(r) /\ ~Reject(r)
    <2>1. PICK c \in Calls :
            /\ c.op = "update"
            /\ Begin(r, c, "checked", [Nothing EXCEPT ![c.id] = tickets[c.id]])
            /\ UNCHANGED database
      BY <1>4 DEF BeginUpdate
    <2> DEFINE objects == [Nothing EXCEPT ![c.id] = tickets[c.id]]
    <2>2. c.id \in Tickets /\ tickets[c.id] \in Ticket
      BY <1>1, <2>1, CallTypes DEF DatabaseTypeOK
    <2>3. objects \in Objects /\ objects[c.id] = tickets[c.id]
      BY <2>2, ObjectsType DEF Nothing
    <2> QED BY <1>2, <2>1, <2>3 DEF Locations
  <1>5. CASE BeginEscalation(r)
    <2>1. PICK c \in Calls :
            Begin(r, c, "escalating",
                  [id \in Tickets |->
                     IF EscalationCandidate(tickets[id], c.asOf) THEN tickets[id] ELSE NULL])
      BY <1>5 DEF BeginEscalation
    <2> DEFINE objects == [id \in Tickets |->
                     IF EscalationCandidate(tickets[id], c.asOf) THEN tickets[id] ELSE NULL]
    <2>2. objects \in Objects /\ \A id \in Held(objects) : objects[id] = tickets[id]
      BY <1>1 DEF DatabaseTypeOK, Objects, Held
    <2> QED BY <1>2, <1>5, <2>1, <2>2 DEF BeginEscalation, Locations
  <1>6. CASE BeginRemove(r) /\ ~Reject(r)
    BY <1>2, <1>6, ObjectsType DEF BeginRemove, Locations
  <1>7. CASE BeginRestore(r) /\ ~Reject(r)
    BY <1>2, <1>7, ObjectsType DEF BeginRestore, Locations
  <1>8. CASE BeginDependency(r) /\ ~Reject(r)
    <2>1. PICK c \in Calls :
            /\ ~tickets[c.id].deleted
            /\ Begin(r, c, "findBlocker", Nothing)
            /\ UNCHANGED database
      BY <1>8 DEF BeginDependency
    <2> QED BY <1>2, <2>1, ObjectsType DEF Locations
  <1> QED BY <1>3, <1>4, <1>5, <1>6, <1>7, <1>8 DEF Arrive

\* A check that is passed holds where the request goes on.
LEMMA CheckIsSerial ==
  ASSUME SerialInv, NEW r \in Requests, Alone(r), ControlInv',
         CountBlockers(r) \/ FindBlocker(r) \/ FindDependency(r)
  PROVE  SerialInv'
  <1>1. MemoryTypeOK /\ ReadIsCurrent(r)
    BY DEF SerialInv, ControlInv, TypeOK
  <1>2. ASSUME NEW location \in Locations, Goto(r, location), UNCHANGED <<database, memory>>
        PROVE  /\ Frame(r) /\ UNCHANGED database /\ pc'[r] = location
               /\ call'[r] = call[r] /\ entity'[r] = entity[r] /\ reloaded'[r] = reloaded[r]
    BY <1>1, <1>2, GotoStep
  <1>3. CASE Reject(r)
    BY <1>3, RejectIsSerial
  <1>4. CASE CountBlockers(r) /\ ~Reject(r)
    <2>1. /\ pc[r] = "checked" /\ (call[r].dto.status = "DONE" => UnresolvedBlockers(call[r].id) = {})
          /\ Goto(r, "unblocked") /\ UNCHANGED <<database, memory>>
      BY <1>4 DEF CountBlockers, At
    <2>2. /\ Frame(r) /\ UNCHANGED database /\ pc'[r] = "unblocked"
          /\ call'[r] = call[r] /\ entity'[r] = entity[r]
      BY <1>2, <2>1 DEF Locations
    <2>3. ReadIsCurrent(r)'
      BY <1>1, <2>1, <2>2
         DEF ReadIsCurrent, UnresolvedBlockers, database, Updating, Escalating, Linking
    <2> QED BY <2>2, <2>3, OnlyRequest
  <1>5. CASE FindBlocker(r) /\ ~Reject(r)
    <2>1. PICK location \in {"linking", "findDependency"} :
            /\ pc[r] = "findBlocker" /\ ~tickets[call[r].blockerId].deleted
            /\ Goto(r, location) /\ UNCHANGED <<database, memory>>
      BY <1>5 DEF FindBlocker
    <2>2. /\ Frame(r) /\ UNCHANGED database /\ pc'[r] = location /\ call'[r] = call[r]
      BY <1>2, <2>1 DEF Locations
    <2>3. ReadIsCurrent(r)'
      BY <1>1, <2>1, <2>2 DEF ReadIsCurrent, database, Updating, Escalating, Linking
    <2> QED BY <2>2, <2>3, OnlyRequest
  <1>6. CASE FindDependency(r) /\ ~Reject(r)
    <2>1. /\ pc[r] = "findDependency" /\ Link(r) \in dependencies
          /\ Goto(r, "unlinking") /\ UNCHANGED <<database, memory>>
      BY <1>6 DEF FindDependency, At
    <2>2. /\ Frame(r) /\ UNCHANGED database /\ pc'[r] = "unlinking" /\ call'[r] = call[r]
      BY <1>2, <2>1 DEF Locations
    <2>3. ReadIsCurrent(r)'
      BY <1>1, <2>1, <2>2 DEF ReadIsCurrent, Link, database, Updating, Escalating, Linking
    <2> QED BY <2>2, <2>3, OnlyRequest
  <1> QED BY <1>3, <1>4, <1>5, <1>6

\* The row save() reads again is the row the object was read from.
LEMMA ReloadIsSerial ==
  ASSUME SerialInv, NEW r \in Requests, Alone(r), ControlInv',
         ReloadForUpdate(r) \/ ReloadForEscalation(r)
  PROVE  SerialInv'
  <1>1. DatabaseTypeOK /\ MemoryTypeOK /\ ReadIsCurrent(r) /\ RequestOK(r)
    BY DEF SerialInv, ControlInv, TypeOK
  <1>2. reloaded[r] = Nothing
    BY <1>1 DEF RequestOK, ReloadForUpdate, ReloadForEscalation, At
  <1>3. ASSUME NEW id \in Tickets, NEW location \in Locations, Reload(r, id, location)
        PROVE  /\ Frame(r) /\ UNCHANGED database
               /\ pc'[r] = location /\ call'[r] = call[r] /\ entity'[r] = entity[r]
               /\ reloaded'[r] = [Nothing EXCEPT ![id] = tickets[id]]
    BY <1>1, <1>2, <1>3, ReloadStep
  <1>4. CASE ReloadForUpdate(r)
    <2>1. pc[r] = "unblocked" /\ call[r] \in Calls /\ call[r].op = "update"
      BY <1>1, <1>4 DEF ReloadForUpdate, At, RequestOK
    <2>2. call[r].id \in Tickets
      BY <2>1, CallTypes
    <2>3. /\ Frame(r) /\ UNCHANGED database
          /\ pc'[r] = "updateReloaded" /\ call'[r] = call[r] /\ entity'[r] = entity[r]
          /\ reloaded'[r] = [Nothing EXCEPT ![call[r].id] = tickets[call[r].id]]
      BY <1>3, <1>4, <2>2 DEF ReloadForUpdate, Locations
    <2>4. reloaded'[r][call[r].id] = tickets[call[r].id]
      BY <2>2, <2>3 DEF Nothing
    <2>5. ReadIsCurrent(r)'
      BY <1>1, <2>1, <2>3, <2>4
         DEF ReadIsCurrent, UnresolvedBlockers, database, Updating, Escalating, Linking
    <2> QED BY <2>3, <2>5, OnlyRequest
  <1>5. CASE ReloadForEscalation(r)
    <2>1. PICK id \in Held(entity[r]) : Reload(r, id, "escalationReloaded")
      BY <1>5 DEF ReloadForEscalation
    <2>2. id \in Tickets /\ pc[r] = "escalating"
      BY <1>5 DEF Held, ReloadForEscalation, At
    <2>3. /\ Frame(r) /\ UNCHANGED database
          /\ pc'[r] = "escalationReloaded" /\ call'[r] = call[r] /\ entity'[r] = entity[r]
          /\ reloaded'[r] = [Nothing EXCEPT ![id] = tickets[id]]
      BY <1>3, <2>1, <2>2 DEF Locations
    <2>4. \A i \in Held(reloaded'[r]) : reloaded'[r][i] = tickets[i]
      BY <2>2, <2>3 DEF Held, Nothing
    <2>5. ReadIsCurrent(r)'
      BY <1>1, <2>2, <2>3, <2>4
         DEF ReadIsCurrent, database, Updating, Escalating, Linking, Held
    <2> QED BY <2>3, <2>5, OnlyRequest
  <1> QED BY <1>4, <1>5

\* A candidate that is left behind says nothing of those still held.
LEMMA CandidateIsSerial ==
  ASSUME SerialInv, NEW r \in Requests, Alone(r), ControlInv',
         SkipCandidate(r) \/ CommitEscalation(r)
  PROVE  SerialInv'
  <1>1. DatabaseTypeOK /\ MemoryTypeOK /\ ReadIsCurrent(r) /\ RequestOK(r)
    BY DEF SerialInv, ControlInv, TypeOK
  <1>2. PICK id \in Tickets :
          /\ entity' = [entity EXCEPT ![r] = [@ EXCEPT ![id] = NULL]]
          /\ \A i \in Tickets \ {id} : tickets'[i] = tickets[i]
          /\ pc[r] \in Escalating /\ pc' = [pc EXCEPT ![r] = "escalating"] /\ UNCHANGED call
          /\ reloaded' = reloaded \/ reloaded' = [reloaded EXCEPT ![r] = Nothing]
    <2>1. CASE SkipCandidate(r)
      BY <1>1, <2>1 DEF SkipCandidate, At, Held, database, Escalating, MemoryTypeOK
    <2>2. CASE CommitEscalation(r)
      <3>1. PICK id \in Held(reloaded[r]) :
              LET before == entity[r][id]
              IN  /\ CommitTicket(id, Saved(tickets[id], Escalated(before), reloaded[r][id], Now(id)),
                                  EscalateLog(before))
                  /\ entity' = [entity EXCEPT ![r] = [@ EXCEPT ![id] = NULL]]
        BY <2>2 DEF CommitEscalation
      <3>2. \A i \in Tickets \ {id} : tickets'[i] = tickets[i]
        BY <1>1, <3>1 DEF CommitTicket, DatabaseTypeOK
      <3> QED BY <2>2, <3>1, <3>2 DEF CommitEscalation, At, Goto, Held, Escalating
    <2> QED BY <2>1, <2>2
  <1>3. Frame(r) /\ pc'[r] = "escalating" /\ entity'[r] = [entity[r] EXCEPT ![id] = NULL]
    BY <1>1, <1>2 DEF Frame, MemoryTypeOK
  <1>4. \A i \in Held(entity'[r]) : i # id /\ i \in Held(entity[r]) /\ entity'[r][i] = entity[r][i]
    <2>1. entity[r] \in Objects
      BY <1>1 DEF MemoryTypeOK
    <2> QED BY <1>3, <2>1 DEF Held, Objects
  <1>5. \A i \in Held(entity'[r]) : entity'[r][i] = tickets'[i]
    BY <1>1, <1>2, <1>4 DEF ReadIsCurrent, Held
  <1>6. ReadIsCurrent(r)'
    BY <1>3, <1>5 DEF ReadIsCurrent, Updating, Escalating, Linking, Held
  <1> QED BY <1>3, <1>6, OnlyRequest

\* The other steps end the request.
LEMMA AnsweringIsSerial ==
  ASSUME SerialInv, NEW r \in Requests, Alone(r), ControlInv',
         \/ CommitUpdate(r) \/ FinishEscalation(r) \/ CommitRemove(r) \/ CommitRestore(r)
         \/ AddDependency(r) \/ RemoveDependency(r)
  PROVE  SerialInv'
  BY AnswerIsSerial, RejectIsSerial
     DEF CommitUpdate, FinishEscalation, CommitRemove, CommitRestore, AddDependency,
         RemoveDependency, Answers

\* Serving one at a time is one of the interleavings.
LEMMA SerialIsNext == [SerialNext]_vars => [Next]_vars
  BY DEF SerialNext, Next

\* Every step keeps what the served request has read current.
LEMMA SerialStep == SerialInv /\ [SerialNext]_vars => SerialInv'
  <1> SUFFICES ASSUME SerialInv, [SerialNext]_vars PROVE SerialInv'
    OBVIOUS
  <1>1. ControlInv'
    BY SerialIsNext, NextControl DEF SerialInv
  <1>2. CASE UNCHANGED vars
    BY <1>1, <1>2 DEF SerialInv, vars, InFlight, ReadIsCurrent, UnresolvedBlockers, Link
  <1>3. ASSUME NEW r \in Requests, Alone(r), Arrive(r) \/ Proceed(r) \/ Fail(r)
        PROVE  SerialInv'
    BY <1>1, <1>3, ArriveIsSerial, CheckIsSerial, ReloadIsSerial, CandidateIsSerial,
       AnsweringIsSerial, RejectIsSerial DEF Proceed, Fail
  <1> QED BY <1>2, <1>3 DEF SerialNext, Alone, Quiescent

\* At the start no request is being served.
LEMMA SerialInit == Init => SerialInv
  <1> SUFFICES ASSUME Init PROVE SerialInv
    OBVIOUS
  <1>1. \A r \in Requests : ~InFlight(r)
    BY DEF Init, InFlight
  <1> QED BY <1>1, InitControl, AtRestIsCurrent DEF SerialInv

----------------------------------------------------------------------------
(* The refinement                                                          *)

\* The contract has the rules of the service.
LEMMA ContractRules ==
  ASSUME NEW ticket, NEW dto, NEW asOf, NEW action
  PROVE  /\ Contract!UpdateAllowed(ticket, dto) <=> UpdateAllowed(ticket, dto)
         /\ Contract!Patched(ticket, dto) = Patched(ticket, dto)
         /\ Contract!UpdateLog(ticket, dto) = UpdateLog(ticket, dto)
         /\ Contract!MustEscalate(ticket, asOf) <=> MustEscalate(ticket, asOf)
         /\ Contract!Escalated(ticket) = Escalated(ticket)
         /\ Contract!EscalateLog(ticket) = EscalateLog(ticket)
         /\ Contract!BlankLog(action) = BlankLog(action)
         /\ Contract!CreateLog(ticket) = CreateLog(ticket)
  <1>1. Contract!UpdateAllowed(ticket, dto) <=> UpdateAllowed(ticket, dto)
    BY DEF Contract!UpdateAllowed, UpdateAllowed, Contract!AssigneeFound, AssigneeFound,
           Contract!OneStepForward, OneStepForward, Contract!STATUS_ORDER, STATUS_ORDER
  <1>2. Contract!Patched(ticket, dto) = Patched(ticket, dto)
    BY DEF Contract!Patched, Patched, Contract!Given, Given
  <1>3. Contract!BlankLog(action) = BlankLog(action)
    BY DEF Contract!BlankLog, BlankLog
  <1>4. Contract!UpdateLog(ticket, dto) = UpdateLog(ticket, dto)
    BY DEF Contract!UpdateLog, UpdateLog, Contract!BlankLog, BlankLog, Contract!Given, Given
  <1>5. Contract!MustEscalate(ticket, asOf) <=> MustEscalate(ticket, asOf)
    BY DEF Contract!MustEscalate, MustEscalate, Contract!EscalationCandidate, EscalationCandidate
  <1>6. Contract!Escalated(ticket) = Escalated(ticket)
    BY DEF Contract!Escalated, Escalated, Contract!NEXT_PRIORITY, NEXT_PRIORITY
  <1>7. Contract!EscalateLog(ticket) = EscalateLog(ticket)
    BY <1>6 DEF Contract!EscalateLog, EscalateLog, Contract!BlankLog, BlankLog
  <1>8. Contract!CreateLog(ticket) = CreateLog(ticket)
    BY DEF Contract!CreateLog, CreateLog, Contract!BlankLog, BlankLog
  <1> QED BY <1>1, <1>2, <1>3, <1>4, <1>5, <1>6, <1>7, <1>8

\* Over the row the object was read from, the ORM writes the object, as a new
\* version, if it is not that row.
LEMMA SavedIsRevised ==
  ASSUME NEW row \in Ticket, NEW object \in Ticket, NEW now \in Nat, object # row,
         object.version = row.version, object.updatedAt = row.updatedAt
  PROVE  Saved(row, object, row, now) = Contract!Revised(object, now)
  <1> DEFINE saved == Saved(row, object, row, now)
             new   == [object EXCEPT !.version = @ + 1, !.updatedAt = now]
  <1>1. saved = [title |-> object.title, status |-> object.status, priority |-> object.priority,
                 assigneeId |-> object.assigneeId, dueDate |-> object.dueDate,
                 isOverdue |-> object.isOverdue, deleted |-> object.deleted,
                 version |-> row.version + 1, updatedAt |-> now]
    BY DEF Saved
  <1>2. saved \in Ticket
    BY SavedType
  <1>3. /\ new \in Ticket
        /\ new.title = object.title /\ new.status = object.status
        /\ new.priority = object.priority /\ new.assigneeId = object.assigneeId
        /\ new.dueDate = object.dueDate /\ new.isOverdue = object.isOverdue
        /\ new.deleted = object.deleted /\ new.version = object.version + 1
        /\ new.updatedAt = now
    <2> DEFINE next == [object EXCEPT !.version = @ + 1]
    <2>1. object.version + 1 \in Nat
      BY DEF Ticket
    <2>2. /\ next \in Ticket
          /\ next.title = object.title /\ next.status = object.status
          /\ next.priority = object.priority /\ next.assigneeId = object.assigneeId
          /\ next.dueDate = object.dueDate /\ next.isOverdue = object.isOverdue
          /\ next.deleted = object.deleted /\ next.version = object.version + 1
      BY <2>1 DEF Ticket
    <2>3. new = [next EXCEPT !.updatedAt = now]
      BY Zenon
    <2> HIDE DEF next, new
    <2> QED BY <2>2, <2>3 DEF Ticket
  <1>4. \A a, b \in Ticket :
          /\ a.title = b.title /\ a.status = b.status /\ a.priority = b.priority
          /\ a.assigneeId = b.assigneeId /\ a.dueDate = b.dueDate
          /\ a.isOverdue = b.isOverdue /\ a.deleted = b.deleted
          /\ a.version = b.version /\ a.updatedAt = b.updatedAt
          => a = b
    BY DEF Ticket
  <1>5. Contract!Revised(object, now) = new
    BY DEF Contract!Revised
  <1> HIDE DEF new
  <1>6. /\ saved.title = object.title /\ saved.status = object.status
        /\ saved.priority = object.priority /\ saved.assigneeId = object.assigneeId
        /\ saved.dueDate = object.dueDate /\ saved.isOverdue = object.isOverdue
        /\ saved.deleted = object.deleted /\ saved.version = row.version + 1
        /\ saved.updatedAt = now
    BY <1>1
  <1> HIDE DEF saved
  <1>7. saved = new
    BY <1>2, <1>3, <1>4, <1>6
  <1> QED BY <1>5, <1>7 DEF saved

\* softDelete and restore revise the one column.
LEMMA DeletionIsRevised ==
  ASSUME NEW row, NEW deleted, NEW now
  PROVE  DeletionSet(row, deleted, now) = Contract!Revised([row EXCEPT !.deleted = deleted], now)
  BY Zenon DEF DeletionSet, Contract!Revised

\* A committed ticket is one set by the contract.
LEMMA CommitIsSet ==
  ASSUME NEW id, NEW row, NEW log, CommitTicket(id, row, log)
  PROVE  Contract!Set(id, row, log)
  BY DEF CommitTicket, Contract!Set

\* The count of the blockers is the contract's.
LEMMA BlockedMeansOpenBlockers ==
  ASSUME NEW id
  PROVE  Contract!Blocked(id) <=> UnresolvedBlockers(id) # {}
  BY DEF Contract!Blocked, UnresolvedBlockers

\* An update takes effect as a whole, and as the contract's if it changes the
\* ticket.
LEMMA CommitUpdateIsContract ==
  ASSUME SerialInv, NEW r \in Requests, CommitUpdate(r)
  PROVE  Contract!ServiceNext
  <1> DEFINE id     == call[r].id
             dto    == call[r].dto
             row    == tickets[id]
             object == Patched(row, dto)
  <1>1. /\ pc[r] = "updateReloaded" /\ ControlInv /\ ReadIsCurrent(r)
        /\ At(r, "updateReloaded", "update") /\ call[r].op = "update"
    BY DEF CommitUpdate, At, SerialInv
  <1>2. entity[r][id] = row /\ reloaded[r][id] = row
        /\ (dto.status = "DONE" => UnresolvedBlockers(id) = {})
    BY <1>1 DEF ReadIsCurrent, Updating
  <1>3. /\ id \in Tickets /\ row \in Ticket /\ object \in Ticket
        /\ UpdateAllowed(row, dto) /\ call[r] \in Calls
    BY <1>1, <1>2, CommitUpdateParts DEF ControlInv, RequestOK
  <1>4. CommitTicket(id, Saved(row, object, row, Now(id)), UpdateLog(row, dto))
    BY <1>2 DEF CommitUpdate
  <1>5. object.version = row.version /\ object.updatedAt = row.updatedAt
    BY <1>3 DEF Patched, Ticket
  <1>6. Now(id) \in Nat
    BY <1>1, <1>3 DEF Now, ControlInv, TypeOK, DatabaseTypeOK
  <1>7. CASE object # row
    <2>1. Saved(row, object, row, Now(id)) = Contract!Revised(object, Now(id))
      <3> HIDE DEF object, row
      <3> QED BY <1>3, <1>5, <1>6, <1>7, SavedIsRevised
    <2>2. Contract!Set(id, Contract!Revised(object, Now(id)), UpdateLog(row, dto))
      BY <1>4, <2>1, CommitIsSet
    <2>3. Contract!Update(id, dto)
      BY <1>2, <1>3, <2>2, ContractRules, BlockedMeansOpenBlockers DEF Contract!Update, Now
    <2> QED BY <1>1, <1>3, <2>3 DEF Contract!ServiceNext, Contract!ContractNext
  <1>8. CASE object = row
    <2>1. Saved(row, object, row, Now(id)) = row
      BY <1>8 DEF Saved
    <2>2. Contract!Set(id, row, UpdateLog(row, dto))
      BY <1>4, <2>1, CommitIsSet
    <2>3. Contract!UnversionedUpdate(id, dto)
      BY <1>3, <1>8, <2>2, ContractRules DEF Contract!UnversionedUpdate
    <2> QED BY <1>1, <1>3, <2>3 DEF Contract!ServiceNext
  <1> QED BY <1>7, <1>8

\* So does the escalation of one ticket.
LEMMA CommitEscalationIsContract ==
  ASSUME SerialInv, NEW r \in Requests, CommitEscalation(r)
  PROVE  Contract!ServiceNext
  <1>1. /\ pc[r] = "escalationReloaded" /\ ControlInv /\ ReadIsCurrent(r) /\ RequestOK(r)
        /\ call[r].op = "escalate"
    BY DEF CommitEscalation, At, SerialInv, ControlInv
  <1>2. PICK id \in Held(reloaded[r]) :
          CommitTicket(id, Saved(tickets[id], Escalated(entity[r][id]), reloaded[r][id], Now(id)),
                       EscalateLog(entity[r][id]))
    BY DEF CommitEscalation
  <1> DEFINE row    == tickets[id]
             object == Escalated(row)
  <1>3. id \in Held(entity[r]) /\ MustEscalate(entity[r][id], call[r].asOf) /\ call[r] \in Calls
    BY <1>1, <1>2 DEF RequestOK
  <1>4. entity[r][id] = row /\ reloaded[r][id] = row /\ id \in Tickets
    BY <1>1, <1>2, <1>3 DEF ReadIsCurrent, Escalating, Held
  <1>5. row \in Ticket /\ object \in Ticket
    BY <1>1, <1>4, EscalatedType DEF ControlInv, TypeOK, DatabaseTypeOK
  <1>6. /\ object.version = row.version /\ object.updatedAt = row.updatedAt
        /\ object # row
    <2>1. CASE row.priority = "CRITICAL"
      <3>1. row.isOverdue # TRUE
        BY <1>3, <1>4, <2>1 DEF MustEscalate
      <3> QED BY <1>5, <2>1, <3>1 DEF Escalated, Ticket
    <2>2. CASE row.priority # "CRITICAL"
      <3>1. row.priority \in {"LOW", "MEDIUM", "HIGH"}
        BY <1>5, <2>2 DEF Ticket, TicketPriority
      <3>2. object.priority = NEXT_PRIORITY[row.priority] /\ NEXT_PRIORITY[row.priority] # row.priority
        BY <1>5, <2>2, <3>1 DEF Escalated, Ticket, NEXT_PRIORITY
      <3> QED BY <1>5, <2>2, <3>2 DEF Escalated, Ticket
    <2> QED BY <2>1, <2>2
  <1>7. Now(id) \in Nat
    BY <1>1, <1>4 DEF Now, ControlInv, TypeOK, DatabaseTypeOK
  <1>8. Saved(row, object, row, Now(id)) = Contract!Revised(object, Now(id))
    <2> HIDE DEF object, row
    <2> QED BY <1>5, <1>6, <1>7, SavedIsRevised
  <1>9. Contract!Set(id, Contract!Revised(object, Now(id)), EscalateLog(row))
    BY <1>2, <1>4, <1>8, CommitIsSet
  <1>10. Contract!Escalate(id, call[r].asOf)
    BY <1>3, <1>4, <1>9, ContractRules DEF Contract!Escalate, Now
  <1> QED BY <1>1, <1>3, <1>4, <1>10 DEF Contract!ServiceNext, Contract!ContractNext

\* So do a deletion and a restore.
LEMMA CommitDeletionIsContract ==
  ASSUME SerialInv, NEW r \in Requests, CommitRemove(r) \/ CommitRestore(r)
  PROVE  Contract!ServiceNext
  <1> DEFINE id  == call[r].id
             row == tickets[id]
  <1>1. ControlInv /\ ReadIsCurrent(r) /\ RequestOK(r)
    BY DEF SerialInv, ControlInv
  <1>2. call[r] \in Calls /\ call[r].op \in {"remove", "restore"}
    BY <1>1 DEF CommitRemove, CommitRestore, At, RequestOK
  <1>3. id \in Tickets /\ row \in Ticket /\ Now(id) \in Nat
    BY <1>1, <1>2, CallTypes DEF Now, ControlInv, TypeOK, DatabaseTypeOK
  <1>4. CASE CommitRemove(r)
    <2>1. ~row.deleted /\ call[r].op = "remove"
          /\ CommitTicket(id, DeletionSet(row, TRUE, Now(id)), BlankLog("DELETE"))
      BY <1>1, <1>4 DEF CommitRemove, At, ReadIsCurrent
    <2>2. DeletionSet(row, TRUE, Now(id)) =
            Contract!Revised([row EXCEPT !.deleted = TRUE], Now(id))
      BY <1>3, <2>1, DeletionIsRevised
    <2>3. Contract!Remove(id)
      BY <2>1, <2>2, CommitIsSet, ContractRules DEF Contract!Remove, Now
    <2> QED BY <1>2, <2>1, <2>3 DEF Contract!ServiceNext, Contract!ContractNext
  <1>5. CASE CommitRestore(r)
    <2>1. row.deleted /\ call[r].op = "restore"
          /\ CommitTicket(id, DeletionSet(row, FALSE, Now(id)), BlankLog("RESTORE"))
      BY <1>1, <1>5 DEF CommitRestore, At, ReadIsCurrent
    <2>2. DeletionSet(row, FALSE, Now(id)) =
            Contract!Revised([row EXCEPT !.deleted = FALSE], Now(id))
      BY <1>3, <2>1, DeletionIsRevised
    <2>3. Contract!Restore(id)
      BY <2>1, <2>2, CommitIsSet, ContractRules DEF Contract!Restore, Now
    <2> QED BY <1>2, <2>1, <2>3 DEF Contract!ServiceNext, Contract!ContractNext
  <1> QED BY <1>4, <1>5

\* So do the two operations on links.
LEMMA CommitLinkIsContract ==
  ASSUME SerialInv, NEW r \in Requests, AddDependency(r) \/ RemoveDependency(r), ~Reject(r)
  PROVE  Contract!ServiceNext
  <1> DEFINE id      == call[r].id
             blocker == call[r].blockerId
  <1>1. ControlInv /\ ReadIsCurrent(r) /\ RequestOK(r)
    BY DEF SerialInv, ControlInv
  <1>2. pc[r] \in Linking /\ call[r] \in Calls /\ ~tickets[id].deleted /\ ~tickets[blocker].deleted
    BY <1>1 DEF AddDependency, RemoveDependency, At, RequestOK, ReadIsCurrent, Linking
  <1>3. CASE AddDependency(r)
    <2>1. /\ <<id, blocker>> \notin dependencies /\ call[r].op = "addDependency"
          /\ CommitLinks(dependencies \cup {<<id, blocker>>}, <<id, blocker>>, "CREATE")
          /\ id # blocker /\ ProjectOf[id] = ProjectOf[blocker]
      BY <1>1, <1>3 DEF AddDependency, At, Link, RequestOK, SameProject
    <2>2. Contract!Block(id, blocker)
      BY <1>2, <2>1 DEF Contract!Block, Contract!Relink, CommitLinks
    <2> QED BY <1>2, <2>1, <2>2 DEF Contract!ServiceNext, Contract!ContractNext
  <1>4. CASE RemoveDependency(r)
    <2>1. /\ <<id, blocker>> \in dependencies /\ call[r].op = "removeDependency"
          /\ CommitLinks(dependencies \ {<<id, blocker>>}, <<id, blocker>>, "DELETE")
      BY <1>1, <1>4 DEF RemoveDependency, At, Link, ReadIsCurrent
    <2>2. Contract!Unblock(id, blocker)
      BY <1>2, <2>1 DEF Contract!Unblock, Contract!Relink, CommitLinks
    <2> QED BY <1>2, <2>1, <2>2 DEF Contract!ServiceNext, Contract!ContractNext
  <1> QED BY <1>3, <1>4

\* Every step of the service is one step of the contract, the update that changes
\* nothing, or leaves the tables.
LEMMA StepIsContract ==
  SerialInv /\ [SerialNext]_vars => Contract!ServiceNext \/ UNCHANGED database
  <1> SUFFICES ASSUME SerialInv, [SerialNext]_vars
               PROVE  Contract!ServiceNext \/ UNCHANGED database
    OBVIOUS
  <1>1. CASE UNCHANGED vars
    BY <1>1 DEF vars, database
  <1>2. ASSUME NEW r \in Requests, Arrive(r)
        PROVE  UNCHANGED database
    BY <1>2 DEF Arrive, BeginUpdate, BeginEscalation, BeginRemove, BeginRestore, BeginDependency,
                Reject
  <1>3. ASSUME NEW r \in Requests, Fail(r)
        PROVE  UNCHANGED database
    BY <1>3 DEF Fail, Reject
  <1>4. ASSUME NEW r \in Requests,
               \/ CountBlockers(r) \/ ReloadForUpdate(r) \/ SkipCandidate(r)
               \/ ReloadForEscalation(r) \/ FinishEscalation(r)
               \/ FindBlocker(r) \/ FindDependency(r) \/ Reject(r)
        PROVE  UNCHANGED database
    BY <1>4 DEF CountBlockers, ReloadForUpdate, SkipCandidate, ReloadForEscalation,
                FinishEscalation, FindBlocker, FindDependency, Reject, Reload
  <1>5. ASSUME NEW r \in Requests, Proceed(r)
        PROVE  Contract!ServiceNext \/ UNCHANGED database
    BY <1>4, <1>5, CommitUpdateIsContract, CommitEscalationIsContract, CommitDeletionIsContract,
       CommitLinkIsContract DEF Proceed
  <1> QED BY <1>1, <1>2, <1>3, <1>5 DEF SerialNext, Quiescent

\* The tables begin as the contract's.
LEMMA InitIsContract == Init => Contract!ContractInit
  <1>1. \A ticket : Contract!CreateLog(ticket) = CreateLog(ticket)
    BY ContractRules
  <1> QED BY <1>1 DEF Init, Contract!ContractInit

\* Served one at a time, the requests have the invariant.
THEOREM SerialInvariantHolds == SerialSpec => []SerialInv
  BY SerialInit, SerialStep, PTL DEF SerialSpec

\* Served one at a time, the requests implement the contract, in which every
\* success makes a version, but for the update that changes nothing: every commit
\* is one indivisible and fully checked operation on the current row, every other
\* step a stutter.
THEOREM ContractKept == SerialSpec => KeepsContract
  <1>1. SerialInv /\ [SerialNext]_vars => [Contract!ServiceNext]_Contract!contractVars
    BY StepIsContract DEF database, Contract!contractVars
  <1> QED BY <1>1, InitIsContract, SerialInvariantHolds, PTL
          DEF SerialSpec, KeepsContract, Contract!ServiceSpec

----------------------------------------------------------------------------
(* What a step of the contract does to a ticket and to a link              *)

\* The audit row says what became of the ticket's status, priority, overdue
\* mark and deletion.
Explains(old, new, log) ==
  /\ \/ log.to = NULL /\ new.status = old.status
     \/ log.to = new.status /\ OneStepForward(old.status, new.status)
  /\ \/ /\ log.priority = NULL
        /\ new.priority = old.priority /\ new.isOverdue = old.isOverdue
     \/ log.priority = new.priority /\ log.isOverdue = new.isOverdue
  /\ \/ log.action \notin {"DELETE", "RESTORE"} /\ new.deleted = old.deleted
     \/ log.action = "DELETE" /\ new.deleted
     \/ log.action = "RESTORE" /\ ~new.deleted

MarkOnCritical(ticket) == ticket.isOverdue => ticket.priority = "CRITICAL"

RowChange(id, row, log) ==
  /\ CommitTicket(id, row, log)
  /\ Explains(tickets[id], row, log)
  /\ MarkOnCritical(tickets[id]) => MarkOnCritical(row)
  /\ tickets[id].status # "DONE" /\ row.status = "DONE" => UnresolvedBlockers(id) = {}

LinkChange(link) ==
  \/ link \notin dependencies /\ CommitLinks(dependencies \cup {link}, link, "CREATE")
  \/ link \in dependencies /\ CommitLinks(dependencies \ {link}, link, "DELETE")

\* A revision has the columns of the object.
LEMMA RevisedColumns ==
  ASSUME NEW object \in Ticket, NEW now \in Nat
  PROVE  LET new == Contract!Revised(object, now)
         IN  /\ new \in Ticket
             /\ new.status = object.status /\ new.priority = object.priority
             /\ new.isOverdue = object.isOverdue /\ new.deleted = object.deleted
  <1> DEFINE next == [object EXCEPT !.version = @ + 1]
             new  == [object EXCEPT !.version = @ + 1, !.updatedAt = now]
  <1>1. object.version + 1 \in Nat
    BY DEF Ticket
  <1>2. /\ next \in Ticket /\ next.status = object.status /\ next.priority = object.priority
        /\ next.isOverdue = object.isOverdue /\ next.deleted = object.deleted
    BY <1>1 DEF Ticket
  <1>3. new = [next EXCEPT !.updatedAt = now]
    BY Zenon
  <1>4. Contract!Revised(object, now) = new
    BY DEF Contract!Revised
  <1> HIDE DEF next, new
  <1> QED BY <1>2, <1>3, <1>4 DEF Ticket

\* The audit row of an update explains it.
LEMMA UpdateExplained ==
  ASSUME NEW row \in Ticket, NEW dto \in UpdateTicketDto, NEW new \in Ticket,
         UpdateAllowed(row, dto),
         new.status = Patched(row, dto).status, new.priority = Patched(row, dto).priority,
         new.isOverdue = Patched(row, dto).isOverdue, new.deleted = Patched(row, dto).deleted
  PROVE  /\ Explains(row, new, UpdateLog(row, dto))
         /\ MarkOnCritical(row) => MarkOnCritical(new)
         /\ row.status # "DONE" /\ new.status = "DONE" => dto.status = "DONE"
  <1> DEFINE object == Patched(row, dto)
             log    == UpdateLog(row, dto)
  <1>1. object \in Ticket
    BY PatchedType DEF UpdateAllowed
  <1>2. /\ object.status = Given(dto.status, row.status)
        /\ object.priority = Given(dto.priority, row.priority)
        /\ object.isOverdue = (IF dto.priority = Undefined THEN row.isOverdue ELSE FALSE)
        /\ object.deleted = row.deleted
    BY DEF Patched, Ticket
  <1>3. /\ log.action = "UPDATE" /\ log.priority = Given(dto.priority, NULL)
        /\ log.to = (IF dto.status \notin {Undefined, row.status} THEN dto.status ELSE NULL)
        /\ log.isOverdue = FALSE
    BY DEF UpdateLog, BlankLog
  <1>4. /\ new \in Ticket
        /\ new.status = object.status /\ new.priority = object.priority
        /\ new.isOverdue = object.isOverdue /\ new.deleted = object.deleted
    OBVIOUS
  <1> HIDE DEF object, log
  <1>5. \/ log.to = NULL /\ new.status = row.status
        \/ /\ log.to = new.status /\ OneStepForward(row.status, new.status)
           /\ new.status = dto.status
    <2>1. CASE dto.status \in {Undefined, row.status}
      BY <1>2, <1>3, <1>4, <2>1 DEF Given
    <2>2. CASE dto.status \notin {Undefined, row.status}
      BY <1>2, <1>3, <1>4, <2>2 DEF Given, UpdateAllowed
    <2> QED BY <2>1, <2>2
  <1>6. \/ /\ log.priority = NULL
           /\ new.priority = row.priority /\ new.isOverdue = row.isOverdue
        \/ /\ log.priority = new.priority /\ log.isOverdue = new.isOverdue /\ ~new.isOverdue
    <2>1. CASE dto.priority = Undefined
      BY <1>2, <1>3, <1>4, <2>1 DEF Given
    <2>2. CASE dto.priority # Undefined
      BY <1>2, <1>3, <1>4, <2>2 DEF Given
    <2> QED BY <2>1, <2>2
  <1>7. Explains(row, new, log)
    BY <1>2, <1>3, <1>4, <1>5, <1>6 DEF Explains
  <1>8. MarkOnCritical(row) => MarkOnCritical(new)
    BY <1>6 DEF MarkOnCritical
  <1> QED BY <1>4, <1>5, <1>7, <1>8 DEF object, log

\* The audit row of an escalation explains it.
LEMMA EscalationExplained ==
  ASSUME NEW row \in Ticket, NEW now \in Nat
  PROVE  LET new == Contract!Revised(Escalated(row), now)
         IN  /\ new \in Ticket /\ Explains(row, new, EscalateLog(row))
             /\ MarkOnCritical(row) => MarkOnCritical(new)
             /\ new.status = row.status
  <1> DEFINE object == Escalated(row)
             new    == Contract!Revised(object, now)
             log    == EscalateLog(row)
  <1>1. object \in Ticket
    BY EscalatedType
  <1>2. object.status = row.status /\ object.deleted = row.deleted
    BY EscalateLogIsLegal
  <1>3. MarkOnCritical(row) => MarkOnCritical(object)
    <2>1. CASE row.priority = "CRITICAL"
      BY <2>1 DEF Escalated, Ticket, MarkOnCritical
    <2>2. CASE row.priority # "CRITICAL"
      BY <2>2 DEF Escalated, Ticket, MarkOnCritical
    <2> QED BY <2>1, <2>2
  <1>4. /\ log.action = "AUTO_ESCALATE" /\ log.to = NULL
        /\ log.priority = object.priority /\ log.isOverdue = object.isOverdue
    BY DEF EscalateLog, BlankLog
  <1>5. /\ new \in Ticket
        /\ new.status = object.status /\ new.priority = object.priority
        /\ new.isOverdue = object.isOverdue /\ new.deleted = object.deleted
    <2> HIDE DEF object
    <2> QED BY <1>1, RevisedColumns
  <1> HIDE DEF new, object, log
  <1>6. Explains(row, new, log)
    BY <1>2, <1>4, <1>5 DEF Explains
  <1> QED BY <1>2, <1>3, <1>5, <1>6 DEF new, object, log, MarkOnCritical

\* The audit row of a deletion or a restore explains it.
LEMMA DeletionExplained ==
  ASSUME NEW row \in Ticket, NEW now \in Nat, NEW deleted \in BOOLEAN
  PROVE  LET new == Contract!Revised([row EXCEPT !.deleted = deleted], now)
         IN  /\ new \in Ticket
             /\ Explains(row, new, BlankLog(IF deleted THEN "DELETE" ELSE "RESTORE"))
             /\ MarkOnCritical(row) => MarkOnCritical(new)
             /\ new.status = row.status
  <1> DEFINE object == [row EXCEPT !.deleted = deleted]
             new    == Contract!Revised(object, now)
             log    == BlankLog(IF deleted THEN "DELETE" ELSE "RESTORE")
  <1>1. /\ object \in Ticket /\ object.status = row.status /\ object.priority = row.priority
        /\ object.isOverdue = row.isOverdue /\ object.deleted = deleted
    BY DEF Ticket
  <1>2. /\ log.action = (IF deleted THEN "DELETE" ELSE "RESTORE")
        /\ log.to = NULL /\ log.priority = NULL
    BY DEF BlankLog
  <1>3. /\ new \in Ticket
        /\ new.status = object.status /\ new.priority = object.priority
        /\ new.isOverdue = object.isOverdue /\ new.deleted = object.deleted
    <2> HIDE DEF object
    <2> QED BY <1>1, RevisedColumns
  <1> HIDE DEF new, object, log
  <1>4. Explains(row, new, log)
    BY <1>1, <1>2, <1>3 DEF Explains
  <1> QED BY <1>1, <1>3, <1>4 DEF new, object, log, MarkOnCritical

\* A step of the contract changes one ticket or one link, and explains it.
LEMMA ContractStepShape ==
  ASSUME DatabaseTypeOK, Contract!ServiceNext
  PROVE  \/ \E id \in Tickets, row \in Ticket, log \in AuditLog : RowChange(id, row, log)
         \/ \E link \in Tickets \X Tickets : LinkChange(link)
  <1> DEFINE Goal == \/ \E id \in Tickets, row \in Ticket, log \in AuditLog : RowChange(id, row, log)
                     \/ \E link \in Tickets \X Tickets : LinkChange(link)
  <1>1. ASSUME NEW id \in Tickets
        PROVE  tickets[id] \in Ticket /\ Len(auditLogs[id]) \in Nat
    BY DEF DatabaseTypeOK
  <1>2. ASSUME NEW c \in Calls, c.op = "update", Contract!Update(c.id, c.dto)
        PROVE  Goal
    <2> DEFINE id     == c.id
               dto    == c.dto
               object == Patched(tickets[id], dto)
               new    == Contract!Revised(object, Len(auditLogs[id]))
               log    == UpdateLog(tickets[id], dto)
    <2>1. id \in Tickets /\ dto \in UpdateTicketDto
      BY <1>2, CallTypes
    <2>2. /\ UpdateAllowed(tickets[id], dto)
          /\ dto.status = "DONE" => UnresolvedBlockers(id) = {}
          /\ CommitTicket(id, new, log)
      BY <1>2, ContractRules, BlockedMeansOpenBlockers
         DEF Contract!Update, Contract!Set, CommitTicket
    <2>3. /\ new \in Ticket
          /\ new.status = object.status /\ new.priority = object.priority
          /\ new.isOverdue = object.isOverdue /\ new.deleted = object.deleted
      <3>1. object \in Ticket
        BY <1>1, <2>1, <2>2, PatchedType DEF UpdateAllowed
      <3> HIDE DEF object
      <3> QED BY <1>1, <2>1, <3>1, RevisedColumns
    <2> HIDE DEF new
    <2>4. /\ Explains(tickets[id], new, log)
          /\ MarkOnCritical(tickets[id]) => MarkOnCritical(new)
          /\ tickets[id].status # "DONE" /\ new.status = "DONE" => dto.status = "DONE"
      BY <1>1, <2>1, <2>2, <2>3, UpdateExplained
    <2>5. log \in AuditLog
      BY <1>1, <2>1, LogTypes
    <2> HIDE DEF object, log
    <2>6. RowChange(id, new, log)
      BY <2>2, <2>4 DEF RowChange
    <2> QED BY <2>1, <2>3, <2>5, <2>6
  <1>3. ASSUME NEW id \in Tickets, NEW asOf, Contract!Escalate(id, asOf)
        PROVE  Goal
    <2> DEFINE new == Contract!Revised(Escalated(tickets[id]), Len(auditLogs[id]))
               log == EscalateLog(tickets[id])
    <2>1. CommitTicket(id, new, log)
      BY <1>3, ContractRules DEF Contract!Escalate, Contract!Set, CommitTicket
    <2>2. /\ new \in Ticket /\ Explains(tickets[id], new, log)
          /\ MarkOnCritical(tickets[id]) => MarkOnCritical(new)
          /\ new.status = tickets[id].status
      BY <1>1, EscalationExplained
    <2>3. log \in AuditLog
      BY <1>1, LogTypes
    <2> HIDE DEF new, log
    <2>4. RowChange(id, new, log)
      BY <2>1, <2>2 DEF RowChange
    <2> QED BY <2>2, <2>3, <2>4
  <1>4. ASSUME NEW id \in Tickets, NEW deleted \in BOOLEAN,
               CommitTicket(id, Contract!Revised([tickets[id] EXCEPT !.deleted = deleted],
                                                 Len(auditLogs[id])),
                            BlankLog(IF deleted THEN "DELETE" ELSE "RESTORE"))
        PROVE  Goal
    <2> DEFINE new == Contract!Revised([tickets[id] EXCEPT !.deleted = deleted],
                                       Len(auditLogs[id]))
               log == BlankLog(IF deleted THEN "DELETE" ELSE "RESTORE")
    <2>1. CommitTicket(id, new, log)
      BY <1>4
    <2>2. /\ new \in Ticket /\ Explains(tickets[id], new, log)
          /\ MarkOnCritical(tickets[id]) => MarkOnCritical(new)
          /\ new.status = tickets[id].status
      BY <1>1, DeletionExplained
    <2>3. log \in AuditLog
      BY <1>1, LogTypes
    <2> HIDE DEF new, log
    <2>4. RowChange(id, new, log)
      BY <2>1, <2>2 DEF RowChange
    <2> QED BY <2>2, <2>3, <2>4
  <1>5. ASSUME NEW c \in Calls, \/ c.op = "remove" /\ Contract!Remove(c.id)
                                \/ c.op = "restore" /\ Contract!Restore(c.id)
        PROVE  Goal
    <2>1. c.id \in Tickets
      BY <1>5, CallTypes
    <2>2. CASE Contract!Remove(c.id)
      <3>1. CommitTicket(c.id, Contract!Revised([tickets[c.id] EXCEPT !.deleted = TRUE],
                                                Len(auditLogs[c.id])),
                         BlankLog(IF TRUE THEN "DELETE" ELSE "RESTORE"))
        BY <2>2, ContractRules DEF Contract!Remove, Contract!Set, CommitTicket
      <3> QED BY <1>4, <2>1, <3>1
    <2>3. CASE Contract!Restore(c.id)
      <3>1. CommitTicket(c.id, Contract!Revised([tickets[c.id] EXCEPT !.deleted = FALSE],
                                                Len(auditLogs[c.id])),
                         BlankLog(IF FALSE THEN "DELETE" ELSE "RESTORE"))
        BY <2>3, ContractRules DEF Contract!Restore, Contract!Set, CommitTicket
      <3> QED BY <1>4, <2>1, <3>1
    <2> QED BY <1>5, <2>2, <2>3
  <1>6. ASSUME NEW c \in Calls, \/ c.op = "addDependency" /\ Contract!Block(c.id, c.blockerId)
                                \/ c.op = "removeDependency" /\ Contract!Unblock(c.id, c.blockerId)
        PROVE  Goal
    <2>1. <<c.id, c.blockerId>> \in Tickets \X Tickets
      BY <1>6, CallTypes
    <2>2. LinkChange(<<c.id, c.blockerId>>)
      BY <1>6 DEF LinkChange, Contract!Block, Contract!Unblock, Contract!Relink, CommitLinks
    <2> QED BY <2>1, <2>2
  <1>7. ASSUME NEW c \in Calls, c.op = "update", Contract!UnversionedUpdate(c.id, c.dto)
        PROVE  Goal
    <2> DEFINE id  == c.id
               row == tickets[id]
               log == UpdateLog(row, c.dto)
    <2>1. id \in Tickets /\ c.dto \in UpdateTicketDto
      BY <1>7, CallTypes
    <2>2. UpdateAllowed(row, c.dto) /\ Patched(row, c.dto) = row /\ CommitTicket(id, row, log)
      BY <1>7, ContractRules DEF Contract!UnversionedUpdate, Contract!Set, CommitTicket
    <2>3. Explains(row, row, log)
      BY <1>1, <2>1, <2>2, UpdateExplained
    <2>4. log \in AuditLog
      BY <1>1, <2>1, LogTypes
    <2>5. RowChange(id, row, log)
      BY <2>2, <2>3 DEF RowChange
    <2> QED BY <1>1, <2>1, <2>4, <2>5
  <1> HIDE DEF Goal
  <1>8. Goal
    BY <1>2, <1>3, <1>5, <1>6, <1>7 DEF Contract!ServiceNext, Contract!ContractNext
  <1> QED BY <1>8 DEF Goal

----------------------------------------------------------------------------
(* The histories                                                           *)

\* A history that ends in what the ticket shows.
TicketExplained(logs, row) ==
  /\ \E i \in DOMAIN logs :
       logs[i].to = row.status /\ \A j \in DOMAIN logs : j > i => logs[j].to = NULL
  /\ \E i \in DOMAIN logs :
       /\ logs[i].priority = row.priority /\ logs[i].isOverdue = row.isOverdue
       /\ \A j \in DOMAIN logs : j > i => logs[j].priority = NULL
  /\ row.deleted <=> LatestIs(logs, {"DELETE", "RESTORE"}, "DELETE")

\* Creations and deletions of a link alternate, and the last one says whether
\* it exists.
LinkExplained(logs, exists) ==
  /\ \A i \in DOMAIN logs : logs[i] = (IF i % 2 = 1 THEN "CREATE" ELSE "DELETE")
  /\ exists <=> Len(logs) % 2 = 1

Histories == HistoryExplainsTicket /\ LinkHistoryExplainsLinks /\ OverdueIsCritical

\* The invariants, ticket by ticket and link by link.
LEMMA HistoriesByPart ==
  Histories <=> /\ \A id \in Tickets : TicketExplained(auditLogs[id], tickets[id])
                /\ \A link \in Tickets \X Tickets :
                     LinkExplained(dependencyLogs[link], link \in dependencies)
                /\ \A id \in Tickets : MarkOnCritical(tickets[id])
  BY DEF Histories, HistoryExplainsTicket, LinkHistoryExplainsLinks, OverdueIsCritical,
         TicketExplained, LinkExplained, MarkOnCritical

\* A longer history has the rows of the shorter one, and one more.
LEMMA AppendedRows ==
  ASSUME NEW S, NEW logs \in Seq(S), NEW log \in S
  PROVE  /\ Len(logs) \in Nat /\ DOMAIN logs = 1..Len(logs)
         /\ DOMAIN Append(logs, log) = 1..(Len(logs) + 1)
         /\ Len(Append(logs, log)) = Len(logs) + 1
         /\ \A i \in 1..Len(logs) : Append(logs, log)[i] = logs[i]
         /\ Append(logs, log)[Len(logs) + 1] = log
  OBVIOUS

\* The next audit row, explaining the change, explains the changed ticket.
LEMMA AppendExplains ==
  ASSUME NEW logs \in Seq(AuditLog), NEW log \in AuditLog, NEW old \in Ticket, NEW new \in Ticket,
         TicketExplained(logs, old), Explains(old, new, log)
  PROVE  TicketExplained(Append(logs, log), new)
  <1> DEFINE all == Append(logs, log)
             n   == Len(logs)
             kinds == {"DELETE", "RESTORE"}
  <1>1. /\ n \in Nat /\ DOMAIN logs = 1..n /\ DOMAIN all = 1..(n + 1)
        /\ \A i \in 1..n : all[i] = logs[i]
        /\ all[n + 1] = log
    BY AppendedRows
  <1> HIDE DEF all, n
  <1>2. \E i \in DOMAIN all : all[i].to = new.status /\ \A j \in DOMAIN all : j > i => all[j].to = NULL
    <2>1. CASE log.to = NULL /\ new.status = old.status
      <3>1. PICK i \in 1..n : logs[i].to = old.status /\ \A j \in 1..n : j > i => logs[j].to = NULL
        BY <1>1 DEF TicketExplained
      <3>2. all[i].to = new.status /\ i \in DOMAIN all
        BY <1>1, <2>1, <3>1
      <3>3. \A j \in DOMAIN all : j \in 1..n \/ j = n + 1
        BY <1>1
      <3> QED BY <1>1, <2>1, <3>1, <3>2, <3>3
    <2>2. CASE log.to = new.status
      <3>1. n + 1 \in DOMAIN all /\ ~\E j \in DOMAIN all : j > n + 1
        BY <1>1
      <3> QED BY <1>1, <2>2, <3>1
    <2> QED BY <2>1, <2>2 DEF Explains
  <1>3. \E i \in DOMAIN all :
          /\ all[i].priority = new.priority /\ all[i].isOverdue = new.isOverdue
          /\ \A j \in DOMAIN all : j > i => all[j].priority = NULL
    <2>1. CASE /\ log.priority = NULL
               /\ new.priority = old.priority /\ new.isOverdue = old.isOverdue
      <3>1. PICK i \in 1..n :
              /\ logs[i].priority = old.priority /\ logs[i].isOverdue = old.isOverdue
              /\ \A j \in 1..n : j > i => logs[j].priority = NULL
        BY <1>1 DEF TicketExplained
      <3>2. all[i].priority = new.priority /\ all[i].isOverdue = new.isOverdue /\ i \in DOMAIN all
        BY <1>1, <2>1, <3>1
      <3>3. \A j \in DOMAIN all : j \in 1..n \/ j = n + 1
        BY <1>1
      <3> QED BY <1>1, <2>1, <3>1, <3>2, <3>3
    <2>2. CASE log.priority = new.priority /\ log.isOverdue = new.isOverdue
      <3>1. n + 1 \in DOMAIN all /\ ~\E j \in DOMAIN all : j > n + 1
        BY <1>1
      <3> QED BY <1>1, <2>2, <3>1
    <2> QED BY <2>1, <2>2 DEF Explains
  <1>4. new.deleted <=> LatestIs(all, kinds, "DELETE")
    <2>1. old.deleted <=> LatestIs(logs, kinds, "DELETE")
      BY DEF TicketExplained
    <2>2. CASE log.action \notin kinds /\ new.deleted = old.deleted
      <3>1. ASSUME LatestIs(logs, kinds, "DELETE")
            PROVE  LatestIs(all, kinds, "DELETE")
        <4>1. PICK i \in 1..n : /\ logs[i].action = "DELETE"
                                /\ \A j \in 1..n : j > i => logs[j].action \notin kinds
          BY <1>1, <3>1 DEF LatestIs
        <4>2. \A j \in DOMAIN all : j \in 1..n \/ j = n + 1
          BY <1>1
        <4>3. i \in DOMAIN all /\ all[i].action = "DELETE"
          BY <1>1, <4>1
        <4>4. \A j \in DOMAIN all : j > i => all[j].action \notin kinds
          BY <1>1, <2>2, <4>1, <4>2
        <4> QED BY <4>3, <4>4 DEF LatestIs
      <3>2. ASSUME LatestIs(all, kinds, "DELETE")
            PROVE  LatestIs(logs, kinds, "DELETE")
        <4>1. PICK i \in DOMAIN all : /\ all[i].action = "DELETE"
                                      /\ \A j \in DOMAIN all : j > i => all[j].action \notin kinds
          BY <3>2 DEF LatestIs
        <4>2. i \in 1..n
          <5>1. i # n + 1
            BY <1>1, <2>2, <4>1
          <5> QED BY <1>1, <5>1
        <4>3. logs[i].action = "DELETE"
          BY <1>1, <4>1, <4>2
        <4>4. \A j \in 1..n : j > i => logs[j].action \notin kinds
          BY <1>1, <4>1
        <4> QED BY <1>1, <4>2, <4>3, <4>4 DEF LatestIs
      <3> QED BY <2>1, <2>2, <3>1, <3>2
    <2>3. CASE log.action = "DELETE" /\ new.deleted
      <3>1. n + 1 \in DOMAIN all /\ ~\E j \in DOMAIN all : j > n + 1
        BY <1>1
      <3> QED BY <1>1, <2>3, <3>1 DEF LatestIs
    <2>4. CASE log.action = "RESTORE" /\ ~new.deleted
      <3>1. ~LatestIs(all, kinds, "DELETE")
        <4>1. SUFFICES ASSUME NEW i \in DOMAIN all, all[i].action = "DELETE",
                              \A j \in DOMAIN all : j > i => all[j].action \notin kinds
                       PROVE  FALSE
          BY DEF LatestIs
        <4>2. i # n + 1
          BY <1>1, <2>4, <4>1
        <4>3. n + 1 \in DOMAIN all /\ n + 1 > i
          BY <1>1, <4>2
        <4> QED BY <1>1, <2>4, <4>1, <4>3
      <3> QED BY <2>4, <3>1
    <2> QED BY <2>2, <2>3, <2>4 DEF Explains
  <1> QED BY <1>2, <1>3, <1>4 DEF TicketExplained, all

\* So does the next audit row of a link.
LEMMA AppendExplainsLink ==
  ASSUME NEW logs \in Seq({"CREATE", "DELETE"}), NEW exists \in BOOLEAN,
         LinkExplained(logs, ~exists)
  PROVE  LinkExplained(Append(logs, IF exists THEN "CREATE" ELSE "DELETE"), exists)
  <1> DEFINE log == IF exists THEN "CREATE" ELSE "DELETE"
             all == Append(logs, log)
             n   == Len(logs)
  <1>1. /\ n \in Nat /\ DOMAIN logs = 1..n /\ DOMAIN all = 1..(n + 1) /\ Len(all) = n + 1
        /\ \A i \in 1..n : all[i] = logs[i]
        /\ all[n + 1] = log
    BY AppendedRows
  <1>2. \A i \in 1..n : logs[i] = (IF i % 2 = 1 THEN "CREATE" ELSE "DELETE")
    BY <1>1 DEF LinkExplained
  <1>3. ~exists <=> n % 2 = 1
    BY DEF LinkExplained
  <1>4. exists <=> (n + 1) % 2 = 1
    <2> HIDE DEF n
    <2>1. (n + 1) % 2 = 1 <=> n % 2 # 1
      BY <1>1
    <2> QED BY <1>3, <2>1
  <1> HIDE DEF all, n
  <1>5. \A i \in 1..(n + 1) : all[i] = (IF i % 2 = 1 THEN "CREATE" ELSE "DELETE")
    <2> TAKE i \in 1..(n + 1)
    <2>1. CASE i \in 1..n
      BY <1>1, <1>2, <2>1
    <2>2. CASE i = n + 1
      BY <1>1, <1>4, <2>2
    <2> QED BY <1>1, <2>1, <2>2
  <1>6. LinkExplained(all, exists)
    BY <1>1, <1>4, <1>5 DEF LinkExplained
  <1> QED BY <1>6 DEF all

\* A change of a row keeps the histories.
LEMMA RowChangeKeepsHistories ==
  ASSUME DatabaseTypeOK, Histories, NEW id \in Tickets, NEW row \in Ticket, NEW log \in AuditLog,
         RowChange(id, row, log)
  PROVE  Histories'
  <1>1. /\ tickets'[id] = row /\ auditLogs'[id] = Append(auditLogs[id], log)
        /\ \A i \in Tickets \ {id} : tickets'[i] = tickets[i] /\ auditLogs'[i] = auditLogs[i]
        /\ UNCHANGED <<dependencies, dependencyLogs>>
    BY CommitTicketStep DEF RowChange
  <1>2. /\ tickets[id] \in Ticket /\ auditLogs[id] \in Seq(AuditLog)
    BY DEF DatabaseTypeOK
  <1>3. TicketExplained(auditLogs[id], tickets[id]) /\ MarkOnCritical(tickets[id])
    BY HistoriesByPart
  <1>4. TicketExplained(Append(auditLogs[id], log), row) /\ MarkOnCritical(row)
    BY <1>2, <1>3, AppendExplains DEF RowChange
  <1>5. \A i \in Tickets : TicketExplained(auditLogs'[i], tickets'[i]) /\ MarkOnCritical(tickets'[i])
    <2> TAKE i \in Tickets
    <2>1. CASE i = id
      BY <1>1, <1>4, <2>1
    <2>2. CASE i # id
      <3>1. tickets'[i] = tickets[i] /\ auditLogs'[i] = auditLogs[i]
        BY <1>1, <2>2
      <3>2. TicketExplained(auditLogs[i], tickets[i]) /\ MarkOnCritical(tickets[i])
        BY HistoriesByPart
      <3> QED BY <3>1, <3>2
    <2> QED BY <2>1, <2>2
  <1>6. \A link \in Tickets \X Tickets :
          LinkExplained(dependencyLogs'[link], link \in dependencies')
    BY <1>1, HistoriesByPart
  <1>7. Histories' <=> /\ \A i \in Tickets : TicketExplained(auditLogs'[i], tickets'[i])
                       /\ \A link \in Tickets \X Tickets :
                            LinkExplained(dependencyLogs'[link], link \in dependencies')
                       /\ \A i \in Tickets : MarkOnCritical(tickets'[i])
    BY DEF Histories, HistoryExplainsTicket, LinkHistoryExplainsLinks, OverdueIsCritical,
           TicketExplained, LinkExplained, MarkOnCritical, LatestIs
  <1> QED BY <1>5, <1>6, <1>7

\* So does a change of a link.
LEMMA LinkChangeKeepsHistories ==
  ASSUME DatabaseTypeOK, Histories, NEW link \in Tickets \X Tickets, LinkChange(link)
  PROVE  Histories'
  <1>1. PICK exists \in BOOLEAN :
          /\ (link \in dependencies) = ~exists
          /\ dependencies' = (IF exists THEN dependencies \cup {link} ELSE dependencies \ {link})
          /\ dependencyLogs' =
               [dependencyLogs EXCEPT ![link] = Append(@, IF exists THEN "CREATE" ELSE "DELETE")]
          /\ UNCHANGED <<tickets, auditLogs>>
    <2>1. CASE link \notin dependencies
      <3>1. /\ (link \in dependencies) = ~TRUE
            /\ dependencies' = dependencies \cup {link}
            /\ dependencyLogs' = [dependencyLogs EXCEPT ![link] = Append(@, "CREATE")]
            /\ UNCHANGED <<tickets, auditLogs>>
        BY <2>1 DEF LinkChange, CommitLinks
      <3> QED BY <3>1
    <2>2. CASE link \in dependencies
      <3>1. /\ (link \in dependencies) = ~FALSE
            /\ dependencies' = dependencies \ {link}
            /\ dependencyLogs' = [dependencyLogs EXCEPT ![link] = Append(@, "DELETE")]
            /\ UNCHANGED <<tickets, auditLogs>>
        BY <2>2 DEF LinkChange, CommitLinks
      <3> QED BY <3>1
    <2> QED BY <2>1, <2>2
  <1>2. dependencyLogs[link] \in Seq({"CREATE", "DELETE"})
    BY DEF DatabaseTypeOK
  <1>3. LinkExplained(dependencyLogs[link], ~exists)
    BY <1>1, HistoriesByPart
  <1>4. LinkExplained(dependencyLogs'[link], exists)
    <2>1. dependencyLogs'[link] = Append(dependencyLogs[link], IF exists THEN "CREATE" ELSE "DELETE")
      BY <1>1 DEF DatabaseTypeOK
    <2> QED BY <1>2, <1>3, <2>1, AppendExplainsLink
  <1>5. (link \in dependencies') = exists
    BY <1>1
  <1>6. \A other \in Tickets \X Tickets :
          LinkExplained(dependencyLogs'[other], other \in dependencies')
    <2> TAKE other \in Tickets \X Tickets
    <2>1. CASE other = link
      BY <1>4, <1>5, <2>1
    <2>2. CASE other # link
      <3>1. dependencyLogs'[other] = dependencyLogs[other]
            /\ (other \in dependencies') = (other \in dependencies)
        BY <1>1, <2>2 DEF DatabaseTypeOK
      <3>2. LinkExplained(dependencyLogs[other], other \in dependencies)
        BY HistoriesByPart
      <3> QED BY <3>1, <3>2
    <2> QED BY <2>1, <2>2
  <1>7. \A id \in Tickets : TicketExplained(auditLogs'[id], tickets'[id]) /\ MarkOnCritical(tickets'[id])
    BY <1>1, HistoriesByPart
  <1>8. Histories' <=> /\ \A i \in Tickets : TicketExplained(auditLogs'[i], tickets'[i])
                       /\ \A other \in Tickets \X Tickets :
                            LinkExplained(dependencyLogs'[other], other \in dependencies')
                       /\ \A i \in Tickets : MarkOnCritical(tickets'[i])
    BY DEF Histories, HistoryExplainsTicket, LinkHistoryExplainsLinks, OverdueIsCritical,
           TicketExplained, LinkExplained, MarkOnCritical, LatestIs
  <1> QED BY <1>6, <1>7, <1>8

\* The histories of the created tickets explain them.
LEMMA InitHistories == Init => Histories
  <1> SUFFICES ASSUME Init PROVE Histories
    OBVIOUS
  <1>1. ASSUME NEW id \in Tickets
        PROVE  TicketExplained(auditLogs[id], tickets[id]) /\ MarkOnCritical(tickets[id])
    <2>1. /\ tickets[id] \in CreatedTickets
          /\ auditLogs[id] = <<CreateLog(tickets[id])>>
      BY DEF Init
    <2>2. tickets[id].isOverdue = FALSE /\ tickets[id].deleted = FALSE
      BY <2>1, CreatedTicketsAssumption DEF Ticket
    <2> DEFINE log  == CreateLog(tickets[id])
               logs == auditLogs[id]
    <2>3. /\ log.action = "CREATE" /\ log.to = tickets[id].status
          /\ log.priority = tickets[id].priority /\ log.isOverdue = FALSE
      BY DEF CreateLog, BlankLog
    <2>4. DOMAIN logs = {1} /\ logs[1] = log
      <3> HIDE DEF log
      <3> QED BY <2>1 DEF log
    <2> HIDE DEF log, logs
    <2>5. TicketExplained(logs, tickets[id])
      <3>1. \A j \in DOMAIN logs : j = 1
        BY <2>4
      <3>2. \A j \in DOMAIN logs : ~(j > 1)
        BY <3>1
      <3>3. 1 \in DOMAIN logs /\ logs[1].to = tickets[id].status
            /\ logs[1].priority = tickets[id].priority /\ logs[1].isOverdue = tickets[id].isOverdue
        BY <2>2, <2>3, <2>4
      <3>4. ~LatestIs(logs, {"DELETE", "RESTORE"}, "DELETE")
        BY <2>3, <2>4, <3>1 DEF LatestIs
      <3> QED BY <2>2, <3>2, <3>3, <3>4 DEF TicketExplained
    <2> QED BY <2>2, <2>5 DEF logs, MarkOnCritical
  <1>2. ASSUME NEW link \in Tickets \X Tickets
        PROVE  LinkExplained(dependencyLogs[link], link \in dependencies)
    <2>1. dependencyLogs[link] = <<>> /\ link \notin dependencies
      BY DEF Init
    <2> QED BY <2>1 DEF LinkExplained
  <1> QED BY <1>1, <1>2, HistoriesByPart

\* Every step, by the contract step it is.
LEMMA HistoriesStep ==
  SerialInv /\ Histories /\ [SerialNext]_vars => Histories'
  <1> SUFFICES ASSUME SerialInv, Histories, [SerialNext]_vars PROVE Histories'
    OBVIOUS
  <1>1. DatabaseTypeOK
    BY DEF SerialInv, ControlInv, TypeOK
  <1>2. CASE UNCHANGED database
    <2>1. /\ tickets' = tickets /\ auditLogs' = auditLogs
          /\ dependencies' = dependencies /\ dependencyLogs' = dependencyLogs
      BY <1>2 DEF database
    <2>2. HistoryExplainsTicket' /\ OverdueIsCritical'
      BY <2>1 DEF Histories, HistoryExplainsTicket, OverdueIsCritical, LatestIs
    <2>3. LinkHistoryExplainsLinks'
      BY <2>1 DEF Histories, LinkHistoryExplainsLinks
    <2> QED BY <2>2, <2>3 DEF Histories
  <1>3. CASE Contract!ServiceNext
    BY <1>1, <1>3, ContractStepShape, RowChangeKeepsHistories, LinkChangeKeepsHistories
  <1> QED BY <1>2, <1>3, StepIsContract

\* Served one at a time, the requests keep the histories.
LEMMA HistoriesHold == SerialSpec => []Histories
  <1>1. SerialInv /\ Histories /\ [SerialNext]_vars => Histories'
    BY HistoriesStep
  <1> QED BY <1>1, InitHistories, SerialInvariantHolds, PTL DEF SerialSpec

\* Served one at a time, no request changes a ticket without an audit row from
\* which the present status, priority, overdue mark and deletion can be read.
THEOREM TicketHistoryComplete == SerialSpec => []HistoryExplainsTicket
  <1>1. Histories => HistoryExplainsTicket
    BY DEF Histories
  <1> QED BY <1>1, HistoriesHold, PTL

\* Nor a link.
THEOREM LinkHistoryComplete == SerialSpec => []LinkHistoryExplainsLinks
  <1>1. Histories => LinkHistoryExplainsLinks
    BY DEF Histories
  <1> QED BY <1>1, HistoriesHold, PTL

\* Served one at a time, an overdue mark stands only on a CRITICAL ticket.
THEOREM OverdueStaysCritical == SerialSpec => []OverdueIsCritical
  <1>1. Histories => OverdueIsCritical
    BY DEF Histories
  <1> QED BY <1>1, HistoriesHold, PTL

----------------------------------------------------------------------------
(* What no step does                                                       *)

\* Served one at a time, the status of a ticket moves one step forward or not
\* at all.
THEOREM LifecycleIsForward == SerialSpec => LifecycleForwardOnly
  <1>1. SerialInv /\ [SerialNext]_vars =>
          [\A id \in Tickets :
             tickets'[id].status # tickets[id].status
               => OneStepForward(tickets[id].status, tickets'[id].status)]_tickets
    <2> SUFFICES ASSUME SerialInv, [SerialNext]_vars, NEW id \in Tickets,
                        tickets'[id].status # tickets[id].status
                 PROVE  OneStepForward(tickets[id].status, tickets'[id].status)
      OBVIOUS
    <2>1. DatabaseTypeOK
      BY DEF SerialInv, ControlInv, TypeOK
    <2>2. Contract!ServiceNext
      BY StepIsContract DEF database
    <2>3. PICK i \in Tickets, row \in Ticket, log \in AuditLog : RowChange(i, row, log)
      BY <2>1, <2>2, ContractStepShape DEF LinkChange, CommitLinks
    <2>4. i = id /\ tickets'[id] = row
      BY <2>1, <2>3, CommitTicketStep DEF RowChange
    <2>5. row.status = tickets[id].status \/ OneStepForward(tickets[id].status, row.status)
      BY <2>3, <2>4 DEF RowChange, Explains
    <2> QED BY <2>4, <2>5
  <1> QED BY <1>1, SerialInvariantHolds, PTL DEF SerialSpec, LifecycleForwardOnly

\* Served one at a time, a ticket is not done while a blocker of it is open.
THEOREM DoneWaitsForBlockers == SerialSpec => DoneHasNoOpenBlockers
  <1>1. SerialInv /\ [SerialNext]_vars =>
          [\A id \in Tickets :
             tickets[id].status # "DONE" /\ tickets'[id].status = "DONE"
               => UnresolvedBlockers(id) = {}]_vars
    <2> SUFFICES ASSUME SerialInv, [SerialNext]_vars, NEW id \in Tickets,
                        tickets[id].status # "DONE", tickets'[id].status = "DONE"
                 PROVE  UnresolvedBlockers(id) = {}
      OBVIOUS
    <2>1. DatabaseTypeOK
      BY DEF SerialInv, ControlInv, TypeOK
    <2>2. Contract!ServiceNext
      BY StepIsContract DEF database
    <2>3. PICK i \in Tickets, row \in Ticket, log \in AuditLog : RowChange(i, row, log)
      BY <2>1, <2>2, ContractStepShape DEF LinkChange, CommitLinks
    <2>4. i = id /\ tickets'[id] = row
      BY <2>1, <2>3, CommitTicketStep DEF RowChange
    <2> QED BY <2>3, <2>4 DEF RowChange
  <1> QED BY <1>1, SerialInvariantHolds, PTL DEF SerialSpec, DoneHasNoOpenBlockers

\* Served one at a time, an update that commits finds the version its client
\* named.
THEOREM StaleUpdatesAreRejected == SerialSpec => StaleVersionIsRejected
  <1>1. SerialInv =>
          \A r \in Requests :
            pc[r] = "updateReloaded" => tickets[call[r].id].version = call[r].dto.version
    <2> SUFFICES ASSUME SerialInv, NEW r \in Requests, pc[r] = "updateReloaded"
                 PROVE  tickets[call[r].id].version = call[r].dto.version
      OBVIOUS
    <2>1. RequestOK(r) /\ ReadIsCurrent(r)
      BY DEF SerialInv, ControlInv
    <2> QED BY <2>1 DEF RequestOK, ReadIsCurrent, Updating, UpdateAllowed
  <1>2. SerialInv =>
          [\A r \in Requests :
             pc[r] = "updateReloaded" /\ pc'[r] = "ok"
               => tickets[call[r].id].version = call[r].dto.version]_vars
    BY <1>1
  <1> QED BY <1>2, SerialInvariantHolds, PTL DEF StaleVersionIsRejected

==============================================================================
