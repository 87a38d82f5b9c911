------------------------- MODULE TicketIntake_proofs -------------------------
(***************************************************************************)
(* Proofs about TicketIntake, for every set of users, requests and rows,   *)
(* every import file and every interference.                               *)
(***************************************************************************)
EXTENDS TicketIntake, SequenceTheorems, FiniteSetTheorems, TLAPS

----------------------------------------------------------------------------
(* The inductive invariant                                                 *)

\* What a request holds is what its program counter and its call say it holds.
RequestOK(r) ==
  /\ InFlight(r) => call[r] \in Calls
  /\ pc[r] = "found" => call[r].op \in {"create", "attach", "detach"}
  /\ pc[r] \in {"checked", "settled"} => call[r].op = "create"
  /\ pc[r] \in {"row", "resolved"} => call[r].op = "import"
  /\ pc[r] = "attachmentFound" => call[r].op = "detach" /\ attachments[call[r].id] # NULL
  /\ pc[r] = "idle" => result[r].created = 0 /\ result[r].failed = 0
  /\ pc[r] = "row" => Handled(r) <= Len(Rows(r))
  /\ pc[r] = "resolved" => Handled(r) < Len(Rows(r))

PersistedRows(r) == {i \in 1..MaxRows : tickets[<<r, i>>] # NULL}

\* An import has inserted no row past the ones it has handled, and counts no
\* more than it has inserted; an upload's row comes with its commit.
RowsOK(r) ==
  /\ \A i \in PersistedRows(r) : i <= Handled(r)
  /\ result[r].created <= Cardinality(PersistedRows(r))
  /\ attachments[r] # NULL => pc[r] = "ok"

FiniteRows == IsFiniteSet({t \in TicketIds : tickets[t] # NULL})

\* Whoever the request settled on is still the one to choose.
ChoiceHolds(r) ==
  IF assignee[r] = NULL THEN Developers = {} ELSE assignee[r] \in LeastLoaded(call[r].projectId)

\* What an undisturbed request has chosen it would choose again.
CurrentOK(r) ==
  r \in undisturbed /\ pc[r] = "settled" /\ call[r].assigneeId = NULL => ChoiceHolds(r)

Inv ==
  /\ TypeOK /\ AssigneesExist /\ FiniteRows
  /\ \A r \in Requests : RequestOK(r) /\ RowsOK(r) /\ CurrentOK(r)

----------------------------------------------------------------------------
(* Lemmas about the inputs and the building blocks                         *)

\* The rows of a file are a sequence no longer than MaxRows.
LEMMA FileRows ==
  ASSUME NEW file \in File
  PROVE  file.rows \in Seq(TicketImportCsvRow) /\ Len(file.rows) <= MaxRows
  <1>1. PICK n \in 0..MaxRows : file.rows \in [1..n -> TicketImportCsvRow]
    BY DEF File
  <1>2. n \in Nat /\ MaxRows \in Nat
    BY NullAssumption
  <1>3. file.rows \in Seq(TicketImportCsvRow)
    BY <1>1, <1>2, SeqDef
  <1>4. Len(file.rows) = n
    BY <1>1, <1>2, <1>3, LenProperties
  <1> QED BY <1>1, <1>2, <1>3, <1>4

\* The parameters of a call have the types of its kind.
LEMMA CallTypes ==
  ASSUME NEW c \in Calls
  PROVE  /\ c.op \in {"create", "import", "attach", "detach"}
         /\ c.op \in {"create", "import"} => c.projectId \in Projects
         /\ c.op = "create" => c.open \in BOOLEAN /\ c.assigneeId \in Users \cup {NULL}
         /\ c.op = "import" => c.file \in File
         /\ c.op \in {"attach", "detach"} => c.ticketId \in TicketIds
         /\ c.op = "detach" => c.id \in AttachmentIds
  BY InputsAssumption DEF Call

\* What another request than r has in memory.
Frame(r) ==
  \A q \in Requests \ {r} :
    pc'[q] = pc[q] /\ call'[q] = call[q] /\ assignee'[q] = assignee[q] /\ result'[q] = result[q]

SharedVars == <<activeProjects, users, tickets, ticketLogs, attachments, attachmentLogs>>

\* The numbers of an import.
LEMMA HandledNat ==
  ASSUME TypeOK, NEW r \in Requests
  PROVE  /\ result[r].created \in Nat /\ result[r].failed \in Nat /\ Handled(r) \in Nat
         /\ MaxRows \in Nat
  BY NullAssumption DEF TypeOK, Handled

\* The persisted rows can be counted.
LEMMA PersistedFinite ==
  ASSUME NEW r \in Requests
  PROVE  IsFiniteSet(PersistedRows(r)) /\ Cardinality(PersistedRows(r)) \in Nat
  <1>1. IsFiniteSet(1..MaxRows) /\ PersistedRows(r) \subseteq 1..MaxRows
    BY NullAssumption, FS_Interval DEF PersistedRows
  <1> QED BY <1>1, FS_Subset, FS_CardinalityType

\* The row after the last one handled is one of the file, and has a ticket id.
LEMMA NextRow ==
  ASSUME TypeOK, NEW r \in Requests, RequestOK(r), pc[r] \in {"row", "resolved"},
         Handled(r) < Len(Rows(r))
  PROVE  /\ Handled(r) + 1 \in 1..MaxRows /\ <<r, Handled(r) + 1>> \in TicketIds
         /\ Rows(r)[Handled(r) + 1] \in TicketImportCsvRow
         /\ call[r] \in Calls /\ call[r].op = "import"
  <1>1. call[r] \in Calls /\ call[r].op = "import"
    BY DEF RequestOK, InFlight, Answers
  <1>2. Rows(r) \in Seq(TicketImportCsvRow) /\ Len(Rows(r)) <= MaxRows
    BY <1>1, CallTypes, FileRows DEF Rows
  <1>3. Handled(r) \in Nat /\ MaxRows \in Nat
    BY HandledNat
  <1>4. Len(Rows(r)) \in Nat /\ Handled(r) + 1 \in 1..Len(Rows(r))
    BY <1>2, <1>3
  <1>5. Rows(r)[Handled(r) + 1] \in TicketImportCsvRow
    BY <1>2, <1>4
  <1> QED BY <1>1, <1>2, <1>3, <1>4, <1>5 DEF TicketIds

----------------------------------------------------------------------------
(* What every step achieves                                                *)

\* The open tickets of a user in a project, as FreshAssignmentIsLeastLoaded counts
\* them.
Load(u, project) ==
  Cardinality({t \in TicketIds :
    /\ tickets[t] # NULL /\ tickets[t].open /\ ~tickets[t].deleted
    /\ tickets[t].projectId = project /\ tickets[t].assigneeId = u})

\* The steps FreshAssignmentIsLeastLoaded allows.
FreshStep(r) ==
  At(r, "settled", "create") /\ pc'[r] = "ok" /\ call[r].assigneeId = NULL =>
    LET new == tickets'[<<r, 0>>]
    IN  IF new.assigneeId = NULL
        THEN \A u \in Users : users[u] # "DEVELOPER"
        ELSE /\ users[new.assigneeId] = "DEVELOPER"
             /\ \A u \in Users : users[u] = "DEVELOPER" =>
                  /\ Load(new.assigneeId, new.projectId) <= Load(u, new.projectId)
                  /\ Load(new.assigneeId, new.projectId) = Load(u, new.projectId) =>
                       RegisteredAt[new.assigneeId] <= RegisteredAt[u]

\* What SoftDelete sees of the attachments, and its step.
states == [id \in AttachmentIds |-> AttachmentState(id)]

AttachmentStep == Attachments!Next \/ UNCHANGED <<states, attachmentLogs>>

GoodStep ==
  /\ Inv'
  /\ \A r \in undisturbed : FreshStep(r)
  /\ AttachmentStep

MemoryOK ==
  /\ pc \in [Requests -> Locations]
  /\ call \in [Requests -> Calls \cup {NULL}]
  /\ assignee \in [Requests -> Users \cup {NULL}]
  /\ result \in [Requests -> [created : Nat, failed : Nat]]
  /\ undisturbed \subseteq {r \in Requests : InFlight(r)}

\* The choice of an assignee depends on the users and tickets alone.
LEMMA ChoiceUnchanged ==
  ASSUME UNCHANGED <<users, tickets>>
  PROVE  Developers' = Developers /\ \A p : LeastLoaded(p)' = LeastLoaded(p)
  <1>1. \A u, p : OpenTicketCount(u, p)' = OpenTicketCount(u, p)
    BY DEF OpenTicketCount
  <1>2. \A u, v, p : Precedes(u, v, p)' = Precedes(u, v, p)
    BY <1>1 DEF Precedes
  <1>3. Developers' = Developers
    BY DEF Developers
  <1> QED BY <1>2, <1>3 DEF LeastLoaded

\* A step that touches no table is good if its own request is in order.
LEMMA QuietStep ==
  ASSUME Inv, NEW r \in Requests, MemoryOK', Frame(r), UNCHANGED SharedVars,
         undisturbed' \subseteq undisturbed \cup {r}, pc[r] # "ok",
         pc'[r] = "ok" => call[r].op = "import" \/ r \notin undisturbed,
         RequestOK(r)', CurrentOK(r)',
         result'[r].created = result[r].created, Handled(r) <= Handled(r)'
  PROVE  GoodStep
  <1> USE DEF Frame, SharedVars
  <1>1. TypeOK' /\ AssigneesExist' /\ FiniteRows'
    BY DEF Inv, MemoryOK, TypeOK, AssigneesExist, FiniteRows
  <1>2. ASSUME NEW q \in Requests PROVE RowsOK(q)'
    <2>1. RowsOK(q) /\ PersistedRows(q)' = PersistedRows(q)
      BY DEF Inv, PersistedRows
    <2>2. CASE q = r
      <3>1. \A i \in PersistedRows(r) : i \in Nat
        BY NullAssumption DEF PersistedRows
      <3>2. Handled(r) \in Nat /\ Handled(r)' \in Nat
        BY <1>1 DEF Inv, TypeOK, Handled
      <3>3. \A i \in PersistedRows(r) : i <= Handled(r)'
        BY <2>1, <2>2, <3>1, <3>2 DEF RowsOK
      <3> QED BY <2>1, <2>2, <3>3 DEF RowsOK
    <2>3. CASE q # r
      BY <2>1, <2>3 DEF RowsOK, Handled
    <2> QED BY <2>2, <2>3
  <1>3. ASSUME NEW q \in Requests PROVE RequestOK(q)' /\ CurrentOK(q)'
    <2>1. CASE q = r
      BY <2>1
    <2>2. CASE q # r
      <3>1. RequestOK(q) /\ CurrentOK(q)
        BY DEF Inv
      <3>2. /\ pc'[q] = pc[q] /\ call'[q] = call[q] /\ assignee'[q] = assignee[q]
            /\ result'[q] = result[q]
        BY <2>2
      <3>3. RequestOK(q)'
        BY <3>1, <3>2 DEF RequestOK, InFlight, Handled, Rows
      <3>4. CurrentOK(q)'
        <4>1. Developers' = Developers /\ \A p : LeastLoaded(p)' = LeastLoaded(p)
          BY ChoiceUnchanged
        <4>2. q \in undisturbed' => q \in undisturbed
          BY <2>2
        <4> QED BY <3>1, <3>2, <4>1, <4>2 DEF CurrentOK, ChoiceHolds
      <3> QED BY <3>3, <3>4
    <2> QED BY <2>1, <2>2
  <1>4. ASSUME NEW q \in undisturbed PROVE FreshStep(q)
    <2>1. q \in Requests /\ InFlight(q) /\ RequestOK(q) /\ pc[q] # "ok"
      BY DEF Inv, TypeOK, InFlight, Answers
    <2>2. pc'[q] = "ok" => q = r /\ call[q].op = "import"
      BY <2>1
    <2> QED BY <2>2 DEF FreshStep, At
  <1>5. AttachmentStep
    BY DEF AttachmentStep, states, AttachmentState
  <1> QED BY <1>1, <1>2, <1>3, <1>4, <1>5 DEF GoodStep, Inv

\* The frame of an attachment's write, on the states SoftDelete sees.
LEMMA AttachmentWrite ==
  ASSUME TypeOK, NEW id \in AttachmentIds, NEW row \in TicketAttachment,
         NEW action \in {"CREATE", "DELETE"},
         attachments' = [attachments EXCEPT ![id] = row],
         attachmentLogs' = [attachmentLogs EXCEPT ![id] = Append(@, action)],
         \/ attachments[id] = NULL /\ ~row.deleted /\ action = "CREATE"
         \/ attachments[id] # NULL /\ row.deleted /\ action = "DELETE"
  PROVE  AttachmentStep
  <1>1. row # NULL
    BY NullAssumption
  <1>2. attachments' \in [AttachmentIds -> TicketAttachment \cup {NULL}] /\ attachments'[id] = row
        /\ \A i \in AttachmentIds \ {id} : attachments'[i] = attachments[i]
    BY DEF TypeOK
  <1>3. states' = [states EXCEPT ![id] = AttachmentState(id)']
    <2>1. \A i \in AttachmentIds \ {id} : AttachmentState(i)' = AttachmentState(i)
      BY <1>2 DEF AttachmentState
    <2> QED BY <2>1 DEF states
  <1>4. states[id] = AttachmentState(id)
    BY DEF states
  <1>5. CASE attachments[id] = NULL /\ ~row.deleted /\ action = "CREATE"
    <2>1. AttachmentState(id) = "absent" /\ AttachmentState(id)' = "active"
      BY <1>1, <1>2, <1>5 DEF AttachmentState
    <2>2. Attachments!Create(id)
      BY <1>3, <1>4, <1>5, <2>1 DEF Attachments!Create, Attachments!Move, states
    <2> QED BY <2>2 DEF AttachmentStep, Attachments!Next
  <1>6. CASE attachments[id] # NULL /\ row.deleted /\ action = "DELETE"
    <2>1. AttachmentState(id) \in {"active", "deleted"} /\ AttachmentState(id)' = "deleted"
      BY <1>1, <1>2, <1>6 DEF AttachmentState
    <2>2. Attachments!Delete(id)
      BY <1>3, <1>4, <1>6, <2>1 DEF Attachments!Delete, Attachments!Move, states
    <2> QED BY <2>2 DEF AttachmentStep, Attachments!Next
  <1> QED BY <1>5, <1>6

\* Whoever is least loaded is so by the rule as it is meant.
LEMMA LeastLoadedRule ==
  ASSUME Inv, NEW project, NEW u \in LeastLoaded(project), NEW v \in Users,
         users[v] = "DEVELOPER"
  PROVE  /\ users[u] = "DEVELOPER"
         /\ Load(u, project) <= Load(v, project)
         /\ Load(u, project) = Load(v, project) => RegisteredAt[u] <= RegisteredAt[v]
  <1> DEFINE Counted(x) == {t \in TicketIds :
                              /\ tickets[t] # NULL /\ tickets[t].open /\ ~tickets[t].deleted
                              /\ tickets[t].projectId = project /\ tickets[t].assigneeId = x}
  <1>1. \A x : OpenTicketCount(x, project) = Load(x, project)
    <2>1. \A x : Counted(x) = {t \in TicketIds :
                                 /\ tickets[t] # NULL /\ tickets[t].assigneeId = x
                                 /\ tickets[t].projectId = project /\ ~tickets[t].deleted
                                 /\ tickets[t].open}
      OBVIOUS
    <2> QED BY <2>1 DEF OpenTicketCount, Load
  <1>2. \A x : Load(x, project) \in Nat
    <2> SUFFICES ASSUME NEW x PROVE Cardinality(Counted(x)) \in Nat
      BY DEF Load
    <2>1. Counted(x) \subseteq {t \in TicketIds : tickets[t] # NULL}
      OBVIOUS
    <2>2. IsFiniteSet({t \in TicketIds : tickets[t] # NULL})
      BY DEF Inv, FiniteRows
    <2> QED BY <2>1, <2>2, FS_Subset, FS_CardinalityType
  <1>3. u \in Users /\ users[u] = "DEVELOPER" /\ v \in Developers /\ ~Precedes(v, u, project)
    BY DEF LeastLoaded, Developers
  <1>4. RegisteredAt[u] \in Nat /\ RegisteredAt[v] \in Nat
    BY <1>3, NullAssumption
  <1> QED BY <1>1, <1>2, <1>3, <1>4 DEF Precedes

\* The insertion of a ticket is good if the request's own rows add up and its
\* choice, if it made one, still holds.
LEMMA InsertStep ==
  ASSUME Inv, NEW r \in Requests, NEW n \in 0..MaxRows, NEW row \in Ticket,
         NEW log \in Seq(AuditAction), InsertTicket(<<r, n>>, row, log),
         MemoryOK', Frame(r), undisturbed' \subseteq undisturbed \cap {r}, InFlight(r),
         call[r].op \in {"create", "import"}, row.projectId = call[r].projectId,
         row.assigneeId = assignee[r], AssigneeStands(assignee[r]),
         At(r, "settled", "create") => n = 0 \/ pc'[r] # "ok",
         RequestOK(r)', RowsOK(r)', CurrentOK(r)'
  PROVE  GoodStep
  <1> USE DEF Frame
  <1>1. /\ <<r, n>> \in TicketIds /\ tickets'[<<r, n>>] = row /\ row # NULL
        /\ tickets' \in [TicketIds -> Ticket \cup {NULL}]
        /\ ticketLogs' \in [TicketIds -> Seq(AuditAction)]
        /\ \A t \in TicketIds \ {<<r, n>>} : tickets'[t] = tickets[t]
        /\ UNCHANGED <<activeProjects, users, attachments, attachmentLogs>>
    BY NullAssumption DEF InsertTicket, Inv, TypeOK, TicketIds, peopleVars, attachmentVars
  <1>2. TypeOK'
    BY <1>1 DEF Inv, TypeOK, MemoryOK
  <1>3. AssigneesExist'
    BY <1>1 DEF Inv, AssigneesExist, AssigneeStands
  <1>4. FiniteRows'
    <2>1. {t \in TicketIds : tickets'[t] # NULL} \subseteq {t \in TicketIds : tickets[t] # NULL} \cup {<<r, n>>}
      BY <1>1
    <2>2. IsFiniteSet({t \in TicketIds : tickets[t] # NULL} \cup {<<r, n>>})
      BY FS_AddElement DEF Inv, FiniteRows
    <2>3. IsFiniteSet({t \in TicketIds : tickets'[t] # NULL})
      BY <2>1, <2>2, FS_Subset
    <2> QED BY <2>3 DEF FiniteRows, TicketIds
  <1>5. ASSUME NEW q \in Requests \ {r}
        PROVE  RequestOK(q)' /\ RowsOK(q)' /\ CurrentOK(q)'
    <2>1. RequestOK(q) /\ RowsOK(q) /\ q \notin undisturbed'
      BY DEF Inv
    <2>2. /\ pc'[q] = pc[q] /\ call'[q] = call[q] /\ assignee'[q] = assignee[q]
          /\ result'[q] = result[q]
      OBVIOUS
    <2>3. RequestOK(q)'
      BY <1>1, <2>1, <2>2 DEF RequestOK, InFlight, Handled, Rows
    <2>4. PersistedRows(q)' = PersistedRows(q)
      <3>1. \A i \in 1..MaxRows : <<q, i>> \in TicketIds \ {<<r, n>>}
        BY NullAssumption DEF TicketIds
      <3> QED BY <1>1, <3>1 DEF PersistedRows
    <2>5. RowsOK(q)'
      BY <1>1, <2>1, <2>2, <2>4 DEF RowsOK, Handled
    <2> QED BY <2>1, <2>3, <2>5 DEF CurrentOK
  <1>6. ASSUME NEW q \in undisturbed PROVE FreshStep(q)
    <2>1. q \in Requests /\ InFlight(q) /\ CurrentOK(q)
      BY DEF Inv, TypeOK
    <2>2. CASE q # r
      <3>1. pc'[q] # "ok"
        BY <2>1, <2>2 DEF InFlight, Answers
      <3> QED BY <3>1 DEF FreshStep
    <2>3. CASE q = r
      <3> SUFFICES ASSUME At(r, "settled", "create"), pc'[r] = "ok", call[r].assigneeId = NULL
                   PROVE  FreshStep(r)
        BY <2>3 DEF FreshStep
      <3>1. n = 0 /\ tickets'[<<r, 0>>] = row
        BY <1>1
      <3>2. ChoiceHolds(r)
        BY <2>1, <2>3 DEF CurrentOK, At
      <3>3. CASE assignee[r] = NULL
        BY <3>1, <3>2, <3>3 DEF ChoiceHolds, Developers, FreshStep
      <3>4. CASE assignee[r] # NULL
        <4>1. assignee[r] \in LeastLoaded(row.projectId)
          BY <3>2, <3>4 DEF ChoiceHolds
        <4>2. users[assignee[r]] = "DEVELOPER"
          BY <4>1 DEF LeastLoaded, Developers
        <4> QED BY <3>1, <3>4, <4>1, <4>2, LeastLoadedRule DEF FreshStep
      <3> QED BY <3>3, <3>4
    <2> QED BY <2>2, <2>3
  <1>7. AttachmentStep
    BY <1>1 DEF AttachmentStep, states, AttachmentState
  <1> QED BY <1>2, <1>3, <1>4, <1>5, <1>6, <1>7 DEF GoodStep, Inv

\* The write of an attachment is good if it was there before, or is the request's
\* own and was not.
LEMMA WriteStep ==
  ASSUME Inv, NEW r \in Requests, NEW id \in AttachmentIds, NEW row \in TicketAttachment,
         NEW action \in {"CREATE", "DELETE"}, WriteAttachment(r, id, row, action),
         InFlight(r), call[r].op \in {"attach", "detach"},
         \/ id = r /\ attachments[id] = NULL /\ ~row.deleted /\ action = "CREATE"
         \/ attachments[id] # NULL /\ row.deleted /\ action = "DELETE"
  PROVE  GoodStep
  <1> USE DEF WriteAttachment
  <1>1. /\ attachments' \in [AttachmentIds -> TicketAttachment \cup {NULL}]
        /\ attachmentLogs' \in [AttachmentIds -> Seq(AuditAction)]
        /\ attachments'[id] # NULL
        /\ \A i \in AttachmentIds \ {id} : attachments'[i] = attachments[i]
        /\ UNCHANGED <<activeProjects, users, tickets, ticketLogs, result>>
    <2>1. attachmentLogs[id] \in Seq(AuditAction) /\ action \in AuditAction
      BY DEF Inv, TypeOK, AuditAction
    <2>2. Append(attachmentLogs[id], action) \in Seq(AuditAction)
      BY <2>1
    <2> QED BY <2>2, NullAssumption DEF Inv, TypeOK, peopleVars, ticketVars
  <1>2. MemoryOK' /\ Frame(r) /\ pc'[r] = "ok" /\ undisturbed' = {}
    BY <1>1 DEF Answer, Goto, MemoryOK, Frame, Inv, TypeOK, Locations, Answers
  <1>3. TypeOK' /\ AssigneesExist' /\ FiniteRows'
    BY <1>1, <1>2 DEF Inv, TypeOK, MemoryOK, AssigneesExist, FiniteRows
  <1>4. ASSUME NEW q \in Requests
        PROVE  RequestOK(q)' /\ RowsOK(q)' /\ CurrentOK(q)'
    <2>1. RequestOK(q) /\ RowsOK(q) /\ q \in AttachmentIds
      BY DEF Inv, AttachmentIds
    <2>2. PersistedRows(q)' = PersistedRows(q) /\ Handled(q)' = Handled(q)
      BY <1>1 DEF PersistedRows, Handled
    <2>3. CASE q = r
      BY <1>1, <1>2, <2>1, <2>2, <2>3 DEF RequestOK, RowsOK, CurrentOK, InFlight, Answers
    <2>4. CASE q # r
      <3>1. pc'[q] = pc[q] /\ call'[q] = call[q]
        BY <1>2, <2>4 DEF Frame
      <3>2. RequestOK(q)'
        <4>1. pc[q] = "attachmentFound" => call[q].id \in AttachmentIds
          BY <2>1, CallTypes DEF RequestOK, InFlight, Answers
        <4> QED BY <1>1, <2>1, <2>2, <3>1, <4>1 DEF RequestOK, InFlight, Rows
      <3>3. RowsOK(q)'
        BY <1>1, <2>1, <2>2, <2>4, <3>1 DEF RowsOK
      <3> QED BY <1>2, <3>2, <3>3 DEF CurrentOK
    <2> QED BY <2>3, <2>4
  <1>5. ASSUME NEW q \in undisturbed PROVE FreshStep(q)
    <2>1. q \in Requests /\ InFlight(q)
      BY DEF Inv, TypeOK
    <2>2. pc'[q] = "ok" => q = r
      BY <1>2, <2>1 DEF Frame, InFlight, Answers
    <2> QED BY <2>2 DEF FreshStep, At
  <1>6. AttachmentStep
    BY AttachmentWrite DEF Inv
  <1> QED BY <1>3, <1>4, <1>5, <1>6 DEF GoodStep, Inv

----------------------------------------------------------------------------
(* One lemma per action                                                    *)

\* An answer that commits nothing.
LEMMA LeaveIsGood ==
  ASSUME Inv, NEW r \in Requests, NEW outcome \in Answers, Leave(r, outcome), pc[r] # "ok",
         outcome = "ok" => call[r].op = "import"
  PROVE  GoodStep
  <1>1. /\ Frame(r) /\ UNCHANGED <<SharedVars, result>> /\ pc'[r] = outcome
        /\ undisturbed' = undisturbed \ {r}
        /\ MemoryOK'
    <2>1. /\ Frame(r) /\ UNCHANGED <<SharedVars, result>> /\ pc'[r] = outcome
          /\ undisturbed' = undisturbed \ {r}
      BY DEF Leave, Answer, Goto, Frame, SharedVars, peopleVars, ticketVars, attachmentVars,
             Inv, TypeOK
    <2>2. /\ pc' \in [Requests -> Locations] /\ call' \in [Requests -> Calls \cup {NULL}]
          /\ assignee' \in [Requests -> Users \cup {NULL}]
      BY DEF Leave, Answer, Goto, Locations, Inv, TypeOK
    <2>3. undisturbed' \subseteq {q \in Requests : InFlight(q)'}
      BY <2>1 DEF Frame, InFlight, Inv, TypeOK
    <2> QED BY <2>1, <2>2, <2>3 DEF MemoryOK, Inv, TypeOK
  <1>2. RequestOK(r)' /\ CurrentOK(r)' /\ Handled(r)' = Handled(r)
    BY <1>1 DEF RequestOK, CurrentOK, Handled, InFlight, Answers
  <1>3. Handled(r) <= Handled(r)'
    BY <1>2, HandledNat DEF Inv
  <1> QED BY <1>1, <1>2, <1>3, QuietStep DEF Answers

\* A request begins with what it has checked.
LEMMA BeginIsGood ==
  ASSUME Inv, NEW r \in Requests, NEW c \in Calls, NEW location \in {"found", "row"},
         Begin(r, c, location), pc[r] = "idle",
         location = "row" <=> c.op = "import"
  PROVE  GoodStep
  <1>1. /\ Frame(r) /\ UNCHANGED <<SharedVars, result, assignee>> /\ pc'[r] = location
        /\ call'[r] = c /\ undisturbed' = undisturbed \cup {r}
    BY DEF Begin, Goto, Frame, SharedVars, peopleVars, ticketVars, attachmentVars, Inv, TypeOK
  <1>2. MemoryOK'
    <2>1. pc' \in [Requests -> Locations] /\ call' \in [Requests -> Calls \cup {NULL}]
      BY DEF Begin, Goto, Locations, Inv, TypeOK
    <2>2. undisturbed' \subseteq {q \in Requests : InFlight(q)'}
      BY <1>1 DEF Frame, InFlight, Inv, TypeOK, Answers
    <2> QED BY <1>1, <2>1, <2>2 DEF MemoryOK, Inv, TypeOK
  <1>3. RequestOK(r) /\ c.op \in {"create", "import", "attach", "detach"}
    BY CallTypes DEF Inv
  <1>4. location = "row" => Len(c.file.rows) \in Nat
    BY <1>3, CallTypes, FileRows, LenProperties
  <1>5. RequestOK(r)' /\ Handled(r)' = Handled(r)
    <2>1. Handled(r) = 0
      BY <1>3 DEF RequestOK, Handled
    <2>2. Handled(r)' = 0
      BY <1>1, <2>1 DEF Handled
    <2>3. pc'[r] = "row" => Handled(r)' <= Len(Rows(r))'
      BY <1>1, <1>4, <2>2 DEF Rows
    <2> QED BY <1>1, <1>3, <2>1, <2>2, <2>3 DEF RequestOK
  <1>6. CurrentOK(r)'
    BY <1>1 DEF CurrentOK, SharedVars
  <1>7. Handled(r) <= Handled(r)'
    BY <1>5, HandledNat DEF Inv
  <1> QED BY <1>1, <1>2, <1>5, <1>6, <1>7, QuietStep

\* A request goes on with an assignee.
LEMMA SettleIsGood ==
  ASSUME Inv, NEW r \in Requests, InFlight(r),
         NEW location \in {"checked", "settled", "resolved", "attachmentFound"},
         NEW user \in Users \cup {NULL}, Settle(r, location, user),
         location \in {"checked", "settled"} => call[r].op = "create",
         location = "resolved" => call[r].op = "import" /\ Handled(r) < Len(Rows(r)),
         location = "attachmentFound" => call[r].op = "detach" /\ attachments[call[r].id] # NULL,
         location = "settled" /\ call[r].assigneeId = NULL =>
           IF user = NULL THEN Developers = {} ELSE user \in LeastLoaded(call[r].projectId)
  PROVE  GoodStep
  <1>1. /\ Frame(r) /\ UNCHANGED <<SharedVars, result, call, undisturbed>> /\ pc'[r] = location
        /\ assignee'[r] = user
    BY DEF Settle, Goto, Frame, SharedVars, peopleVars, ticketVars, attachmentVars, Inv, TypeOK
  <1>2. MemoryOK'
    <2>1. pc' \in [Requests -> Locations] /\ assignee' \in [Requests -> Users \cup {NULL}]
      BY DEF Settle, Goto, Locations, Inv, TypeOK
    <2>2. undisturbed' \subseteq {q \in Requests : InFlight(q)'}
      BY <1>1 DEF Frame, InFlight, Inv, TypeOK, Answers
    <2> QED BY <1>1, <2>1, <2>2 DEF MemoryOK, Inv, TypeOK
  <1>3. RequestOK(r) /\ CurrentOK(r) /\ pc[r] # "ok"
    BY DEF Inv, InFlight, Answers
  <1>4. Handled(r)' = Handled(r) /\ Rows(r)' = Rows(r)
    BY <1>1 DEF Handled, Rows
  <1>5. RequestOK(r)'
    BY <1>1, <1>3, <1>4 DEF RequestOK, InFlight, SharedVars
  <1>6. CurrentOK(r)'
    <2>1. Developers' = Developers /\ \A p : LeastLoaded(p)' = LeastLoaded(p)
      BY <1>1, ChoiceUnchanged DEF SharedVars
    <2> QED BY <1>1, <1>3, <2>1 DEF CurrentOK, ChoiceHolds, SharedVars
  <1>7. Handled(r) <= Handled(r)'
    BY <1>4, HandledNat DEF Inv
  <1> QED BY <1>1, <1>2, <1>3, <1>5, <1>6, <1>7, QuietStep

\* A row that fails is counted as failed.
LEMMA RowFailsIsGood ==
  ASSUME Inv, NEW r \in Requests, RowFails(r), pc[r] \in {"row", "resolved"},
         Handled(r) < Len(Rows(r))
  PROVE  GoodStep
  <1>1. /\ Frame(r) /\ UNCHANGED <<SharedVars, call, assignee, undisturbed>> /\ pc'[r] = "row"
        /\ result'[r].created = result[r].created /\ result'[r].failed = result[r].failed + 1
        /\ result' \in [Requests -> [created : Nat, failed : Nat]]
    BY DEF RowFails, Goto, Frame, SharedVars, peopleVars, ticketVars, attachmentVars, Inv, TypeOK
  <1>2. MemoryOK'
    <2>1. pc' \in [Requests -> Locations]
      BY DEF RowFails, Goto, Locations, Inv, TypeOK
    <2>2. undisturbed' \subseteq {q \in Requests : InFlight(q)'}
      BY <1>1 DEF Frame, InFlight, Inv, TypeOK, Answers
    <2> QED BY <1>1, <2>1, <2>2 DEF MemoryOK, Inv, TypeOK
  <1>3. RequestOK(r) /\ CurrentOK(r) /\ call[r].op = "import" /\ call[r] \in Calls
    BY DEF Inv, RequestOK, InFlight, Answers
  <1>4. result[r].created \in Nat /\ result[r].failed \in Nat /\ Handled(r) \in Nat
    BY HandledNat DEF Inv
  <1>5. Handled(r)' = Handled(r) + 1 /\ Rows(r)' = Rows(r)
    BY <1>1, <1>4 DEF Handled, Rows
  <1>6. Len(Rows(r)) \in Nat
    BY <1>3, CallTypes, FileRows, LenProperties DEF Rows
  <1>7. Handled(r)' <= Len(Rows(r))' /\ Handled(r) <= Handled(r)'
    BY <1>4, <1>5, <1>6
  <1>8. RequestOK(r)'
    BY <1>1, <1>3, <1>7 DEF RequestOK
  <1>9. CurrentOK(r)'
    BY <1>1, <1>3 DEF CurrentOK, SharedVars
  <1> QED BY <1>1, <1>2, <1>7, <1>8, <1>9, QuietStep

\* What a request finds when it arrives.
LEMMA ArriveIsGood ==
  ASSUME Inv, NEW r \in Requests, Arrive(r)
  PROVE  GoodStep
  <1>1. PICK c \in Calls : BeginCreate(r, c) \/ BeginImport(r, c) \/ BeginAttachment(r, c)
    BY DEF Arrive
  <1>2. pc[r] = "idle"
    BY DEF Arrive
  <1>3. CASE Reject(r)
    BY <1>2, <1>3, LeaveIsGood DEF Reject, Answers
  <1>4. CASE BeginCreate(r, c) /\ ~Reject(r)
    BY <1>2, <1>4, BeginIsGood DEF BeginCreate
  <1>5. CASE BeginAttachment(r, c) /\ ~Reject(r)
    BY <1>2, <1>5, BeginIsGood DEF BeginAttachment
  <1>6. CASE BeginImport(r, c) /\ ~Reject(r)
    <2>1. CASE Begin(r, c, "row")
      BY <1>2, <1>6, <2>1, BeginIsGood DEF BeginImport
    <2>2. CASE /\ result' = [result EXCEPT ![r].failed = 1]
               /\ Goto(r, "ok")
               /\ UNCHANGED <<peopleVars, ticketVars, attachmentVars, call, assignee, undisturbed>>
      <3>1. /\ Frame(r) /\ UNCHANGED <<SharedVars, call, assignee, undisturbed>> /\ pc'[r] = "ok"
            /\ result'[r].created = result[r].created /\ result'[r].failed = 1
            /\ result' \in [Requests -> [created : Nat, failed : Nat]]
        BY <2>2 DEF Goto, Frame, SharedVars, peopleVars, ticketVars, attachmentVars, Inv, TypeOK
      <3>2. r \notin undisturbed
        BY <1>2 DEF Inv, TypeOK, InFlight
      <3>3. MemoryOK'
        <4>1. pc' \in [Requests -> Locations]
          BY <2>2 DEF Goto, Locations, Answers, Inv, TypeOK
        <4>2. undisturbed' \subseteq {q \in Requests : InFlight(q)'}
          BY <3>1, <3>2 DEF Frame, InFlight, Inv, TypeOK, Answers
        <4> QED BY <3>1, <4>1, <4>2 DEF MemoryOK, Inv, TypeOK
      <3>4. RequestOK(r)' /\ CurrentOK(r)'
        BY <3>1, <3>2 DEF RequestOK, CurrentOK, InFlight, Answers
      <3>5. Handled(r) <= Handled(r)'
        <4>1. result[r].created = 0 /\ result[r].failed = 0
          BY <1>2 DEF Inv, RequestOK
        <4> QED BY <3>1, <4>1 DEF Handled
      <3> QED BY <1>2, <3>1, <3>2, <3>3, <3>4, <3>5, QuietStep
    <2> QED BY <1>6, <2>1, <2>2 DEF BeginImport
  <1> QED BY <1>1, <1>3, <1>4, <1>5, <1>6

\* The steps of a creation: whoever is settled on exists or was least loaded.
LEMMA CreateIsGood ==
  ASSUME Inv, NEW r \in Requests,
         FindAssignee(r) \/ CheckProject(r) \/ ReadWorkload(r) \/ CommitCreate(r)
  PROVE  GoodStep
  <1>1. /\ InFlight(r) /\ pc[r] # "ok" /\ call[r].op = "create" /\ call[r] \in Calls
        /\ call[r].projectId \in Projects /\ call[r].open \in BOOLEAN
        /\ call[r].assigneeId \in Users \cup {NULL}
    <2>1. InFlight(r) /\ pc[r] # "ok" /\ call[r].op = "create"
      BY DEF FindAssignee, CheckProject, ReadWorkload, CommitCreate, At, InFlight, Answers
    <2>2. call[r] \in Calls
      BY <2>1 DEF Inv, RequestOK
    <2> QED BY <2>1, <2>2, CallTypes
  <1>2. CASE Reject(r)
    BY <1>1, <1>2, LeaveIsGood DEF Reject, Answers
  <1>3. CASE FindAssignee(r) /\ ~Reject(r)
    BY <1>1, <1>3, SettleIsGood DEF FindAssignee
  <1>4. CASE CheckProject(r) /\ ~Reject(r)
    BY <1>1, <1>4, SettleIsGood DEF CheckProject
  <1>5. CASE ReadWorkload(r)
    <2>1. ASSUME NEW u \in LeastLoaded(call[r].projectId), Settle(r, "settled", u) PROVE GoodStep
      <3>1. u \in Users /\ u # NULL
        BY NullAssumption DEF LeastLoaded, Developers
      <3> QED BY <1>1, <2>1, <3>1, SettleIsGood
    <2>2. CASE Developers = {} /\ Settle(r, "settled", NULL)
      BY <1>1, <2>2, SettleIsGood
    <2> QED BY <1>5, <2>1, <2>2 DEF ReadWorkload
  <1>6. CASE CommitCreate(r) /\ ~Reject(r)
    <2> DEFINE c      == call[r]
               ticket == [projectId |-> c.projectId, assigneeId |-> assignee[r],
                          open |-> c.open, deleted |-> FALSE]
               log    == IF c.assigneeId = NULL /\ assignee[r] # NULL
                         THEN <<"CREATE", "AUTO_ASSIGN">> ELSE <<"CREATE">>
    <2>1. /\ AssigneeStands(assignee[r]) /\ InsertTicket(<<r, 0>>, ticket, log)
          /\ Answer(r, "ok") /\ undisturbed' = {} /\ UNCHANGED result
          /\ At(r, "settled", "create")
      BY <1>6 DEF CommitCreate
    <2>2. ticket \in Ticket /\ log \in Seq(AuditAction)
      <3>1. "CREATE" \in AuditAction /\ "AUTO_ASSIGN" \in AuditAction
        BY DEF AuditAction
      <3>2. assignee[r] \in Users \cup {NULL}
        BY DEF Inv, TypeOK
      <3> QED BY <1>1, <3>1, <3>2 DEF Ticket
    <2>3. MemoryOK' /\ Frame(r) /\ pc'[r] = "ok"
      BY <2>1 DEF Answer, Goto, MemoryOK, Frame, Inv, TypeOK, Locations, Answers
    <2>4. RequestOK(r)' /\ CurrentOK(r)'
      BY <2>1, <2>3 DEF RequestOK, CurrentOK, InFlight, Answers
    <2>5. RowsOK(r)'
      <3>1. \A i \in 1..MaxRows : tickets'[<<r, i>>] = tickets[<<r, i>>]
        BY <2>1, NullAssumption DEF InsertTicket, Inv, TypeOK, TicketIds
      <3>2. PersistedRows(r)' = PersistedRows(r) /\ Handled(r)' = Handled(r)
        BY <2>1, <3>1 DEF PersistedRows, Handled
      <3> QED BY <2>1, <2>3, <3>2 DEF RowsOK, Inv
    <2>6. 0 \in 0..MaxRows
      BY NullAssumption
    <2> HIDE DEF log
    <2> QED BY <1>1, <2>1, <2>2, <2>3, <2>4, <2>5, <2>6, InsertStep
  <1> QED BY <1>2, <1>3, <1>4, <1>5, <1>6 DEF FindAssignee, CheckProject, CommitCreate

\* A row of an import that is committed, however it is counted.
LEMMA CommitRowIsGood ==
  ASSUME Inv, NEW r \in Requests, CommitRow(r, 1, 0) \/ CommitRow(r, 0, 1)
  PROVE  GoodStep
  <1> DEFINE n   == Handled(r) + 1
             row == [projectId |-> call[r].projectId, assigneeId |-> assignee[r],
                     open |-> Rows(r)[n].open, deleted |-> FALSE]
  <1>1. PICK created \in {0, 1}, failed \in {0, 1} :
           /\ created + failed = 1
           /\ At(r, "resolved", "import") /\ AssigneeStands(assignee[r])
           /\ InsertTicket(<<r, n>>, row, <<"CREATE">>)
           /\ Goto(r, "row")
           /\ result' = [result EXCEPT ![r].created = @ + created, ![r].failed = @ + failed]
           /\ undisturbed' = undisturbed \cap {r}
           /\ UNCHANGED <<call, assignee>>
    <2>1. CASE CommitRow(r, 1, 0)
      BY <2>1 DEF CommitRow
    <2>2. CASE CommitRow(r, 0, 1)
      BY <2>2 DEF CommitRow
    <2> QED BY <2>1, <2>2
  <1>2. InFlight(r) /\ pc[r] = "resolved" /\ call[r].op = "import" /\ Handled(r) < Len(Rows(r))
    BY <1>1 DEF At, InFlight, Answers, Inv, RequestOK
  <1>3. /\ n \in 1..MaxRows /\ <<r, n>> \in TicketIds /\ call[r] \in Calls
        /\ Rows(r)[n] \in TicketImportCsvRow
    BY <1>2, NextRow DEF Inv
  <1>4. /\ result[r].created \in Nat /\ result[r].failed \in Nat /\ Handled(r) \in Nat
        /\ MaxRows \in Nat
    BY HandledNat DEF Inv
  <1>5. row \in Ticket
    BY <1>2, <1>3, CallTypes DEF Ticket, TicketImportCsvRow, Inv, TypeOK
  <1>6. <<"CREATE">> \in Seq(AuditAction)
    BY DEF AuditAction
  <1>7. /\ result'[r].created = result[r].created + created
        /\ result'[r].failed = result[r].failed + failed
        /\ result' \in [Requests -> [created : Nat, failed : Nat]]
        /\ pc'[r] = "row" /\ Frame(r)
    <2>1. pc'[r] = "row" /\ pc' = [pc EXCEPT ![r] = "row"]
      BY <1>1 DEF Goto, Inv, TypeOK
    <2>2. /\ result \in [Requests -> [created : Nat, failed : Nat]]
          /\ result[r].created + created \in Nat /\ result[r].failed + failed \in Nat
      BY <1>4 DEF Inv, TypeOK
    <2> DEFINE counted == [result EXCEPT ![r].created = @ + created]
    <2>3. /\ counted \in [Requests -> [created : Nat, failed : Nat]]
          /\ counted[r].created = result[r].created + created
          /\ counted[r].failed = result[r].failed
          /\ \A q \in Requests \ {r} : counted[q] = result[q]
      BY <2>2
    <2>6. result' = [counted EXCEPT ![r].failed = @ + failed]
      BY <1>1, Zenon
    <2> HIDE DEF counted
    <2>7. /\ result' \in [Requests -> [created : Nat, failed : Nat]]
          /\ result'[r].created = result[r].created + created
          /\ result'[r].failed = result[r].failed + failed
          /\ \A q \in Requests \ {r} : result'[q] = result[q]
      BY <2>2, <2>3, <2>6
    <2>4. \A q \in Requests \ {r} : result'[q] = result[q] /\ pc'[q] = pc[q]
      BY <2>1, <2>7
    <2>5. Frame(r)
      BY <1>1, <2>4 DEF Frame
    <2> QED BY <2>1, <2>5, <2>7
  <1>8. MemoryOK'
    <2>1. pc' \in [Requests -> Locations]
      BY <1>1 DEF Goto, Locations, Inv, TypeOK
    <2>2. undisturbed' \subseteq {q \in Requests : InFlight(q)'}
      BY <1>1, <1>7 DEF InFlight, Answers
    <2> QED BY <1>1, <1>7, <2>1, <2>2 DEF MemoryOK, Inv, TypeOK
  <1>9. Handled(r)' = n /\ Rows(r)' = Rows(r)
    BY <1>1, <1>4, <1>7 DEF Handled, Rows
  <1>10. RequestOK(r)'
    <2>1. Len(Rows(r)) \in Nat
      BY <1>2, <1>3, CallTypes, FileRows, LenProperties DEF Rows
    <2>2. Handled(r)' <= Len(Rows(r))'
      BY <1>2, <1>4, <1>9, <2>1
    <2> QED BY <1>1, <1>2, <1>3, <1>7, <2>2 DEF RequestOK
  <1>11. RowsOK(r)'
    <2>1. RowsOK(r) /\ attachments'[r] = attachments[r] /\ pc[r] # "ok"
      BY <1>1, <1>2 DEF Inv, InsertTicket, attachmentVars
    <2>2. \A i \in 1..MaxRows : <<r, i>> \in TicketIds
      BY <1>4 DEF TicketIds
    <2>3. row # NULL
      BY <1>5, NullAssumption
    <2>4. PersistedRows(r)' = PersistedRows(r) \cup {n}
      <3> HIDE DEF row, n
      <3>1. /\ tickets'[<<r, n>>] = row
            /\ \A t \in TicketIds \ {<<r, n>>} : tickets'[t] = tickets[t]
        BY <1>1, <1>3 DEF InsertTicket, Inv, TypeOK
      <3> QED BY <1>3, <2>2, <2>3, <3>1 DEF PersistedRows
    <2>5. \A i \in PersistedRows(r) : i \in Nat /\ i <= Handled(r)
      BY <1>4, <2>1 DEF RowsOK, PersistedRows
    <2>6. n \notin PersistedRows(r)
      BY <1>4, <2>5
    <2>7. Cardinality(PersistedRows(r)') = Cardinality(PersistedRows(r)) + 1
      BY <2>4, <2>6, PersistedFinite, FS_AddElement
    <2>8. result'[r].created <= Cardinality(PersistedRows(r)')
      <3>1. Cardinality(PersistedRows(r)) \in Nat /\ result[r].created <= Cardinality(PersistedRows(r))
        BY <2>1, PersistedFinite DEF RowsOK
      <3> QED BY <1>4, <1>7, <2>7, <3>1
    <2>9. \A i \in PersistedRows(r)' : i <= Handled(r)'
      BY <1>4, <1>9, <2>4, <2>5
    <2> QED BY <2>1, <2>8, <2>9 DEF RowsOK
  <1>12. CurrentOK(r)'
    BY <1>7 DEF CurrentOK
  <1>13. n \in 0..MaxRows /\ ~At(r, "settled", "create")
    BY <1>2, <1>3, <1>4 DEF At
  <1>14. /\ row.projectId = call[r].projectId /\ row.assigneeId = assignee[r]
         /\ undisturbed' \subseteq undisturbed \cap {r} /\ call[r].op \in {"create", "import"}
    BY <1>1, <1>2
  <1> HIDE DEF row, n
  <1> QED BY <1>1, <1>2, <1>5, <1>6, <1>7, <1>8, <1>10, <1>11, <1>12, <1>13, <1>14, InsertStep

\* The steps of an import.
LEMMA ImportIsGood ==
  ASSUME Inv, NEW r \in Requests,
         ResolveRow(r) \/ PersistRow(r) \/ LoseRow(r) \/ FinishImport(r)
  PROVE  GoodStep
  <1>1. RequestOK(r)
    BY DEF Inv
  <1>2. CASE ResolveRow(r)
    <2>1. /\ pc[r] = "row" /\ call[r].op = "import" /\ InFlight(r)
          /\ Handled(r) < Len(Rows(r))
      BY <1>2 DEF ResolveRow, At, InFlight, Answers
    <2>2. CASE RowFails(r)
      BY <2>1, <2>2, RowFailsIsGood
    <2>3. CASE ~RowFails(r)
      <3> DEFINE user == Rows(r)[Handled(r) + 1].assigneeId
      <3>1. Settle(r, "resolved", user)
        BY <1>2, <2>3 DEF ResolveRow
      <3>2. user \in Users \cup {NULL}
        BY <1>1, <2>1, NextRow DEF TicketImportCsvRow, Inv
      <3> HIDE DEF user
      <3> QED BY <2>1, <3>1, <3>2, SettleIsGood
    <2> QED BY <2>2, <2>3
  <1>3. CASE PersistRow(r) \/ LoseRow(r)
    <2>1. pc[r] = "resolved" /\ Handled(r) < Len(Rows(r))
      BY <1>1, <1>3 DEF PersistRow, LoseRow, CommitRow, At, RequestOK
    <2> QED BY <1>3, <2>1, CommitRowIsGood, RowFailsIsGood DEF PersistRow, LoseRow
  <1>4. CASE FinishImport(r)
    BY <1>4, LeaveIsGood DEF FinishImport, At, Answers
  <1> QED BY <1>2, <1>3, <1>4

\* The steps of an upload and of its removal.
LEMMA AttachmentIsGood ==
  ASSUME Inv, NEW r \in Requests, CommitAttach(r) \/ FindAttachment(r) \/ CommitDetach(r)
  PROVE  GoodStep
  <1>1. /\ InFlight(r) /\ pc[r] # "ok" /\ call[r].op \in {"attach", "detach"} /\ call[r] \in Calls
        /\ RequestOK(r) /\ RowsOK(r)
    BY DEF CommitAttach, FindAttachment, CommitDetach, At, InFlight, Answers, Inv, RequestOK
  <1>2. CASE CommitAttach(r)
    <2>1. [ticketId |-> call[r].ticketId, deleted |-> FALSE] \in TicketAttachment
      BY <1>1, CallTypes DEF TicketAttachment
    <2>2. r \in AttachmentIds /\ attachments[r] = NULL
      BY <1>1 DEF AttachmentIds, RowsOK
    <2> QED BY <1>1, <1>2, <2>1, <2>2, WriteStep DEF CommitAttach
  <1>3. CASE FindAttachment(r)
    <2>1. CASE Reject(r)
      BY <1>1, <2>1, LeaveIsGood DEF Reject, Answers
    <2>2. CASE ~Reject(r)
      BY <1>1, <1>3, <2>2, SettleIsGood DEF FindAttachment, At
    <2> QED BY <2>1, <2>2
  <1>4. CASE CommitDetach(r)
    <2> DEFINE id  == call[r].id
               row == [attachments[id] EXCEPT !.deleted = TRUE]
    <2>1. pc[r] = "attachmentFound" /\ call[r].op = "detach" /\ WriteAttachment(r, id, row, "DELETE")
      BY <1>4 DEF CommitDetach, At
    <2>2. id \in AttachmentIds /\ attachments[id] # NULL
      BY <1>1, <2>1, CallTypes DEF RequestOK
    <2>3. attachments[id] \in TicketAttachment
      BY <2>2 DEF Inv, TypeOK
    <2>4. row \in TicketAttachment /\ row.deleted
      BY <2>3 DEF TicketAttachment
    <2> HIDE DEF row
    <2> QED BY <1>1, <2>1, <2>2, <2>4, WriteStep
  <1> QED BY <1>2, <1>3, <1>4

\* A restart cuts every request off and commits nothing.
LEMMA RestartIsGood ==
  ASSUME Inv, Restart
  PROVE  GoodStep
  <1>1. /\ pc' = [r \in Requests |-> IF InFlight(r) THEN "rejected" ELSE pc[r]]
        /\ call' = [r \in Requests |-> NULL] /\ assignee' = [r \in Requests |-> NULL]
        /\ undisturbed' = {} /\ UNCHANGED <<SharedVars, result>>
    BY DEF Restart, SharedVars, peopleVars, ticketVars, attachmentVars
  <1>2. \A r \in Requests : /\ pc'[r] \in {"idle"} \cup Answers
                            /\ pc'[r] = "ok" <=> pc[r] = "ok"
                            /\ pc'[r] = "idle" <=> pc[r] = "idle"
    BY <1>1 DEF InFlight, Answers
  <1>3. TypeOK'
    <2>1. pc' \in [Requests -> Locations]
      BY <1>1, <1>2 DEF Locations
    <2> QED BY <1>1, <2>1 DEF Inv, TypeOK, SharedVars
  <1>4. AssigneesExist' /\ FiniteRows'
    BY <1>1 DEF Inv, AssigneesExist, FiniteRows, SharedVars
  <1>5. \A r \in Requests : RequestOK(r)' /\ CurrentOK(r)'
    BY <1>1, <1>2 DEF Inv, RequestOK, CurrentOK, InFlight, Answers
  <1>6. ASSUME NEW r \in Requests PROVE RowsOK(r)'
    <2>1. RowsOK(r) /\ PersistedRows(r)' = PersistedRows(r) /\ Handled(r)' = Handled(r)
      BY <1>1 DEF Inv, PersistedRows, Handled, SharedVars
    <2> QED BY <1>1, <1>2, <2>1 DEF RowsOK, SharedVars
  <1>7. \A r \in undisturbed : FreshStep(r)
    <2>1. \A r \in undisturbed : pc'[r] # "ok"
      BY <1>2 DEF Inv, TypeOK, InFlight, Answers
    <2> QED BY <2>1 DEF FreshStep
  <1>8. AttachmentStep
    BY <1>1 DEF AttachmentStep, states, AttachmentState, SharedVars
  <1> QED BY <1>3, <1>4, <1>5, <1>6, <1>7, <1>8 DEF GoodStep, Inv

\* What the rest of the service commits keeps the foreign keys, and disturbs all.
LEMMA InterfereIsGood ==
  ASSUME Inv, NEW o \in Others, Interfere(o)
  PROVE  GoodStep
  <1>1. /\ undisturbed' = {}
        /\ UNCHANGED <<ticketLogs, attachments, attachmentLogs, pc, call, assignee, result>>
    BY DEF Interfere, attachmentVars
  <1>2. o \in Other
    BY InputsAssumption
  <1>3. /\ activeProjects' \subseteq Projects
        /\ users' \in [Users -> UserRole \cup {NULL}]
        /\ tickets' \in [TicketIds -> Ticket \cup {NULL}]
        /\ \A t \in TicketIds : tickets'[t] = NULL <=> tickets[t] = NULL
        /\ AssigneesExist'
    <2> USE DEF Inv, TypeOK
    <2>1. CASE InterfereWithTicket(o)
      <3>1. /\ o.id \in TicketIds /\ tickets[o.id] \in Ticket /\ UNCHANGED <<activeProjects, users>>
        BY <1>2, <2>1 DEF Other, InterfereWithTicket, peopleVars
      <3>2. PICK row \in Ticket : /\ tickets' = [tickets EXCEPT ![o.id] = row]
                                  /\ row.assigneeId = tickets[o.id].assigneeId
                                     \/ AssigneeStands(row.assigneeId)
        <4> DEFINE ticket == tickets[o.id]
        <4>1. CASE o.op = "status" /\ tickets' = [tickets EXCEPT ![o.id].open = o.open]
          <5>1. o.open \in BOOLEAN
            BY <1>2, <4>1 DEF Other
          <5>2. [ticket EXCEPT !.open = o.open] \in Ticket
                /\ [ticket EXCEPT !.open = o.open].assigneeId = ticket.assigneeId
            BY <3>1, <5>1 DEF Ticket
          <5>3. tickets' = [tickets EXCEPT ![o.id] = [ticket EXCEPT !.open = o.open]]
            BY <4>1
          <5> QED BY <5>2, <5>3
        <4>2. CASE o.op = "deletion" /\ tickets' = [tickets EXCEPT ![o.id].deleted = o.deleted]
          <5>1. o.deleted \in BOOLEAN
            BY <1>2, <4>2 DEF Other
          <5>2. [ticket EXCEPT !.deleted = o.deleted] \in Ticket
                /\ [ticket EXCEPT !.deleted = o.deleted].assigneeId = ticket.assigneeId
            BY <3>1, <5>1 DEF Ticket
          <5>3. tickets' = [tickets EXCEPT ![o.id] = [ticket EXCEPT !.deleted = o.deleted]]
            BY <4>2
          <5> QED BY <5>2, <5>3
        <4>3. CASE /\ o.op = "assignee" /\ AssigneeStands(o.assigneeId)
                   /\ tickets' = [tickets EXCEPT ![o.id].assigneeId = o.assigneeId]
          <5>1. o.assigneeId \in Users
            BY <1>2, <4>3 DEF Other
          <5>2. [ticket EXCEPT !.assigneeId = o.assigneeId] \in Ticket
                /\ [ticket EXCEPT !.assigneeId = o.assigneeId].assigneeId = o.assigneeId
            BY <3>1, <5>1 DEF Ticket
          <5>3. tickets' = [tickets EXCEPT ![o.id] = [ticket EXCEPT !.assigneeId = o.assigneeId]]
            BY <4>3
          <5> QED BY <4>3, <5>2, <5>3
        <4> QED BY <2>1, <4>1, <4>2, <4>3 DEF InterfereWithTicket
      <3>3. row # NULL /\ tickets[o.id] # NULL
        BY <3>1, NullAssumption
      <3>4. tickets'[o.id] = row /\ \A t \in TicketIds \ {o.id} : tickets'[t] = tickets[t]
        BY <3>1, <3>2
      <3>5. AssigneesExist'
        <4> SUFFICES ASSUME NEW t \in TicketIds, tickets'[t] # NULL, tickets'[t].assigneeId # NULL
                     PROVE  users'[tickets'[t].assigneeId] # NULL
          BY DEF AssigneesExist, TicketIds
        <4>1. CASE t # o.id
          BY <3>1, <3>4, <4>1 DEF AssigneesExist
        <4>2. CASE t = o.id /\ AssigneeStands(row.assigneeId)
          BY <3>1, <3>4, <4>2 DEF AssigneeStands
        <4>3. CASE t = o.id /\ row.assigneeId = tickets[o.id].assigneeId
          BY <3>1, <3>3, <3>4, <4>3 DEF AssigneesExist
        <4> QED BY <3>2, <4>1, <4>2, <4>3
      <3>6. tickets' \in [TicketIds -> Ticket \cup {NULL}]
        BY <3>2
      <3> QED BY <3>1, <3>3, <3>4, <3>5, <3>6
    <2>2. CASE InterfereWithProject(o)
      BY <1>2, <2>2 DEF Other, InterfereWithProject, AssigneesExist
    <2>3. CASE InterfereWithUser(o)
      <3>1. o.id \in Users /\ UNCHANGED <<activeProjects, tickets>>
        BY <1>2, <2>3 DEF Other, InterfereWithUser
      <3>2. CASE o.op = "role" /\ users' = [users EXCEPT ![o.id] = o.role]
        <4>1. o.role \in UserRole /\ o.role # NULL
          BY <1>2, <3>2, NullAssumption DEF Other
        <4> QED BY <3>1, <3>2, <4>1 DEF AssigneesExist, Ticket
      <3>3. CASE /\ o.op = "removeUser"
                 /\ \A t \in TicketIds : tickets[t] # NULL => tickets[t].assigneeId # o.id
                 /\ users' = [users EXCEPT ![o.id] = NULL]
        BY <3>1, <3>3 DEF AssigneesExist, Ticket
      <3> QED BY <2>3, <3>2, <3>3 DEF InterfereWithUser
    <2> QED BY <2>1, <2>2, <2>3 DEF Interfere
  <1>4. TypeOK'
    BY <1>1, <1>3 DEF Inv, TypeOK
  <1>5. FiniteRows'
    <2>1. {t \in TicketIds : tickets'[t] # NULL} = {t \in TicketIds : tickets[t] # NULL}
      BY <1>3
    <2> QED BY <2>1 DEF Inv, FiniteRows, TicketIds
  <1>6. ASSUME NEW q \in Requests PROVE RequestOK(q)' /\ RowsOK(q)' /\ CurrentOK(q)'
    <2>1. \A i \in 1..MaxRows : <<q, i>> \in TicketIds
      BY NullAssumption DEF TicketIds
    <2>2. PersistedRows(q)' = PersistedRows(q) /\ Handled(q)' = Handled(q) /\ Rows(q)' = Rows(q)
      BY <1>1, <1>3, <2>1 DEF PersistedRows, Handled, Rows
    <2>3. RequestOK(q)'
      BY <1>1, <2>2 DEF Inv, RequestOK, InFlight
    <2>4. RowsOK(q)'
      BY <1>1, <2>2 DEF Inv, RowsOK
    <2> QED BY <1>1, <2>3, <2>4 DEF CurrentOK
  <1>7. ASSUME NEW q \in undisturbed PROVE FreshStep(q)
    <2>1. q \in Requests /\ pc'[q] # "ok"
      BY <1>1 DEF Inv, TypeOK, InFlight, Answers
    <2> QED BY <2>1 DEF FreshStep
  <1>8. AttachmentStep
    BY <1>1 DEF AttachmentStep, states, AttachmentState
  <1> QED BY <1>4, <1>3, <1>5, <1>6, <1>7, <1>8 DEF GoodStep, Inv

\* So every step is good.
LEMMA EveryStepIsGood == Inv /\ [Next]_vars => GoodStep
  <1> SUFFICES ASSUME Inv, [Next]_vars PROVE GoodStep
    OBVIOUS
  <1>1. ASSUME NEW r \in Requests, Arrive(r) \/ Proceed(r) \/ LoseRow(r) \/ Fail(r)
        PROVE  GoodStep
    <2>1. CASE Fail(r)
      BY <2>1, LeaveIsGood DEF Fail, Reject, InFlight, Answers
    <2> QED BY <1>1, <2>1, ArriveIsGood, CreateIsGood, ImportIsGood, AttachmentIsGood DEF Proceed
  <1>2. CASE UNCHANGED vars
    <2>1. Inv'
      <3>1. /\ TypeOK' /\ AssigneesExist' /\ FiniteRows'
        BY <1>2 DEF vars, Inv, TypeOK, AssigneesExist, FiniteRows, InFlight
      <3>2. ASSUME NEW q \in Requests PROVE RequestOK(q)' /\ RowsOK(q)' /\ CurrentOK(q)'
        <4>1. /\ PersistedRows(q)' = PersistedRows(q) /\ Handled(q)' = Handled(q)
              /\ Rows(q)' = Rows(q)
          BY <1>2 DEF vars, PersistedRows, Handled, Rows
        <4>2. Developers' = Developers /\ \A p : LeastLoaded(p)' = LeastLoaded(p)
          BY <1>2, ChoiceUnchanged DEF vars
        <4>3. RequestOK(q)'
          BY <1>2, <4>1 DEF vars, Inv, RequestOK, InFlight
        <4>4. RowsOK(q)'
          BY <1>2, <4>1 DEF vars, Inv, RowsOK
        <4>5. CurrentOK(q)'
          BY <1>2, <4>2 DEF vars, Inv, CurrentOK, ChoiceHolds
        <4> QED BY <4>3, <4>4, <4>5
      <3> QED BY <3>1, <3>2 DEF Inv
    <2>2. \A q \in undisturbed : FreshStep(q)
      <3>1. \A q \in undisturbed : pc'[q] # "ok"
        BY <1>2 DEF vars, Inv, TypeOK, InFlight, Answers
      <3> QED BY <3>1 DEF FreshStep
    <2>3. AttachmentStep
      BY <1>2 DEF vars, AttachmentStep, states, AttachmentState
    <2> QED BY <2>1, <2>2, <2>3 DEF GoodStep
  <1> QED BY <1>1, <1>2, RestartIsGood, InterfereIsGood DEF Next

\* The rows from the start are in order, and nothing is under way.
LEMMA InitInv == Init => Inv
  <1> SUFFICES ASSUME Init PROVE Inv
    OBVIOUS
  <1> USE DEF Init
  <1>1. /\ \A t \in TicketIds :
             tickets[t] = (IF t \in DOMAIN FirstTickets THEN FirstTickets[t] ELSE NULL)
        /\ \A a \in AttachmentIds :
             attachments[a] = (IF a \in DOMAIN FirstAttachments THEN FirstAttachments[a] ELSE NULL)
        /\ \A t \in DOMAIN FirstTickets : FirstTickets[t] \in Ticket
        /\ \A a \in DOMAIN FirstAttachments : FirstAttachments[a] \in TicketAttachment
    BY FirstRowsAssumption DEF Table, TicketAttachment, TicketIds
  <1>2. TypeOK
    <2>1. tickets \in [TicketIds -> Ticket \cup {NULL}]
      BY <1>1 DEF Table
    <2>2. attachments \in [AttachmentIds -> TicketAttachment \cup {NULL}]
      BY <1>1 DEF Table
    <2>3. <<"CREATE">> \in Seq(AuditAction) /\ <<>> \in Seq(AuditAction)
      BY DEF AuditAction
    <2>4. /\ ticketLogs \in [TicketIds -> Seq(AuditAction)]
          /\ attachmentLogs \in [AttachmentIds -> Seq(AuditAction)]
      BY <2>3 DEF Created
    <2>5. /\ users \in [Users -> UserRole \cup {NULL}] /\ activeProjects \subseteq Projects
          /\ pc \in [Requests -> Locations] /\ call \in [Requests -> Calls \cup {NULL}]
          /\ assignee \in [Requests -> Users \cup {NULL}]
          /\ result \in [Requests -> [created : Nat, failed : Nat]]
          /\ undisturbed \subseteq {r \in Requests : InFlight(r)}
      BY FirstRowsAssumption DEF Locations
    <2> QED BY <2>1, <2>2, <2>4, <2>5 DEF TypeOK
  <1>3. AssigneesExist
    BY <1>1, FirstRowsAssumption, NullAssumption DEF AssigneesExist, Ticket
  <1>4. FiniteRows
    <2>1. {t \in TicketIds : tickets[t] # NULL} \subseteq DOMAIN FirstTickets
      BY <1>1
    <2> QED BY <2>1, FirstRowsAssumption, FS_Subset DEF FiniteRows
  <1>5. ASSUME NEW r \in Requests PROVE RequestOK(r) /\ RowsOK(r) /\ CurrentOK(r)
    <2>1. \A i \in 1..MaxRows : <<r, i>> \in TicketIds /\ <<r, i>> \notin DOMAIN FirstTickets
      BY FirstRowsAssumption, NullAssumption DEF TicketIds
    <2>2. PersistedRows(r) = {}
      BY <1>1, <2>1 DEF PersistedRows
    <2>3. attachments[r] = NULL
      BY <1>1, FirstRowsAssumption DEF AttachmentIds
    <2>4. RowsOK(r)
      BY <2>2, <2>3, FS_EmptySet DEF RowsOK
    <2> QED BY <2>4 DEF RequestOK, CurrentOK, InFlight
  <1> QED BY <1>2, <1>3, <1>4, <1>5 DEF Inv

----------------------------------------------------------------------------
(* The theorems                                                            *)

\* The strengthened invariant holds in every run.
THEOREM InvariantsHold == Spec => []Inv
  <1>1. Inv /\ [Next]_vars => Inv'
    BY EveryStepIsGood DEF GoodStep
  <1> QED BY <1>1, InitInv, PTL DEF Spec

\* Every variable of TicketIntake keeps its type.
THEOREM TypeCorrect == Spec => []TypeOK
  <1>1. Inv => TypeOK
    BY DEF Inv
  <1> QED BY <1>1, InvariantsHold, PTL

\* No interleaving of insertions and removals of users leaves a ticket with an
\* assignee who is gone.
THEOREM AssigneesAlwaysExist == Spec => []AssigneesExist
  <1>1. Inv => AssigneesExist
    BY DEF Inv
  <1> QED BY <1>1, InvariantsHold, PTL

\* The summary of an import agrees with its tickets, for files of any length and
\* whatever fails.
THEOREM ImportsAddUp == Spec => []ImportAddsUp
  <1>1. ASSUME Inv PROVE ImportAddsUp
    <2> SUFFICES ASSUME NEW r \in Requests
                 PROVE  /\ result[r].created <= Cardinality(PersistedRows(r))
                        /\ Cardinality(PersistedRows(r)) <= Handled(r)
      BY DEF ImportAddsUp, PersistedRows
    <2>1. RowsOK(r) /\ Handled(r) \in Nat /\ MaxRows \in Nat
      BY <1>1, HandledNat DEF Inv
    <2>2. PersistedRows(r) \subseteq 1..Handled(r)
      BY <2>1 DEF RowsOK, PersistedRows
    <2>3. IsFiniteSet(1..Handled(r)) /\ Cardinality(1..Handled(r)) = Handled(r)
      BY <2>1, FS_Interval
    <2>4. Cardinality(PersistedRows(r)) <= Cardinality(1..Handled(r))
      BY <2>2, <2>3, FS_Subset
    <2> QED BY <2>1, <2>3, <2>4 DEF RowsOK
  <1> QED BY <1>1, InvariantsHold, PTL

\* Whom the workload chose is still the one to choose at the commit.
THEOREM AssignmentsAreFresh == Spec => FreshAssignmentIsLeastLoaded
  <1>1. ASSUME Inv, [Next]_vars
        PROVE  \A r \in undisturbed :
                 At(r, "settled", "create") /\ pc'[r] = "ok" /\ call[r].assigneeId = NULL =>
                   LET new     == tickets'[<<r, 0>>]
                       OpenTickets(u) == Cardinality({t \in TicketIds :
                                    /\ tickets[t] # NULL /\ tickets[t].open /\ ~tickets[t].deleted
                                    /\ tickets[t].projectId = new.projectId /\ tickets[t].assigneeId = u})
                   IN  IF new.assigneeId = NULL
                       THEN \A u \in Users : users[u] # "DEVELOPER"
                       ELSE /\ users[new.assigneeId] = "DEVELOPER"
                            /\ \A u \in Users : users[u] = "DEVELOPER" =>
                                 /\ OpenTickets(new.assigneeId) <= OpenTickets(u)
                                 /\ OpenTickets(new.assigneeId) = OpenTickets(u) =>
                                      RegisteredAt[new.assigneeId] <= RegisteredAt[u]
    BY <1>1, EveryStepIsGood DEF GoodStep, FreshStep, Load
  <1> QED BY <1>1, InvariantsHold, PTL DEF Spec, FreshAssignmentIsLeastLoaded

\* The attachments implement SoftDelete: the initial states are its initial
\* states, and every step is one of its steps or leaves them alone.
THEOREM AttachmentsRefine == Spec => AttachmentsKeepContract
  <1>1. ASSUME Init PROVE Attachments!Init
    <2>1. \A a \in AttachmentIds :
            /\ attachments[a] = (IF a \in DOMAIN FirstAttachments THEN FirstAttachments[a] ELSE NULL)
            /\ attachmentLogs[a] = (IF a \in DOMAIN FirstAttachments THEN <<"CREATE">> ELSE <<>>)
      BY <1>1 DEF Init, Table, Created
    <2>2. \A a \in DOMAIN FirstAttachments :
            FirstAttachments[a] # NULL /\ ~FirstAttachments[a].deleted
      <3>1. \A a \in DOMAIN FirstAttachments : FirstAttachments[a] \in TicketAttachment
        BY FirstRowsAssumption DEF TicketAttachment, TicketIds
      <3> QED BY <3>1, FirstRowsAssumption, NullAssumption
    <2>3. \A a \in AttachmentIds :
            AttachmentState(a) = (IF a \in DOMAIN FirstAttachments THEN "active" ELSE "absent")
      BY <2>1, <2>2 DEF AttachmentState
    <2> QED BY <1>1, <2>3 DEF Attachments!Init, Init, Created
  <1>2. Inv /\ [Next]_vars => [Attachments!Next]_<<states, attachmentLogs>>
    BY EveryStepIsGood DEF GoodStep, AttachmentStep
  <1> QED BY <1>1, <1>2, InvariantsHold, PTL
          DEF Spec, AttachmentsKeepContract, Attachments!Spec, states

==============================================================================
