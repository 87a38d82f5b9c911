----------------------------- MODULE TicketIntake -----------------------------
(***************************************************************************)
(* How tickets and attachments come into being: TicketsService.create with *)
(* the automatic assignment by workload, importTicketsFromCsv row by row,  *)
(* createAttachment and removeAttachment.  A step is what runs up to and   *)
(* with one SQL statement at READ COMMITTED; the last write of a           *)
(* transaction, its audit rows and its COMMIT are one step.  What the rest *)
(* of the service commits meanwhile to the rows these operations rely on   *)
(* is the action Interfere, free in its order.                             *)
(***************************************************************************)
EXTENDS Naturals, Sequences, FiniteSets

CONSTANTS
  NULL,
  Requests,         \* HTTP requests, each served once
  Projects, Users,  \* their ids
  RegisteredAt,     \* per user, created_at
  MaxRows,          \* bound: the rows of an import file
  Calls,            \* what a request may ask for
  Others,           \* what the rest of the service may commit
  FirstUsers, FirstTickets, FirstAttachments  \* the rows from the start, by their ids

UserRole == {"ADMIN", "DEVELOPER"}

\* The sequences give a new ticket an id nobody else has: that of the request,
\* with the row of the file for an import.
TicketIds == (Requests \X (0..MaxRows)) \cup DOMAIN FirstTickets
AttachmentIds == Requests \cup DOMAIN FirstAttachments

\* What the properties tell apart of a ticket: open is a status other than DONE.
Ticket == [projectId : Projects, assigneeId : Users \cup {NULL}, open : BOOLEAN,
           deleted : BOOLEAN]

TicketAttachment == [ticketId : TicketIds, deleted : BOOLEAN]

AuditAction == {"CREATE", "AUTO_ASSIGN", "DELETE"}

\* A row of the parsed file: wellFormed if the title is there, status, priority
\* and type are values of their enums and the assignee's cell is an id or empty.
TicketImportCsvRow ==
  [wellFormed : BOOLEAN, open : BOOLEAN, assigneeId : Users \cup {NULL}]

\* The kinds of type an upload declares: one of CSV, a generic one, none, other.
MimeType == {"csv", "generic", "", "other"}

File == [mime : MimeType, csvName : BOOLEAN, parses : BOOLEAN,
         rows : UNION {[1..n -> TicketImportCsvRow] : n \in 0..MaxRows}]

Call == [op : {"create"}, projectId : Projects, open : BOOLEAN, assigneeId : Users \cup {NULL}]
        \cup [op : {"import"}, projectId : Projects, file : File]
        \cup [op : {"attach"}, ticketId : TicketIds]
        \cup [op : {"detach"}, ticketId : TicketIds, id : AttachmentIds]

Other == [op : {"project"}, id : Projects, active : BOOLEAN]
         \cup [op : {"status"}, id : TicketIds, open : BOOLEAN]
         \cup [op : {"deletion"}, id : TicketIds, deleted : BOOLEAN]
         \cup [op : {"assignee"}, id : TicketIds, assigneeId : Users]
         \cup [op : {"role"}, id : Users, role : UserRole]
         \cup [op : {"removeUser"}, id : Users]

ASSUME NullAssumption ==
  /\ NULL \notin Users \cup UserRole \cup Ticket \cup TicketAttachment \cup Call
  /\ RegisteredAt \in [Users -> Nat] /\ MaxRows \in Nat

ASSUME InputsAssumption == Calls \subseteq Call /\ Others \subseteq Other

ASSUME FirstRowsAssumption ==
  /\ FirstUsers \in [Users -> UserRole]
  /\ IsFiniteSet(DOMAIN FirstTickets)
  /\ DOMAIN FirstTickets \cap (Requests \X (0..MaxRows)) = {}
  /\ FirstTickets \in [DOMAIN FirstTickets -> Ticket]
  /\ DOMAIN FirstAttachments \cap Requests = {}
  /\ FirstAttachments \in [DOMAIN FirstAttachments ->
                             [ticketId : DOMAIN FirstTickets, deleted : {FALSE}]]

VARIABLES
  activeProjects,   \* the projects that are not soft-deleted
  users,            \* per user, the role, NULL where the row is gone
  tickets,          \* the committed rows of tickets, NULL where there is none
  ticketLogs,       \* per ticket, the actions of its audit rows in commit order
  attachments,      \* the committed rows of ticket_attachments
  attachmentLogs,   \* per attachment, the actions of its audit rows
  pc,               \* per request, where it is
  call,             \* per request, its parameters
  assignee,         \* per request, the assignee it has settled on
  result,           \* per request, the created and failed rows of its import
  undisturbed       \* history: those in flight since whose first step no other commit was

peopleVars == <<activeProjects, users>>
ticketVars == <<tickets, ticketLogs>>
attachmentVars == <<attachments, attachmentLogs>>
vars == <<activeProjects, users, tickets, ticketLogs, attachments, attachmentLogs,
          pc, call, assignee, result, undisturbed>>

Answers == {"ok", "rejected"}

Locations == {"idle", "found", "checked", "settled", "row", "resolved", "attachmentFound"}
             \cup Answers

InFlight(r) == pc[r] \notin {"idle"} \cup Answers

At(r, location, op) == pc[r] = location /\ call[r].op = op

Goto(r, location) == pc' = [pc EXCEPT ![r] = location]

Table(ids, first) == [id \in ids |-> IF id \in DOMAIN first THEN first[id] ELSE NULL]

Created(ids, first) == [id \in ids |-> IF id \in DOMAIN first THEN <<"CREATE">> ELSE <<>>]

Init ==
  /\ activeProjects = Projects
  /\ users = FirstUsers
  /\ tickets = Table(TicketIds, FirstTickets)
  /\ ticketLogs = Created(TicketIds, FirstTickets)
  /\ attachments = Table(AttachmentIds, FirstAttachments)
  /\ attachmentLogs = Created(AttachmentIds, FirstAttachments)
  /\ pc = [r \in Requests |-> "idle"]
  /\ call = [r \in Requests |-> NULL]
  /\ assignee = [r \in Requests |-> NULL]
  /\ result = [r \in Requests |-> [created |-> 0, failed |-> 0]]
  /\ undisturbed = {}

----------------------------------------------------------------------------
(* Requests                                                                *)

\* The first step of a request, when it goes on.
Begin(r, c, location) ==
  /\ Goto(r, location)
  /\ call' = [call EXCEPT ![r] = c]
  /\ undisturbed' = undisturbed \cup {r}
  /\ UNCHANGED <<peopleVars, ticketVars, attachmentVars, assignee, result>>

Answer(r, outcome) ==
  /\ Goto(r, outcome)
  /\ call' = [call EXCEPT ![r] = NULL]
  /\ assignee' = [assignee EXCEPT ![r] = NULL]

\* An exception, or an answer that commits nothing.
Leave(r, outcome) ==
  /\ Answer(r, outcome)
  /\ undisturbed' = undisturbed \ {r}
  /\ UNCHANGED <<peopleVars, ticketVars, attachmentVars, result>>

Reject(r) == Leave(r, "rejected")

\* The request has read something and goes on with this assignee.
Settle(r, location, user) ==
  /\ Goto(r, location)
  /\ assignee' = [assignee EXCEPT ![r] = user]
  /\ UNCHANGED <<peopleVars, ticketVars, attachmentVars, call, result, undisturbed>>

InsertTicket(id, row, log) ==
  /\ tickets' = [tickets EXCEPT ![id] = row]
  /\ ticketLogs' = [ticketLogs EXCEPT ![id] = log]
  /\ UNCHANGED <<peopleVars, attachmentVars>>

WriteAttachment(r, id, row, action) ==
  /\ attachments' = [attachments EXCEPT ![id] = row]
  /\ attachmentLogs' = [attachmentLogs EXCEPT ![id] = Append(@, action)]
  /\ Answer(r, "ok")
  /\ undisturbed' = {}
  /\ UNCHANGED <<peopleVars, ticketVars, result>>

\* Fault: the users are looked up, and no foreign key binds them.
AnyAssignee(user) == TRUE

\* The foreign key on assignee_id; findOne looks users up alike.
AssigneeStands(user) == user \in {NULL} \cup {u \in Users : users[u] # NULL}

----------------------------------------------------------------------------
(* TicketsService.create                                                   *)

BeginCreate(r, c) ==
  /\ c.op = "create"
  /\ \/ c.projectId \in activeProjects /\ Begin(r, c, "found")
     \/ c.projectId \notin activeProjects /\ Reject(r)

FindAssignee(r) ==
  /\ At(r, "found", "create") /\ call[r].assigneeId # NULL
  /\ \/ users[call[r].assigneeId] # NULL /\ Settle(r, "settled", call[r].assigneeId)
     \/ users[call[r].assigneeId] = NULL /\ Reject(r)

\* getProjectWorkload looks the project up once more.
CheckProject(r) ==
  /\ At(r, "found", "create") /\ call[r].assigneeId = NULL
  /\ \/ call[r].projectId \in activeProjects /\ Settle(r, "checked", NULL)
     \/ call[r].projectId \notin activeProjects /\ Reject(r)

Developers == {u \in Users : users[u] = "DEVELOPER"}

\* Fault: a ticket counts though it is DONE.
AllTickets(user, project) ==
  Cardinality({t \in TicketIds : /\ tickets[t] # NULL /\ tickets[t].assigneeId = user
                                 /\ tickets[t].projectId = project /\ ~tickets[t].deleted})

OpenTicketCount(user, project) ==
  Cardinality({t \in TicketIds : /\ tickets[t] # NULL /\ tickets[t].assigneeId = user
                                 /\ tickets[t].projectId = project /\ ~tickets[t].deleted
                                 /\ tickets[t].open})

\* sortWorkloadEntries: the order of two entries, equal ones staying as they came.
Precedes(u, v, project) ==
  \/ OpenTicketCount(u, project) < OpenTicketCount(v, project)
  \/ /\ OpenTicketCount(u, project) = OpenTicketCount(v, project)
     /\ RegisteredAt[u] < RegisteredAt[v]

\* Fault: the entry of the workload is taken for its userId.
LeastLoadedEntry(project) ==
  {[userId |-> u, openTicketCount |-> OpenTicketCount(u, project)] : u \in Developers}

\* Whoever may come first: the database gives equal entries in any order.
LeastLoaded(project) ==
  {u \in Developers : \A v \in Developers : ~Precedes(v, u, project)}

ReadWorkload(r) ==
  /\ At(r, "checked", "create")
  /\ \/ \E u \in LeastLoaded(call[r].projectId) : Settle(r, "settled", u)
     \/ Developers = {} /\ Settle(r, "settled", NULL)

CommitCreate(r) ==
  /\ At(r, "settled", "create")
  /\ LET c            == call[r]
         autoAssigned == c.assigneeId = NULL /\ assignee[r] # NULL
         ticket == [projectId |-> c.projectId, assigneeId |-> assignee[r],
                    open |-> c.open, deleted |-> FALSE]
         log    == IF autoAssigned THEN <<"CREATE", "AUTO_ASSIGN">> ELSE <<"CREATE">>
     IN  \/ /\ AssigneeStands(assignee[r])
            /\ InsertTicket(<<r, 0>>, ticket, log)
            /\ Answer(r, "ok") /\ undisturbed' = {} /\ UNCHANGED result
         \/ ~AssigneeStands(assignee[r]) /\ Reject(r)


----------------------------------------------------------------------------
(* TicketsService.importTicketsFromCsv                                     *)

\* isAllowedCsvUpload: asked by the route before the service.
AllowedCsvUpload(file) == file.mime = "csv" \/ (file.mime \in {"generic", ""} /\ file.csvName)

\* A file that does not parse is answered as one failed row.
BeginImport(r, c) ==
  /\ c.op = "import"
  /\ LET accepted == AllowedCsvUpload(c.file) /\ c.projectId \in activeProjects
     IN  \/ accepted /\ c.file.parses /\ Begin(r, c, "row")
         \/ /\ accepted /\ ~c.file.parses
            /\ result' = [result EXCEPT ![r].failed = 1]
            /\ Goto(r, "ok")
            /\ UNCHANGED <<peopleVars, ticketVars, attachmentVars, call, assignee, undisturbed>>
         \/ ~accepted /\ Reject(r)

Handled(r) == result[r].created + result[r].failed

Rows(r) == call[r].file.rows

\* catch: the error is noted and the loop goes on with the next row.
RowFails(r) ==
  /\ Goto(r, "row")
  /\ result' = [result EXCEPT ![r].failed = @ + 1]
  /\ UNCHANGED <<peopleVars, ticketVars, attachmentVars, call, assignee, undisturbed>>

\* Fault: an error is not counted, and the row is tried again.
ResolveRowAgain(r) ==
  /\ At(r, "row", "import") /\ Handled(r) < Len(Rows(r))
  /\ LET row   == Rows(r)[Handled(r) + 1]
         valid == row.wellFormed /\ AssigneeStands(row.assigneeId)
     IN  Settle(r, IF valid THEN "resolved" ELSE "row", row.assigneeId)

\* resolveImportRow: the cells are checked, then the assignee is looked up.
ResolveRow(r) ==
  /\ At(r, "row", "import") /\ Handled(r) < Len(Rows(r))
  /\ LET row   == Rows(r)[Handled(r) + 1]
         valid == row.wellFormed /\ AssigneeStands(row.assigneeId)
     IN  \/ valid /\ Settle(r, "resolved", row.assigneeId)
         \/ ~valid /\ RowFails(r)

\* The COMMIT of persistImportedTicket's transaction, and how the loop counts it.
CommitRow(r, created, failed) ==
  /\ At(r, "resolved", "import") /\ AssigneeStands(assignee[r])
  /\ InsertTicket(<<r, Handled(r) + 1>>,
       [projectId |-> call[r].projectId, assigneeId |-> assignee[r],
        open |-> Rows(r)[Handled(r) + 1].open, deleted |-> FALSE], <<"CREATE">>)
  /\ Goto(r, "row")
  /\ result' = [result EXCEPT ![r].created = @ + created, ![r].failed = @ + failed]
  /\ undisturbed' = undisturbed \cap {r}
  /\ UNCHANGED <<call, assignee>>

\* Fault: a row that fails in its transaction is counted as created.
PersistRowAlways(r) ==
  \/ CommitRow(r, 1, 0)
  \/ /\ At(r, "resolved", "import") /\ ~AssigneeStands(assignee[r])
     /\ Goto(r, "row")
     /\ result' = [result EXCEPT ![r].created = @ + 1]
     /\ UNCHANGED <<peopleVars, ticketVars, attachmentVars, call, assignee, undisturbed>>

PersistRow(r) ==
  \/ CommitRow(r, 1, 0)
  \/ At(r, "resolved", "import") /\ ~AssigneeStands(assignee[r]) /\ RowFails(r)

\* The connection is lost before the COMMIT, or after it and before its answer:
\* either way the transaction throws and the loop goes on.
LoseRow(r) ==
  \/ At(r, "resolved", "import") /\ RowFails(r)
  \/ CommitRow(r, 0, 1)

FinishImport(r) ==
  /\ At(r, "row", "import") /\ Handled(r) = Len(Rows(r))
  /\ Leave(r, "ok")

----------------------------------------------------------------------------
(* TicketsService.createAttachment and removeAttachment                    *)

\* assertActiveTicketForAttachment, on a read inside the transaction.
BeginAttachment(r, c) ==
  /\ c.op \in {"attach", "detach"}
  /\ LET ticket == tickets[c.ticketId]
         active == ticket # NULL /\ ~ticket.deleted
     IN  \/ active /\ Begin(r, c, "found")
         \/ ~active /\ Reject(r)

CommitAttach(r) ==
  /\ At(r, "found", "attach")
  /\ WriteAttachment(r, r, [ticketId |-> call[r].ticketId, deleted |-> FALSE], "CREATE")

FindAttachment(r) ==
  /\ At(r, "found", "detach")
  /\ LET attachment == attachments[call[r].id]
         found == attachment # NULL /\ attachment.ticketId = call[r].ticketId
                  /\ ~attachment.deleted
     IN  \/ found /\ Settle(r, "attachmentFound", NULL)
         \/ ~found /\ Reject(r)

\* Fault: the deletion is undone where another was first.
CommitDetachTwice(r) ==
  /\ At(r, "attachmentFound", "detach")
  /\ LET id == call[r].id
     IN  WriteAttachment(r, id, [attachments[id] EXCEPT !.deleted = ~@], "DELETE")

\* softDelete by id writes deletedAt whatever it was.
CommitDetach(r) ==
  /\ At(r, "attachmentFound", "detach")
  /\ LET id == call[r].id
     IN  WriteAttachment(r, id, [attachments[id] EXCEPT !.deleted = TRUE], "DELETE")

----------------------------------------------------------------------------
(* What happens around them                                                *)

\* A connection is lost, or the driver reports an error.
Fail(r) == InFlight(r) /\ call[r].op # "import" /\ Reject(r)

\* The process dies and starts again: open transactions roll back.
Restart ==
  /\ pc' = [r \in Requests |-> IF InFlight(r) THEN "rejected" ELSE pc[r]]
  /\ call' = [r \in Requests |-> NULL]
  /\ assignee' = [r \in Requests |-> NULL]
  /\ undisturbed' = {}
  /\ UNCHANGED <<peopleVars, ticketVars, attachmentVars, result>>

\* The columns of one row that update(), remove(), restore() or an escalation
\* leave changed: TicketLifecycle shows how, and that a stale save may move a
\* status either way.
InterfereWithTicket(o) ==
  /\ o.op \in {"status", "deletion", "assignee"} /\ tickets[o.id] # NULL
  /\ \/ o.op = "status" /\ tickets' = [tickets EXCEPT ![o.id].open = o.open]
     \/ o.op = "deletion" /\ tickets' = [tickets EXCEPT ![o.id].deleted = o.deleted]
     \/ /\ o.op = "assignee" /\ AssigneeStands(o.assigneeId)
        /\ tickets' = [tickets EXCEPT ![o.id].assigneeId = o.assigneeId]
  /\ UNCHANGED peopleVars

\* ProjectsService.remove, restore and update.
InterfereWithProject(o) ==
  /\ o.op = "project"
  /\ activeProjects' = IF o.active THEN activeProjects \cup {o.id} ELSE activeProjects \ {o.id}
  /\ UNCHANGED <<users, tickets>>

\* UsersService.update and remove, which the foreign keys on tickets bind.
InterfereWithUser(o) ==
  /\ o.op \in {"role", "removeUser"} /\ users[o.id] # NULL
  /\ \/ o.op = "role" /\ users' = [users EXCEPT ![o.id] = o.role]
     \/ /\ o.op = "removeUser"
        /\ \A t \in TicketIds : tickets[t] # NULL => tickets[t].assigneeId # o.id
        /\ users' = [users EXCEPT ![o.id] = NULL]
  /\ UNCHANGED <<activeProjects, tickets>>

Interfere(o) ==
  /\ InterfereWithTicket(o) \/ InterfereWithProject(o) \/ InterfereWithUser(o)
  /\ undisturbed' = {}
  /\ UNCHANGED <<ticketLogs, attachmentVars, pc, call, assignee, result>>

----------------------------------------------------------------------------

Arrive(r) ==
  /\ pc[r] = "idle"
  /\ \E c \in Calls : BeginCreate(r, c) \/ BeginImport(r, c) \/ BeginAttachment(r, c)

\* What the server does of itself once a request has arrived.
Proceed(r) ==
  \/ FindAssignee(r) \/ CheckProject(r) \/ ReadWorkload(r) \/ CommitCreate(r)
  \/ ResolveRow(r) \/ PersistRow(r) \/ FinishImport(r)
  \/ CommitAttach(r) \/ FindAttachment(r) \/ CommitDetach(r)

Next ==
  \/ \E r \in Requests : Arrive(r) \/ Proceed(r) \/ LoseRow(r) \/ Fail(r)
  \/ Restart
  \/ \E o \in Others : Interfere(o)

Spec == Init /\ [][Next]_vars /\ \A r \in Requests : WF_vars(Proceed(r))

----------------------------------------------------------------------------
(* Properties                                                              *)

\* Every variable holds what its column, parameter or program counter may hold.
TypeOK ==
  /\ activeProjects \subseteq Projects
  /\ users \in [Users -> UserRole \cup {NULL}]
  /\ tickets \in [TicketIds -> Ticket \cup {NULL}]
  /\ ticketLogs \in [TicketIds -> Seq(AuditAction)]
  /\ attachments \in [AttachmentIds -> TicketAttachment \cup {NULL}]
  /\ attachmentLogs \in [AttachmentIds -> Seq(AuditAction)]
  /\ pc \in [Requests -> Locations]
  /\ call \in [Requests -> Calls \cup {NULL}]
  /\ assignee \in [Requests -> Users \cup {NULL}]
  /\ result \in [Requests -> [created : Nat, failed : Nat]]
  /\ undisturbed \subseteq {r \in Requests : InFlight(r)}

\* A ticket assigned by workload goes to a developer, none of whom had fewer open
\* tickets in the project, or as few and an older account, when it was inserted:
\* if nobody else committed since the request looked, the assignee is still the
\* one to choose, and a ticket stays without one only for want of developers.
FreshAssignmentIsLeastLoaded ==
  [][\A r \in undisturbed :
       At(r, "settled", "create") /\ pc'[r] = "ok" /\ call[r].assigneeId = NULL =>
         LET new     == tickets'[<<r, 0>>]
             Load(u) == Cardinality({t \in TicketIds :
                          /\ tickets[t] # NULL /\ tickets[t].open /\ ~tickets[t].deleted
                          /\ tickets[t].projectId = new.projectId /\ tickets[t].assigneeId = u})
         IN  IF new.assigneeId = NULL
             THEN \A u \in Users : users[u] # "DEVELOPER"
             ELSE /\ users[new.assigneeId] = "DEVELOPER"
                  /\ \A u \in Users : users[u] = "DEVELOPER" =>
                       /\ Load(new.assigneeId) <= Load(u)
                       /\ Load(new.assigneeId) = Load(u) =>
                            RegisteredAt[new.assigneeId] <= RegisteredAt[u]]_vars

\* 'Soft-deleted tickets cannot receive attachments': the ticket of an upload is
\* active when the row of the attachment commits.
AttachmentsGoToActiveTickets ==
  [][\A r \in Requests :
       At(r, "found", "attach") /\ pc'[r] = "ok" => ~tickets[call[r].ticketId].deleted]_vars

\* Whoever a ticket is assigned to exists, though an assignee is looked up or
\* chosen in one statement, the ticket inserted in another, and users are removed
\* in between without a look at the tickets.
AssigneesExist ==
  \A t \in TicketIds :
    tickets[t] # NULL /\ tickets[t].assigneeId # NULL => users[tickets[t].assigneeId] # NULL

\* The summary of an import never claims a ticket that is not there, and leaves
\* none out but those it counts as failed, whatever fails between the rows.
ImportAddsUp ==
  \A r \in Requests :
    LET persisted == Cardinality({i \in 1..MaxRows : tickets[<<r, i>>] # NULL})
    IN  result[r].created <= persisted /\ persisted <= Handled(r)

\* An attachment keeps the promise of a table with deleted_at and without restore.
AttachmentState(id) ==
  IF attachments[id] = NULL THEN "absent"
  ELSE IF attachments[id].deleted THEN "deleted" ELSE "active"

Attachments == INSTANCE SoftDelete WITH
  Ids <- AttachmentIds,
  First <- DOMAIN FirstAttachments,
  states <- [id \in AttachmentIds |-> AttachmentState(id)],
  logs <- attachmentLogs

AttachmentsKeepContract == Attachments!Spec

\* Every request is answered, an import too, whose loop must come to its end
\* whatever becomes of its rows.
EveryRequestIsAnswered == \A r \in Requests : InFlight(r) ~> ~InFlight(r)

==============================================================================
