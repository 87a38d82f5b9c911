----------------------------- MODULE TicketRules -----------------------------
(***************************************************************************)
(* The pure part of src/tickets: the columns of a ticket row, the status   *)
(* and priority orders, what a PATCH body does to a ticket, what the       *)
(* escalation decides, what the ORM writes when a ticket object is saved,  *)
(* and the audit rows.  No state: the state machines EXTEND this module.   *)
(*                                                                         *)
(* A definition marked Fault stands before the one it corrupts: the same   *)
(* code with a plausible bug, kept to show that a property would catch it. *)
(***************************************************************************)
EXTENDS Naturals, Sequences

CONSTANTS
  NULL,        \* SQL NULL
  Undefined,   \* a property absent from a PATCH body
  Tickets,     \* ticket ids
  Users,       \* ids of the users that exist
  Titles,      \* contents of a ticket (title and description together)
  ProjectOf    \* the project of each ticket: projectId is never written again

ASSUME NullsAssumption ==
  /\ NULL # Undefined
  /\ {NULL, Undefined} \cap (Titles \cup Users) = {}
  /\ NULL \notin Nat \cup BOOLEAN
  /\ Undefined \notin Nat \cup BOOLEAN
  /\ {NULL, Undefined} \cap {"TODO", "IN_PROGRESS", "IN_REVIEW", "DONE",
                             "LOW", "MEDIUM", "HIGH", "CRITICAL"} = {}

----------------------------------------------------------------------------
(* Columns of the tickets table                                            *)

TicketStatus == {"TODO", "IN_PROGRESS", "IN_REVIEW", "DONE"}

TicketPriority == {"LOW", "MEDIUM", "HIGH", "CRITICAL"}

Ticket == [title      : Titles,
           status     : TicketStatus,
           priority   : TicketPriority,
           assigneeId : Users \cup {NULL},
           dueDate    : Nat \cup {NULL},
           isOverdue  : BOOLEAN,
           version    : Nat,
           deleted    : BOOLEAN,      \* deletedAt is not null
           updatedAt  : Nat]

ASSUME NoTicketAssumption == NULL \notin Ticket

----------------------------------------------------------------------------
(* Status lifecycle                                                        *)

STATUS_ORDER == <<"TODO", "IN_PROGRESS", "IN_REVIEW", "DONE">>

OneStepForward(from, to) ==
  \E i \in 1..3 : from = STATUS_ORDER[i] /\ to = STATUS_ORDER[i + 1]

----------------------------------------------------------------------------
(* PATCH /tickets/:ticketId                                                *)

\* version is required, every other property may be left out.
UpdateTicketDto == [version    : Nat,
                    title      : Titles \cup {Undefined},
                    status     : TicketStatus \cup {Undefined},
                    priority   : TicketPriority \cup {Undefined},
                    assigneeId : Nat \cup Users \cup {NULL, Undefined},
                    dueDate    : Nat \cup {NULL, Undefined}]

\* usersService.findOne of a given assignee.  An explicit null finds some user,
\* the ORM having no condition to search by, and then clears the column.
AssigneeFound(assigneeId) ==
  assigneeId \in Users \cup {Undefined} \/ (assigneeId = NULL /\ Users # {})

\* Fault: any status is accepted.
UpdateAllowedAnyMove(ticket, dto) ==
  /\ ~ticket.deleted
  /\ ticket.status # "DONE"
  /\ dto.version = ticket.version
  /\ AssigneeFound(dto.assigneeId)

\* Fault: the version is not compared.
UpdateAllowedAnyVersion(ticket, dto) ==
  /\ ~ticket.deleted
  /\ ticket.status # "DONE"
  /\ AssigneeFound(dto.assigneeId)
  /\ dto.status \in {Undefined, ticket.status} \/ OneStepForward(ticket.status, dto.status)

\* The checks update() makes on the ticket it has just read, in the code's
\* order: 404, 400, 409, 404 for an unknown assignee, 400.
UpdateAllowed(ticket, dto) ==
  /\ ~ticket.deleted
  /\ ticket.status # "DONE"
  /\ dto.version = ticket.version
  /\ AssigneeFound(dto.assigneeId)
  /\ dto.status \in {Undefined, ticket.status} \/ OneStepForward(ticket.status, dto.status)

\* Fault: an absent property overwrites the column.
GivenAlways(value, old) == value

Given(value, old) == IF value = Undefined THEN old ELSE value

\* Fault: a manual priority leaves the overdue mark.
PatchedKeepsOverdue(ticket, dto) ==
  [ticket EXCEPT !.title      = Given(dto.title, @),
                 !.status     = Given(dto.status, @),
                 !.assigneeId = Given(dto.assigneeId, @),
                 !.priority   = Given(dto.priority, @),
                 !.dueDate    = Given(dto.dueDate, @)]

\* The ticket object after the assignments of update().
Patched(ticket, dto) ==
  [ticket EXCEPT !.title      = Given(dto.title, @),
                 !.status     = Given(dto.status, @),
                 !.assigneeId = Given(dto.assigneeId, @),
                 !.priority   = Given(dto.priority, @),
                 !.isOverdue  = IF dto.priority = Undefined THEN @ ELSE FALSE,
                 !.dueDate    = Given(dto.dueDate, @)]

----------------------------------------------------------------------------
(* Auto escalation                                                         *)

NEXT_PRIORITY == [LOW |-> "MEDIUM", MEDIUM |-> "HIGH", HIGH |-> "CRITICAL"]

\* The WHERE clause of runAutoEscalation's query.
EscalationCandidate(ticket, asOf) ==
  /\ ticket.dueDate # NULL /\ ticket.dueDate < asOf
  /\ ticket.status # "DONE"
  /\ ~ticket.deleted

\* evaluateTicketEscalation answers 'skip' unless this holds.
MustEscalate(ticket, asOf) ==
  /\ EscalationCandidate(ticket, asOf)
  /\ ~(ticket.priority = "CRITICAL" /\ ticket.isOverdue)

\* The ticket object with the decision's newPriority and isOverdue assigned:
\* 'markOverdue' at CRITICAL, 'escalate' below it.
Escalated(ticket) ==
  IF ticket.priority = "CRITICAL"
  THEN [ticket EXCEPT !.isOverdue = TRUE]
  ELSE [ticket EXCEPT !.priority = NEXT_PRIORITY[@]]

----------------------------------------------------------------------------
(* What the ORM writes                                                     *)

\* repository.save(entity): the row is read again (reloaded), the columns in
\* which the object differs from it are written over the current row, and the
\* version column is incremented by the database unless it is itself one of
\* those columns.  An object equal to its row is not written at all.
Saved(row, entity, reloaded, now) ==
  LET Written(e, r, current) == IF e # r THEN e ELSE current
  IN  IF entity = reloaded THEN row
      ELSE [title      |-> Written(entity.title, reloaded.title, row.title),
            status     |-> Written(entity.status, reloaded.status, row.status),
            priority   |-> Written(entity.priority, reloaded.priority, row.priority),
            assigneeId |-> Written(entity.assigneeId, reloaded.assigneeId, row.assigneeId),
            dueDate    |-> Written(entity.dueDate, reloaded.dueDate, row.dueDate),
            isOverdue  |-> Written(entity.isOverdue, reloaded.isOverdue, row.isOverdue),
            deleted    |-> Written(entity.deleted, reloaded.deleted, row.deleted),
            version    |-> Written(entity.version, reloaded.version, row.version + 1),
            updatedAt  |-> Written(entity.updatedAt, reloaded.updatedAt, now)]

\* Fault: restore leaves deletedAt set.
DeletionSetOnly(row, deleted, now) ==
  [row EXCEPT !.deleted = TRUE, !.version = @ + 1, !.updatedAt = now]

\* repository.softDelete({ id }) and repository.restore({ id }): one UPDATE,
\* whatever the row holds.
DeletionSet(row, deleted, now) ==
  [row EXCEPT !.deleted = deleted, !.version = @ + 1, !.updatedAt = now]

----------------------------------------------------------------------------
(* Audit rows of a ticket                                                  *)

\* from/to are the status change, previousPriority/priority the priority
\* change an audit row reports; NULL when its details do not.
AuditLog == [action           : {"CREATE", "UPDATE", "AUTO_ESCALATE", "DELETE", "RESTORE"},
             from             : TicketStatus \cup {NULL},
             to               : TicketStatus \cup {NULL},
             previousPriority : TicketPriority \cup {NULL},
             priority         : TicketPriority \cup {NULL},
             isOverdue        : BOOLEAN]

BlankLog(action) ==
  [action |-> action, from |-> NULL, to |-> NULL,
   previousPriority |-> NULL, priority |-> NULL, isOverdue |-> FALSE]

CreateLog(ticket) ==
  [BlankLog("CREATE") EXCEPT !.to = ticket.status, !.priority = ticket.priority]

\* Fault: the details compare the saved status with itself.
UpdateLogNoStatus(before, dto) ==
  [BlankLog("UPDATE") EXCEPT !.priority = Given(dto.priority, NULL)]

\* buildTicketUpdateDetails: the ticket as it was read and the PATCH body.
UpdateLog(before, dto) ==
  LET changes == dto.status \notin {Undefined, before.status}
  IN  [BlankLog("UPDATE") EXCEPT !.from     = IF changes THEN before.status ELSE NULL,
                                 !.to       = IF changes THEN dto.status ELSE NULL,
                                 !.priority = Given(dto.priority, NULL)]

\* Fault: the details report the priority before the step twice.
EscalateLogBefore(before) ==
  [BlankLog("AUTO_ESCALATE") EXCEPT !.previousPriority = before.priority,
                                    !.priority         = before.priority,
                                    !.isOverdue        = before.isOverdue]

EscalateLog(before) ==
  [BlankLog("AUTO_ESCALATE") EXCEPT !.previousPriority = before.priority,
                                    !.priority         = Escalated(before).priority,
                                    !.isOverdue        = Escalated(before).isOverdue]

==============================================================================
