------------------------------ MODULE MCTickets ------------------------------
(***************************************************************************)
(* Instances of TicketLifecycle for TLC: two tickets of one project, one   *)
(* of another, and the requests that meet on them.                         *)
(***************************************************************************)
EXTENDS TicketLifecycle, TLC

CONSTANTS t1, t2, t3, r1, r2, r3, r4, alice, draft, revised, p1, p2

MCTickets2 == {t1, t2}
MCTickets3 == {t1, t2, t3}
MCUsers == {alice}
MCTitles == {draft, revised}
MCProjectOf == (t1 :> p1) @@ (t2 :> p1) @@ (t3 :> p2)

MCRequests2 == {r1, r2}
MCRequests3 == {r1, r2, r3}
MCRequests4 == {r1, r2, r3, r4}

\* Due at 1; the escalation runs at 2, after it.
Row(status, priority, dueDate, assigneeId) ==
  [title |-> draft, status |-> status, priority |-> priority, assigneeId |-> assigneeId,
   dueDate |-> dueDate, isOverdue |-> FALSE, version |-> 1, deleted |-> FALSE,
   updatedAt |-> 0]

MCCreatedTickets ==
  {Row("IN_PROGRESS", "HIGH", 1, alice), Row("IN_REVIEW", "CRITICAL", 1, NULL),
   Row("TODO", "LOW", NULL, NULL)}

EmptyDto(version) ==
  [version |-> version, title |-> Undefined, status |-> Undefined,
   priority |-> Undefined, assigneeId |-> Undefined, dueDate |-> Undefined]

Patch(id, dto) == [op |-> "update", id |-> id, dto |-> dto]

StatusPatch(id, version, status) == Patch(id, [EmptyDto(version) EXCEPT !.status = status])

MCCalls ==
  { StatusPatch(t1, 1, "IN_REVIEW"), StatusPatch(t1, 2, "DONE"), StatusPatch(t1, 1, "DONE"),
    StatusPatch(t2, 1, "DONE"),
    Patch(t1, [EmptyDto(1) EXCEPT !.title = revised, !.assigneeId = NULL]),
    Patch(t1, [EmptyDto(2) EXCEPT !.priority = "LOW", !.assigneeId = alice]),
    [op |-> "remove", id |-> t1], [op |-> "restore", id |-> t1], [op |-> "remove", id |-> t2],
    [op |-> "addDependency", id |-> t1, blockerId |-> t2],
    [op |-> "removeDependency", id |-> t1, blockerId |-> t2],
    [op |-> "escalate", asOf |-> 2] }

MCCallsOfClients == {c \in MCCalls : c.op # "escalate"}

MCCallsAcrossProjects ==
  MCCalls \cup
  { [op |-> "addDependency", id |-> t1, blockerId |-> t1],
    [op |-> "addDependency", id |-> t1, blockerId |-> t3] }

Symmetry == Permutations(Requests)

==============================================================================
