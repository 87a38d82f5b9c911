------------------------------- MODULE MCIntake -------------------------------
(***************************************************************************)
(* An instance of TicketIntake for TLC: one project with a ticket that has *)
(* an attachment, two developers, and a file of three rows.                *)
(***************************************************************************)
EXTENDS TicketIntake, TLC

CONSTANTS r1, r2, ann, bob, p1, t0, a0

MCRequests == {r1, r2}
MCProjects == {p1}
MCUsers == {ann, bob}
MCRegisteredAt == (ann :> 1) @@ (bob :> 2)

MCFirstUsers == (ann :> "DEVELOPER") @@ (bob :> "DEVELOPER")

MCFirstTickets ==
  t0 :> [projectId |-> p1, assigneeId |-> ann, open |-> TRUE, deleted |-> FALSE]

MCFirstAttachments == a0 :> [ticketId |-> t0, deleted |-> FALSE]

Row(wellFormed, user) == [wellFormed |-> wellFormed, open |-> TRUE, assigneeId |-> user]

Csv(rows) == [mime |-> "csv", csvName |-> TRUE, parses |-> TRUE, rows |-> rows]

Import(file) == [op |-> "import", projectId |-> p1, file |-> file]

MCCalls ==
  { [op |-> "create", projectId |-> p1, open |-> TRUE, assigneeId |-> NULL],
    [op |-> "create", projectId |-> p1, open |-> FALSE, assigneeId |-> bob],
    Import(Csv(<<Row(TRUE, bob), Row(FALSE, NULL), Row(TRUE, NULL)>>)),
    Import([Csv(<<>>) EXCEPT !.parses = FALSE]),
    Import([Csv(<<>>) EXCEPT !.mime = "generic", !.csvName = FALSE]),
    [op |-> "attach", ticketId |-> t0],
    [op |-> "detach", ticketId |-> t0, id |-> a0] }

MCOthers ==
  { [op |-> "project", id |-> p1, active |-> FALSE],
    [op |-> "status", id |-> t0, open |-> FALSE],
    [op |-> "deletion", id |-> t0, deleted |-> TRUE],
    [op |-> "assignee", id |-> t0, assigneeId |-> bob],
    [op |-> "role", id |-> ann, role |-> "ADMIN"],
    [op |-> "removeUser", id |-> bob] }

==============================================================================
