------------------------------ MODULE MCComments ------------------------------
(***************************************************************************)
(* Instances of Comments for TLC: one comment that exists and one id for a *)
(* new one, three users two of whose names differ in case only.            *)
(***************************************************************************)
EXTENDS Comments, TLC

CONSTANTS r1, r2, r3, c1, c2, c3, c4, ann, bob, toAnn, toBoth, toNobody

MCRequests3 == {r1, r2, r3}
MCCommentIds == {c1, c2, c3, c4}
MCNewIdOf == (r1 :> c2) @@ (r2 :> c3) @@ (r3 :> c4)
MCTickets == {1}
MCUsers == {11, 12, 13}
MCUsernames == {ann, bob}
MCUsernameOf == (11 :> ann) @@ (12 :> bob) @@ (13 :> bob)
MCContents == {toAnn, toBoth, toNobody}
MCUsernamesIn == (toAnn :> {ann}) @@ (toBoth :> {ann, bob}) @@ (toNobody :> {})

MCCreatedComments ==
  {[ticketId |-> 1, content |-> content, version |-> 1, updatedAt |-> 0] :
     content \in {toAnn, toNobody}}

Edit(version, content) ==
  [op |-> "update", ticketId |-> 1, id |-> c1, version |-> version, content |-> content]

Remove(ticketId) == [op |-> "remove", ticketId |-> ticketId, id |-> c1]

MCCalls ==
  { [op |-> "create", ticketId |-> 1, authorId |-> 11, content |-> toBoth],
    [op |-> "create", ticketId |-> 2, authorId |-> 11, content |-> toAnn],
    Edit(1, toAnn), Edit(1, toBoth), Edit(1, toNobody), Edit(2, toBoth),
    [Edit(1, toNobody) EXCEPT !.id = c2],
    Remove(1), Remove(2) }

==============================================================================
