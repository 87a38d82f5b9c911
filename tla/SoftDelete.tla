------------------------------ MODULE SoftDelete ------------------------------
(***************************************************************************)
(* What a table with a deleted_at column and no restore promises: a row is *)
(* created once, never removed, hidden by a delete for good, and each of   *)
(* these writes its audit row with it.                                     *)
(***************************************************************************)
EXTENDS Sequences

CONSTANTS
  Ids,
  First        \* the rows that are there from the start

VARIABLES states, logs

Init ==
  /\ states = [id \in Ids |-> IF id \in First THEN "active" ELSE "absent"]
  /\ logs = [id \in Ids |-> IF id \in First THEN <<"CREATE">> ELSE <<>>]

Move(id, from, to, action) ==
  /\ states[id] \in from
  /\ states' = [states EXCEPT ![id] = to]
  /\ logs' = [logs EXCEPT ![id] = Append(@, action)]

Create(id) == Move(id, {"absent"}, "active", "CREATE")

\* Two deletes that overlap both succeed, and both are on record.
Delete(id) == Move(id, {"active", "deleted"}, "deleted", "DELETE")

Next == \E id \in Ids : Create(id) \/ Delete(id)

Spec == Init /\ [][Next]_<<states, logs>>

==============================================================================
