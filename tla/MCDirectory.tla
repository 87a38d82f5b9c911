------------------------------ MODULE MCDirectory ------------------------------
(***************************************************************************)
(* An instance of Directory for TLC: an ADMIN who owns a project, a        *)
(* DEVELOPER, and ids for what the requests create.                        *)
(***************************************************************************)
EXTENDS Directory, TLC

CONSTANTS r1, r2, r3, ada, bob, n1, n2, n3, p0, p1, p2, p3

MCRequests == {r1, r2, r3}
MCUserIds == {ada, bob, n1, n2, n3}
MCNewUserIdOf == (r1 :> n1) @@ (r2 :> n2) @@ (r3 :> n3)
MCProjectIds == {p0, p1, p2, p3}
MCNewProjectIdOf == (r1 :> p1) @@ (r2 :> p2) @@ (r3 :> p3)
MCUsernames == {"ada", "bob", "eve"}
MCFullNames == {"full", "changed"}
MCPasswords == {"secret"}
MCProjectNames == {"name", "renamed"}

UserRow(id, username, role) ==
  [id |-> id, username |-> username, fullName |-> "full", role |-> role, password |-> "secret"]

MCRegisteredUsers == {UserRow(ada, "ada", "ADMIN"), UserRow(bob, "bob", "DEVELOPER")}

MCFirstProjects == p0 :> [name |-> "name", ownerId |-> ada, deleted |-> FALSE]

Patch(id, fullName, role) ==
  [op |-> "updateUser", id |-> id, dto |-> [fullName |-> fullName, role |-> role]]

MCCalls ==
  { [op |-> "createUser", username |-> "bob", fullName |-> "full", role |-> "ADMIN",
     password |-> NULL],
    [op |-> "login", username |-> "bob", password |-> "secret"],
    [op |-> "logout"],
    Patch(ada, Undefined, "DEVELOPER"), Patch(bob, "changed", Undefined),
    Patch(bob, Undefined, "ADMIN"),
    [op |-> "removeUser", id |-> bob],
    [op |-> "createProject", name |-> "name", ownerId |-> bob],
    [op |-> "updateProject", id |-> p0, name |-> "renamed"],
    [op |-> "removeProject", id |-> p0],
    [op |-> "restoreProject", id |-> p0] }

\* Requests are interchangeable together with the ids that are theirs.
MCSymmetry ==
  {[x \in MCRequests \cup {n1, n2, n3} \cup {p1, p2, p3} |->
      IF x \in MCRequests THEN s[x]
      ELSE IF x \in {n1, n2, n3}
      THEN MCNewUserIdOf[s[CHOOSE r \in MCRequests : MCNewUserIdOf[r] = x]]
      ELSE MCNewProjectIdOf[s[CHOOSE r \in MCRequests : MCNewProjectIdOf[r] = x]]] :
    s \in Permutations(MCRequests)}

==============================================================================
