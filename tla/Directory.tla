------------------------------ MODULE Directory ------------------------------
(***************************************************************************)
(* ProjectsService, composed with Accounts: a project is owned by a user,  *)
(* whom a foreign key then keeps from being removed, every project route   *)
(* wants a token, and a restore wants an ADMIN.                            *)
(***************************************************************************)
EXTENDS Accounts

CONSTANTS
  ProjectIds,
  NewProjectIdOf,  \* the id the sequence gives the project a request creates
  ProjectNames,
  FirstProjects    \* the projects from the start, as POST /projects leaves them

VARIABLES
  projects,        \* the committed rows of projects, NULL where there is none
  projectLogs      \* per project, its audit rows in commit order

projectVars == <<projects, projectLogs>>
vars == <<users, userLogs, issued, denylist, clock, pc, call, token, caller, entity,
          reloaded, undisturbed, projects, projectLogs>>

\* Name and description are written alike: one value stands for both.
Project == [name : ProjectNames, ownerId : UserIds, deleted : BOOLEAN]

\* An audit row about a project: who did what.
ProjectLog == [action : {"CREATE", "UPDATE", "DELETE", "RESTORE"}, performedBy : UserIds]

ProjectCall == [op : {"createProject"}, name : ProjectNames, ownerId : UserIds]
               \cup [op : {"updateProject"}, id : ProjectIds, name : ProjectNames \cup {Undefined}]
               \cup [op : {"removeProject", "restoreProject"}, id : ProjectIds]

ASSUME CallsAssumption == Calls \subseteq AccountCall \cup ProjectCall

ASSUME NewProjectIdsAssumption ==
  /\ NewProjectIdOf \in [Requests -> ProjectIds]
  /\ \A r, q \in Requests : NewProjectIdOf[r] = NewProjectIdOf[q] => r = q

ASSUME ProjectNullAssumption == NULL \notin Project /\ Undefined \notin ProjectNames

ASSUME FirstProjectsAssumption ==
  /\ DOMAIN FirstProjects \subseteq ProjectIds
  /\ \A r \in Requests : NewProjectIdOf[r] \notin DOMAIN FirstProjects
  /\ \A p \in DOMAIN FirstProjects :
       /\ FirstProjects[p] \in Project /\ ~FirstProjects[p].deleted
       /\ \E u \in RegisteredUsers : u.id = FirstProjects[p].ownerId

Locations == {"idle", "arrived", "authenticated", "comparing", "hashing", "read",
              "reloaded", "owned"} \cup Answers

Init ==
  /\ InitAccounts
  /\ projects = [p \in ProjectIds |-> IF p \in DOMAIN FirstProjects THEN FirstProjects[p] ELSE NULL]
  /\ projectLogs = [p \in ProjectIds |->
       IF projects[p] = NULL THEN <<>>
       ELSE <<[action |-> "CREATE", performedBy |-> projects[p].ownerId]>>]

----------------------------------------------------------------------------
(* ProjectsService                                                         *)

Active(p) == projects[p] # NULL /\ ~projects[p].deleted

\* Fault: no foreign key.
NoOwners == {}

\* The users some project refers to: the foreign key on owner_id.
Owners == {projects[p].ownerId : p \in {q \in ProjectIds : projects[q] # NULL}}

CommitProject(r, p, row, action) ==
  /\ projects' = [projects EXCEPT ![p] = row]
  /\ projectLogs' = [projectLogs EXCEPT ![p] =
       Append(@, [action |-> action, performedBy |-> token[r].sub])]
  /\ Accept(r)
  /\ UNCHANGED <<users, userLogs, sessionVars>>

\* POST /projects: the owner is looked up, then the row inserted.
FindOwner(r) ==
  /\ At(r, "authenticated", "createProject")
  /\ \/ users[call[r].ownerId] # NULL /\ Read(r, "owned", NULL) /\ UNCHANGED projectVars
     \/ users[call[r].ownerId] = NULL /\ Reject(r) /\ UNCHANGED projectVars

\* Fault: the lookup of the owner is all there is.
CommitCreateProjectUnchecked(r) ==
  /\ At(r, "owned", "createProject")
  /\ CommitProject(r, NewProjectIdOf[r],
       [name |-> call[r].name, ownerId |-> call[r].ownerId, deleted |-> FALSE], "CREATE")

CommitCreateProject(r) ==
  /\ At(r, "owned", "createProject")
  /\ LET c == call[r]
     IN  \/ /\ users[c.ownerId] # NULL
            /\ CommitProject(r, NewProjectIdOf[r],
                 [name |-> c.name, ownerId |-> c.ownerId, deleted |-> FALSE], "CREATE")
         \/ users[c.ownerId] = NULL /\ Reject(r) /\ UNCHANGED projectVars

\* Fault: a deleted project is found too and taken for an active one.
ReadProjectRevived(r) ==
  /\ pc[r] = "authenticated" /\ call[r].op \in {"updateProject", "removeProject"}
  /\ LET p == call[r].id
     IN  \/ projects[p] # NULL /\ Read(r, "read", [projects[p] EXCEPT !.deleted = FALSE])
         \/ projects[p] = NULL /\ Reject(r)
  /\ UNCHANGED projectVars

\* getProjectOrThrow of update() and remove(), outside the transaction.
ReadProject(r) ==
  /\ pc[r] = "authenticated" /\ call[r].op \in {"updateProject", "removeProject"}
  /\ LET p == call[r].id
     IN  \/ Active(p) /\ Read(r, "read", projects[p])
         \/ ~Active(p) /\ Reject(r)
  /\ UNCHANGED projectVars

ReloadProject(r) ==
  /\ At(r, "read", "updateProject")
  /\ Reload(r, projects[call[r].id])
  /\ UNCHANGED projectVars

\* repository.save(object): the object was read while the project was active,
\* so its deletedAt is null and undoes a deletion that committed meanwhile.
SavedProject(row, object, old) ==
  [row EXCEPT !.name    = IF object.name # old.name THEN object.name ELSE @,
              !.deleted = IF object.deleted # old.deleted THEN object.deleted ELSE @]

CommitUpdateProject(r) ==
  /\ At(r, "reloaded", "updateProject")
  /\ LET p      == call[r].id
         object == [entity[r] EXCEPT !.name = IF call[r].name = Undefined THEN @ ELSE call[r].name]
     IN  CommitProject(r, p, SavedProject(projects[p], object, reloaded[r]), "UPDATE")

\* softDelete by id writes deletedAt whatever it was.
CommitRemoveProject(r) ==
  /\ At(r, "read", "removeProject")
  /\ CommitProject(r, call[r].id, [projects[call[r].id] EXCEPT !.deleted = TRUE], "DELETE")

\* POST /projects/:projectId/restore: a deleted project is read in the
\* transaction that restores it by id.
ReadDeletedProject(r) ==
  /\ At(r, "authenticated", "restoreProject")
  /\ LET project == projects[call[r].id]
         found   == project # NULL /\ project.deleted
     IN  \/ found /\ Read(r, "read", project)
         \/ ~found /\ Reject(r)
  /\ UNCHANGED projectVars

\* Fault: the object is saved as it was read.
CommitRestoreProjectStale(r) ==
  /\ At(r, "read", "restoreProject")
  /\ CommitProject(r, call[r].id, entity[r], "RESTORE")

CommitRestoreProject(r) ==
  /\ At(r, "read", "restoreProject")
  /\ CommitProject(r, call[r].id, [projects[call[r].id] EXCEPT !.deleted = FALSE], "RESTORE")

----------------------------------------------------------------------------

AccountStep(r) ==
  /\ \/ Arrive(r) \/ Authenticate(r) \/ Logout(r) \/ BeginLogin(r) \/ FinishLogin(r)
     \/ BeginCreateUser(r) \/ CommitCreateUser(r)
     \/ ReadUser(r) \/ ReloadUser(r) \/ CommitUpdateUser(r)
     \/ CommitRemoveUser(r, Owners)
     \/ Fail(r)
  /\ UNCHANGED projectVars

ProjectStep(r) ==
  \/ FindOwner(r) \/ CommitCreateProject(r)
  \/ ReadProject(r) \/ ReloadProject(r) \/ CommitUpdateProject(r) \/ CommitRemoveProject(r)
  \/ ReadDeletedProject(r) \/ CommitRestoreProject(r)

\* Everything answered: nobody sends another request.
Quiescent == (\A r \in Requests : pc[r] \in Answers) /\ UNCHANGED vars

Next ==
  \/ \E r \in Requests : AccountStep(r) \/ ProjectStep(r)
  \/ (Tick \/ Restart) /\ UNCHANGED projectVars
  \/ Quiescent

Spec == Init /\ [][Next]_vars

----------------------------------------------------------------------------
(* Properties                                                              *)

\* Every variable holds what its column, object or program counter may hold.
TypeOK ==
  /\ users \in [UserIds -> User \cup {NULL}]
  /\ userLogs \in [UserIds -> Seq(UserLog)]
  /\ issued \subseteq Token /\ denylist \subseteq issued
  /\ clock \in 0..MaxClock
  /\ pc \in [Requests -> Locations]
  /\ call \in [Requests -> Calls \cup {NULL}]
  /\ token \in [Requests -> Token \cup {NULL}]
  /\ caller \in [Requests -> UserRole \cup {NULL}]
  /\ entity \in [Requests -> User \cup Project \cup {NULL}]
  /\ reloaded \in [Requests -> User \cup Project \cup {NULL}]
  /\ undisturbed \subseteq {r \in Requests : InFlight(r)}
  /\ projects \in [ProjectIds -> Project \cup {NULL}]
  /\ projectLogs \in [ProjectIds -> Seq(ProjectLog)]

Commits(r) == pc[r] # "ok" /\ pc'[r] = "ok"

\* What a request does is done with the rights its user has at that moment, not
\* with those of the token: while nobody else commits, a request with a token
\* only succeeds if the token is not logged out and its user exists, and a
\* restore only if that user is an ADMIN by then.  However requests interleave,
\* whoever restores was an ADMIN by some audit row.
AuthorizedAtCommit ==
  [][\A r \in Requests :
       Commits(r) /\ call[r].op \notin Public =>
         /\ r \in undisturbed =>
              /\ ~Denied(token[r])
              /\ users[token[r].sub] # NULL
              /\ call[r].op \in Guarded => users[token[r].sub].role = "ADMIN"
         /\ call[r].op \in Guarded =>
              \E i \in DOMAIN userLogs[token[r].sub] :
                userLogs[token[r].sub][i].role = "ADMIN"]_vars

\* A user takes on a role only with an audit row that reports it, unless requests
\* overlap: a profile saved from a stale object brings back a role, or a removed
\* user, that its own row says nothing about, and even then a role once on record.
RoleChangesAreAudited ==
  [][\A id \in UserIds :
       LET Role(table)       == IF table[id] = NULL THEN NULL ELSE table[id].role
           Reported(logs, i) == logs[id][i].role = Role(users')
       IN  Role(users') \notin {NULL, Role(users)} =>
             /\ \E i \in DOMAIN userLogs'[id] : Reported(userLogs', i)
             /\ \A r \in undisturbed : Commits(r) => Reported(userLogs', Len(userLogs'[id]))]_vars

\* A project's owner exists, though the owner is looked up in one statement, the
\* project inserted in another, and users are removed without a look at projects.
OwnersExist ==
  \A p \in ProjectIds : projects[p] # NULL => users[projects[p].ownerId] # NULL

\* Whoever and whatever is gone was removed on record: a user with a history and
\* no row has a DELETE row, also when an overlapping update inserted the user anew
\* in between, and the last DELETE or RESTORE row of a deleted project is a DELETE.
RemovalsAreAudited ==
  /\ \A id \in UserIds :
       users[id] = NULL /\ userLogs[id] # <<>> =>
         \E i \in DOMAIN userLogs[id] : userLogs[id][i].action = "DELETE"
  /\ \A p \in ProjectIds :
       projects[p] # NULL /\ projects[p].deleted =>
         LET Rows == {i \in DOMAIN projectLogs[p] : projectLogs[p][i].action \in {"DELETE", "RESTORE"}}
         IN  \E i \in Rows : projectLogs[p][i].action = "DELETE" /\ \A j \in Rows : j <= i

\* A deleted project is shown again by a restore only, unless an update that read
\* it before the deletion overlaps.
ShownByRestoreOnly ==
  [][\A p \in ProjectIds :
       projects[p] # NULL /\ projects[p].deleted /\ ~projects'[p].deleted =>
         \E r \in Requests : Commits(r) /\ (call[r].op = "restoreProject"
                                            \/ (call[r].op = "updateProject" /\ r \notin undisturbed))]_vars

==============================================================================
