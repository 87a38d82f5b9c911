-------------------------- MODULE Directory_proofs --------------------------
(***************************************************************************)
(* Proofs about Directory, and with it Accounts, for every set of users,   *)
(* projects, requests and calls.                                           *)
(***************************************************************************)
EXTENDS Directory, SequenceTheorems, TLAPS

----------------------------------------------------------------------------
(* The inductive invariant                                                 *)

\* Where a request carries the token it was let in with, and where its user has
\* been read anew.
WithToken == {"arrived", "authenticated", "read", "reloaded", "owned"}
Admitted == WithToken \ {"arrived"}

Holding == {"read", "reloaded"}

UserOps == {"updateUser", "removeUser"}
ProjectOps == {"updateProject", "removeProject", "restoreProject"}

\* What a request holds is what its program counter and its call say it holds.
RequestOK(r) ==
  /\ InFlight(r) => call[r] \in Calls
  /\ pc[r] \in WithToken => token[r] \in issued /\ call[r].op \notin Public
  /\ pc[r] = "comparing" => entity[r] \in User
  /\ pc[r] \in Holding /\ call[r].op \in UserOps => entity[r] \in User
  /\ pc[r] \in Holding /\ call[r].op \in ProjectOps =>
       projects[call[r].id] # NULL /\ entity[r] \in Project
  /\ pc[r] \in Holding /\ call[r].op = "updateProject" => ~entity[r].deleted
  /\ pc[r] = "reloaded" /\ call[r].op = "updateUser" => reloaded[r] \in User \cup {NULL}
  /\ pc[r] = "reloaded" /\ call[r].op = "updateProject" => reloaded[r] \in Project

ControlInv == TypeOK /\ \A r \in Requests : RequestOK(r)

\* Some audit row of the user reports the role.
OnRecord(id, role) == \E i \in DOMAIN userLogs[id] : userLogs[id][i].role = role

\* The role a request read and may write back, and the one it was let in with,
\* are on record.
MemoryIsOnRecord(r) ==
  /\ pc[r] \in Holding /\ call[r].op = "updateUser" => OnRecord(call[r].id, entity[r].role)
  /\ pc[r] \in Admitted /\ call[r].op \in Guarded => OnRecord(token[r].sub, "ADMIN")

UserIsOnRecord(id) ==
  /\ users[id] # NULL => OnRecord(id, users[id].role)
  /\ users[id] = NULL /\ userLogs[id] # <<>> =>
       \E i \in DOMAIN userLogs[id] : userLogs[id][i].action = "DELETE"

DeletionRows(p) == {i \in DOMAIN projectLogs[p] : projectLogs[p][i].action \in {"DELETE", "RESTORE"}}

DeletionIsOnRecord(p) ==
  projects[p] # NULL /\ projects[p].deleted =>
    \E i \in DeletionRows(p) :
      projectLogs[p][i].action = "DELETE" /\ \A j \in DeletionRows(p) : j <= i

RecordInv ==
  /\ OwnersExist
  /\ \A id \in UserIds : UserIsOnRecord(id)
  /\ \A p \in ProjectIds : DeletionIsOnRecord(p)
  /\ \A r \in Requests : MemoryIsOnRecord(r)

\* What an undisturbed request has read and checked still holds.
CurrentOK(r) ==
  r \in undisturbed =>
    /\ pc[r] \in WithToken => ~Denied(token[r])
    /\ pc[r] \in Admitted =>
         /\ users[token[r].sub] # NULL
         /\ call[r].op \in Guarded => users[token[r].sub].role = "ADMIN"
    /\ pc[r] \in Holding /\ call[r].op = "updateUser" => entity[r] = users[call[r].id]
    /\ pc[r] = "reloaded" /\ call[r].op = "updateUser" => reloaded[r] = users[call[r].id]
    /\ pc[r] \in Holding /\ call[r].op = "updateProject" => entity[r] = projects[call[r].id]
    /\ pc[r] = "reloaded" /\ call[r].op = "updateProject" => reloaded[r] = projects[call[r].id]

\* The row a request is to insert is not there before its commit.
InsertOK(r) == projects[NewProjectIdOf[r]] # NULL => pc[r] = "ok"

CurrentInv == \A r \in Requests : CurrentOK(r) /\ InsertOK(r)

----------------------------------------------------------------------------
(* Lemmas about the building blocks of the actions                         *)

\* The parameters of a call have the types of its kind.
LEMMA CallTypes ==
  ASSUME NEW c \in Calls
  PROVE  /\ c.op = "createUser" => c.username \in Usernames /\ c.fullName \in FullNames
                                   /\ c.role \in UserRole /\ c.password \in Passwords \cup {NULL}
         /\ c.op \in UserOps => c.id \in UserIds
         /\ c.op = "updateUser" => c.dto \in UpdateUserDto
         /\ c.op = "createProject" => c.name \in ProjectNames /\ c.ownerId \in UserIds
         /\ c.op \in ProjectOps => c.id \in ProjectIds
         /\ c.op = "updateProject" => c.name \in ProjectNames \cup {Undefined}
  BY CallsAssumption DEF AccountCall, ProjectCall, UserOps, ProjectOps

\* What another request than r has in memory.
Frame(r) ==
  \A q \in Requests \ {r} :
    /\ pc'[q] = pc[q] /\ call'[q] = call[q] /\ token'[q] = token[q]
    /\ caller'[q] = caller[q] /\ entity'[q] = entity[q] /\ reloaded'[q] = reloaded[q]

\* What every step leaves to build on: tokens stay issued, and no project goes.
Stable ==
  /\ issued \subseteq issued'
  /\ \A p \in ProjectIds : projects[p] # NULL => projects'[p] # NULL

SharedVars == <<users, userLogs, issued, denylist, clock, projects, projectLogs>>

\* A step that touches only its own request's memory keeps RequestOK of all
\* the others.
LEMMA FrameKeepsOthers ==
  ASSUME NEW r \in Requests, Frame(r), Stable, ControlInv, RequestOK(r)'
  PROVE  \A q \in Requests : RequestOK(q)'
  <1> SUFFICES ASSUME NEW q \in Requests \ {r} PROVE RequestOK(q)'
    OBVIOUS
  <1>1. /\ pc'[q] = pc[q] /\ call'[q] = call[q] /\ token'[q] = token[q]
        /\ entity'[q] = entity[q] /\ reloaded'[q] = reloaded[q]
    BY DEF Frame
  <1>2. RequestOK(q)
    BY DEF ControlInv
  <1>3. pc[q] \in Holding /\ call[q].op \in ProjectOps => call[q].id \in ProjectIds
    BY <1>2, CallTypes DEF RequestOK, InFlight, Holding, Answers
  <1> QED BY <1>1, <1>2, <1>3 DEF RequestOK, InFlight, Stable

\* Beginning a request sets only its own memory.
LEMMA BeginStep ==
  ASSUME TypeOK, NEW r \in Requests, NEW c \in Calls, NEW location \in Locations,
         location \notin {"idle"} \cup Answers,
         NEW t \in Token \cup {NULL}, NEW object \in User \cup {NULL},
         Begin(r, c, location, t, object), UNCHANGED projectVars
  PROVE  /\ TypeOK' /\ Frame(r) /\ UNCHANGED SharedVars
         /\ pc'[r] = location /\ call'[r] = c /\ token'[r] = t /\ entity'[r] = object
         /\ undisturbed' = undisturbed \cup {r}
  <1> USE DEF Begin, Goto, TypeOK, projectVars, sessionVars
  <1>1. Frame(r) /\ UNCHANGED SharedVars
    BY DEF Frame, SharedVars
  <1>2. /\ pc' \in [Requests -> Locations] /\ pc'[r] = location
        /\ call' \in [Requests -> Calls \cup {NULL}] /\ call'[r] = c
        /\ token' \in [Requests -> Token \cup {NULL}] /\ token'[r] = t
        /\ entity' \in [Requests -> User \cup Project \cup {NULL}] /\ entity'[r] = object
    OBVIOUS
  <1>3. undisturbed' \subseteq {q \in Requests : InFlight(q)'}
    BY <1>1, <1>2 DEF InFlight, Frame
  <1> QED BY <1>1, <1>2, <1>3

\* An answered request holds nothing.
LEMMA AnswerStep ==
  ASSUME TypeOK, NEW r \in Requests, NEW outcome \in Answers, Answer(r, outcome)
  PROVE  /\ Frame(r) /\ pc'[r] = outcome
         /\ pc' \in [Requests -> Locations]
         /\ call' \in [Requests -> Calls \cup {NULL}]
         /\ token' \in [Requests -> Token \cup {NULL}]
         /\ caller' \in [Requests -> UserRole \cup {NULL}]
         /\ entity' \in [Requests -> User \cup Project \cup {NULL}]
         /\ reloaded' \in [Requests -> User \cup Project \cup {NULL}]
         /\ RequestOK(r)'
         /\ \A q \in Requests \ {r} : InFlight(q)' = InFlight(q)
  <1>1. /\ Frame(r) /\ pc'[r] = outcome
        /\ pc' \in [Requests -> Locations]
        /\ call' \in [Requests -> Calls \cup {NULL}]
        /\ token' \in [Requests -> Token \cup {NULL}]
        /\ caller' \in [Requests -> UserRole \cup {NULL}]
        /\ entity' \in [Requests -> User \cup Project \cup {NULL}]
        /\ reloaded' \in [Requests -> User \cup Project \cup {NULL}]
    BY DEF Answer, Goto, TypeOK, Frame, Locations
  <1>2. RequestOK(r)'
    BY <1>1 DEF RequestOK, InFlight, WithToken, Holding, Answers
  <1>3. \A q \in Requests \ {r} : InFlight(q)' = InFlight(q)
    BY <1>1 DEF Frame, InFlight
  <1> QED BY <1>1, <1>2, <1>3

\* A step that is well typed, touches r's memory only and leaves r in order
\* preserves ControlInv.
LEMMA ControlStep ==
  ASSUME ControlInv, NEW r \in Requests, TypeOK', Frame(r), Stable, RequestOK(r)'
  PROVE  ControlInv'
  BY FrameKeepsOthers DEF ControlInv

\* A rejection leaves everything but the memory of its request.
LEMMA RejectStep ==
  ASSUME ControlInv, NEW r \in Requests, Reject(r), UNCHANGED projectVars
  PROVE  /\ ControlInv' /\ Frame(r) /\ UNCHANGED SharedVars
         /\ pc'[r] = "rejected" /\ undisturbed' = undisturbed \ {r}
  <1>1. Answer(r, "rejected") /\ undisturbed' = undisturbed \ {r} /\ UNCHANGED SharedVars
    BY DEF Reject, SharedVars, projectVars, sessionVars
  <1>2. /\ Frame(r) /\ pc'[r] = "rejected" /\ RequestOK(r)'
        /\ pc' \in [Requests -> Locations]
        /\ call' \in [Requests -> Calls \cup {NULL}]
        /\ token' \in [Requests -> Token \cup {NULL}]
        /\ caller' \in [Requests -> UserRole \cup {NULL}]
        /\ entity' \in [Requests -> User \cup Project \cup {NULL}]
        /\ reloaded' \in [Requests -> User \cup Project \cup {NULL}]
        /\ \A q \in Requests \ {r} : InFlight(q)' = InFlight(q)
    BY <1>1, AnswerStep DEF ControlInv, Answers
  <1>3. undisturbed' \subseteq {q \in Requests : InFlight(q)'}
    BY <1>1, <1>2 DEF ControlInv, TypeOK
  <1>4. TypeOK'
    BY <1>1, <1>2, <1>3 DEF ControlInv, TypeOK, SharedVars
  <1>5. Stable
    BY <1>1 DEF Stable, SharedVars
  <1> QED BY <1>1, <1>2, <1>4, <1>5, ControlStep

\* A commit keeps the memory well typed, whatever it writes.
LEMMA AcceptStep ==
  ASSUME TypeOK, NEW r \in Requests, Accept(r)
  PROVE  /\ Frame(r) /\ pc'[r] = "ok" /\ RequestOK(r)' /\ undisturbed' = {}
         /\ pc' \in [Requests -> Locations]
         /\ call' \in [Requests -> Calls \cup {NULL}]
         /\ token' \in [Requests -> Token \cup {NULL}]
         /\ caller' \in [Requests -> UserRole \cup {NULL}]
         /\ entity' \in [Requests -> User \cup Project \cup {NULL}]
         /\ reloaded' \in [Requests -> User \cup Project \cup {NULL}]
  BY AnswerStep DEF Accept, Answers

\* So does a commit to users.
LEMMA CommitUserStep ==
  ASSUME ControlInv, NEW r \in Requests, NEW id \in UserIds, NEW row \in User \cup {NULL},
         NEW log \in UserLog, CommitUser(r, id, row, log), UNCHANGED projectVars
  PROVE  /\ ControlInv' /\ Frame(r) /\ pc'[r] = "ok" /\ undisturbed' = {}
         /\ UNCHANGED <<issued, denylist, clock, projects, projectLogs>>
         /\ users'[id] = row /\ userLogs'[id] = Append(userLogs[id], log)
         /\ \A i \in UserIds \ {id} : users'[i] = users[i] /\ userLogs'[i] = userLogs[i]
  <1>1. /\ Frame(r) /\ pc'[r] = "ok" /\ RequestOK(r)' /\ undisturbed' = {}
        /\ pc' \in [Requests -> Locations]
        /\ call' \in [Requests -> Calls \cup {NULL}]
        /\ token' \in [Requests -> Token \cup {NULL}]
        /\ caller' \in [Requests -> UserRole \cup {NULL}]
        /\ entity' \in [Requests -> User \cup Project \cup {NULL}]
        /\ reloaded' \in [Requests -> User \cup Project \cup {NULL}]
    BY AcceptStep DEF ControlInv, CommitUser
  <1>2. UNCHANGED <<issued, denylist, clock, projects, projectLogs>>
    BY DEF CommitUser, sessionVars, projectVars
  <1>3. Append(userLogs[id], log) \in Seq(UserLog)
    BY DEF ControlInv, TypeOK
  <1>4. /\ users' = [users EXCEPT ![id] = row]
        /\ userLogs' = [userLogs EXCEPT ![id] = Append(userLogs[id], log)]
    BY DEF CommitUser
  <1>5. /\ users' \in [UserIds -> User \cup {NULL}] /\ userLogs' \in [UserIds -> Seq(UserLog)]
        /\ users'[id] = row /\ userLogs'[id] = Append(userLogs[id], log)
        /\ \A i \in UserIds \ {id} : users'[i] = users[i] /\ userLogs'[i] = userLogs[i]
    BY <1>3, <1>4 DEF ControlInv, TypeOK
  <1>6. TypeOK'
    BY <1>1, <1>2, <1>5 DEF ControlInv, TypeOK
  <1>7. Stable
    BY <1>2 DEF Stable
  <1> QED BY <1>1, <1>2, <1>5, <1>6, <1>7, ControlStep

\* And a commit to projects.
LEMMA CommitProjectStep ==
  ASSUME ControlInv, NEW r \in Requests, NEW p \in ProjectIds, NEW row \in Project,
         NEW action \in {"CREATE", "UPDATE", "DELETE", "RESTORE"},
         token[r] \in issued, CommitProject(r, p, row, action)
  PROVE  /\ ControlInv' /\ Frame(r) /\ pc'[r] = "ok" /\ undisturbed' = {}
         /\ UNCHANGED <<users, userLogs, issued, denylist, clock>>
         /\ projects'[p] = row
         /\ \E log \in ProjectLog : /\ log.action = action
                                    /\ projectLogs'[p] = Append(projectLogs[p], log)
         /\ \A i \in ProjectIds \ {p} : projects'[i] = projects[i] /\ projectLogs'[i] = projectLogs[i]
  <1> DEFINE log == [action |-> action, performedBy |-> token[r].sub]
  <1>1. /\ Frame(r) /\ pc'[r] = "ok" /\ RequestOK(r)' /\ undisturbed' = {}
        /\ pc' \in [Requests -> Locations]
        /\ call' \in [Requests -> Calls \cup {NULL}]
        /\ token' \in [Requests -> Token \cup {NULL}]
        /\ caller' \in [Requests -> UserRole \cup {NULL}]
        /\ entity' \in [Requests -> User \cup Project \cup {NULL}]
        /\ reloaded' \in [Requests -> User \cup Project \cup {NULL}]
    BY AcceptStep DEF ControlInv, CommitProject
  <1>2. UNCHANGED <<users, userLogs, issued, denylist, clock>>
    BY DEF CommitProject, sessionVars
  <1>3. log \in ProjectLog /\ log.action = action
    BY DEF ControlInv, TypeOK, Token, ProjectLog
  <1>4. /\ projects' = [projects EXCEPT ![p] = row]
        /\ projectLogs' = [projectLogs EXCEPT ![p] = Append(projectLogs[p], log)]
    BY DEF CommitProject
  <1> HIDE DEF log
  <1>5. Append(projectLogs[p], log) \in Seq(ProjectLog)
    BY <1>3 DEF ControlInv, TypeOK
  <1>6. /\ projects' \in [ProjectIds -> Project \cup {NULL}]
        /\ projectLogs' \in [ProjectIds -> Seq(ProjectLog)]
        /\ projects'[p] = row /\ projectLogs'[p] = Append(projectLogs[p], log)
        /\ \A i \in ProjectIds \ {p} : projects'[i] = projects[i] /\ projectLogs'[i] = projectLogs[i]
    BY <1>4, <1>5 DEF ControlInv, TypeOK
  <1>7. TypeOK'
    BY <1>1, <1>2, <1>6 DEF ControlInv, TypeOK
  <1>8. row # NULL
    BY ProjectNullAssumption
  <1>9. Stable
    BY <1>2, <1>6, <1>8 DEF Stable
  <1> QED BY <1>1, <1>2, <1>3, <1>6, <1>7, <1>9, ControlStep

----------------------------------------------------------------------------
(* Types and control: one lemma per action                                 *)

\* A registered user is a user, with an id of its own.
LEMMA InitControl == Init => ControlInv
  <1> SUFFICES ASSUME Init PROVE ControlInv
    OBVIOUS
  <1> USE DEF Init, InitAccounts
  <1>1. users \in [UserIds -> User \cup {NULL}]
    BY RegisteredUsersAssumption
  <1>2. \A id \in UserIds : userLogs[id] \in Seq(UserLog)
    <2> SUFFICES ASSUME NEW id \in UserIds PROVE userLogs[id] \in Seq(UserLog)
      OBVIOUS
    <2>1. CASE users[id] = NULL
      BY <2>1
    <2>2. CASE users[id] # NULL
      <3>1. [action |-> "CREATE", role |-> users[id].role] \in UserLog
        BY <1>1, <2>2 DEF User, UserLog
      <3> QED BY <2>2, <3>1
    <2> QED BY <2>1, <2>2
  <1>3. issued \subseteq Token
    BY RegisteredUsersAssumption, ClockAssumption DEF User, Token
  <1>4. /\ projects \in [ProjectIds -> Project \cup {NULL}]
        /\ \A p \in ProjectIds : projects[p] # NULL => projects[p] \in Project
    BY FirstProjectsAssumption
  <1>5. \A p \in ProjectIds : projectLogs[p] \in Seq(ProjectLog)
    <2> SUFFICES ASSUME NEW p \in ProjectIds PROVE projectLogs[p] \in Seq(ProjectLog)
      OBVIOUS
    <2>1. CASE projects[p] = NULL
      BY <2>1
    <2>2. CASE projects[p] # NULL
      <3>1. [action |-> "CREATE", performedBy |-> projects[p].ownerId] \in ProjectLog
        BY <1>4, <2>2 DEF Project, ProjectLog
      <3> QED BY <2>2, <3>1
    <2> QED BY <2>1, <2>2
  <1>6. /\ pc \in [Requests -> Locations] /\ clock \in 0..MaxClock
        /\ denylist \subseteq issued /\ undisturbed \subseteq {r \in Requests : InFlight(r)}
    BY ClockAssumption DEF Locations
  <1>7. TypeOK
    BY <1>1, <1>2, <1>3, <1>4, <1>5, <1>6 DEF TypeOK
  <1>8. \A r \in Requests : RequestOK(r)
    BY DEF RequestOK, InFlight, WithToken, Holding
  <1> QED BY <1>7, <1>8 DEF ControlInv

\* A request arrives with a token, or to log in or register.
LEMMA BeginKeepsControl ==
  ASSUME ControlInv, NEW r \in Requests, Arrive(r) \/ BeginLogin(r) \/ BeginCreateUser(r),
         UNCHANGED projectVars
  PROVE  ControlInv'
  <1>1. CASE Reject(r)
    BY <1>1, RejectStep
  <1>2. ASSUME NEW c \in Calls, NEW t \in issued, c.op \notin Public,
               Begin(r, c, "arrived", t, NULL)
        PROVE  ControlInv'
    <2>1. /\ TypeOK' /\ Frame(r) /\ UNCHANGED SharedVars
          /\ pc'[r] = "arrived" /\ call'[r] = c /\ token'[r] = t
      BY <1>2, BeginStep DEF ControlInv, TypeOK, Locations, Answers
    <2>2. RequestOK(r)' /\ Stable
      BY <1>2, <2>1 DEF RequestOK, Holding, SharedVars, Stable
    <2> QED BY <2>1, <2>2, ControlStep
  <1>3. ASSUME NEW c \in Calls, NEW location \in {"comparing", "hashing"},
               NEW object \in User \cup {NULL}, location = "comparing" => object \in User,
               Begin(r, c, location, NULL, object)
        PROVE  ControlInv'
    <2>1. /\ TypeOK' /\ Frame(r) /\ UNCHANGED SharedVars
          /\ pc'[r] = location /\ call'[r] = c /\ entity'[r] = object
      BY <1>3, BeginStep DEF ControlInv, Locations, Answers
    <2>2. RequestOK(r)' /\ Stable
      BY <1>3, <2>1 DEF RequestOK, Holding, WithToken, SharedVars, Stable
    <2> QED BY <2>1, <2>2, ControlStep
  <1>4. CASE Arrive(r)
    BY <1>1, <1>2, <1>4 DEF Arrive
  <1>5. CASE BeginLogin(r)
    <2>1. \A id \in UserIds : users[id] # NULL => users[id] \in User
      BY DEF ControlInv, TypeOK
    <2> QED BY <1>1, <1>3, <1>5, <2>1 DEF BeginLogin
  <1>6. CASE BeginCreateUser(r)
    BY <1>3, <1>6 DEF BeginCreateUser
  <1> QED BY <1>4, <1>5, <1>6

\* Going on within a request: what a step that writes nothing does.
LEMMA MoveStep ==
  ASSUME ControlInv, NEW r \in Requests, InFlight(r),
         NEW location \in Locations, location \notin {"idle"} \cup Answers,
         Goto(r, location), Frame(r), UNCHANGED <<SharedVars, call, token, undisturbed>>,
         caller' \in [Requests -> UserRole \cup {NULL}],
         entity' \in [Requests -> User \cup Project \cup {NULL}],
         reloaded' \in [Requests -> User \cup Project \cup {NULL}],
         RequestOK(r)'
  PROVE  ControlInv'
  <1>1. pc' \in [Requests -> Locations] /\ pc'[r] = location
    BY DEF Goto, ControlInv, TypeOK
  <1>2. undisturbed' \subseteq {q \in Requests : InFlight(q)'}
    BY <1>1 DEF ControlInv, TypeOK, InFlight, Frame
  <1>3. TypeOK' /\ Stable
    BY <1>1, <1>2 DEF ControlInv, TypeOK, SharedVars, Stable
  <1> QED BY <1>3, ControlStep

\* The user of the token is read anew.
LEMMA AuthenticateKeepsControl ==
  ASSUME ControlInv, NEW r \in Requests, Authenticate(r), UNCHANGED projectVars
  PROVE  ControlInv'
  <1>1. CASE Reject(r)
    BY <1>1, RejectStep
  <1>2. CASE ~Reject(r)
    <2>1. /\ pc[r] = "arrived" /\ users[token[r].sub] # NULL /\ Goto(r, "authenticated")
          /\ caller' = [caller EXCEPT ![r] = users[token[r].sub].role]
          /\ UNCHANGED <<SharedVars, call, token, entity, reloaded, undisturbed>>
      BY <1>2 DEF Authenticate, SharedVars, projectVars, sessionVars
    <2>2. RequestOK(r) /\ token[r].sub \in UserIds /\ InFlight(r)
      BY <2>1 DEF ControlInv, RequestOK, TypeOK, Token, WithToken, InFlight, Answers
    <2>3. caller' \in [Requests -> UserRole \cup {NULL}]
      BY <2>1, <2>2 DEF ControlInv, TypeOK, User
    <2>4. Frame(r) /\ pc'[r] = "authenticated"
      BY <2>1 DEF Frame, Goto, ControlInv, TypeOK
    <2>5. RequestOK(r)'
      BY <2>1, <2>2, <2>4 DEF RequestOK, SharedVars, InFlight, WithToken, Holding
    <2>6. "authenticated" \in Locations \ ({"idle"} \cup Answers)
      BY DEF Locations, Answers
    <2> QED BY <2>1, <2>2, <2>3, <2>4, <2>5, <2>6, MoveStep DEF ControlInv, TypeOK
  <1> QED BY <1>1, <1>2

\* A service looks its row up.
LEMMA ReadStep ==
  ASSUME ControlInv, NEW r \in Requests, pc[r] = "authenticated",
         NEW location \in {"read", "owned"}, NEW object \in User \cup Project \cup {NULL},
         Read(r, location, object), UNCHANGED projectVars,
         location = "read" => /\ call[r].op \in UserOps => object \in User
                              /\ call[r].op \in ProjectOps =>
                                   projects[call[r].id] # NULL /\ object \in Project
                              /\ call[r].op = "updateProject" => ~object.deleted
  PROVE  /\ ControlInv' /\ Frame(r) /\ pc'[r] = location /\ entity'[r] = object
         /\ UNCHANGED <<SharedVars, call, token, reloaded, undisturbed>>
  <1>1. /\ Goto(r, location) /\ entity' = [entity EXCEPT ![r] = object]
        /\ UNCHANGED <<SharedVars, call, token, caller, reloaded, undisturbed>>
    BY DEF Read, SharedVars, projectVars, sessionVars
  <1>2. /\ Frame(r) /\ pc'[r] = location /\ entity'[r] = object
        /\ entity' \in [Requests -> User \cup Project \cup {NULL}]
    BY <1>1 DEF Frame, Goto, ControlInv, TypeOK
  <1>3. RequestOK(r) /\ InFlight(r)
    BY DEF ControlInv, InFlight, Answers
  <1>4. RequestOK(r)'
    BY <1>1, <1>2, <1>3
       DEF RequestOK, SharedVars, InFlight, WithToken, Holding, UserOps, ProjectOps
  <1>5. location \in Locations \ ({"idle"} \cup Answers)
    BY DEF Locations, Answers
  <1> QED BY <1>1, <1>2, <1>3, <1>4, <1>5, MoveStep DEF ControlInv, TypeOK

\* save() reads the row again.
LEMMA ReloadStep ==
  ASSUME ControlInv, NEW r \in Requests, pc[r] = "read",
         call[r].op \in {"updateUser", "updateProject"},
         NEW row, call[r].op = "updateUser" => row \in User \cup {NULL},
         call[r].op = "updateProject" => row \in Project,
         Reload(r, row), UNCHANGED projectVars
  PROVE  /\ ControlInv' /\ Frame(r) /\ pc'[r] = "reloaded" /\ reloaded'[r] = row
         /\ UNCHANGED <<SharedVars, call, token, entity, undisturbed>>
  <1>1. /\ Goto(r, "reloaded") /\ reloaded' = [reloaded EXCEPT ![r] = row]
        /\ UNCHANGED <<SharedVars, call, token, caller, entity, undisturbed>>
    BY DEF Reload, SharedVars, projectVars, sessionVars
  <1>2. /\ Frame(r) /\ pc'[r] = "reloaded" /\ reloaded'[r] = row
        /\ reloaded' \in [Requests -> User \cup Project \cup {NULL}]
    BY <1>1 DEF Frame, Goto, ControlInv, TypeOK
  <1>3. RequestOK(r) /\ InFlight(r)
    BY DEF ControlInv, InFlight, Answers
  <1>4. RequestOK(r)'
    BY <1>1, <1>2, <1>3 DEF RequestOK, SharedVars, InFlight, WithToken, Holding
  <1>5. "reloaded" \in Locations \ ({"idle"} \cup Answers)
    BY DEF Locations, Answers
  <1> QED BY <1>1, <1>2, <1>3, <1>4, <1>5, MoveStep DEF ControlInv, TypeOK

\* getUserOrThrow: what it read, if it goes on.
LEMMA ReadUserStep ==
  ASSUME ControlInv, NEW r \in Requests, ReadUser(r), UNCHANGED projectVars, ~Reject(r)
  PROVE  /\ ControlInv' /\ Frame(r) /\ pc[r] = "authenticated" /\ pc'[r] = "read"
         /\ call[r].op \in UserOps /\ call[r].id \in UserIds
         /\ users[call[r].id] # NULL /\ entity'[r] = users[call[r].id]
         /\ UNCHANGED <<SharedVars, call, token, reloaded, undisturbed>>
  <1>1. /\ pc[r] = "authenticated" /\ call[r].op \in UserOps
        /\ users[call[r].id] # NULL /\ Read(r, "read", users[call[r].id])
    BY DEF ReadUser, UserOps
  <1>2. call[r].id \in UserIds
    BY <1>1, CallTypes DEF ControlInv, RequestOK, InFlight, Answers
  <1>3. users[call[r].id] \in User /\ call[r].op \notin ProjectOps
    BY <1>1, <1>2 DEF ControlInv, TypeOK, UserOps, ProjectOps
  <1> QED BY <1>1, <1>2, <1>3, ReadStep DEF ProjectOps

\* getProjectOrThrow alike.
LEMMA ReadProjectStep ==
  ASSUME ControlInv, NEW r \in Requests, ReadProject(r) \/ ReadDeletedProject(r), ~Reject(r)
  PROVE  /\ ControlInv' /\ Frame(r) /\ pc[r] = "authenticated" /\ pc'[r] = "read"
         /\ call[r].op \in ProjectOps /\ call[r].id \in ProjectIds
         /\ projects[call[r].id] # NULL /\ entity'[r] = projects[call[r].id]
         /\ UNCHANGED <<SharedVars, call, token, reloaded, undisturbed>>
  <1>1. /\ pc[r] = "authenticated" /\ call[r].op \in ProjectOps
        /\ projects[call[r].id] # NULL /\ Read(r, "read", projects[call[r].id])
        /\ UNCHANGED projectVars
        /\ call[r].op = "updateProject" => ~projects[call[r].id].deleted
    BY DEF ReadProject, ReadDeletedProject, ProjectOps, Active, At
  <1>2. call[r].id \in ProjectIds
    BY <1>1, CallTypes DEF ControlInv, RequestOK, InFlight, Answers
  <1>3. projects[call[r].id] \in Project /\ call[r].op \notin UserOps
    BY <1>1, <1>2 DEF ControlInv, TypeOK, UserOps, ProjectOps
  <1> QED BY <1>1, <1>2, <1>3, ReadStep

\* The owner of a new project is looked up.
LEMMA FindOwnerStep ==
  ASSUME ControlInv, NEW r \in Requests, FindOwner(r), ~(Reject(r) /\ UNCHANGED projectVars)
  PROVE  /\ ControlInv' /\ Frame(r) /\ pc[r] = "authenticated" /\ pc'[r] = "owned"
         /\ call[r].op = "createProject"
         /\ UNCHANGED <<SharedVars, call, token, reloaded, undisturbed>>
  <1>1. /\ pc[r] = "authenticated" /\ call[r].op = "createProject"
        /\ Read(r, "owned", NULL) /\ UNCHANGED projectVars
    BY DEF FindOwner, At
  <1> QED BY <1>1, ReadStep

\* save() of a user reads the row again, if it is there.
LEMMA ReloadUserStep ==
  ASSUME ControlInv, NEW r \in Requests, ReloadUser(r), UNCHANGED projectVars
  PROVE  /\ ControlInv' /\ Frame(r) /\ pc[r] = "read" /\ pc'[r] = "reloaded"
         /\ call[r].op = "updateUser" /\ call[r].id \in UserIds
         /\ reloaded'[r] = users[call[r].id]
         /\ UNCHANGED <<SharedVars, call, token, entity, undisturbed>>
  <1>1. pc[r] = "read" /\ call[r].op = "updateUser" /\ Reload(r, users[call[r].id])
    BY DEF ReloadUser, At
  <1>2. call[r].id \in UserIds
    BY <1>1, CallTypes DEF ControlInv, RequestOK, InFlight, Answers, UserOps
  <1>3. users[call[r].id] \in User \cup {NULL}
    BY <1>2 DEF ControlInv, TypeOK
  <1> QED BY <1>1, <1>2, <1>3, ReloadStep

\* save() of a project finds it, deleted or not.
LEMMA ReloadProjectStep ==
  ASSUME ControlInv, NEW r \in Requests, ReloadProject(r)
  PROVE  /\ ControlInv' /\ Frame(r) /\ pc[r] = "read" /\ pc'[r] = "reloaded"
         /\ call[r].op = "updateProject" /\ call[r].id \in ProjectIds
         /\ reloaded'[r] = projects[call[r].id]
         /\ UNCHANGED <<SharedVars, call, token, entity, undisturbed>>
  <1>1. /\ pc[r] = "read" /\ call[r].op = "updateProject"
        /\ Reload(r, projects[call[r].id]) /\ UNCHANGED projectVars
    BY DEF ReloadProject, At
  <1>2. call[r].id \in ProjectIds /\ projects[call[r].id] # NULL
    BY <1>1, CallTypes DEF ControlInv, RequestOK, InFlight, Answers, ProjectOps, Holding
  <1>3. projects[call[r].id] \in Project
    BY <1>2 DEF ControlInv, TypeOK
  <1> QED BY <1>1, <1>2, <1>3, ReloadStep

\* What a registration commits.
LEMMA CreateUserParts ==
  ASSUME ControlInv, NEW r \in Requests, CommitCreateUser(r), ~Reject(r)
  PROVE  \E user \in User, log \in UserLog :
           /\ CommitUser(r, NewUserIdOf[r], user, log)
           /\ NewUserIdOf[r] \in UserIds /\ log.role = user.role /\ call[r].op = "createUser"
  <1> DEFINE c    == call[r]
             user == [id |-> NewUserIdOf[r], username |-> c.username, fullName |-> c.fullName,
                      role |-> c.role, password |-> c.password]
             log  == [action |-> "CREATE", role |-> c.role]
  <1>1. CommitUser(r, NewUserIdOf[r], user, log) /\ c.op = "createUser" /\ pc[r] = "hashing"
    BY DEF CommitCreateUser, At
  <1>2. c \in Calls
    BY <1>1 DEF ControlInv, RequestOK, InFlight, Answers
  <1>3. NewUserIdOf[r] \in UserIds
    BY NewUserIdsAssumption
  <1>4. /\ c.username \in Usernames /\ c.fullName \in FullNames /\ c.role \in UserRole
        /\ c.password \in Passwords \cup {NULL}
    BY <1>1, <1>2, CallTypes
  <1>5. user \in User /\ log \in UserLog /\ log.role = user.role
    BY <1>3, <1>4 DEF User, UserLog
  <1> HIDE DEF user, log
  <1> QED BY <1>1, <1>3, <1>5

\* The object update() saves, and the row it may become.
LEMMA PatchedUserTypes ==
  ASSUME NEW user \in User, NEW dto \in UpdateUserDto
  PROVE  /\ PatchedUser(user, dto) \in User
         /\ PatchedUser(user, dto).role = (IF dto.role = Undefined THEN user.role ELSE dto.role)
         /\ UpdateUserLog(user, dto) \in UserLog
         /\ UpdateUserLog(user, dto).action = "UPDATE"
         /\ PatchedUser(user, dto).role # user.role =>
              UpdateUserLog(user, dto).role = PatchedUser(user, dto).role
  BY DEF PatchedUser, UpdateUserLog, User, UserLog, UpdateUserDto

\* What save() leaves in the row: the object's role where it differs from the row
\* as it was read again.
LEMMA SavedUserTypes ==
  ASSUME NEW row \in User, NEW object \in User, NEW old \in User
  PROVE  /\ SavedUser(row, object, old) \in User
         /\ SavedUser(row, object, old).role =
              (IF object.role # old.role THEN object.role ELSE row.role)
  BY DEF SavedUser, User

\* What an update of a user has in hand when it commits.
LEMMA UpdateUserHolds ==
  ASSUME ControlInv, NEW r \in Requests, CommitUpdateUser(r)
  PROVE  /\ pc[r] = "reloaded" /\ call[r].op = "updateUser" /\ call[r].id \in UserIds
         /\ call[r].dto \in UpdateUserDto
         /\ entity[r] \in User /\ reloaded[r] \in User \cup {NULL}
         /\ users[call[r].id] \in User \cup {NULL}
  <1>1. pc[r] = "reloaded" /\ call[r].op = "updateUser"
    BY DEF CommitUpdateUser, At
  <1>2. RequestOK(r) /\ call[r] \in Calls
    BY <1>1 DEF ControlInv, RequestOK, InFlight, Answers
  <1>3. call[r].id \in UserIds /\ call[r].dto \in UpdateUserDto
    BY <1>1, <1>2, CallTypes DEF UserOps
  <1> QED BY <1>1, <1>2, <1>3 DEF RequestOK, Holding, UserOps, ControlInv, TypeOK

\* What it commits: a patched row, no row where there is none, or the object
\* itself where there is none.
LEMMA UpdateUserParts ==
  ASSUME ControlInv, NEW r \in Requests, CommitUpdateUser(r), ~Reject(r)
  PROVE  LET id     == call[r].id
             object == PatchedUser(entity[r], call[r].dto)
             log    == UpdateUserLog(entity[r], call[r].dto)
         IN  \E row \in User \cup {NULL} :
               /\ CommitUser(r, id, row, log)
               /\ \/ /\ reloaded[r] # NULL /\ users[id] # NULL /\ row # NULL
                     /\ row = SavedUser(users[id], object, reloaded[r])
                  \/ reloaded[r] # NULL /\ users[id] = NULL /\ row = NULL
                  \/ reloaded[r] = NULL /\ users[id] = NULL /\ row = object
  <1> DEFINE id     == call[r].id
             object == PatchedUser(entity[r], call[r].dto)
             log    == UpdateUserLog(entity[r], call[r].dto)
  <1>1. /\ entity[r] \in User /\ reloaded[r] \in User \cup {NULL}
        /\ users[id] \in User \cup {NULL} /\ object \in User
    BY UpdateUserHolds, PatchedUserTypes
  <1>2. \/ /\ reloaded[r] # NULL /\ users[id] # NULL
           /\ CommitUser(r, id, SavedUser(users[id], object, reloaded[r]), log)
        \/ reloaded[r] # NULL /\ users[id] = NULL /\ CommitUser(r, id, NULL, log)
        \/ reloaded[r] = NULL /\ users[id] = NULL /\ CommitUser(r, id, object, log)
    BY DEF CommitUpdateUser
  <1>3. CASE reloaded[r] # NULL /\ users[id] # NULL
    <2>1. SavedUser(users[id], object, reloaded[r]) \in User
      BY <1>1, <1>3, SavedUserTypes
    <2>2. SavedUser(users[id], object, reloaded[r]) # NULL
      BY <2>1, NullAssumption
    <2> QED BY <1>2, <1>3, <2>1, <2>2
  <1>4. CASE reloaded[r] # NULL /\ users[id] = NULL
    BY <1>2, <1>4
  <1>5. CASE reloaded[r] = NULL
    <2> QED BY <1>1, <1>2, <1>5
  <1> QED BY <1>3, <1>4, <1>5

\* What a removal commits.
LEMMA RemoveUserParts ==
  ASSUME ControlInv, NEW r \in Requests, CommitRemoveUser(r, Owners), ~Reject(r)
  PROVE  /\ pc[r] = "read" /\ call[r].op = "removeUser" /\ call[r].id \in UserIds
         /\ users[call[r].id] = NULL \/ call[r].id \notin Owners
         /\ [action |-> "DELETE", role |-> NULL] \in UserLog
         /\ CommitUser(r, call[r].id, NULL, [action |-> "DELETE", role |-> NULL])
  <1>1. /\ pc[r] = "read" /\ call[r].op = "removeUser"
        /\ users[call[r].id] = NULL \/ call[r].id \notin Owners
        /\ CommitUser(r, call[r].id, NULL, [action |-> "DELETE", role |-> NULL])
    BY DEF CommitRemoveUser, At
  <1>2. call[r].id \in UserIds
    BY <1>1, CallTypes DEF ControlInv, RequestOK, InFlight, Answers, UserOps
  <1> QED BY <1>1, <1>2 DEF UserLog

\* What the services of projects commit.
LEMMA CreateProjectParts ==
  ASSUME ControlInv, NEW r \in Requests, CommitCreateProject(r),
         ~(Reject(r) /\ UNCHANGED projectVars)
  PROVE  /\ pc[r] = "owned" /\ call[r].op = "createProject" /\ token[r] \in issued
         /\ NewProjectIdOf[r] \in ProjectIds
         /\ \E row \in Project : /\ CommitProject(r, NewProjectIdOf[r], row, "CREATE")
                                 /\ ~row.deleted /\ users[row.ownerId] # NULL
  <1> DEFINE c   == call[r]
             row == [name |-> c.name, ownerId |-> c.ownerId, deleted |-> FALSE]
  <1>1. /\ pc[r] = "owned" /\ c.op = "createProject" /\ users[c.ownerId] # NULL
        /\ CommitProject(r, NewProjectIdOf[r], row, "CREATE")
    BY DEF CommitCreateProject, At
  <1>2. c \in Calls /\ token[r] \in issued
    BY <1>1 DEF ControlInv, RequestOK, InFlight, Answers, WithToken
  <1>3. row \in Project /\ ~row.deleted /\ row.ownerId = c.ownerId
    BY <1>1, <1>2, CallTypes DEF Project
  <1> HIDE DEF row
  <1> QED BY <1>1, <1>2, <1>3, NewProjectIdsAssumption

\* What a request about a project has in hand.
LEMMA ChangeProjectHolds ==
  ASSUME ControlInv, NEW r \in Requests, pc[r] \in Holding, call[r].op \in ProjectOps
  PROVE  /\ call[r] \in Calls /\ call[r].id \in ProjectIds /\ token[r] \in issued
         /\ projects[call[r].id] \in Project /\ entity[r] \in Project
         /\ call[r].op = "updateProject" => ~entity[r].deleted
         /\ call[r].op = "updateProject" /\ pc[r] = "reloaded" => reloaded[r] \in Project
  <1>1. RequestOK(r) /\ call[r] \in Calls
    BY DEF ControlInv, RequestOK, InFlight, Answers, Holding
  <1>2. call[r].id \in ProjectIds
    BY <1>1, CallTypes
  <1> QED BY <1>1, <1>2 DEF RequestOK, Holding, WithToken, ControlInv, TypeOK

\* An update writes no owner, and never deletes.
LEMMA UpdateProjectParts ==
  ASSUME ControlInv, NEW r \in Requests, CommitUpdateProject(r)
  PROVE  /\ pc[r] = "reloaded" /\ call[r].op = "updateProject"
         /\ \E row \in Project : /\ CommitProject(r, call[r].id, row, "UPDATE")
                                 /\ row.ownerId = projects[call[r].id].ownerId
                                 /\ row.deleted => projects[call[r].id].deleted
                                 /\ reloaded[r].deleted = entity[r].deleted =>
                                      row.deleted = projects[call[r].id].deleted
  <1> DEFINE object == [entity[r] EXCEPT !.name = IF call[r].name = Undefined THEN @ ELSE call[r].name]
             row    == SavedProject(projects[call[r].id], object, reloaded[r])
  <1>1. /\ pc[r] = "reloaded" /\ call[r].op = "updateProject"
        /\ CommitProject(r, call[r].id, row, "UPDATE")
    BY DEF CommitUpdateProject, At
  <1>2. /\ call[r] \in Calls /\ projects[call[r].id] \in Project /\ entity[r] \in Project
        /\ ~entity[r].deleted /\ reloaded[r] \in Project
    BY <1>1, ChangeProjectHolds DEF Holding, ProjectOps
  <1>3. call[r].name \in ProjectNames \cup {Undefined}
    BY <1>1, <1>2, CallTypes
  <1>4. object \in Project /\ object.deleted = entity[r].deleted
    BY <1>2, <1>3 DEF Project
  <1> HIDE DEF object
  <1>5. /\ row \in Project /\ row.ownerId = projects[call[r].id].ownerId
        /\ row.deleted = (IF object.deleted # reloaded[r].deleted THEN object.deleted
                          ELSE projects[call[r].id].deleted)
    BY <1>2, <1>4 DEF SavedProject, Project
  <1> HIDE DEF row
  <1> QED BY <1>1, <1>2, <1>4, <1>5

\* A removal writes the deletion and nothing else.
LEMMA RemoveProjectParts ==
  ASSUME ControlInv, NEW r \in Requests, CommitRemoveProject(r)
  PROVE  /\ pc[r] = "read" /\ call[r].op = "removeProject"
         /\ \E row \in Project : /\ CommitProject(r, call[r].id, row, "DELETE")
                                 /\ row.ownerId = projects[call[r].id].ownerId /\ row.deleted
  <1> DEFINE row == [projects[call[r].id] EXCEPT !.deleted = TRUE]
  <1>1. /\ pc[r] = "read" /\ call[r].op = "removeProject"
        /\ CommitProject(r, call[r].id, row, "DELETE")
    BY DEF CommitRemoveProject, At
  <1>2. projects[call[r].id] \in Project
    BY <1>1, ChangeProjectHolds DEF Holding, ProjectOps
  <1>3. row \in Project /\ row.ownerId = projects[call[r].id].ownerId /\ row.deleted
    BY <1>2 DEF Project
  <1> HIDE DEF row
  <1> QED BY <1>1, <1>3

\* A restore undoes it.
LEMMA RestoreProjectParts ==
  ASSUME ControlInv, NEW r \in Requests, CommitRestoreProject(r)
  PROVE  /\ pc[r] = "read" /\ call[r].op = "restoreProject"
         /\ \E row \in Project : /\ CommitProject(r, call[r].id, row, "RESTORE")
                                 /\ row.ownerId = projects[call[r].id].ownerId /\ ~row.deleted
  <1> DEFINE row == [projects[call[r].id] EXCEPT !.deleted = FALSE]
  <1>1. /\ pc[r] = "read" /\ call[r].op = "restoreProject"
        /\ CommitProject(r, call[r].id, row, "RESTORE")
    BY DEF CommitRestoreProject, At
  <1>2. projects[call[r].id] \in Project
    BY <1>1, ChangeProjectHolds DEF Holding, ProjectOps
  <1>3. row \in Project /\ row.ownerId = projects[call[r].id].ownerId /\ ~row.deleted
    BY <1>2 DEF Project
  <1> HIDE DEF row
  <1> QED BY <1>1, <1>3

----------------------------------------------------------------------------
(* What every step achieves                                                *)

Inv == ControlInv /\ RecordInv /\ CurrentInv

\* The steps the action properties of Directory allow.
AuthorizedStep(r) ==
  Commits(r) /\ call[r].op \notin Public =>
    /\ r \in undisturbed =>
         /\ ~Denied(token[r])
         /\ users[token[r].sub] # NULL
         /\ call[r].op \in Guarded => users[token[r].sub].role = "ADMIN"
    /\ call[r].op \in Guarded =>
         \E i \in DOMAIN userLogs[token[r].sub] : userLogs[token[r].sub][i].role = "ADMIN"

RoleOf(row) == IF row = NULL THEN NULL ELSE row.role

RoleStep(id) ==
  RoleOf(users'[id]) \notin {NULL, RoleOf(users[id])} =>
    /\ \E i \in DOMAIN userLogs'[id] : userLogs'[id][i].role = RoleOf(users'[id])
    /\ \A r \in undisturbed : Commits(r) =>
         userLogs'[id][Len(userLogs'[id])].role = RoleOf(users'[id])

ShownStep(p) ==
  projects[p] # NULL /\ projects[p].deleted /\ ~projects'[p].deleted =>
    \E r \in Requests : Commits(r) /\ (call[r].op = "restoreProject"
                                       \/ (call[r].op = "updateProject" /\ r \notin undisturbed))

GoodStep ==
  /\ Inv'
  /\ \A r \in Requests : AuthorizedStep(r)
  /\ \A id \in UserIds : RoleStep(id)
  /\ \A p \in ProjectIds : ShownStep(p)

\* A step that leaves users, projects and their audit rows alone is good if its
\* own request remembers nothing but what is on record, and what is so.
LEMMA QuietStep ==
  ASSUME Inv, NEW r \in Requests, ControlInv', Frame(r),
         UNCHANGED <<users, userLogs, denylist, projects, projectLogs>>,
         undisturbed' \subseteq undisturbed \cup {r}, pc[r] # "ok",
         MemoryIsOnRecord(r)', CurrentOK(r)', AuthorizedStep(r)
  PROVE  GoodStep
  <1> USE DEF Frame
  <1>1. \A q \in Requests : MemoryIsOnRecord(q)'
    <2> SUFFICES ASSUME NEW q \in Requests \ {r} PROVE MemoryIsOnRecord(q)'
      OBVIOUS
    <2>1. /\ pc'[q] = pc[q] /\ call'[q] = call[q] /\ token'[q] = token[q] /\ entity'[q] = entity[q]
          /\ MemoryIsOnRecord(q)
      BY DEF Inv, RecordInv
    <2>2. \A id, role : OnRecord(id, role)' = OnRecord(id, role)
      BY DEF OnRecord
    <2> QED BY <2>1, <2>2 DEF MemoryIsOnRecord
  <1>2. RecordInv'
    BY <1>1 DEF Inv, RecordInv, OwnersExist, UserIsOnRecord, OnRecord, DeletionIsOnRecord, DeletionRows
  <1>3. \A q \in Requests : CurrentOK(q)'
    <2> SUFFICES ASSUME NEW q \in Requests \ {r} PROVE CurrentOK(q)'
      OBVIOUS
    <2>1. CurrentOK(q)
      BY DEF Inv, CurrentInv
    <2> QED BY <2>1 DEF CurrentOK, Denied
  <1>4. CurrentInv'
    BY <1>3 DEF Inv, CurrentInv, InsertOK
  <1>5. \A q \in Requests : AuthorizedStep(q)
    BY DEF AuthorizedStep, Commits
  <1>6. \A id \in UserIds : RoleStep(id)
    BY DEF RoleStep
  <1>7. \A p \in ProjectIds : ShownStep(p)
    BY DEF ShownStep
  <1> QED BY <1>2, <1>4, <1>5, <1>6, <1>7 DEF GoodStep, Inv

\* Rows are appended: a role once on record stays there.
LEMMA RecordGrows ==
  ASSUME ControlInv, NEW id \in UserIds, NEW log \in UserLog,
         userLogs'[id] = Append(userLogs[id], log)
  PROVE  /\ Len(userLogs'[id]) = Len(userLogs[id]) + 1
         /\ userLogs'[id][Len(userLogs'[id])] = log /\ userLogs'[id] # <<>>
         /\ \E i \in DOMAIN userLogs'[id] : userLogs'[id][i] = log
         /\ \A i \in DOMAIN userLogs[id] :
              i \in DOMAIN userLogs'[id] /\ userLogs'[id][i] = userLogs[id][i]
  <1>1. userLogs[id] \in Seq(UserLog)
    BY DEF ControlInv, TypeOK
  <1> QED BY <1>1

\* What a request about to commit may rely on.
LEMMA CommitsAuthorized ==
  ASSUME Inv, NEW r \in Requests,
         call[r].op \in Public \/ pc[r] \in Admitted
           \/ (pc[r] = "arrived" /\ call[r].op = "logout" /\ users[token[r].sub] # NULL)
  PROVE  AuthorizedStep(r)
  <1>1. CurrentOK(r) /\ MemoryIsOnRecord(r)
    BY DEF Inv, CurrentInv, RecordInv
  <1>2. CASE call[r].op \in Public
    BY <1>2 DEF AuthorizedStep
  <1>3. CASE pc[r] \in Admitted
    BY <1>1, <1>3 DEF AuthorizedStep, CurrentOK, MemoryIsOnRecord, OnRecord, Admitted
  <1>4. CASE pc[r] = "arrived" /\ call[r].op = "logout" /\ users[token[r].sub] # NULL
    BY <1>1, <1>4 DEF AuthorizedStep, CurrentOK, WithToken, Guarded
  <1> QED BY <1>2, <1>3, <1>4

\* What is on record stays on record, for users and for the memory of requests
\* that the step does not touch.
LEMMA RecordStays ==
  ASSUME ControlInv, NEW id \in UserIds, NEW log \in UserLog,
         userLogs'[id] = Append(userLogs[id], log),
         \A i \in UserIds \ {id} : userLogs'[i] = userLogs[i]
  PROVE  \A i \in UserIds, role \in UserRole : OnRecord(i, role) => OnRecord(i, role)'
  BY RecordGrows DEF OnRecord

\* The other requests' memory stays on record.
LEMMA OthersStayOnRecord ==
  ASSUME ControlInv, NEW r \in Requests, Frame(r), \A q \in Requests : MemoryIsOnRecord(q),
         \A i \in UserIds, role \in UserRole : OnRecord(i, role) => OnRecord(i, role)',
         pc'[r] \notin Holding \cup Admitted
  PROVE  \A q \in Requests : MemoryIsOnRecord(q)'
  <1> SUFFICES ASSUME NEW q \in Requests \ {r} PROVE MemoryIsOnRecord(q)'
    BY DEF MemoryIsOnRecord
  <1>1. /\ pc'[q] = pc[q] /\ call'[q] = call[q] /\ token'[q] = token[q] /\ entity'[q] = entity[q]
        /\ MemoryIsOnRecord(q) /\ RequestOK(q)
    BY DEF ControlInv, Frame
  <1>2. pc[q] \in Holding /\ call[q].op = "updateUser" =>
          call[q].id \in UserIds /\ entity[q].role \in UserRole
    BY <1>1, CallTypes DEF RequestOK, InFlight, Answers, Holding, UserOps, User
  <1>3. pc[q] \in Admitted => token[q].sub \in UserIds
    BY <1>1 DEF RequestOK, Admitted, WithToken, ControlInv, TypeOK, Token
  <1> QED BY <1>1, <1>2, <1>3 DEF MemoryIsOnRecord, UserRole

\* A commit to users is good if the role it writes is the one its audit row
\* reports or one on record, and if what it removes is on record and owns nothing.
LEMMA UserCommit ==
  ASSUME Inv, NEW r \in Requests, NEW id \in UserIds, NEW row \in User \cup {NULL},
         NEW log \in UserLog, CommitUser(r, id, row, log), UNCHANGED projectVars,
         pc[r] # "ok", AuthorizedStep(r),
         row # NULL => log.role = row.role \/ OnRecord(id, row.role),
         row # NULL /\ r \in undisturbed => RoleOf(users[id]) = row.role \/ log.role = row.role,
         row = NULL => \/ log.action = "DELETE" /\ (users[id] = NULL \/ id \notin Owners)
                       \/ users[id] = NULL /\ userLogs[id] # <<>>
  PROVE  GoodStep
  <1>1. /\ ControlInv' /\ Frame(r) /\ pc'[r] = "ok" /\ undisturbed' = {}
        /\ UNCHANGED <<issued, denylist, clock, projects, projectLogs>>
        /\ users'[id] = row /\ userLogs'[id] = Append(userLogs[id], log)
        /\ \A i \in UserIds \ {id} : users'[i] = users[i] /\ userLogs'[i] = userLogs[i]
    BY CommitUserStep DEF Inv
  <1>2. /\ userLogs'[id][Len(userLogs'[id])] = log /\ userLogs'[id] # <<>>
        /\ \E i \in DOMAIN userLogs'[id] : userLogs'[id][i] = log
        /\ \A i \in DOMAIN userLogs[id] :
             i \in DOMAIN userLogs'[id] /\ userLogs'[id][i] = userLogs[id][i]
    BY <1>1, RecordGrows DEF Inv
  <1>3. \A i \in UserIds, role \in UserRole : OnRecord(i, role) => OnRecord(i, role)'
    BY <1>1, RecordStays DEF Inv
  <1>4. row # NULL => row.role \in UserRole /\ OnRecord(id, row.role)'
    <2>1. row # NULL => row.role \in UserRole
      BY DEF User
    <2>2. CASE row # NULL /\ log.role = row.role
      BY <1>2, <2>1, <2>2 DEF OnRecord
    <2> QED BY <1>3, <2>1, <2>2
  <1>5. \A i \in UserIds : UserIsOnRecord(i)'
    <2>1. UserIsOnRecord(id)'
      <3>1. CASE row # NULL
        BY <1>1, <1>4, <3>1 DEF UserIsOnRecord, OnRecord
      <3>2. CASE row = NULL /\ log.action = "DELETE"
        BY <1>1, <1>2, <3>2 DEF UserIsOnRecord
      <3>3. CASE row = NULL /\ users[id] = NULL /\ userLogs[id] # <<>>
        BY <1>1, <1>2, <3>3 DEF UserIsOnRecord, Inv, RecordInv
      <3> QED BY <3>1, <3>2, <3>3
    <2>2. \A i \in UserIds \ {id} : UserIsOnRecord(i)'
      BY <1>1 DEF UserIsOnRecord, OnRecord, Inv, RecordInv
    <2> QED BY <2>1, <2>2
  <1>6. OwnersExist'
    <2> SUFFICES ASSUME NEW p \in ProjectIds, projects[p] # NULL
                 PROVE  users'[projects[p].ownerId] # NULL
      BY <1>1 DEF OwnersExist
    <2>1. users[projects[p].ownerId] # NULL /\ projects[p].ownerId \in UserIds
      BY DEF Inv, RecordInv, OwnersExist, ControlInv, TypeOK, Project
    <2>2. projects[p].ownerId \in Owners
      BY DEF Owners
    <2> QED BY <1>1, <2>1, <2>2
  <1>7. \A p \in ProjectIds : DeletionIsOnRecord(p)'
    BY <1>1 DEF DeletionIsOnRecord, DeletionRows, Inv, RecordInv
  <1>8. \A q \in Requests : MemoryIsOnRecord(q)'
    BY <1>1, <1>3, OthersStayOnRecord DEF Inv, RecordInv, Holding, Admitted, WithToken
  <1>9. CurrentInv'
    BY <1>1 DEF CurrentInv, CurrentOK, InsertOK, Inv, Frame
  <1>10. Inv'
    BY <1>1, <1>5, <1>6, <1>7, <1>8, <1>9 DEF Inv, RecordInv
  <1>11. \A q \in Requests : AuthorizedStep(q)
    BY <1>1 DEF AuthorizedStep, Commits, Frame
  <1>12. \A i \in UserIds : RoleStep(i)
    <2>1. RoleStep(id)
      <3>1. CASE row = NULL
        BY <1>1, <3>1 DEF RoleStep, RoleOf
      <3>2. CASE row # NULL
        <4>1. RoleOf(users'[id]) = row.role
          BY <1>1, <3>2 DEF RoleOf
        <4>2. \E i \in DOMAIN userLogs'[id] : userLogs'[id][i].role = row.role
          BY <1>4, <3>2 DEF OnRecord
        <4>3. ASSUME NEW q \in undisturbed, Commits(q), RoleOf(users[id]) # row.role
              PROVE  userLogs'[id][Len(userLogs'[id])].role = row.role
          <5>1. q = r
            BY <1>1, <4>3 DEF Commits, Frame, Inv, ControlInv, TypeOK
          <5> QED BY <1>2, <3>2, <4>3, <5>1
        <4> QED BY <4>1, <4>2, <4>3 DEF RoleStep
      <3> QED BY <3>1, <3>2
    <2>2. \A i \in UserIds \ {id} : RoleStep(i)
      BY <1>1 DEF RoleStep
    <2> QED BY <2>1, <2>2
  <1>13. \A p \in ProjectIds : ShownStep(p)
    BY <1>1 DEF ShownStep
  <1> QED BY <1>10, <1>11, <1>12, <1>13 DEF GoodStep

\* A commit to projects is good if the owner exists, if a deletion it writes is
\* its own or was there, and if a project is shown by a restore or an overlap.
LEMMA ProjectCommit ==
  ASSUME Inv, NEW r \in Requests, NEW p \in ProjectIds, NEW row \in Project,
         NEW action \in {"CREATE", "UPDATE", "DELETE", "RESTORE"},
         CommitProject(r, p, row, action),
         pc[r] \in Admitted, projects[p] # NULL \/ p = NewProjectIdOf[r],
         users[row.ownerId] # NULL,
         action = "DELETE" => row.deleted, action = "RESTORE" => ~row.deleted,
         row.deleted => action = "DELETE"
                        \/ (action = "UPDATE" /\ projects[p] # NULL /\ projects[p].deleted),
         projects[p] # NULL /\ projects[p].deleted /\ ~row.deleted =>
           call[r].op = "restoreProject" \/ (call[r].op = "updateProject" /\ r \notin undisturbed)
  PROVE  GoodStep
  <1>1. token[r] \in issued /\ pc[r] # "ok"
    BY DEF Inv, ControlInv, RequestOK, Admitted, WithToken
  <1>2. PICK log \in ProjectLog :
           /\ ControlInv' /\ Frame(r) /\ pc'[r] = "ok" /\ undisturbed' = {}
           /\ UNCHANGED <<users, userLogs, issued, denylist, clock>>
           /\ projects'[p] = row
           /\ log.action = action /\ projectLogs'[p] = Append(projectLogs[p], log)
           /\ \A i \in ProjectIds \ {p} : projects'[i] = projects[i] /\ projectLogs'[i] = projectLogs[i]
    BY <1>1, CommitProjectStep DEF Inv
  <1>3. OwnersExist'
    BY <1>2 DEF OwnersExist, Inv, RecordInv
  <1>4. \A id \in UserIds : UserIsOnRecord(id)'
    BY <1>2 DEF UserIsOnRecord, OnRecord, Inv, RecordInv
  <1>5. \A i \in ProjectIds : DeletionIsOnRecord(i)'
    <2>1. DeletionIsOnRecord(p)'
      <3> SUFFICES ASSUME row.deleted
                   PROVE  \E i \in DeletionRows(p)' :
                            projectLogs'[p][i].action = "DELETE" /\ \A j \in DeletionRows(p)' : j <= i
        BY <1>2 DEF DeletionIsOnRecord
      <3>1. projectLogs[p] \in Seq(ProjectLog)
        BY DEF Inv, ControlInv, TypeOK
      <3> DEFINE n == Len(projectLogs[p])
      <3>2. /\ n \in Nat /\ DOMAIN projectLogs[p] = 1..n /\ DOMAIN projectLogs'[p] = 1..(n + 1)
            /\ projectLogs'[p][n + 1] = log
            /\ \A i \in 1..n : projectLogs'[p][i] = projectLogs[p][i]
        BY <1>2, <3>1
      <3> HIDE DEF n
      <3>3. CASE action = "DELETE"
        <4>1. n + 1 \in DeletionRows(p)' /\ \A j \in DeletionRows(p)' : j <= n + 1
          BY <1>2, <3>2, <3>3 DEF DeletionRows
        <4> QED BY <1>2, <3>2, <3>3, <4>1
      <3>4. CASE action = "UPDATE" /\ projects[p] # NULL /\ projects[p].deleted
        <4>1. DeletionRows(p)' = DeletionRows(p)
          BY <1>2, <3>2, <3>4 DEF DeletionRows
        <4>2. PICK i \in DeletionRows(p) :
                 projectLogs[p][i].action = "DELETE" /\ \A j \in DeletionRows(p) : j <= i
          BY <3>4 DEF DeletionIsOnRecord, Inv, RecordInv
        <4>3. projectLogs'[p][i] = projectLogs[p][i]
          BY <3>2, <4>2 DEF DeletionRows
        <4> QED BY <4>1, <4>2, <4>3
      <3> QED BY <3>3, <3>4
    <2>2. \A i \in ProjectIds \ {p} : DeletionIsOnRecord(i)'
      BY <1>2 DEF DeletionIsOnRecord, DeletionRows, Inv, RecordInv
    <2> QED BY <2>1, <2>2
  <1>6. \A q \in Requests : MemoryIsOnRecord(q)'
    <2>1. \A i \in UserIds, role \in UserRole : OnRecord(i, role) => OnRecord(i, role)'
      BY <1>2 DEF OnRecord
    <2> QED BY <1>2, <2>1, OthersStayOnRecord DEF Inv, RecordInv, Holding, Admitted, WithToken
  <1>7. CurrentInv'
    <2>1. \A q \in Requests : InsertOK(q)'
      <3> SUFFICES ASSUME NEW q \in Requests \ {r} PROVE InsertOK(q)'
        BY <1>2 DEF InsertOK
      <3>1. InsertOK(q) /\ pc'[q] = pc[q]
        BY <1>2 DEF Inv, CurrentInv, Frame
      <3>2. NewProjectIdOf[q] # NewProjectIdOf[r] /\ NewProjectIdOf[q] \in ProjectIds
        BY NewProjectIdsAssumption
      <3> QED BY <1>2, <3>1, <3>2 DEF InsertOK
    <2> QED BY <1>2, <2>1 DEF CurrentInv, CurrentOK
  <1>8. Inv'
    BY <1>2, <1>3, <1>4, <1>5, <1>6, <1>7 DEF Inv, RecordInv
  <1>9. \A q \in Requests : AuthorizedStep(q)
    BY <1>2, CommitsAuthorized DEF AuthorizedStep, Commits, Frame
  <1>10. \A id \in UserIds : RoleStep(id)
    BY <1>2 DEF RoleStep
  <1>11. \A i \in ProjectIds : ShownStep(i)
    <2>1. ShownStep(p)
      BY <1>1, <1>2 DEF ShownStep, Commits
    <2>2. \A i \in ProjectIds \ {p} : ShownStep(i)
      BY <1>2 DEF ShownStep
    <2> QED BY <2>1, <2>2
  <1> QED BY <1>8, <1>9, <1>10, <1>11 DEF GoodStep

\* An answer without a commit to a table is good.
LEMMA AnswerIsGood ==
  ASSUME Inv, NEW r \in Requests, ControlInv', Frame(r),
         UNCHANGED <<users, userLogs, denylist, projects, projectLogs>>,
         undisturbed' = undisturbed \ {r}, pc[r] # "ok", pc'[r] \in Answers,
         pc'[r] = "ok" => call[r].op \in Public
  PROVE  GoodStep
  <1>1. MemoryIsOnRecord(r)' /\ CurrentOK(r)'
    BY DEF MemoryIsOnRecord, CurrentOK, Answers, Holding, Admitted, WithToken
  <1>2. AuthorizedStep(r)
    BY DEF AuthorizedStep, Commits, Answers
  <1> QED BY <1>1, <1>2, QuietStep

\* So is every rejection.
LEMMA RejectIsGood ==
  ASSUME Inv, NEW r \in Requests, Reject(r), UNCHANGED projectVars, pc[r] # "ok"
  PROVE  GoodStep
  <1>1. /\ ControlInv' /\ Frame(r) /\ UNCHANGED SharedVars
        /\ pc'[r] = "rejected" /\ undisturbed' = undisturbed \ {r}
    BY RejectStep DEF Inv
  <1> QED BY <1>1, AnswerIsGood DEF SharedVars, Answers

----------------------------------------------------------------------------
(* One lemma per action                                                    *)

\* A request that begins remembers a token that is not logged out, or nothing.
LEMMA BeginIsGood ==
  ASSUME Inv, NEW r \in Requests, Arrive(r) \/ BeginLogin(r) \/ BeginCreateUser(r),
         UNCHANGED projectVars
  PROVE  GoodStep
  <1>1. pc[r] = "idle" /\ ControlInv'
    BY BeginKeepsControl DEF Arrive, BeginLogin, BeginCreateUser, Inv
  <1>2. CASE Reject(r)
    BY <1>1, <1>2, RejectIsGood
  <1>3. ASSUME NEW c \in Calls, NEW location \in {"arrived", "comparing", "hashing"},
               NEW t \in Token \cup {NULL}, NEW object \in User \cup {NULL},
               location = "arrived" => ~Denied(t), Begin(r, c, location, t, object)
        PROVE  GoodStep
    <2>1. /\ Frame(r) /\ UNCHANGED SharedVars /\ pc'[r] = location
          /\ token'[r] = t /\ undisturbed' = undisturbed \cup {r}
      BY <1>3, BeginStep DEF Inv, ControlInv, Locations, Answers
    <2>2. MemoryIsOnRecord(r)' /\ CurrentOK(r)'
      BY <1>3, <2>1 DEF MemoryIsOnRecord, CurrentOK, Holding, Admitted, WithToken, SharedVars, Denied
    <2>3. AuthorizedStep(r)
      BY <1>3, <2>1 DEF AuthorizedStep, Commits
    <2> QED BY <1>1, <2>1, <2>2, <2>3, QuietStep DEF SharedVars
  <1>4. CASE Arrive(r)
    <2>1. issued \subseteq Token
      BY DEF Inv, ControlInv, TypeOK
    <2> QED BY <1>2, <1>3, <1>4, <2>1 DEF Arrive
  <1>5. CASE BeginLogin(r)
    <2>1. \A id \in UserIds : users[id] \in User \cup {NULL}
      BY DEF Inv, ControlInv, TypeOK
    <2> QED BY <1>2, <1>3, <1>5, <2>1 DEF BeginLogin
  <1>6. CASE BeginCreateUser(r)
    BY <1>3, <1>6 DEF BeginCreateUser
  <1> QED BY <1>4, <1>5, <1>6

\* A request is let in with the role its user has, which is on record.
LEMMA AuthenticateIsGood ==
  ASSUME Inv, NEW r \in Requests, Authenticate(r), UNCHANGED projectVars
  PROVE  GoodStep
  <1>1. pc[r] = "arrived" /\ ControlInv'
    BY AuthenticateKeepsControl DEF Authenticate, Inv
  <1>2. CASE Reject(r)
    BY <1>1, <1>2, RejectIsGood
  <1>3. CASE ~Reject(r)
    <2>1. /\ users[token[r].sub] # NULL
          /\ call[r].op \in Guarded => users[token[r].sub].role = "ADMIN"
          /\ Goto(r, "authenticated")
          /\ caller' = [caller EXCEPT ![r] = users[token[r].sub].role]
          /\ UNCHANGED <<SharedVars, call, token, entity, reloaded, undisturbed>>
      BY <1>3 DEF Authenticate, SharedVars, projectVars, sessionVars
    <2>2. Frame(r) /\ pc'[r] = "authenticated"
      BY <2>1 DEF Frame, Goto, Inv, ControlInv, TypeOK
    <2>3. token[r].sub \in UserIds
      BY <1>1 DEF Inv, ControlInv, RequestOK, TypeOK, Token, WithToken
    <2>4. call[r].op \in Guarded => OnRecord(token[r].sub, "ADMIN")
      BY <2>1, <2>3 DEF Inv, RecordInv, UserIsOnRecord
    <2>5. MemoryIsOnRecord(r)'
      BY <2>1, <2>2, <2>4 DEF MemoryIsOnRecord, Holding, SharedVars, OnRecord
    <2>6. CurrentOK(r)'
      BY <1>1, <2>1, <2>2 DEF Inv, CurrentInv, CurrentOK, Holding, WithToken, SharedVars, Denied
    <2>7. AuthorizedStep(r)
      BY <2>2 DEF AuthorizedStep, Commits
    <2> QED BY <1>1, <2>1, <2>2, <2>5, <2>6, <2>7, QuietStep DEF SharedVars
  <1> QED BY <1>2, <1>3

\* A row that is read is on record, and current.
LEMMA ReadIsGood ==
  ASSUME Inv, NEW r \in Requests,
         (ReadUser(r) /\ UNCHANGED projectVars) \/ ReadProject(r) \/ ReadDeletedProject(r)
           \/ FindOwner(r)
  PROVE  GoodStep
  <1>1. pc[r] = "authenticated"
    BY DEF ReadUser, ReadProject, ReadDeletedProject, FindOwner, At
  <1>2. CASE Reject(r) /\ UNCHANGED projectVars
    BY <1>1, <1>2, RejectIsGood
  <1>3. ASSUME ControlInv', Frame(r), pc'[r] \in {"read", "owned"},
               UNCHANGED <<SharedVars, call, token, reloaded, undisturbed>>,
               pc'[r] = "read" /\ call[r].op = "updateUser" =>
                 call[r].id \in UserIds /\ users[call[r].id] # NULL /\ entity'[r] = users[call[r].id],
               pc'[r] = "read" /\ call[r].op = "updateProject" => entity'[r] = projects[call[r].id]
        PROVE  GoodStep
    <2>1. MemoryIsOnRecord(r) /\ CurrentOK(r)
      BY DEF Inv, RecordInv, CurrentInv
    <2>2. pc'[r] = "read" /\ call[r].op = "updateUser" => OnRecord(call[r].id, users[call[r].id].role)
      BY <1>3 DEF Inv, RecordInv, UserIsOnRecord
    <2>3. MemoryIsOnRecord(r)'
      BY <1>1, <1>3, <2>1, <2>2
         DEF MemoryIsOnRecord, Holding, Admitted, WithToken, SharedVars, OnRecord
    <2>4. CurrentOK(r)'
      BY <1>1, <1>3, <2>1 DEF CurrentOK, Holding, Admitted, WithToken, SharedVars, Denied
    <2>5. AuthorizedStep(r)
      BY <1>3 DEF AuthorizedStep, Commits
    <2> QED BY <1>1, <1>3, <2>3, <2>4, <2>5, QuietStep DEF SharedVars
  <1>4. CASE ReadUser(r) /\ UNCHANGED projectVars /\ ~Reject(r)
    <2>1. /\ ControlInv' /\ Frame(r) /\ pc'[r] = "read" /\ call[r].op \in UserOps
          /\ call[r].id \in UserIds /\ users[call[r].id] # NULL /\ entity'[r] = users[call[r].id]
          /\ UNCHANGED <<SharedVars, call, token, reloaded, undisturbed>>
      BY <1>4, ReadUserStep DEF Inv
    <2> QED BY <1>3, <2>1 DEF UserOps
  <1>5. CASE (ReadProject(r) \/ ReadDeletedProject(r)) /\ ~Reject(r)
    <2>1. /\ ControlInv' /\ Frame(r) /\ pc'[r] = "read" /\ call[r].op \in ProjectOps
          /\ entity'[r] = projects[call[r].id]
          /\ UNCHANGED <<SharedVars, call, token, reloaded, undisturbed>>
      BY <1>5, ReadProjectStep DEF Inv
    <2> QED BY <1>3, <2>1 DEF ProjectOps
  <1>6. CASE FindOwner(r) /\ ~(Reject(r) /\ UNCHANGED projectVars)
    <2>1. /\ ControlInv' /\ Frame(r) /\ pc'[r] = "owned"
          /\ UNCHANGED <<SharedVars, call, token, reloaded, undisturbed>>
      BY <1>6, FindOwnerStep DEF Inv
    <2> QED BY <1>3, <2>1
  <1> QED BY <1>2, <1>4, <1>5, <1>6 DEF ReadProject, ReadDeletedProject

\* A row that is read again is current.
LEMMA ReloadIsGood ==
  ASSUME Inv, NEW r \in Requests, (ReloadUser(r) /\ UNCHANGED projectVars) \/ ReloadProject(r)
  PROVE  GoodStep
  <1>1. /\ ControlInv' /\ Frame(r) /\ pc[r] = "read" /\ pc'[r] = "reloaded"
        /\ call[r].op = "updateUser" => reloaded'[r] = users[call[r].id]
        /\ call[r].op = "updateProject" => reloaded'[r] = projects[call[r].id]
        /\ UNCHANGED <<SharedVars, call, token, entity, undisturbed>>
    <2>1. CASE ReloadUser(r) /\ UNCHANGED projectVars
      <3>1. call[r].op # "updateProject"
        BY <2>1 DEF ReloadUser, At
      <3> QED BY <2>1, <3>1, ReloadUserStep DEF Inv
    <2>2. CASE ReloadProject(r)
      <3>1. call[r].op # "updateUser"
        BY <2>2 DEF ReloadProject, At
      <3> QED BY <2>2, <3>1, ReloadProjectStep DEF Inv
    <2> QED BY <2>1, <2>2
  <1>2. MemoryIsOnRecord(r) /\ CurrentOK(r)
    BY DEF Inv, RecordInv, CurrentInv
  <1>3. MemoryIsOnRecord(r)'
    BY <1>1, <1>2 DEF MemoryIsOnRecord, Holding, Admitted, WithToken, SharedVars, OnRecord
  <1>4. CurrentOK(r)'
    BY <1>1, <1>2 DEF CurrentOK, Holding, Admitted, WithToken, SharedVars, Denied
  <1>5. AuthorizedStep(r)
    BY <1>1 DEF AuthorizedStep, Commits
  <1> QED BY <1>1, <1>3, <1>4, <1>5, QuietStep DEF SharedVars

\* A registration writes the role its row reports.
LEMMA CreateUserIsGood ==
  ASSUME Inv, NEW r \in Requests, CommitCreateUser(r), UNCHANGED projectVars
  PROVE  GoodStep
  <1>1. pc[r] = "hashing"
    BY DEF CommitCreateUser, At
  <1>2. CASE Reject(r)
    BY <1>1, <1>2, RejectIsGood
  <1>3. CASE ~Reject(r)
    <2>1. PICK user \in User, log \in UserLog :
             /\ CommitUser(r, NewUserIdOf[r], user, log)
             /\ NewUserIdOf[r] \in UserIds /\ log.role = user.role /\ call[r].op = "createUser"
      BY <1>3, CreateUserParts DEF Inv
    <2>2. AuthorizedStep(r) /\ user # NULL
      BY <2>1, NullAssumption DEF AuthorizedStep, Public
    <2> QED BY <1>1, <2>1, <2>2, UserCommit
  <1> QED BY <1>2, <1>3

\* A profile update writes the role its row reports, or one on record.
LEMMA UpdateUserIsGood ==
  ASSUME Inv, NEW r \in Requests, CommitUpdateUser(r), UNCHANGED projectVars
  PROVE  GoodStep
  <1> DEFINE id     == call[r].id
             object == PatchedUser(entity[r], call[r].dto)
             log    == UpdateUserLog(entity[r], call[r].dto)
  <1>1. /\ pc[r] = "reloaded" /\ call[r].op = "updateUser" /\ id \in UserIds
        /\ call[r].dto \in UpdateUserDto
        /\ entity[r] \in User /\ reloaded[r] \in User \cup {NULL}
        /\ users[id] \in User \cup {NULL}
    BY UpdateUserHolds DEF Inv
  <1>2. CASE Reject(r)
    BY <1>1, <1>2, RejectIsGood
  <1>3. CASE ~Reject(r)
    <2>1. PICK row \in User \cup {NULL} :
             /\ CommitUser(r, id, row, log)
             /\ \/ /\ reloaded[r] # NULL /\ users[id] # NULL /\ row # NULL
                   /\ row = SavedUser(users[id], object, reloaded[r])
                \/ reloaded[r] # NULL /\ users[id] = NULL /\ row = NULL
                \/ reloaded[r] = NULL /\ users[id] = NULL /\ row = object
      BY <1>3, UpdateUserParts DEF Inv
    <2>2. /\ object \in User /\ log \in UserLog
          /\ object.role # entity[r].role => log.role = object.role
      BY <1>1, PatchedUserTypes
    <2>3. OnRecord(id, entity[r].role) /\ (users[id] # NULL => OnRecord(id, users[id].role))
      BY <1>1 DEF Inv, RecordInv, MemoryIsOnRecord, UserIsOnRecord, Holding
    <2>4. reloaded[r] # NULL /\ users[id] # NULL =>
            row.role = (IF object.role # reloaded[r].role THEN object.role ELSE users[id].role)
      BY <1>1, <2>1, <2>2, SavedUserTypes
    <2> HIDE DEF object, log
    <2>5. row # NULL => log.role = row.role \/ OnRecord(id, row.role)
      <3>1. log.role = object.role \/ OnRecord(id, object.role)
        BY <2>2, <2>3
      <3> QED BY <2>1, <2>3, <2>4, <3>1
    <2>6. row # NULL /\ r \in undisturbed => RoleOf(users[id]) = row.role \/ log.role = row.role
      <3> SUFFICES ASSUME row # NULL, r \in undisturbed
                   PROVE  RoleOf(users[id]) = row.role \/ log.role = row.role
        OBVIOUS
      <3>1. entity[r] = users[id] /\ reloaded[r] = users[id]
        BY <1>1 DEF Inv, CurrentInv, CurrentOK, Holding
      <3>2. users[id] # NULL
        BY <1>1, <3>1, NullAssumption
      <3> QED BY <2>2, <2>4, <3>1, <3>2 DEF RoleOf
    <2>7. row = NULL => users[id] = NULL /\ userLogs[id] # <<>>
      <3>1. row = NULL => users[id] = NULL
        BY <2>1
      <3>2. userLogs[id] # <<>>
        BY <2>3 DEF OnRecord
      <3> QED BY <3>1, <3>2
    <2>8. AuthorizedStep(r)
      BY <1>1, CommitsAuthorized DEF Admitted, WithToken
    <2> QED BY <1>1, <2>1, <2>2, <2>5, <2>6, <2>7, <2>8, UserCommit
  <1> QED BY <1>2, <1>3

\* A removal is on record and leaves no project without its owner.
LEMMA RemoveUserIsGood ==
  ASSUME Inv, NEW r \in Requests, CommitRemoveUser(r, Owners), UNCHANGED projectVars
  PROVE  GoodStep
  <1>1. pc[r] = "read"
    BY DEF CommitRemoveUser, At
  <1>2. CASE Reject(r)
    BY <1>1, <1>2, RejectIsGood
  <1>3. CASE ~Reject(r)
    <2>1. /\ users[call[r].id] = NULL \/ call[r].id \notin Owners
          /\ [action |-> "DELETE", role |-> NULL] \in UserLog
          /\ CommitUser(r, call[r].id, NULL, [action |-> "DELETE", role |-> NULL])
          /\ call[r].id \in UserIds
      BY <1>3, RemoveUserParts DEF Inv
    <2>2. AuthorizedStep(r)
      BY <1>1, CommitsAuthorized DEF Admitted, WithToken
    <2> QED BY <1>1, <2>1, <2>2, UserCommit
  <1> QED BY <1>2, <1>3

\* The commits to projects.
LEMMA ProjectStepIsGood ==
  ASSUME Inv, NEW r \in Requests,
         CommitCreateProject(r) \/ CommitUpdateProject(r) \/ CommitRemoveProject(r)
           \/ CommitRestoreProject(r)
  PROVE  GoodStep
  <1>1. ASSUME pc[r] \in Holding, call[r].op \in ProjectOps
        PROVE  /\ call[r].id \in ProjectIds /\ projects[call[r].id] # NULL
               /\ users[projects[call[r].id].ownerId] # NULL
    <2>1. call[r].id \in ProjectIds /\ projects[call[r].id] \in Project
      BY <1>1, ChangeProjectHolds DEF Inv
    <2> QED BY <2>1, ProjectNullAssumption DEF Inv, RecordInv, OwnersExist
  <1>2. CASE CommitCreateProject(r)
    <2>1. CASE Reject(r) /\ UNCHANGED projectVars
      BY <1>2, <2>1, RejectIsGood DEF CommitCreateProject, At
    <2>2. CASE ~(Reject(r) /\ UNCHANGED projectVars)
      <3>1. PICK row \in Project : /\ pc[r] = "owned" /\ NewProjectIdOf[r] \in ProjectIds
                                   /\ CommitProject(r, NewProjectIdOf[r], row, "CREATE")
                                   /\ ~row.deleted /\ users[row.ownerId] # NULL
        BY <1>2, <2>2, CreateProjectParts DEF Inv
      <3>2. projects[NewProjectIdOf[r]] = NULL
        BY <3>1 DEF Inv, CurrentInv, InsertOK
      <3> QED BY <3>1, <3>2, ProjectCommit DEF Admitted, WithToken
    <2> QED BY <2>1, <2>2
  <1>3. CASE CommitUpdateProject(r)
    <2>1. PICK row \in Project :
             /\ pc[r] = "reloaded" /\ call[r].op = "updateProject"
             /\ CommitProject(r, call[r].id, row, "UPDATE")
             /\ row.ownerId = projects[call[r].id].ownerId
             /\ row.deleted => projects[call[r].id].deleted
             /\ reloaded[r].deleted = entity[r].deleted => row.deleted = projects[call[r].id].deleted
      BY <1>3, UpdateProjectParts DEF Inv
    <2>2. r \in undisturbed => row.deleted = projects[call[r].id].deleted
      BY <2>1 DEF Inv, CurrentInv, CurrentOK, Holding
    <2> QED BY <1>1, <2>1, <2>2, ProjectCommit DEF Admitted, WithToken, Holding, ProjectOps
  <1>4. CASE CommitRemoveProject(r)
    <2>1. PICK row \in Project :
             /\ pc[r] = "read" /\ call[r].op = "removeProject"
             /\ CommitProject(r, call[r].id, row, "DELETE")
             /\ row.ownerId = projects[call[r].id].ownerId /\ row.deleted
      BY <1>4, RemoveProjectParts DEF Inv
    <2> QED BY <1>1, <2>1, ProjectCommit DEF Admitted, WithToken, Holding, ProjectOps
  <1>5. CASE CommitRestoreProject(r)
    <2>1. PICK row \in Project :
             /\ pc[r] = "read" /\ call[r].op = "restoreProject"
             /\ CommitProject(r, call[r].id, row, "RESTORE")
             /\ row.ownerId = projects[call[r].id].ownerId /\ ~row.deleted
      BY <1>5, RestoreProjectParts DEF Inv
    <2> QED BY <1>1, <2>1, ProjectCommit DEF Admitted, WithToken, Holding, ProjectOps
  <1> QED BY <1>2, <1>3, <1>4, <1>5

\* A token that is signed has the user and role read at the start of the login.
LEMMA FinishLoginIsGood ==
  ASSUME Inv, NEW r \in Requests, FinishLogin(r), UNCHANGED projectVars
  PROVE  GoodStep
  <1> DEFINE t == [sub |-> entity[r].id, role |-> entity[r].role, iat |-> clock]
  <1>1. /\ pc[r] = "comparing" /\ call[r].op = "login"
        /\ issued' = issued \cup {t} /\ Answer(r, "ok") /\ undisturbed' = undisturbed \ {r}
        /\ UNCHANGED <<users, userLogs, denylist, clock, projects, projectLogs>>
    BY DEF FinishLogin, At, projectVars
  <1>2. t \in Token
    BY <1>1 DEF Inv, ControlInv, RequestOK, TypeOK, User, Token
  <1> HIDE DEF t
  <1>3. /\ Frame(r) /\ pc'[r] = "ok" /\ RequestOK(r)'
        /\ pc' \in [Requests -> Locations]
        /\ call' \in [Requests -> Calls \cup {NULL}]
        /\ token' \in [Requests -> Token \cup {NULL}]
        /\ caller' \in [Requests -> UserRole \cup {NULL}]
        /\ entity' \in [Requests -> User \cup Project \cup {NULL}]
        /\ reloaded' \in [Requests -> User \cup Project \cup {NULL}]
        /\ \A q \in Requests \ {r} : InFlight(q)' = InFlight(q)
    BY <1>1, AnswerStep DEF Inv, ControlInv, Answers
  <1>4. TypeOK'
    <2>1. undisturbed' \subseteq {q \in Requests : InFlight(q)'}
      BY <1>1, <1>3 DEF Inv, ControlInv, TypeOK
    <2> QED BY <1>1, <1>2, <1>3, <2>1 DEF Inv, ControlInv, TypeOK
  <1>5. ControlInv'
    BY <1>1, <1>3, <1>4, ControlStep DEF Stable, Inv
  <1> QED BY <1>1, <1>3, <1>5, AnswerIsGood DEF Public, Answers

\* A logout adds its own token to the denylist, and disturbs all others.
LEMMA LogoutIsGood ==
  ASSUME Inv, NEW r \in Requests, Logout(r), UNCHANGED projectVars
  PROVE  GoodStep
  <1>1. pc[r] = "arrived" /\ call[r].op = "logout"
    BY DEF Logout, At
  <1>2. CASE Reject(r)
    BY <1>1, <1>2, RejectIsGood
  <1>3. CASE ~Reject(r)
    <2>1. /\ users[token[r].sub] # NULL /\ denylist' = denylist \cup {token[r]} /\ Accept(r)
          /\ UNCHANGED <<users, userLogs, issued, clock, projects, projectLogs>>
      BY <1>3 DEF Logout, projectVars
    <2>2. /\ Frame(r) /\ pc'[r] = "ok" /\ RequestOK(r)' /\ undisturbed' = {}
          /\ pc' \in [Requests -> Locations]
          /\ call' \in [Requests -> Calls \cup {NULL}]
          /\ token' \in [Requests -> Token \cup {NULL}]
          /\ caller' \in [Requests -> UserRole \cup {NULL}]
          /\ entity' \in [Requests -> User \cup Project \cup {NULL}]
          /\ reloaded' \in [Requests -> User \cup Project \cup {NULL}]
      BY <2>1, AcceptStep DEF Inv, ControlInv
    <2>3. token[r] \in issued
      BY <1>1 DEF Inv, ControlInv, RequestOK, WithToken
    <2>4. TypeOK'
      BY <2>1, <2>2, <2>3 DEF Inv, ControlInv, TypeOK
    <2>5. ControlInv'
      BY <2>1, <2>2, <2>4, ControlStep DEF Stable, Inv
    <2>6. RecordInv'
      <3>1. \A i \in UserIds, role \in UserRole : OnRecord(i, role) => OnRecord(i, role)'
        BY <2>1 DEF OnRecord
      <3>2. \A q \in Requests : MemoryIsOnRecord(q)'
        BY <2>2, <3>1, OthersStayOnRecord DEF Inv, RecordInv, Holding, Admitted, WithToken
      <3> QED BY <2>1, <3>2 DEF Inv, RecordInv, OwnersExist, UserIsOnRecord, OnRecord,
                                DeletionIsOnRecord, DeletionRows
    <2>7. CurrentInv'
      BY <2>1, <2>2 DEF CurrentInv, CurrentOK, InsertOK, Inv, Frame
    <2>8. \A q \in Requests : AuthorizedStep(q)
      BY <1>1, <2>1, <2>2, CommitsAuthorized DEF AuthorizedStep, Commits, Frame
    <2>9. (\A id \in UserIds : RoleStep(id)) /\ (\A p \in ProjectIds : ShownStep(p))
      BY <2>1 DEF RoleStep, ShownStep
    <2> QED BY <2>5, <2>6, <2>7, <2>8, <2>9 DEF GoodStep, Inv
  <1> QED BY <1>2, <1>3

\* Time, a restart and standing still commit nothing.
LEMMA IdleIsGood ==
  ASSUME Inv, UNCHANGED <<users, userLogs, issued, projects, projectLogs>>,
         \/ Tick \/ Restart \/ UNCHANGED vars
  PROVE  GoodStep
  <1>1. CASE Tick \/ UNCHANGED vars
    <2>1. /\ UNCHANGED <<users, userLogs, issued, denylist, projects, projectLogs, pc, call, token,
                         caller, entity, reloaded, undisturbed>>
          /\ clock' \in 0..MaxClock
      BY <1>1, ClockAssumption DEF Tick, vars, requestVars, Inv, ControlInv, TypeOK
    <2>2. TypeOK'
      BY <2>1 DEF Inv, ControlInv, TypeOK, InFlight
    <2>3. \A r \in Requests : RequestOK(r)'
      BY <2>1 DEF Inv, ControlInv, RequestOK, InFlight
    <2>4. \A r \in Requests : MemoryIsOnRecord(r)'
      BY <2>1 DEF Inv, RecordInv, MemoryIsOnRecord, OnRecord
    <2>5. CurrentInv'
      BY <2>1 DEF Inv, CurrentInv, CurrentOK, InsertOK, Denied
    <2>6. RecordInv'
      BY <2>1, <2>4 DEF Inv, RecordInv, OwnersExist, UserIsOnRecord, OnRecord,
                        DeletionIsOnRecord, DeletionRows
    <2>7. /\ \A r \in Requests : AuthorizedStep(r)
          /\ \A id \in UserIds : RoleStep(id)
          /\ \A p \in ProjectIds : ShownStep(p)
      BY <2>1 DEF AuthorizedStep, Commits, RoleStep, ShownStep
    <2> QED BY <2>2, <2>3, <2>5, <2>6, <2>7 DEF GoodStep, Inv, ControlInv
  <1>2. CASE Restart
    <2>1. /\ denylist' = {} /\ undisturbed' = {} /\ UNCHANGED clock
          /\ pc' = [r \in Requests |-> IF InFlight(r) THEN "rejected" ELSE pc[r]]
          /\ call' = [r \in Requests |-> NULL] /\ token' = [r \in Requests |-> NULL]
          /\ caller' = [r \in Requests |-> NULL] /\ entity' = [r \in Requests |-> NULL]
          /\ reloaded' = [r \in Requests |-> NULL]
      BY <1>2 DEF Restart
    <2>2. \A r \in Requests : /\ pc'[r] \in {"idle"} \cup Answers
                              /\ pc'[r] = "ok" <=> pc[r] = "ok"
      BY <2>1 DEF InFlight, Answers
    <2>3. TypeOK'
      <3>1. pc' \in [Requests -> Locations]
        BY <2>1, <2>2 DEF Locations
      <3> QED BY <2>1, <3>1 DEF Inv, ControlInv, TypeOK
    <2>4. \A r \in Requests : RequestOK(r)'
      BY <2>2 DEF RequestOK, InFlight, Answers, Holding, WithToken
    <2>5. \A r \in Requests : MemoryIsOnRecord(r)'
      BY <2>2 DEF MemoryIsOnRecord, Holding, Admitted, WithToken, Answers
    <2>6. CurrentInv'
      BY <2>1, <2>2 DEF Inv, CurrentInv, CurrentOK, InsertOK
    <2>7. RecordInv'
      BY <2>5 DEF Inv, RecordInv, OwnersExist, UserIsOnRecord, OnRecord,
                  DeletionIsOnRecord, DeletionRows
    <2>8. /\ \A r \in Requests : AuthorizedStep(r)
          /\ \A id \in UserIds : RoleStep(id)
          /\ \A p \in ProjectIds : ShownStep(p)
      BY <2>2 DEF AuthorizedStep, Commits, RoleStep, ShownStep
    <2> QED BY <2>3, <2>4, <2>6, <2>7, <2>8 DEF GoodStep, Inv, ControlInv
  <1> QED BY <1>1, <1>2

\* So every step is.
LEMMA EveryStepIsGood == Inv /\ [Next]_vars => GoodStep
  <1> SUFFICES ASSUME Inv, [Next]_vars PROVE GoodStep
    OBVIOUS
  <1>1. ASSUME NEW r \in Requests, AccountStep(r) PROVE GoodStep
    <2>1. UNCHANGED projectVars
      BY <1>1 DEF AccountStep
    <2>2. CASE Arrive(r) \/ BeginLogin(r) \/ BeginCreateUser(r)
      BY <2>1, <2>2, BeginIsGood
    <2>3. CASE Authenticate(r)
      BY <2>1, <2>3, AuthenticateIsGood
    <2>4. CASE Logout(r)
      BY <2>1, <2>4, LogoutIsGood
    <2>5. CASE FinishLogin(r)
      BY <2>1, <2>5, FinishLoginIsGood
    <2>6. CASE CommitCreateUser(r)
      BY <2>1, <2>6, CreateUserIsGood
    <2>7. CASE ReadUser(r)
      BY <2>1, <2>7, ReadIsGood
    <2>8. CASE ReloadUser(r)
      BY <2>1, <2>8, ReloadIsGood
    <2>9. CASE CommitUpdateUser(r)
      BY <2>1, <2>9, UpdateUserIsGood
    <2>10. CASE CommitRemoveUser(r, Owners)
      BY <2>1, <2>10, RemoveUserIsGood
    <2>11. CASE Fail(r)
      BY <2>1, <2>11, RejectIsGood DEF Fail, InFlight, Answers
    <2> QED BY <1>1, <2>2, <2>3, <2>4, <2>5, <2>6, <2>7, <2>8, <2>9, <2>10, <2>11 DEF AccountStep
  <1>2. ASSUME NEW r \in Requests, ProjectStep(r) PROVE GoodStep
    BY <1>2, ReadIsGood, ReloadIsGood, ProjectStepIsGood DEF ProjectStep
  <1>3. CASE (Tick \/ Restart) /\ UNCHANGED projectVars
    BY <1>3, IdleIsGood DEF Tick, Restart, projectVars
  <1>4. CASE UNCHANGED vars
    BY <1>4, IdleIsGood DEF vars
  <1> QED BY <1>1, <1>2, <1>3, <1>4 DEF Next, Quiescent

\* Whoever is registered from the start is on record, and owns what there is.
LEMMA InitRecord == Init => Inv
  <1> SUFFICES ASSUME Init PROVE Inv
    OBVIOUS
  <1>1. ControlInv
    BY InitControl
  <1> USE DEF Init, InitAccounts
  <1>2. /\ pc = [r \in Requests |-> "idle"] /\ undisturbed = {}
        /\ \A p \in ProjectIds : projects[p] = (IF p \in DOMAIN FirstProjects THEN FirstProjects[p] ELSE NULL)
    OBVIOUS
  <1>3. ASSUME NEW id \in UserIds PROVE UserIsOnRecord(id)
    <2>1. CASE users[id] = NULL
      BY <2>1 DEF UserIsOnRecord
    <2>2. CASE users[id] # NULL
      <3>1. userLogs[id] = <<[action |-> "CREATE", role |-> users[id].role]>>
        BY <2>2
      <3>2. 1 \in DOMAIN userLogs[id] /\ userLogs[id][1].role = users[id].role
        BY <3>1
      <3> QED BY <2>2, <3>2 DEF UserIsOnRecord, OnRecord
    <2> QED BY <2>1, <2>2
  <1>4. OwnersExist
    <2> SUFFICES ASSUME NEW p \in ProjectIds, projects[p] # NULL
                 PROVE  users[projects[p].ownerId] # NULL
      BY DEF OwnersExist
    <2>1. PICK u \in RegisteredUsers : u.id = projects[p].ownerId
      BY <1>2, FirstProjectsAssumption
    <2>2. u.id \in UserIds
      BY <2>1, RegisteredUsersAssumption DEF User
    <2>3. users[u.id] \in User
      BY <2>1, <2>2, RegisteredUsersAssumption
    <2> QED BY <2>1, <2>3, NullAssumption
  <1>5. \A p \in ProjectIds : DeletionIsOnRecord(p)
    BY <1>2, FirstProjectsAssumption DEF DeletionIsOnRecord
  <1>6. \A r \in Requests : MemoryIsOnRecord(r)
    BY <1>2 DEF MemoryIsOnRecord, Holding, Admitted, WithToken
  <1>7. CurrentInv
    BY <1>2, FirstProjectsAssumption, NewProjectIdsAssumption DEF CurrentInv, CurrentOK, InsertOK
  <1> QED BY <1>1, <1>3, <1>4, <1>5, <1>6, <1>7 DEF Inv, RecordInv

----------------------------------------------------------------------------
(* The theorems                                                            *)

\* The invariants of all three layers hold in every run.
THEOREM InvariantsHold == Spec => []Inv
  <1>1. Inv /\ [Next]_vars => Inv'
    BY EveryStepIsGood DEF GoodStep
  <1> QED BY <1>1, InitRecord, PTL DEF Spec

\* Every variable of Directory keeps its type.
THEOREM TypeCorrect == Spec => []TypeOK
  <1>1. Inv => TypeOK
    BY DEF Inv, ControlInv
  <1> QED BY <1>1, InvariantsHold, PTL

\* No interleaving of registrations, removals and new projects leaves a project
\* without its owner.
THEOREM OwnersAlwaysExist == Spec => []OwnersExist
  <1>1. Inv => OwnersExist
    BY DEF Inv, RecordInv
  <1> QED BY <1>1, InvariantsHold, PTL

\* Whoever and whatever is gone was removed on record.
THEOREM RemovalsAlwaysAudited == Spec => []RemovalsAreAudited
  <1>1. Inv => RemovalsAreAudited
    BY DEF Inv, RecordInv, UserIsOnRecord, DeletionIsOnRecord, DeletionRows, RemovalsAreAudited
  <1> QED BY <1>1, InvariantsHold, PTL

\* Every commit is made with the rights its user has at that moment.
THEOREM CommitsAreAuthorized == Spec => AuthorizedAtCommit
  <1>1. Inv /\ [Next]_vars => \A r \in Requests : AuthorizedStep(r)
    BY EveryStepIsGood DEF GoodStep
  <1> QED BY <1>1, InvariantsHold, PTL DEF Spec, AuthorizedAtCommit, AuthorizedStep

\* No role changes off the record.
THEOREM RolesChangeOnRecord == Spec => RoleChangesAreAudited
  <1>1. ASSUME Inv, [Next]_vars
        PROVE  \A id \in UserIds :
                 LET Role(table)       == IF table[id] = NULL THEN NULL ELSE table[id].role
                     Reported(logs, i) == logs[id][i].role = Role(users')
                 IN  Role(users') \notin {NULL, Role(users)} =>
                       /\ \E i \in DOMAIN userLogs'[id] : Reported(userLogs', i)
                       /\ \A r \in undisturbed : Commits(r) => Reported(userLogs', Len(userLogs'[id]))
    BY <1>1, EveryStepIsGood DEF GoodStep, RoleStep, RoleOf
  <1> QED BY <1>1, InvariantsHold, PTL DEF Spec, RoleChangesAreAudited

\* A deleted project is shown by a restore, or by an update that overlaps.
THEOREM ProjectsShownByRestore == Spec => ShownByRestoreOnly
  <1>1. Inv /\ [Next]_vars => \A p \in ProjectIds : ShownStep(p)
    BY EveryStepIsGood DEF GoodStep
  <1> QED BY <1>1, InvariantsHold, PTL DEF Spec, ShownByRestoreOnly, ShownStep

==============================================================================
