------------------------------- MODULE Accounts -------------------------------
(***************************************************************************)
(* AuthService, JwtStrategy, RolesGuard, TokenDenylistService and          *)
(* UsersService: the users, the tokens they log in with, and how a request *)
(* is let in.  A step is what runs up to and with one SQL statement at     *)
(* READ COMMITTED; the last write of a transaction, its audit row and its  *)
(* COMMIT are one step.  Directory adds the projects and composes the two. *)
(***************************************************************************)
EXTENDS Naturals, Sequences

CONSTANTS
  NULL,
  Undefined,       \* a property absent from a request body
  Requests,        \* HTTP requests, each served once
  UserIds,
  NewUserIdOf,     \* the id the sequence gives the user a request creates
  Usernames, FullNames, Passwords,
  Lifetime,        \* JWT_EXPIRES_IN_SECONDS
  MaxClock,        \* bound: the last second of a run
  Calls,           \* what a request may ask for
  RegisteredUsers  \* the users from the start, as POST /users leaves them

UserRole == {"ADMIN", "DEVELOPER"}

\* The email is unique like the username and never changes either: one value
\* stands for both.  The password is NULL where POST /users drew a random one.
User == [id : UserIds, username : Usernames, fullName : FullNames, role : UserRole,
         password : Passwords \cup {NULL}]

\* An access token: the payload and its time of issue in seconds.  Two tokens
\* with equal fields are one and the same string.
Token == [sub : UserIds, role : UserRole, iat : 0..MaxClock]

\* An audit row about a user, with the role its details report, if any.
UserLog == [action : {"CREATE", "UPDATE", "DELETE"}, role : UserRole \cup {NULL}]

UpdateUserDto == [fullName : FullNames \cup {Undefined}, role : UserRole \cup {Undefined}]

AccountCall == [op : {"createUser"}, username : Usernames, fullName : FullNames,
                role : UserRole, password : Passwords \cup {NULL}]
               \cup [op : {"login"}, username : Usernames, password : Passwords]
               \cup [op : {"logout"}]
               \cup [op : {"updateUser"}, id : UserIds, dto : UpdateUserDto]
               \cup [op : {"removeUser"}, id : UserIds]

ASSUME NullAssumption ==
  NULL \notin User \cup UserRole \cup Token \cup Passwords /\ Undefined \notin FullNames \cup UserRole

ASSUME ClockAssumption == Lifetime \in Nat \ {0} /\ MaxClock \in Nat

ASSUME NewUserIdsAssumption ==
  /\ NewUserIdOf \in [Requests -> UserIds]
  /\ \A r, q \in Requests : NewUserIdOf[r] = NewUserIdOf[q] => r = q

ASSUME RegisteredUsersAssumption ==
  /\ RegisteredUsers \subseteq User
  /\ \A u, v \in RegisteredUsers : u.id = v.id \/ u.username = v.username => u = v
  /\ \A u \in RegisteredUsers, r \in Requests : u.id # NewUserIdOf[r]

VARIABLES
  users,         \* the committed rows of users, NULL where there is none
  userLogs,      \* per user, its audit rows in commit order
  issued,        \* the tokens clients have been given
  denylist,      \* TokenDenylistService.invalidated, in the server's memory
  clock,         \* the second it is
  pc,            \* per request, where it is
  call,          \* per request, its parameters
  token,         \* per request, the token it carries or is about to be given
  caller,        \* per request, the role of req.user
  entity,        \* per request, the object it read
  reloaded,      \* per request, the row its save() has read again
  undisturbed    \* history: those in flight since whose first step nobody committed

sessionVars == <<issued, denylist, clock>>
requestVars == <<call, token, caller, entity, reloaded>>
accountVars == <<users, userLogs, sessionVars, pc, requestVars, undisturbed>>

Answers == {"ok", "rejected"}

----------------------------------------------------------------------------
(* Requests                                                                *)

InFlight(r) == pc[r] \notin {"idle"} \cup Answers

At(r, location, op) == pc[r] = location /\ call[r].op = op

Goto(r, location) == pc' = [pc EXCEPT ![r] = location]

Answer(r, outcome) ==
  /\ Goto(r, outcome)
  /\ call' = [call EXCEPT ![r] = NULL]
  /\ token' = [token EXCEPT ![r] = NULL]
  /\ caller' = [caller EXCEPT ![r] = NULL]
  /\ entity' = [entity EXCEPT ![r] = NULL]
  /\ reloaded' = [reloaded EXCEPT ![r] = NULL]

\* An exception: the HTTP answer is an error and nothing is committed.
Reject(r) ==
  /\ Answer(r, "rejected")
  /\ undisturbed' = undisturbed \ {r}
  /\ UNCHANGED <<users, userLogs, sessionVars>>

\* A commit answers its own request and changes what every other may rely on.
Accept(r) == Answer(r, "ok") /\ undisturbed' = {}

Begin(r, c, location, t, object) ==
  /\ Goto(r, location)
  /\ call' = [call EXCEPT ![r] = c]
  /\ token' = [token EXCEPT ![r] = t]
  /\ entity' = [entity EXCEPT ![r] = object]
  /\ undisturbed' = undisturbed \cup {r}
  /\ UNCHANGED <<users, userLogs, sessionVars, caller, reloaded>>

\* The request has read object and goes on.
Read(r, location, object) ==
  /\ Goto(r, location)
  /\ entity' = [entity EXCEPT ![r] = object]
  /\ UNCHANGED <<users, userLogs, sessionVars, call, token, caller, reloaded, undisturbed>>

\* The SELECT of repository.save.
Reload(r, row) ==
  /\ Goto(r, "reloaded")
  /\ reloaded' = [reloaded EXCEPT ![r] = row]
  /\ UNCHANGED <<users, userLogs, sessionVars, call, token, caller, entity, undisturbed>>

CommitUser(r, id, row, log) ==
  /\ users' = [users EXCEPT ![id] = row]
  /\ userLogs' = [userLogs EXCEPT ![id] = Append(@, log)]
  /\ Accept(r)
  /\ UNCHANGED sessionVars

InitAccounts ==
  /\ users = [id \in UserIds |->
       IF \E u \in RegisteredUsers : u.id = id
       THEN CHOOSE u \in RegisteredUsers : u.id = id ELSE NULL]
  /\ userLogs = [id \in UserIds |->
       IF users[id] = NULL THEN <<>> ELSE <<[action |-> "CREATE", role |-> users[id].role]>>]
  /\ issued = {[sub |-> u.id, role |-> u.role, iat |-> 0] : u \in RegisteredUsers}
  /\ denylist = {}
  /\ clock = 0
  /\ pc = [r \in Requests |-> "idle"]
  /\ call = [r \in Requests |-> NULL]
  /\ token = [r \in Requests |-> NULL]
  /\ caller = [r \in Requests |-> NULL]
  /\ entity = [r \in Requests |-> NULL]
  /\ reloaded = [r \in Requests |-> NULL]
  /\ undisturbed = {}

----------------------------------------------------------------------------
(* How a request is let in                                                 *)

Public == {"createUser", "login"}

\* Routes with @Roles(UserRole.ADMIN).
Guarded == {"restoreProject"}

Expired(t) == clock >= t.iat + Lifetime

\* TokenDenylistService.isInvalidated.
Denied(t) == t \in denylist

\* JwtStrategy, first half: passport checks the signature and the expiry, so a
\* token in use is one that was issued, then validate() asks the denylist.
Arrive(r) ==
  /\ pc[r] = "idle"
  /\ \E c \in Calls, t \in issued :
       LET accepted == ~Expired(t) /\ ~Denied(t)
       IN  /\ c.op \notin Public
           /\ \/ accepted /\ Begin(r, c, "arrived", t, NULL)
              \/ ~accepted /\ Reject(r)

\* Fault: the guard trusts the role in the token.
AuthenticateByToken(r) ==
  /\ pc[r] = "arrived" /\ call[r].op # "logout"
  /\ LET user     == users[token[r].sub]
         admitted == user # NULL /\ (call[r].op \in Guarded => token[r].role = "ADMIN")
     IN  \/ /\ admitted
            /\ Goto(r, "authenticated")
            /\ caller' = [caller EXCEPT ![r] = token[r].role]
            /\ UNCHANGED <<users, userLogs, sessionVars, call, token, entity, reloaded, undisturbed>>
         \/ ~admitted /\ Reject(r)

\* Second half: validate() reads the user of the token anew, and RolesGuard
\* compares the role just read.
Authenticate(r) ==
  /\ pc[r] = "arrived" /\ call[r].op # "logout"
  /\ LET user     == users[token[r].sub]
         admitted == user # NULL /\ (call[r].op \in Guarded => user.role = "ADMIN")
     IN  \/ /\ admitted
            /\ Goto(r, "authenticated")
            /\ caller' = [caller EXCEPT ![r] = user.role]
            /\ UNCHANGED <<users, userLogs, sessionVars, call, token, entity, reloaded, undisturbed>>
         \/ ~admitted /\ Reject(r)

\* POST /auth/logout, once the user is read: no statement of its own.
Logout(r) ==
  /\ At(r, "arrived", "logout")
  /\ \/ /\ users[token[r].sub] # NULL
        /\ denylist' = denylist \cup {token[r]}
        /\ Accept(r)
        /\ UNCHANGED <<users, userLogs, issued, clock>>
     \/ users[token[r].sub] = NULL /\ Reject(r)

\* POST /auth/login: the user is read, then bcrypt compares the password while
\* others run, and the token is signed with what was read.
BeginLogin(r) ==
  /\ pc[r] = "idle"
  /\ \E c \in Calls :
       /\ c.op = "login"
       /\ LET Matches(id) == users[id] # NULL /\ users[id].username = c.username
                             /\ users[id].password = c.password
          IN  \/ \E id \in UserIds : /\ Matches(id)
                                     /\ Begin(r, c, "comparing", NULL, users[id])
              \/ (\A id \in UserIds : ~Matches(id)) /\ Reject(r)

FinishLogin(r) ==
  /\ At(r, "comparing", "login")
  /\ issued' = issued \cup {[sub |-> entity[r].id, role |-> entity[r].role, iat |-> clock]}
  /\ Answer(r, "ok")
  /\ undisturbed' = undisturbed \ {r}
  /\ UNCHANGED <<users, userLogs, denylist, clock>>

Tick ==
  /\ clock < MaxClock
  /\ clock' = clock + 1
  /\ UNCHANGED <<users, userLogs, issued, denylist, pc, requestVars, undisturbed>>

\* The process dies and starts again: every request in flight is cut off, its
\* open transaction rolls back, and the memory is gone.
Restart ==
  /\ denylist' = {}
  /\ pc' = [r \in Requests |-> IF InFlight(r) THEN "rejected" ELSE pc[r]]
  /\ call' = [r \in Requests |-> NULL]
  /\ token' = [r \in Requests |-> NULL]
  /\ caller' = [r \in Requests |-> NULL]
  /\ entity' = [r \in Requests |-> NULL]
  /\ reloaded' = [r \in Requests |-> NULL]
  /\ undisturbed' = {}
  /\ UNCHANGED <<users, userLogs, issued, clock>>

----------------------------------------------------------------------------
(* UsersService                                                            *)

\* POST /users: the password is hashed while others run.
BeginCreateUser(r) ==
  /\ pc[r] = "idle"
  /\ \E c \in Calls : c.op = "createUser" /\ Begin(r, c, "hashing", NULL, NULL)

\* The unique indexes of users.
NameTaken(id, username) ==
  \E other \in UserIds \ {id} : users[other] # NULL /\ users[other].username = username

CommitCreateUser(r) ==
  /\ At(r, "hashing", "createUser")
  /\ LET c  == call[r]
         id == NewUserIdOf[r]
         user == [id |-> id, username |-> c.username, fullName |-> c.fullName,
                  role |-> c.role, password |-> c.password]
     IN  \/ ~NameTaken(id, c.username) /\ CommitUser(r, id, user, [action |-> "CREATE", role |-> c.role])
         \/ NameTaken(id, c.username) /\ Reject(r)

\* getUserOrThrow of update() and remove(), outside the transaction.
ReadUser(r) ==
  /\ pc[r] = "authenticated" /\ call[r].op \in {"updateUser", "removeUser"}
  /\ LET user == users[call[r].id]
     IN  \/ user # NULL /\ Read(r, "read", user)
         \/ user = NULL /\ Reject(r)

\* Fault: a property absent from the body is written all the same.
PatchedUserBlindly(user, dto) == [user EXCEPT !.fullName = dto.fullName, !.role = dto.role]

PatchedUser(user, dto) ==
  [user EXCEPT !.fullName = IF dto.fullName = Undefined THEN @ ELSE dto.fullName,
               !.role     = IF dto.role = Undefined THEN @ ELSE dto.role]

\* Fault: the details leave the role out.
UpdateUserLogNameOnly(user, dto) == [action |-> "UPDATE", role |-> NULL]

UpdateUserLog(user, dto) ==
  [action |-> "UPDATE",
   role   |-> IF dto.role = Undefined \/ dto.role = user.role THEN NULL ELSE dto.role]

ReloadUser(r) ==
  /\ At(r, "read", "updateUser")
  /\ Reload(r, users[call[r].id])

\* repository.save(object) over a row that is there: the columns in which the
\* object differs from the row as it was read again.
SavedUser(row, object, old) ==
  [row EXCEPT !.fullName = IF object.fullName # old.fullName THEN object.fullName ELSE @,
              !.role     = IF object.role # old.role THEN object.role ELSE @]

\* A user who was gone when save() read again is inserted anew with the old id,
\* unless the id or the name is taken by now; an UPDATE may meet no row.
CommitUpdateUser(r) ==
  /\ At(r, "reloaded", "updateUser")
  /\ LET id     == call[r].id
         object == PatchedUser(entity[r], call[r].dto)
         log    == UpdateUserLog(entity[r], call[r].dto)
         taken  == users[id] # NULL \/ NameTaken(id, object.username)
     IN  \/ /\ reloaded[r] # NULL /\ users[id] # NULL
            /\ CommitUser(r, id, SavedUser(users[id], object, reloaded[r]), log)
         \/ reloaded[r] # NULL /\ users[id] = NULL /\ CommitUser(r, id, NULL, log)
         \/ reloaded[r] = NULL /\ ~taken /\ CommitUser(r, id, object, log)
         \/ reloaded[r] = NULL /\ taken /\ Reject(r)

\* A DELETE by id.  The foreign keys keep a user whom a row refers to.
CommitRemoveUser(r, referenced) ==
  /\ At(r, "read", "removeUser")
  /\ LET id == call[r].id
     IN  \/ /\ users[id] = NULL \/ id \notin referenced
            /\ CommitUser(r, id, NULL, [action |-> "DELETE", role |-> NULL])
         \/ users[id] # NULL /\ id \in referenced /\ Reject(r)

\* The connection is lost or the driver reports an error.
Fail(r) == InFlight(r) /\ Reject(r)

==============================================================================
