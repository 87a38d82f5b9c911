------------------------------- MODULE Comments -------------------------------
(***************************************************************************)
(* CommentsService: comments, the users they mention and the audit rows.   *)
(* create, update and remove run wholly inside a transaction, and a        *)
(* transaction writes to two tables in several statements, so the model    *)
(* keeps for every request what it has written and not committed and which *)
(* rows it has locked.  Each step is one SQL statement at READ COMMITTED:  *)
(* it sees what others committed, waits while another transaction has      *)
(* written a row it must write, and looks at that row again afterwards.    *)
(***************************************************************************)
EXTENDS Naturals, Sequences

CONSTANTS
  NULL,
  Requests,         \* HTTP requests, each served once
  CommentIds,
  NewIdOf,          \* the id the sequence gives the comment a request creates
  Tickets,          \* ids of the tickets that exist and are not deleted
  Users,            \* ids of the users that exist
  Usernames,        \* usernames in lower case
  UsernameOf,       \* the username of each user in lower case: several may share one
  Contents,
  UsernamesIn,      \* what parseMentionUsernames finds in a content, in lower case
  Calls,            \* what a request may ask for
  CreatedComments   \* rows as POST /tickets/:ticketId/comments leaves them

ASSUME UsersAssumption == Users \subseteq Nat /\ UsernameOf \in [Users -> Usernames]

ASSUME ContentsAssumption == NULL \notin Contents /\ UsernamesIn \in [Contents -> SUBSET Usernames]

ASSUME NewIdsAssumption ==
  /\ NewIdOf \in [Requests -> CommentIds]
  /\ \A r, q \in Requests : NewIdOf[r] = NewIdOf[q] => r = q

Comment == [ticketId : Nat, content : Contents, version : Nat, updatedAt : Nat]

ASSUME NoCommentAssumption == NULL \notin Comment

\* A row of comment_mentions.  Rows are told apart by the request that inserted
\* them, NULL for those there from the start.
CommentMention == [commentId : CommentIds, userId : Users, by : Requests \cup {NULL}]

AuditLog == [action : {"CREATE", "UPDATE", "DELETE"}, content : Contents \cup {NULL}]

Call == [op : {"create"}, ticketId : Nat, authorId : Nat, content : Contents]
        \cup [op : {"update"}, ticketId : Nat, id : CommentIds, version : Nat, content : Contents]
        \cup [op : {"remove"}, ticketId : Nat, id : CommentIds]

ASSUME CallsAssumption == Calls \subseteq Call /\ NULL \notin Call

ASSUME CreatedCommentsAssumption ==
  \A comment \in CreatedComments :
    comment \in Comment /\ comment.version = 1 /\ comment.updatedAt = 0

VARIABLES
  comments,      \* the committed rows of comments, NULL where there is none
  mentions,      \* the committed rows of comment_mentions
  commentLogs,   \* per comment, its audit rows in commit order
  pc,            \* per request, where it is
  call,          \* per request, its parameters
  entity,        \* per request, the comment object it read
  reloaded,      \* per request, the row its save() has read again
  txn            \* per request, its uncommitted writes

database == <<comments, mentions, commentLogs>>
vars == <<comments, mentions, commentLogs, pc, call, entity, reloaded, txn>>

Answers == {"ok", "rejected"}

Locations == {"idle", "creating", "checked", "reloaded", "removing",
              "written", "deleting", "inserting"} \cup Answers

\* What a transaction has written: whether it holds the row lock of its comment,
\* with the row it left there (NULL: deleted), the mentions a running DELETE has
\* found, those it has deleted and inserted, and the users still to be inserted.
Transaction == [locked   : BOOLEAN,
                row      : Comment \cup {NULL},
                found    : SUBSET CommentMention,
                deleted  : SUBSET CommentMention,
                inserted : SUBSET CommentMention,
                users    : SUBSET Users]

NothingWritten == [locked |-> FALSE, row |-> NULL, found |-> {}, deleted |-> {},
                   inserted |-> {}, users |-> {}]

----------------------------------------------------------------------------
(* The pure part                                                           *)

\* findUsersByMentionUsernames: for each username in the content one user who
\* has it.  Usernames are unique only up to case; of users that differ in case
\* alone the one returned last is kept, and the query orders nothing.
MentionedUsers(content) ==
  {chosen \in SUBSET Users :
     /\ {UsernameOf[u] : u \in chosen} = UsernamesIn[content] \cap {UsernameOf[u] : u \in Users}
     /\ \A u, v \in chosen : UsernameOf[u] = UsernameOf[v] => u = v}

Mention(id, users, by) == {[commentId |-> id, userId |-> u, by |-> by] : u \in users}

MentionsOf(id) == {m \in mentions : m.commentId = id}

\* Fault: the row keeps the version the object has before it is saved.
NewCommentUnversioned(c) ==
  [ticketId |-> c.ticketId, content |-> c.content, version |-> NULL, updatedAt |-> 0]

NewComment(c) ==
  [ticketId |-> c.ticketId, content |-> c.content, version |-> 1, updatedAt |-> 0]

\* The comment object after the assignment of update().
Edited(comment, c) == [comment EXCEPT !.content = c.content]

\* repository.save(object) over a row that still exists: the columns in which
\* the object differs from the row as it was read again, and the version.
SavedComment(row, object, old, now) ==
  LET Written(o, r, current) == IF o # r THEN o ELSE current
  IN  [row EXCEPT !.content   = Written(object.content, old.content, @),
                  !.version   = Written(object.version, old.version, @ + 1),
                  !.updatedAt = Written(object.updatedAt, old.updatedAt, now)]

\* Fault: the details report the content before the edit.
CommentLogBefore(c, comment) ==
  CASE c.op = "create" -> [action |-> "CREATE", content |-> c.content]
    [] c.op = "update" -> [action |-> "UPDATE", content |-> comment.content]
    [] c.op = "remove" -> [action |-> "DELETE", content |-> NULL]

\* The audit row of call c, on the comment object it read if it read one.
CommentLog(c, comment) ==
  CASE c.op = "create" -> [action |-> "CREATE", content |-> c.content]
    [] c.op = "update" -> [action |-> "UPDATE", content |-> c.content]
    [] c.op = "remove" -> [action |-> "DELETE", content |-> NULL]

----------------------------------------------------------------------------
(* Requests and transactions                                               *)

Init ==
  /\ comments \in [CommentIds -> CreatedComments \cup {NULL}]
  /\ \A r \in Requests : comments[NewIdOf[r]] = NULL
  /\ \E chosen \in [CommentIds -> SUBSET Users] :
       /\ \A id \in CommentIds :
            chosen[id] \in IF comments[id] = NULL THEN {{}} ELSE MentionedUsers(comments[id].content)
       /\ mentions = UNION {Mention(id, chosen[id], NULL) : id \in CommentIds}
  /\ commentLogs = [id \in CommentIds |->
       IF comments[id] = NULL THEN <<>>
       ELSE <<[action |-> "CREATE", content |-> comments[id].content]>>]
  /\ pc = [r \in Requests |-> "idle"]
  /\ call = [r \in Requests |-> NULL]
  /\ entity = [r \in Requests |-> NULL]
  /\ reloaded = [r \in Requests |-> NULL]
  /\ txn = [r \in Requests |-> NothingWritten]

InFlight(r) == pc[r] \notin {"idle"} \cup Answers

At(r, location, op) == pc[r] = location /\ call[r].op = op

Goto(r, location) == pc' = [pc EXCEPT ![r] = location]

Begin(r, c, location, object) ==
  /\ Goto(r, location)
  /\ call' = [call EXCEPT ![r] = c]
  /\ entity' = [entity EXCEPT ![r] = object]
  /\ UNCHANGED <<database, reloaded, txn>>

\* The transaction ends, and its locks with it.
Answer(r, outcome) ==
  /\ Goto(r, outcome)
  /\ call' = [call EXCEPT ![r] = NULL]
  /\ entity' = [entity EXCEPT ![r] = NULL]
  /\ reloaded' = [reloaded EXCEPT ![r] = NULL]
  /\ txn' = [txn EXCEPT ![r] = NothingWritten]

\* An exception: the transaction rolls back and the HTTP answer is an error.
Reject(r) == Answer(r, "rejected") /\ UNCHANGED database

Write(r, location, record) ==
  /\ txn' = [txn EXCEPT ![r] = record]
  /\ Goto(r, location)
  /\ UNCHANGED <<database, call, entity, reloaded>>

Now(id) == Len(commentLogs[id])

\* q has an uncommitted INSERT, UPDATE or DELETE of the comment.
Locks(q, id) == txn[q].locked /\ call[q].id = id

\* The mentions request q has not committed yet.
Pending(q) == txn[q].inserted \cup txn[q].deleted

\* save() sends no UPDATE when the object does not differ from its row.
SendsUpdate(r) == reloaded[r] # NULL /\ Edited(entity[r], call[r]) # reloaded[r]

NextUser(users) == CHOOSE u \in users : \A v \in users : u <= v

\* The transactions that the statement request r has sent waits for: who has
\* written the comment it writes, a mention it deletes, or the key it inserts;
\* a mention keeps its comment from being deleted and the other way round.
WaitsFor(r) ==
  LET id == call[r].id
      Blocks(q) ==
        \/ /\ pc[r] = "reloaded" /\ Locks(q, id)
           /\ reloaded[r] = NULL \/ (SendsUpdate(r) /\ comments[id] # NULL)
        \/ /\ pc[r] = "removing" /\ comments[id] # NULL
           /\ Locks(q, id) \/ \E m \in txn[q].inserted : m.commentId = id
        \/ /\ pc[r] = "deleting"
           /\ txn[q].deleted \cap txn[r].found \cap mentions # {}
        \/ /\ pc[r] = "inserting" /\ txn[r].users # {}
           /\ \/ \E m \in Pending(q) : m.commentId = id /\ m.userId = NextUser(txn[r].users)
              \/ (Locks(q, id) /\ txn[q].row = NULL)
  IN  {q \in Requests \ {r} : InFlight(q) /\ Blocks(q)}

\* r waits, directly or through others, for itself.
Deadlocked(r) ==
  \A waiting \in SUBSET Requests :
    WaitsFor(r) \subseteq waiting /\ (\A q \in waiting : WaitsFor(q) \subseteq waiting)
      => r \in waiting

----------------------------------------------------------------------------
(* POST /tickets/:ticketId/comments                                        *)

BeginCreate(r) ==
  /\ pc[r] = "idle"
  /\ \E c \in Calls :
       /\ c.op = "create"
       /\ \/ c.ticketId \in Tickets /\ c.authorId \in Users /\ Begin(r, c, "creating", NULL)
          \/ ~(c.ticketId \in Tickets /\ c.authorId \in Users) /\ Reject(r)

\* Nobody can see or meet the new comment before the commit, so its INSERT, its
\* mentions, its audit row and the COMMIT are one step.
CommitCreate(r) ==
  /\ At(r, "creating", "create")
  /\ LET id == NewIdOf[r]
     IN  /\ comments' = [comments EXCEPT ![id] = NewComment(call[r])]
         /\ \E users \in MentionedUsers(call[r].content) :
              mentions' = mentions \cup Mention(id, users, r)
         /\ commentLogs' = [commentLogs EXCEPT ![id] = Append(@, CommentLog(call[r], NULL))]
  /\ Answer(r, "ok")

----------------------------------------------------------------------------
(* PATCH /tickets/:ticketId/comments/:commentId                            *)

OnTicket(c) == comments[c.id] # NULL /\ comments[c.id].ticketId = c.ticketId

BeginUpdate(r) ==
  /\ pc[r] = "idle"
  /\ \E c \in Calls :
       /\ c.op = "update"
       /\ LET allowed == OnTicket(c) /\ comments[c.id].version = c.version
          IN  \/ allowed /\ Begin(r, c, "checked", comments[c.id])
              \/ ~allowed /\ Reject(r)

ReloadComment(r) ==
  /\ At(r, "checked", "update")
  /\ reloaded' = [reloaded EXCEPT ![r] = comments[call[r].id]]
  /\ Goto(r, "reloaded")
  /\ UNCHANGED <<database, call, entity, txn>>

\* The write of save(): an INSERT with the old id if the row was gone when it
\* was read again, nothing if nothing differs, else an UPDATE, which meets no
\* row if the comment has been deleted since.
SaveComment(r) ==
  /\ At(r, "reloaded", "update") /\ WaitsFor(r) = {}
  /\ LET id     == call[r].id
         object == Edited(entity[r], call[r])
         Writes(row) == Write(r, "written", [NothingWritten EXCEPT !.locked = TRUE, !.row = row])
     IN  \/ reloaded[r] = NULL /\ comments[id] = NULL /\ Writes(object)
         \/ reloaded[r] = NULL /\ comments[id] # NULL /\ Reject(r)
         \/ /\ SendsUpdate(r) /\ comments[id] # NULL
            /\ Writes(SavedComment(comments[id], object, reloaded[r], Now(id)))
         \/ /\ reloaded[r] # NULL
            /\ SendsUpdate(r) => comments[id] = NULL
            /\ Write(r, "written", NothingWritten)

\* Fault: deleting a comment leaves its mentions.
FindMentionsOfUpdates(r) ==
  /\ pc[r] = "written"
  /\ LET c == call[r]
         found == IF c.op = "update" THEN MentionsOf(c.id) ELSE {}
     IN  \E users \in (IF c.op = "update" THEN MentionedUsers(c.content) ELSE {{}}) :
           Write(r, "deleting", [txn[r] EXCEPT !.found = found, !.users = users])

\* Fault: what ILIKE matches is not compared with the names again, and a name may
\* hold a wildcard that matches everybody.
FindMentionsUnfiltered(r) ==
  /\ pc[r] = "written"
  /\ LET c == call[r]
         users == IF c.op # "update" \/ UsernamesIn[c.content] = {} THEN {} ELSE Users
     IN  Write(r, "deleting", [txn[r] EXCEPT !.found = MentionsOf(c.id), !.users = users])

\* syncMentions looks the users up and sends DELETE, which first finds the
\* mentions; the DELETE of a comment cascades to its mentions in the same way.
FindMentions(r) ==
  /\ pc[r] = "written"
  /\ LET c == call[r]
     IN  \E users \in (IF c.op = "update" THEN MentionedUsers(c.content) ELSE {{}}) :
           Write(r, "deleting", [txn[r] EXCEPT !.found = MentionsOf(c.id), !.users = users])

\* Those found that nobody else has deleted in the meantime are deleted.
DeleteMentions(r) ==
  /\ pc[r] = "deleting" /\ WaitsFor(r) = {}
  /\ Write(r, "inserting", [txn[r] EXCEPT !.found = {}, !.deleted = @ \cup (txn[r].found \cap mentions)])

\* Fault: the loop over the users does not advance.
InsertMentionForever(r) ==
  /\ pc[r] = "inserting" /\ txn[r].users # {} /\ WaitsFor(r) = {}
  /\ UNCHANGED vars

\* One save() of the loop over the users, in the order of their ids.  The unique
\* key and the foreign key are checked as the row is inserted.
InsertMention(r) ==
  /\ pc[r] = "inserting" /\ txn[r].users # {} /\ WaitsFor(r) = {}
  /\ LET id    == call[r].id
         user  == NextUser(txn[r].users)
         legal == /\ \A m \in MentionsOf(id) \ txn[r].deleted : m.userId # user
                  /\ IF txn[r].locked THEN txn[r].row # NULL ELSE comments[id] # NULL
     IN  \/ /\ legal
            /\ Write(r, "inserting", [txn[r] EXCEPT !.users    = @ \ {user},
                                                    !.inserted = @ \cup Mention(id, {user}, r)])
         \/ ~legal /\ Reject(r)

----------------------------------------------------------------------------
(* DELETE /tickets/:ticketId/comments/:commentId                           *)

BeginRemove(r) ==
  /\ pc[r] = "idle"
  /\ \E c \in Calls :
       /\ c.op = "remove"
       /\ \/ OnTicket(c) /\ Begin(r, c, "removing", comments[c.id])
          \/ ~OnTicket(c) /\ Reject(r)

\* A DELETE by id; without a row there is nothing to lock or to cascade to.
DeleteComment(r) ==
  /\ At(r, "removing", "remove") /\ WaitsFor(r) = {}
  /\ \/ /\ comments[call[r].id] # NULL
        /\ Write(r, "written", [NothingWritten EXCEPT !.locked = TRUE])
     \/ comments[call[r].id] = NULL /\ Write(r, "inserting", NothingWritten)

----------------------------------------------------------------------------

\* Fault: a removal is not audited.
CommitUnaudited(r) ==
  /\ pc[r] = "inserting" /\ txn[r].users = {}
  /\ LET id == call[r].id
     IN  /\ comments' = [comments EXCEPT ![id] = IF txn[r].locked THEN txn[r].row ELSE @]
         /\ mentions' = (mentions \ txn[r].deleted) \cup txn[r].inserted
         /\ commentLogs' = IF call[r].op = "remove" THEN commentLogs
                           ELSE [commentLogs EXCEPT ![id] = Append(@, CommentLog(call[r], entity[r]))]
  /\ Answer(r, "ok")

\* The audit row and the COMMIT of update and remove.
Commit(r) ==
  /\ pc[r] = "inserting" /\ txn[r].users = {}
  /\ LET id == call[r].id
     IN  /\ comments' = [comments EXCEPT ![id] = IF txn[r].locked THEN txn[r].row ELSE @]
         /\ mentions' = (mentions \ txn[r].deleted) \cup txn[r].inserted
         /\ commentLogs' = [commentLogs EXCEPT ![id] = Append(@, CommentLog(call[r], entity[r]))]
  /\ Answer(r, "ok")

\* PostgreSQL ends a deadlock by aborting one of those who wait in it.
AbortDeadlock(r) == InFlight(r) /\ Deadlocked(r) /\ Reject(r)

\* The connection or the process is lost, or the driver reports an error.
Fail(r) == InFlight(r) /\ Reject(r)

Quiescent == (\A r \in Requests : pc[r] \in Answers) /\ UNCHANGED vars

Arrive(r) == BeginCreate(r) \/ BeginUpdate(r) \/ BeginRemove(r)

Proceed(r) ==
  \/ CommitCreate(r)
  \/ ReloadComment(r) \/ SaveComment(r) \/ DeleteComment(r)
  \/ FindMentions(r) \/ DeleteMentions(r) \/ InsertMention(r) \/ Commit(r)
  \/ AbortDeadlock(r)

Next == (\E r \in Requests : Arrive(r) \/ Proceed(r) \/ Fail(r)) \/ Quiescent

\* The server runs every statement it can, and the database ends deadlocks.
Spec == Init /\ [][Next]_vars /\ \A r \in Requests : WF_vars(Proceed(r))

\* One request at a time.
SerialNext ==
  \/ \E r \in Requests : /\ \A q \in Requests \ {r} : ~InFlight(q)
                         /\ Arrive(r) \/ Proceed(r) \/ Fail(r)
  \/ Quiescent

SerialSpec == Init /\ [][SerialNext]_vars

----------------------------------------------------------------------------
(* Properties                                                              *)

\* Every variable holds what its column, object or transaction may hold.
TypeOK ==
  /\ comments \in [CommentIds -> Comment \cup {NULL}]
  /\ mentions \subseteq CommentMention
  /\ commentLogs \in [CommentIds -> Seq(AuditLog)]
  /\ pc \in [Requests -> Locations]
  /\ call \in [Requests -> Calls \cup {NULL}]
  /\ entity \in [Requests -> Comment \cup {NULL}]
  /\ reloaded \in [Requests -> Comment \cup {NULL}]
  /\ txn \in [Requests -> Transaction]

\* However updates and removals of a comment overlap, a removed comment leaves
\* no mention behind, and a comment mentions a user at most once.
MentionsAreSound ==
  \A m \in mentions :
    /\ comments[m.commentId] # NULL
    /\ \A n \in mentions : n.commentId = m.commentId /\ n.userId = m.userId => n = m

\* Nobody is mentioned in a comment that never named them: overlapping updates
\* may mix their mentions up, but each comes from a content some audit row of
\* the comment reports.
MentionsWereWritten ==
  \A m \in mentions : \E i \in DOMAIN commentLogs[m.commentId] :
    LET content == commentLogs[m.commentId][i].content
    IN  content # NULL /\ UsernameOf[m.userId] \in UsernamesIn[content]

\* The content of a comment is one its audit rows report, so that no save of a
\* stale object, and no re-insertion of a removed comment, shows a text nobody
\* is on record for.
ContentIsAudited ==
  \A id \in CommentIds :
    comments[id] # NULL =>
      \E i \in DOMAIN commentLogs[id] : commentLogs[id][i].content = comments[id].content

\* A comment that was created and is gone has a DELETE row.
RemovalIsAudited ==
  \A id \in CommentIds :
    comments[id] = NULL /\ commentLogs[id] # <<>> =>
      \E i \in DOMAIN commentLogs[id] : commentLogs[id][i].action = "DELETE"

\* Every request is answered: the waits between updates and removals of one
\* comment end, some of them by the abort of a deadlock.
EveryRequestIsAnswered ==
  \A r \in Requests : InFlight(r) ~> pc[r] \in Answers

\* Slice 11: mentions are re-evaluated with the content.  The mentions of a
\* comment are those its content calls for.
MentionsMatchContent ==
  \A id \in CommentIds :
    comments[id] # NULL =>
      {m.userId : m \in MentionsOf(id)} \in MentionedUsers(comments[id].content)

\* Slice 10: a stale version is a 409 without mutation.  When an update commits,
\* the comment still exists and has the version its client named.
StaleCommentIsRejected ==
  [][\A r \in Requests :
       pc[r] = "inserting" /\ pc'[r] = "ok" /\ call[r].op = "update" =>
         /\ comments[call[r].id] # NULL
         /\ comments[call[r].id].version = call[r].version]_vars

==============================================================================
