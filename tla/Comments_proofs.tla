--------------------------- MODULE Comments_proofs ---------------------------
(***************************************************************************)
(* Proofs about Comments, for every set of requests, comments and users,   *)
(* every content and any overlap of the transactions.                      *)
(***************************************************************************)
EXTENDS Comments, WellFoundedInduction, NaturalsInduction, TLAPS

----------------------------------------------------------------------------
(* The inductive invariant                                                 *)

Editing == {"checked", "reloaded"}
Writing == {"written", "deleting", "inserting"}

\* What a request holds is what its program counter and its call say it holds,
\* and only a transaction that has begun to write has written.
RequestOK(r) ==
  /\ InFlight(r) => call[r] \in Calls
  /\ pc[r] = "creating" => call[r].op = "create"
  /\ pc[r] \in Editing => call[r].op = "update"
  /\ pc[r] = "removing" => call[r].op = "remove"
  /\ pc[r] \in Writing => call[r].op \in {"update", "remove"}
  /\ pc[r] \in Editing => entity[r] \in Comment
  /\ pc[r] \notin Writing => txn[r] = NothingWritten

\* A transaction writes about the comment of its call only, mentions only whom
\* the new content names, and holds a row only as its operation leaves it.
TransactionOK(r) ==
  pc[r] \in Writing =>
    /\ \A m \in txn[r].found \cup txn[r].deleted \cup txn[r].inserted : m.commentId = call[r].id
    /\ \A m \in txn[r].inserted : m.by = r /\ UsernameOf[m.userId] \in UsernamesIn[call[r].content]
    /\ \A u \in txn[r].users : UsernameOf[u] \in UsernamesIn[call[r].content]
    /\ call[r].op = "remove" => txn[r].inserted = {} /\ txn[r].users = {}
    /\ pc[r] # "inserting" => txn[r].inserted = {}
    /\ call[r].op = "update" /\ txn[r].locked => txn[r].row # NULL
    /\ call[r].op = "remove" /\ txn[r].locked => txn[r].row = NULL
    /\ call[r].op = "remove" /\ pc[r] # "inserting" => txn[r].locked

\* r has deleted the comment and not committed.
Removes(r, id) == txn[r].locked /\ txn[r].row = NULL /\ call[r].id = id

SameKey(m, n) == m.commentId = n.commentId /\ m.userId = n.userId

\* The uncommitted mentions fit the committed tables: an inserted mention takes
\* no key but one its transaction deletes, and its comment is there; who removes
\* a comment is about to delete every mention of it.
MentionsOK(r) ==
  /\ \A m \in mentions : \A n \in txn[r].inserted : SameKey(m, n) => m \in txn[r].deleted
  /\ \A m \in txn[r].inserted : ~txn[r].locked => comments[m.commentId] # NULL
  /\ \A id \in CommentIds : Removes(r, id) =>
       /\ pc[r] = "deleting" => MentionsOf(id) \subseteq txn[r].found
       /\ pc[r] = "inserting" => MentionsOf(id) \subseteq txn[r].deleted

\* Two transactions insert no mention twice, and neither mentions anybody in a
\* comment the other removes.
NoClash(r, q) ==
  /\ \A m \in txn[r].inserted : \A n \in txn[q].inserted : SameKey(m, n) => m = n
  /\ \A m \in txn[r].inserted : ~Removes(q, m.commentId)

OnRecord(id, content) == \E i \in DOMAIN commentLogs[id] : commentLogs[id][i].content = content

\* A comment being updated or removed has been created, one a request has not
\* created yet has not, and a row to be committed shows a text on record.
RecordOK(r) ==
  /\ InFlight(r) /\ call[r].op \in {"update", "remove"} => commentLogs[call[r].id] # <<>>
  /\ txn[r].locked /\ txn[r].row # NULL =>
       txn[r].row.content = call[r].content \/ OnRecord(call[r].id, txn[r].row.content)
  /\ pc[r] # "ok" => commentLogs[NewIdOf[r]] = <<>>

PublicInv == MentionsAreSound /\ MentionsWereWritten /\ ContentIsAudited /\ RemovalIsAudited

Inv ==
  /\ TypeOK /\ PublicInv
  /\ \A r \in Requests : RequestOK(r) /\ TransactionOK(r) /\ MentionsOK(r) /\ RecordOK(r)
  /\ \A r, q \in Requests : NoClash(r, q)

----------------------------------------------------------------------------
(* Lemmas about the inputs and the building blocks                         *)

\* Some user of a set is the next one: ids are naturals.
LEMMA NextUserIsOne ==
  ASSUME NEW users \in SUBSET Users, users # {}
  PROVE  NextUser(users) \in users
  <1> DEFINE Less == {ss \in Nat \X Nat : ss[1] < ss[2]}
  <1>1. OpToRel(<, Nat) = Less
    BY Zenon DEF OpToRel
  <1>2. IsWellFoundedOn(Less, Nat)
    BY <1>1, NatLessThanWellFounded, Zenon
  <1>3. users \subseteq Nat
    BY UsersAssumption
  <1>4. PICK u \in users : \A v \in users : ~(<<v, u>> \in Less)
    <2> HIDE DEF Less
    <2> QED BY <1>2, <1>3, WFMin, Zenon
  <1>5. ASSUME NEW v \in users
        PROVE  u <= v
    <2>1. u \in Nat /\ v \in Nat /\ <<v, u>> \in Nat \X Nat
      BY <1>3
    <2>2. ~(<<v, u>>[1] < <<v, u>>[2])
      BY <1>4, <2>1, Zenon
    <2> QED BY <2>1, <2>2
  <1> QED BY <1>5 DEF NextUser

\* The parameters of a call have the types of its kind.
LEMMA CallTypes ==
  ASSUME NEW c \in Calls
  PROVE  /\ c.op \in {"create", "update", "remove"}
         /\ c.op = "create" => c.content \in Contents /\ c.ticketId \in Nat
         /\ c.op = "update" => c.content \in Contents /\ c.id \in CommentIds
         /\ c.op = "remove" => c.id \in CommentIds
         /\ c # NULL
  BY CallsAssumption DEF Call

\* The columns of a comment have their types, and a content is never NULL.
LEMMA CommentTypes ==
  ASSUME NEW comment \in Comment
  PROVE  /\ comment.content \in Contents /\ comment.content # NULL
         /\ comment.version \in Nat /\ comment.updatedAt \in Nat /\ comment # NULL
  BY NoCommentAssumption, ContentsAssumption DEF Comment

\* An audit row reports the content that its call asks for.
LEMMA LogOfCall ==
  ASSUME NEW c \in Calls, NEW comment
  PROVE  /\ CommentLog(c, comment) \in AuditLog
         /\ c.op \in {"create", "update"} =>
              CommentLog(c, comment).content = c.content /\ c.content \in Contents /\ c.content # NULL
         /\ c.op = "remove" => CommentLog(c, comment).action = "DELETE"
  BY CallTypes, ContentsAssumption DEF CommentLog, AuditLog

\* What a user is mentioned by is in the content.
LEMMA MentionedAreNamed ==
  ASSUME NEW content, NEW users \in MentionedUsers(content)
  PROVE  users \subseteq Users /\ \A u \in users : UsernameOf[u] \in UsernamesIn[content]
  BY DEF MentionedUsers

\* Rows of comment_mentions.
LEMMA MentionRows ==
  ASSUME NEW id \in CommentIds, NEW users \in SUBSET Users, NEW by \in Requests \cup {NULL}
  PROVE  /\ Mention(id, users, by) \subseteq CommentMention
         /\ \A m \in Mention(id, users, by) : m.commentId = id /\ m.userId \in users /\ m.by = by
         /\ \A m, n \in Mention(id, users, by) : m.userId = n.userId => m = n
  BY DEF Mention, CommentMention

\* A mention is its three columns.
LEMMA MentionColumns ==
  ASSUME NEW m \in CommentMention, NEW n \in CommentMention,
         m.commentId = n.commentId, m.userId = n.userId, m.by = n.by
  PROVE  m = n
  BY DEF CommentMention

\* A transaction that has written nothing is one.
LEMMA NothingIsTransaction ==
  /\ NothingWritten \in Transaction
  /\ ~NothingWritten.locked /\ NothingWritten.row = NULL
  /\ NothingWritten.found = {} /\ NothingWritten.deleted = {}
  /\ NothingWritten.inserted = {} /\ NothingWritten.users = {}
  BY DEF NothingWritten, Transaction

\* Appending an audit row keeps the earlier ones.
LEMMA AppendKeeps ==
  ASSUME NEW logs \in Seq(AuditLog), NEW log \in AuditLog
  PROVE  /\ Append(logs, log) \in Seq(AuditLog) /\ Append(logs, log) # <<>>
         /\ \A i \in DOMAIN logs : i \in DOMAIN Append(logs, log) /\ Append(logs, log)[i] = logs[i]
         /\ \E i \in DOMAIN Append(logs, log) : Append(logs, log)[i] = log
  <1>1. Append(logs, log) \in Seq(AuditLog) /\ Len(Append(logs, log)) = Len(logs) + 1
        /\ Len(logs) \in Nat
    OBVIOUS
  <1>2. \A i \in DOMAIN logs : i \in DOMAIN Append(logs, log) /\ Append(logs, log)[i] = logs[i]
    OBVIOUS
  <1>3. Len(logs) + 1 \in DOMAIN Append(logs, log) /\ Append(logs, log)[Len(logs) + 1] = log
    OBVIOUS
  <1>4. Append(logs, log) # <<>>
    BY <1>1
  <1> QED BY <1>1, <1>2, <1>3, <1>4

\* What another request than r has in memory, and has written.
Frame(r) ==
  \A q \in Requests \ {r} :
    /\ pc'[q] = pc[q] /\ call'[q] = call[q] /\ entity'[q] = entity[q]
    /\ reloaded'[q] = reloaded[q] /\ txn'[q] = txn[q]

\* The memory of the requests has its types.
MemoryTypeOK ==
  /\ pc \in [Requests -> Locations]
  /\ call \in [Requests -> Calls \cup {NULL}]
  /\ entity \in [Requests -> Comment \cup {NULL}]
  /\ reloaded \in [Requests -> Comment \cup {NULL}]
  /\ txn \in [Requests -> Transaction]

----------------------------------------------------------------------------
(* Steps that write nothing to the tables                                  *)

\* A step that gives one transaction a new record, keeping what others have.
LEMMA WriteIsFramed ==
  ASSUME Inv, NEW r \in Requests, NEW location \in Locations, NEW record \in Transaction,
         Write(r, location, record)
  PROVE  /\ TypeOK' /\ Frame(r) /\ UNCHANGED database
         /\ pc'[r] = location /\ txn'[r] = record
         /\ call'[r] = call[r] /\ entity'[r] = entity[r] /\ reloaded'[r] = reloaded[r]
  BY DEF Inv, TypeOK, Write, Goto, Frame, database

\* So does a request that begins.
LEMMA BeginIsFramed ==
  ASSUME Inv, NEW r \in Requests, NEW c \in Calls, NEW location \in Locations,
         NEW object \in Comment \cup {NULL}, Begin(r, c, location, object)
  PROVE  /\ TypeOK' /\ Frame(r) /\ UNCHANGED database
         /\ pc'[r] = location /\ txn'[r] = txn[r]
         /\ call'[r] = c /\ entity'[r] = object /\ reloaded'[r] = reloaded[r]
  BY DEF Inv, TypeOK, Begin, Goto, Frame, database

\* And one that is answered.
LEMMA AnswerIsFramed ==
  ASSUME Inv, NEW r \in Requests, NEW outcome \in Answers, Answer(r, outcome)
  PROVE  /\ MemoryTypeOK' /\ Frame(r)
         /\ pc'[r] = outcome /\ txn'[r] = NothingWritten
         /\ call'[r] = NULL /\ entity'[r] = NULL /\ reloaded'[r] = NULL
  BY NothingIsTransaction DEF Inv, TypeOK, MemoryTypeOK, Answer, Goto, Frame, Locations

\* While the tables stay, the requests but r keep all that speaks of them alone.
LEMMA OthersKeep ==
  ASSUME Inv, NEW r \in Requests, NEW q \in Requests \ {r}, Frame(r), UNCHANGED database
  PROVE  RequestOK(q)' /\ TransactionOK(q)' /\ MentionsOK(q)' /\ RecordOK(q)'
  <1>1. /\ pc'[q] = pc[q] /\ call'[q] = call[q] /\ entity'[q] = entity[q] /\ txn'[q] = txn[q]
        /\ comments' = comments /\ mentions' = mentions /\ commentLogs' = commentLogs
    BY DEF Frame, database
  <1>2. RequestOK(q) /\ TransactionOK(q) /\ MentionsOK(q) /\ RecordOK(q)
    BY DEF Inv
  <1>3. RequestOK(q)' /\ TransactionOK(q)'
    BY <1>1, <1>2 DEF RequestOK, TransactionOK, InFlight
  <1>4. MentionsOK(q)'
    BY <1>1, <1>2 DEF MentionsOK, Removes, MentionsOf
  <1>5. RecordOK(q)'
    BY <1>1, <1>2 DEF RecordOK, OnRecord, InFlight
  <1> QED BY <1>3, <1>4, <1>5

\* What a step of r on its own memory and transaction has to show.
LEMMA PrivateStep ==
  ASSUME Inv, NEW r \in Requests, Frame(r), UNCHANGED database, TypeOK',
         RequestOK(r)', TransactionOK(r)', MentionsOK(r)', RecordOK(r)', NoClash(r, r)',
         \A q \in Requests \ {r} : NoClash(r, q)' /\ NoClash(q, r)'
  PROVE  Inv'
  <1>1. PublicInv'
    BY DEF Inv, PublicInv, MentionsAreSound, MentionsWereWritten, ContentIsAudited,
           RemovalIsAudited, database
  <1>2. ASSUME NEW q \in Requests
        PROVE  RequestOK(q)' /\ TransactionOK(q)' /\ MentionsOK(q)' /\ RecordOK(q)'
    BY OthersKeep, q \in Requests \ {r} \/ q = r
  <1>3. ASSUME NEW p \in Requests, NEW q \in Requests
        PROVE  NoClash(p, q)'
    <2>1. CASE p # r /\ q # r
      <3>1. txn'[p] = txn[p] /\ txn'[q] = txn[q] /\ call'[q] = call[q] /\ NoClash(p, q)
        BY <2>1 DEF Inv, Frame
      <3> QED BY <3>1 DEF NoClash, Removes
    <2> QED BY <2>1
  <1> QED BY <1>1, <1>2, <1>3 DEF Inv

\* A step after which r has written nothing meets nobody.
LEMMA QuietStep ==
  ASSUME Inv, NEW r \in Requests, Frame(r), UNCHANGED database, TypeOK',
         RequestOK(r)', RecordOK(r)', txn'[r] = NothingWritten,
         pc'[r] \in Writing /\ call'[r].op = "remove" => pc'[r] = "inserting"
  PROVE  Inv'
  <1>1. TransactionOK(r)'
    BY NothingIsTransaction DEF TransactionOK
  <1>2. MentionsOK(r)' /\ NoClash(r, r)'
    BY NothingIsTransaction DEF MentionsOK, Removes, NoClash
  <1>3. ASSUME NEW q \in Requests \ {r}
        PROVE  NoClash(r, q)' /\ NoClash(q, r)'
    BY NothingIsTransaction DEF NoClash, Removes
  <1> QED BY <1>1, <1>2, <1>3, PrivateStep

\* A rejected request leaves the tables and the other requests alone.
LEMMA RejectIsGood ==
  ASSUME Inv, NEW r \in Requests, pc[r] # "ok", Reject(r)
  PROVE  Inv'
  <1>1. Answer(r, "rejected") /\ UNCHANGED database /\ "rejected" \in Answers
    BY DEF Reject, Answers
  <1>2. /\ MemoryTypeOK' /\ Frame(r) /\ pc'[r] = "rejected" /\ txn'[r] = NothingWritten
    BY <1>1, AnswerIsFramed
  <1>3. TypeOK'
    BY <1>1, <1>2 DEF Inv, TypeOK, MemoryTypeOK, database
  <1>4. RequestOK(r)'
    BY <1>2 DEF RequestOK, InFlight, Answers, Editing, Writing
  <1>5. commentLogs[NewIdOf[r]] = <<>>
    BY DEF Inv, RecordOK
  <1>6. RecordOK(r)'
    BY <1>1, <1>2, <1>5, NothingIsTransaction DEF RecordOK, InFlight, Answers, database
  <1> QED BY <1>1, <1>2, <1>3, <1>4, <1>6, QuietStep DEF Writing

\* Nobody is mentioned in a comment that has no audit row, and there is none.
LEMMA UncreatedIsAbsent ==
  ASSUME Inv, NEW id \in CommentIds, commentLogs[id] = <<>>
  PROVE  comments[id] = NULL /\ MentionsOf(id) = {}
  BY DEF Inv, PublicInv, ContentIsAudited, MentionsAreSound, MentionsOf

\* A comment that is there has been created.
LEMMA PresentIsOnRecord ==
  ASSUME Inv, NEW id \in CommentIds, comments[id] # NULL
  PROVE  commentLogs[id] # <<>> /\ OnRecord(id, comments[id].content)
  BY DEF Inv, PublicInv, ContentIsAudited, OnRecord

\* The edited object is a comment with the new content.
LEMMA EditedComment ==
  ASSUME NEW comment \in Comment, NEW c \in Calls, c.op = "update"
  PROVE  Edited(comment, c) \in Comment /\ Edited(comment, c).content = c.content
  BY CallTypes DEF Edited, Comment

Written(row, content, version, time) ==
  [row EXCEPT !.content = content, !.version = version, !.updatedAt = time]

\* A comment whose three columns are written is a comment.
LEMMA WrittenComment ==
  ASSUME NEW row \in Comment, NEW content \in Contents, NEW version \in Nat, NEW time \in Nat
  PROVE  LET new == Written(row, content, version, time)
         IN  new \in Comment /\ new.content = content /\ new.version = version
  <1> DEFINE first  == [row EXCEPT !.content = content]
             second == [first EXCEPT !.version = version]
  <1>1. Written(row, content, version, time) = [second EXCEPT !.updatedAt = time]
    BY Zenon DEF Written
  <1>2. first \in Comment /\ first.content = content
    BY DEF Comment
  <1> HIDE DEF first
  <1>3. second \in Comment /\ second.content = content /\ second.version = version
    BY <1>2 DEF Comment
  <1> HIDE DEF second
  <1> QED BY <1>1, <1>3 DEF Comment

\* save() writes the content if the object's differs from the row it read again.
LEMMA SavedContent ==
  ASSUME NEW row \in Comment, NEW object \in Comment, NEW old \in Comment, NEW now \in Nat
  PROVE  /\ SavedComment(row, object, old, now) \in Comment
         /\ object.content # old.content => SavedComment(row, object, old, now).content = object.content
         /\ object.content = old.content => SavedComment(row, object, old, now).content = row.content
  <1> DEFINE content == IF object.content # old.content THEN object.content ELSE row.content
             version == IF object.version # old.version THEN object.version ELSE row.version + 1
             time    == IF object.updatedAt # old.updatedAt THEN object.updatedAt ELSE now
  <1>1. SavedComment(row, object, old, now) = Written(row, content, version, time)
    BY Zenon DEF SavedComment, Written
  <1>2. content \in Contents /\ version \in Nat /\ time \in Nat
    BY CommentTypes
  <1> HIDE DEF content, version, time
  <1>3. /\ SavedComment(row, object, old, now) \in Comment
        /\ SavedComment(row, object, old, now).content = content
    BY <1>1, <1>2, WrittenComment
  <1> QED BY <1>3 DEF content

\* So a saved row shows the new content or the one it showed.
LEMMA SavedRow ==
  ASSUME NEW row \in Comment, NEW object \in Comment, NEW old \in Comment, NEW now \in Nat
  PROVE  /\ SavedComment(row, object, old, now) \in Comment
         /\ \/ SavedComment(row, object, old, now).content = object.content
            \/ SavedComment(row, object, old, now).content = row.content
  BY SavedContent

\* The number of audit rows is a time.
LEMMA TimeIsNat ==
  ASSUME TypeOK, NEW id \in CommentIds
  PROVE  Now(id) \in Nat
  <1>1. commentLogs[id] \in Seq(AuditLog)
    BY DEF TypeOK
  <1> QED BY <1>1 DEF Now

\* A request that waits for nobody, as it writes its comment or the mentions.
LEMMA NobodyBlocks ==
  ASSUME NEW r \in Requests, WaitsFor(r) = {}, NEW q \in Requests \ {r}, InFlight(q)
  PROVE  /\ pc[r] = "removing" /\ comments[call[r].id] # NULL =>
              ~Locks(q, call[r].id) /\ \A m \in txn[q].inserted : m.commentId # call[r].id
         /\ pc[r] = "inserting" /\ txn[r].users # {} =>
              /\ \A m \in txn[q].inserted :
                   ~(m.commentId = call[r].id /\ m.userId = NextUser(txn[r].users))
              /\ ~(Locks(q, call[r].id) /\ txn[q].row = NULL)
  BY DEF WaitsFor, Pending

----------------------------------------------------------------------------
(* The steps of a request, one lemma each                                  *)

\* A creation begins with a ticket and an author that exist, or is rejected.
LEMMA BeginCreateIsGood ==
  ASSUME Inv, NEW r \in Requests, BeginCreate(r)
  PROVE  Inv'
  <1>1. PICK c \in Calls :
          c.op = "create" /\ (Begin(r, c, "creating", NULL) \/ Reject(r))
    BY DEF BeginCreate
  <1>2. pc[r] = "idle"
    BY DEF BeginCreate
  <1>3. CASE Begin(r, c, "creating", NULL)
    <2>1. /\ TypeOK' /\ Frame(r) /\ UNCHANGED database
          /\ pc'[r] = "creating" /\ txn'[r] = txn[r] /\ call'[r] = c
      BY <1>3, BeginIsFramed DEF Locations
    <2>2. txn[r] = NothingWritten /\ commentLogs[NewIdOf[r]] = <<>>
      BY <1>2 DEF Inv, RequestOK, RecordOK, Writing
    <2>3. RequestOK(r)'
      BY <1>1, <2>1, <2>2 DEF RequestOK, InFlight, Writing, Editing
    <2>4. RecordOK(r)'
      BY <1>1, <2>1, <2>2, NothingIsTransaction DEF RecordOK, database
    <2> QED BY <1>1, <2>1, <2>2, <2>3, <2>4, QuietStep
  <1> QED BY <1>1, <1>2, <1>3, RejectIsGood

\* An update or a removal begins with a comment that exists.
LEMMA BeginOnComment ==
  ASSUME Inv, NEW r \in Requests, pc[r] = "idle", NEW c \in Calls, OnTicket(c),
         NEW location,
         \/ c.op = "update" /\ location = "checked"
         \/ c.op = "remove" /\ location = "removing",
         Begin(r, c, location, comments[c.id])
  PROVE  Inv'
  <1>1. c.id \in CommentIds /\ comments[c.id] # NULL
    BY CallTypes DEF OnTicket
  <1>2. comments[c.id] \in Comment
    BY <1>1 DEF Inv, TypeOK
  <1>3. location \in Locations
    BY DEF Locations
  <1>4. /\ TypeOK' /\ Frame(r) /\ UNCHANGED database
        /\ pc'[r] = location /\ txn'[r] = txn[r] /\ call'[r] = c /\ entity'[r] = comments[c.id]
    BY <1>2, <1>3, BeginIsFramed
  <1>5. txn[r] = NothingWritten /\ commentLogs[NewIdOf[r]] = <<>>
    BY DEF Inv, RequestOK, RecordOK, Writing
  <1>6. RequestOK(r)'
    BY <1>2, <1>4, <1>5 DEF RequestOK, InFlight, Writing, Editing
  <1>7. commentLogs[c.id] # <<>>
    BY <1>1, PresentIsOnRecord
  <1>8. RecordOK(r)'
    BY <1>4, <1>5, <1>7, NothingIsTransaction DEF RecordOK, database
  <1>9. pc'[r] \notin Writing
    BY <1>4 DEF Writing
  <1> QED BY <1>4, <1>5, <1>6, <1>8, <1>9, QuietStep

\* The start of an update.
LEMMA BeginUpdateIsGood ==
  ASSUME Inv, NEW r \in Requests, BeginUpdate(r)
  PROVE  Inv'
  <1>1. PICK c \in Calls :
          c.op = "update" /\ ((OnTicket(c) /\ Begin(r, c, "checked", comments[c.id])) \/ Reject(r))
    BY DEF BeginUpdate
  <1>2. pc[r] = "idle"
    BY DEF BeginUpdate
  <1>3. CASE OnTicket(c) /\ Begin(r, c, "checked", comments[c.id])
    BY <1>1, <1>2, <1>3, BeginOnComment
  <1> QED BY <1>1, <1>2, <1>3, RejectIsGood

\* The start of a removal.
LEMMA BeginRemoveIsGood ==
  ASSUME Inv, NEW r \in Requests, BeginRemove(r)
  PROVE  Inv'
  <1>1. PICK c \in Calls :
          c.op = "remove" /\ ((OnTicket(c) /\ Begin(r, c, "removing", comments[c.id])) \/ Reject(r))
    BY DEF BeginRemove
  <1>2. pc[r] = "idle"
    BY DEF BeginRemove
  <1>3. CASE OnTicket(c) /\ Begin(r, c, "removing", comments[c.id])
    BY <1>1, <1>2, <1>3, BeginOnComment
  <1> QED BY <1>1, <1>2, <1>3, RejectIsGood

\* save() reads the row again and writes nothing yet.
LEMMA ReloadCommentIsGood ==
  ASSUME Inv, NEW r \in Requests, ReloadComment(r)
  PROVE  Inv'
  <1>1. /\ pc[r] = "checked" /\ call[r].op = "update" /\ UNCHANGED <<database, call, entity, txn>>
        /\ reloaded' = [reloaded EXCEPT ![r] = comments[call[r].id]]
        /\ pc' = [pc EXCEPT ![r] = "reloaded"]
    BY DEF ReloadComment, At, Goto
  <1>2. RequestOK(r) /\ RecordOK(r) /\ TypeOK /\ call[r] \in Calls
    BY <1>1 DEF Inv, RequestOK, InFlight, Answers
  <1>3. comments[call[r].id] \in Comment \cup {NULL}
    BY <1>1, <1>2, CallTypes DEF TypeOK
  <1>4. TypeOK' /\ Frame(r)
    BY <1>1, <1>2, <1>3 DEF TypeOK, Frame, database, Locations
  <1>5. pc'[r] = "reloaded"
    BY <1>1, <1>2 DEF TypeOK
  <1>6. RequestOK(r)'
    BY <1>1, <1>2, <1>5 DEF RequestOK, InFlight, Editing, Writing
  <1>7. RecordOK(r)'
    BY <1>1, <1>2, <1>5 DEF RecordOK, InFlight, Answers, database, OnRecord
  <1>8. txn'[r] = NothingWritten /\ pc'[r] \notin Writing
    BY <1>1, <1>2, <1>5 DEF RequestOK, Writing
  <1> QED BY <1>1, <1>4, <1>6, <1>7, <1>8, QuietStep

\* The row lock of a comment with the row left there.
LEMMA LockingRecord ==
  ASSUME NEW row \in Comment \cup {NULL}
  PROVE  LET record == [NothingWritten EXCEPT !.locked = TRUE, !.row = row]
         IN  /\ record \in Transaction
             /\ record.locked /\ record.row = row
             /\ record.found = {} /\ record.deleted = {}
             /\ record.inserted = {} /\ record.users = {}
  <1> DEFINE first  == [NothingWritten EXCEPT !.locked = TRUE]
             second == [first EXCEPT !.row = row]
  <1>1. [NothingWritten EXCEPT !.locked = TRUE, !.row = row] = second
    BY Zenon
  <1>2. /\ first \in Transaction /\ first.locked
        /\ first.found = {} /\ first.deleted = {} /\ first.inserted = {} /\ first.users = {}
    BY NothingIsTransaction DEF Transaction
  <1> HIDE DEF first
  <1>3. /\ second \in Transaction /\ second.locked /\ second.row = row
        /\ second.found = {} /\ second.deleted = {} /\ second.inserted = {} /\ second.users = {}
    BY <1>2 DEF Transaction
  <1> HIDE DEF second
  <1> QED BY <1>1, <1>3, Zenon

\* A save that writes the row of an update: nobody else inserts or deletes by it.
LEMMA SavedRowIsGood ==
  ASSUME Inv, NEW r \in Requests, At(r, "reloaded", "update"), NEW row \in Comment,
         row.content = call[r].content \/ OnRecord(call[r].id, row.content),
         Write(r, "written", [NothingWritten EXCEPT !.locked = TRUE, !.row = row])
  PROVE  Inv'
  <1> DEFINE record == [NothingWritten EXCEPT !.locked = TRUE, !.row = row]
  <1>1. /\ record \in Transaction /\ record.locked /\ record.row = row /\ row # NULL
        /\ record.found = {} /\ record.deleted = {} /\ record.inserted = {} /\ record.users = {}
    BY LockingRecord, NoCommentAssumption
  <1> HIDE DEF record
  <1>2. Write(r, "written", record) /\ "written" \in Locations
    BY DEF record, Locations
  <1>3. /\ TypeOK' /\ Frame(r) /\ UNCHANGED database
        /\ pc'[r] = "written" /\ txn'[r] = record /\ call'[r] = call[r] /\ entity'[r] = entity[r]
    BY <1>1, <1>2, WriteIsFramed
  <1>4. RequestOK(r) /\ RecordOK(r) /\ call[r].op = "update" /\ pc[r] = "reloaded"
    BY DEF Inv, At
  <1>5. RequestOK(r)'
    BY <1>3, <1>4 DEF RequestOK, InFlight, Editing, Writing, Answers
  <1>6. TransactionOK(r)'
    BY <1>1, <1>3, <1>4 DEF TransactionOK
  <1>7. MentionsOK(r)' /\ NoClash(r, r)'
    BY <1>1, <1>3 DEF MentionsOK, NoClash, Removes
  <1>8. RecordOK(r)'
    BY <1>1, <1>3, <1>4 DEF RecordOK, InFlight, Answers, OnRecord, database
  <1>9. \A q \in Requests \ {r} : NoClash(r, q)' /\ NoClash(q, r)'
    BY <1>1, <1>3 DEF NoClash, Removes
  <1> QED BY <1>3, <1>5, <1>6, <1>7, <1>8, <1>9, PrivateStep

\* A statement that meets no row: its transaction has nothing to write.
LEMMA NothingToWriteIsGood ==
  ASSUME Inv, NEW r \in Requests, NEW location,
         \/ At(r, "reloaded", "update") /\ location = "written"
         \/ At(r, "removing", "remove") /\ location = "inserting",
         Write(r, location, NothingWritten)
  PROVE  Inv'
  <1>1. location \in Locations
    BY DEF Locations
  <1>2. /\ TypeOK' /\ Frame(r) /\ UNCHANGED database
        /\ pc'[r] = location /\ txn'[r] = NothingWritten /\ call'[r] = call[r]
        /\ entity'[r] = entity[r]
    BY <1>1, NothingIsTransaction, WriteIsFramed
  <1>3. RequestOK(r) /\ RecordOK(r)
    BY DEF Inv
  <1>4. RequestOK(r)'
    BY <1>2, <1>3 DEF RequestOK, InFlight, Editing, Writing, Answers, At
  <1>5. RecordOK(r)'
    BY <1>2, <1>3, NothingIsTransaction DEF RecordOK, InFlight, Answers, OnRecord, database, At
  <1>6. call'[r].op = "remove" => pc'[r] = "inserting"
    BY <1>2 DEF At
  <1> QED BY <1>2, <1>4, <1>5, <1>6, QuietStep

\* Whatever became of the row since it was read, save() re-inserts the object,
\* fails, writes a row that shows a text on record, or writes nothing.
LEMMA SaveCommentIsGood ==
  ASSUME Inv, NEW r \in Requests, SaveComment(r)
  PROVE  Inv'
  <1> DEFINE id     == call[r].id
             object == Edited(entity[r], call[r])
  <1>1. At(r, "reloaded", "update") /\ pc[r] = "reloaded" /\ call[r].op = "update"
    BY DEF SaveComment, At
  <1>2. call[r] \in Calls /\ entity[r] \in Comment /\ id \in CommentIds /\ TypeOK
    BY <1>1, CallTypes DEF Inv, RequestOK, InFlight, Answers, Editing
  <1>3. object \in Comment /\ object.content = call[r].content
    BY <1>1, <1>2, EditedComment
  <1>4. CASE Write(r, "written", [NothingWritten EXCEPT !.locked = TRUE, !.row = object])
    BY <1>1, <1>3, <1>4, SavedRowIsGood
  <1>5. CASE Reject(r)
    BY <1>1, <1>5, RejectIsGood
  <1>6. CASE Write(r, "written", NothingWritten)
    BY <1>1, <1>6, NothingToWriteIsGood
  <1>7. ASSUME reloaded[r] # NULL, comments[id] # NULL,
               Write(r, "written", [NothingWritten EXCEPT !.locked = TRUE,
                       !.row = SavedComment(comments[id], object, reloaded[r], Now(id))])
        PROVE  Inv'
    <2> DEFINE new == SavedComment(comments[id], object, reloaded[r], Now(id))
    <2>1. comments[id] \in Comment /\ reloaded[r] \in Comment /\ Now(id) \in Nat
      BY <1>2, <1>7, TimeIsNat DEF TypeOK
    <2>2. new \in Comment /\ new.content \in {object.content, comments[id].content}
      <3>1. \A row, old \in Comment, now \in Nat :
              LET saved == SavedComment(row, object, old, now)
              IN  saved \in Comment /\ saved.content \in {object.content, row.content}
        <4> HIDE DEF object
        <4> QED BY <1>3, SavedRow
      <3> QED BY <2>1, <3>1
    <2>3. OnRecord(id, comments[id].content)
      BY <1>2, <1>7, PresentIsOnRecord
    <2>4. new.content = call[r].content \/ OnRecord(call[r].id, new.content)
      <3> HIDE DEF new
      <3> QED BY <1>3, <2>2, <2>3
    <2>5. Write(r, "written", [NothingWritten EXCEPT !.locked = TRUE, !.row = new])
      BY <1>7
    <2> HIDE DEF new
    <2> QED BY <1>1, <2>2, <2>4, <2>5, SavedRowIsGood
  <1> QED BY <1>4, <1>5, <1>6, <1>7 DEF SaveComment, SendsUpdate

\* A DELETE takes the row lock only if nobody has a mention of the comment
\* underway.
LEMMA DeleteCommentIsGood ==
  ASSUME Inv, NEW r \in Requests, DeleteComment(r)
  PROVE  Inv'
  <1>1. At(r, "removing", "remove") /\ pc[r] = "removing" /\ call[r].op = "remove" /\ WaitsFor(r) = {}
    BY DEF DeleteComment, At
  <1>2. CASE Write(r, "inserting", NothingWritten)
    BY <1>1, <1>2, NothingToWriteIsGood
  <1>3. ASSUME comments[call[r].id] # NULL, Write(r, "written", [NothingWritten EXCEPT !.locked = TRUE])
        PROVE  Inv'
    <2> DEFINE record == [NothingWritten EXCEPT !.locked = TRUE]
    <2>2. /\ record \in Transaction /\ record.locked /\ record.row = NULL
          /\ record.found = {} /\ record.deleted = {} /\ record.inserted = {} /\ record.users = {}
      BY NothingIsTransaction DEF Transaction
    <2> HIDE DEF record
    <2>3. Write(r, "written", record) /\ "written" \in Locations
      BY <1>3 DEF record, Locations
    <2>4. /\ TypeOK' /\ Frame(r) /\ UNCHANGED database
          /\ pc'[r] = "written" /\ txn'[r] = record /\ call'[r] = call[r] /\ entity'[r] = entity[r]
      BY <2>2, <2>3, WriteIsFramed
    <2>5. RequestOK(r) /\ RecordOK(r)
      BY DEF Inv
    <2>6. RequestOK(r)'
      BY <1>1, <2>4, <2>5 DEF RequestOK, InFlight, Editing, Writing, Answers
    <2>7. TransactionOK(r)'
      BY <1>1, <2>2, <2>4 DEF TransactionOK
    <2>8. MentionsOK(r)' /\ NoClash(r, r)'
      BY <2>2, <2>4 DEF MentionsOK, NoClash
    <2>9. RecordOK(r)'
      BY <1>1, <2>2, <2>4, <2>5 DEF RecordOK, InFlight, Answers, database
    <2>10. ASSUME NEW q \in Requests \ {r}
           PROVE  NoClash(r, q)' /\ NoClash(q, r)'
      <3>1. NoClash(r, q)'
        BY <2>2, <2>4 DEF NoClash
      <3>2. \A m \in txn[q].inserted : m.commentId # call[r].id
        <4>1. CASE InFlight(q)
          BY <1>1, <1>3, <4>1, NobodyBlocks
        <4>2. CASE ~InFlight(q)
          <5>1. txn[q] = NothingWritten
            BY <4>2 DEF Inv, RequestOK, Writing, InFlight, Answers
          <5> QED BY <5>1, NothingIsTransaction
        <4> QED BY <4>1, <4>2
      <3>3. txn'[q] = txn[q]
        BY <2>4 DEF Frame
      <3>4. NoClash(q, r)'
        BY <2>2, <2>4, <3>2, <3>3 DEF NoClash, Removes
      <3> QED BY <3>1, <3>4
    <2> QED BY <2>4, <2>6, <2>7, <2>8, <2>9, <2>10, PrivateStep
  <1> QED BY <1>2, <1>3 DEF DeleteComment

\* A step of a transaction that has inserted nothing, and keeps its row lock and
\* the row under it, meets nobody.
LEMMA KeepsLockStep ==
  ASSUME Inv, NEW r \in Requests, pc[r] \in Writing, txn[r].inserted = {},
         NEW location \in Writing, NEW record \in Transaction, Write(r, location, record),
         record.locked = txn[r].locked, record.row = txn[r].row, record.inserted = {},
         \A m \in record.found \cup record.deleted : m.commentId = call[r].id,
         \A u \in record.users : UsernameOf[u] \in UsernamesIn[call[r].content],
         call[r].op = "remove" => record.users = {},
         location = "inserting" \/ pc[r] # "inserting",
         \A id \in CommentIds : Removes(r, id) =>
           /\ location = "deleting" => MentionsOf(id) \subseteq record.found
           /\ location = "inserting" => MentionsOf(id) \subseteq record.deleted
  PROVE  Inv'
  <1>1. location \in Locations
    BY DEF Locations, Writing
  <1>2. /\ TypeOK' /\ Frame(r) /\ UNCHANGED database
        /\ pc'[r] = location /\ txn'[r] = record /\ call'[r] = call[r] /\ entity'[r] = entity[r]
    BY <1>1, WriteIsFramed
  <1>3. RequestOK(r) /\ TransactionOK(r) /\ RecordOK(r)
    BY DEF Inv
  <1>4. RequestOK(r)'
    BY <1>2, <1>3 DEF RequestOK, InFlight, Editing, Writing, Answers
  <1>5. TransactionOK(r)'
    BY <1>2, <1>3 DEF TransactionOK
  <1>7. MentionsOK(r)' /\ NoClash(r, r)'
    BY <1>2 DEF MentionsOK, NoClash, Removes, MentionsOf, database
  <1>8. RecordOK(r)'
    BY <1>2, <1>3 DEF RecordOK, InFlight, Answers, Writing, OnRecord, database
  <1>9. ASSUME NEW q \in Requests \ {r}
        PROVE  NoClash(r, q)' /\ NoClash(q, r)'
    <2>1. NoClash(q, r) /\ txn'[q] = txn[q]
      BY <1>2 DEF Inv, Frame
    <2> QED BY <1>2, <2>1 DEF NoClash, Removes
  <1> QED BY <1>2, <1>4, <1>5, <1>7, <1>8, <1>9, PrivateStep

\* The lookup of the mentions to delete and of the users to insert.
LEMMA FindMentionsIsGood ==
  ASSUME Inv, NEW r \in Requests, FindMentions(r)
  PROVE  Inv'
  <1>1. pc[r] = "written"
    BY DEF FindMentions
  <1>2. RequestOK(r) /\ TransactionOK(r) /\ TypeOK
    BY DEF Inv
  <1>3. call[r] \in Calls /\ txn[r] \in Transaction /\ txn[r].inserted = {}
        /\ \A m \in txn[r].deleted : m.commentId = call[r].id
    BY <1>1, <1>2 DEF RequestOK, TransactionOK, InFlight, Answers, Writing, TypeOK
  <1>4. PICK users \in (IF call[r].op = "update" THEN MentionedUsers(call[r].content) ELSE {{}}) :
          Write(r, "deleting", [txn[r] EXCEPT !.found = MentionsOf(call[r].id), !.users = users])
    BY DEF FindMentions
  <1>5. users \subseteq Users /\ (call[r].op # "update" => users = {})
        /\ \A u \in users : UsernameOf[u] \in UsernamesIn[call[r].content]
    BY <1>4, MentionedAreNamed
  <1> DEFINE first  == [txn[r] EXCEPT !.found = MentionsOf(call[r].id)]
             record == [first EXCEPT !.users = users]
  <1>6. Write(r, "deleting", record)
    <2>1. [txn[r] EXCEPT !.found = MentionsOf(call[r].id), !.users = users] = record
      BY Zenon
    <2> HIDE DEF record
    <2> QED BY <1>4, <2>1
  <1>7. /\ first \in Transaction /\ first.locked = txn[r].locked /\ first.row = txn[r].row
        /\ first.found = MentionsOf(call[r].id)
        /\ first.deleted = txn[r].deleted /\ first.inserted = {}
    <2>1. MentionsOf(call[r].id) \subseteq CommentMention
      BY <1>2 DEF TypeOK, MentionsOf
    <2> QED BY <1>3, <2>1 DEF Transaction
  <1> HIDE DEF first
  <1>8. /\ record \in Transaction /\ record.locked = txn[r].locked /\ record.row = txn[r].row
        /\ record.found = MentionsOf(call[r].id) /\ record.users = users
        /\ record.deleted = txn[r].deleted /\ record.inserted = {}
    BY <1>5, <1>7 DEF Transaction
  <1> HIDE DEF record
  <1>9. \A m \in record.found \cup record.deleted : m.commentId = call[r].id
    BY <1>3, <1>8 DEF MentionsOf
  <1>10. \A id \in CommentIds : Removes(r, id) => MentionsOf(id) \subseteq record.found
    BY <1>8 DEF Removes
  <1> QED BY <1>1, <1>3, <1>5, <1>6, <1>8, <1>9, <1>10, KeepsLockStep DEF Writing

\* The deletion of the mentions found that are still there.
LEMMA DeleteMentionsIsGood ==
  ASSUME Inv, NEW r \in Requests, DeleteMentions(r)
  PROVE  Inv'
  <1>1. pc[r] = "deleting"
    BY DEF DeleteMentions
  <1>2. RequestOK(r) /\ TransactionOK(r) /\ MentionsOK(r) /\ TypeOK
    BY DEF Inv
  <1>3. call[r] \in Calls /\ txn[r] \in Transaction /\ txn[r].inserted = {}
        /\ (\A m \in txn[r].found \cup txn[r].deleted : m.commentId = call[r].id)
        /\ (\A u \in txn[r].users : UsernameOf[u] \in UsernamesIn[call[r].content])
        /\ (call[r].op = "remove" => txn[r].users = {})
    BY <1>1, <1>2 DEF RequestOK, TransactionOK, InFlight, Answers, Writing, TypeOK
  <1> DEFINE gone   == txn[r].deleted \cup (txn[r].found \cap mentions)
             first  == [txn[r] EXCEPT !.found = {}]
             record == [first EXCEPT !.deleted = gone]
  <1>4. Write(r, "inserting", record)
    <2>1. [txn[r] EXCEPT !.found = {}, !.deleted = @ \cup (txn[r].found \cap mentions)] = record
      BY Zenon DEF DeleteMentions
    <2> HIDE DEF record
    <2> QED BY <2>1 DEF DeleteMentions
  <1>5. gone \subseteq CommentMention /\ \A m \in gone : m.commentId = call[r].id
    BY <1>3 DEF Transaction
  <1>6. \A id \in CommentIds : Removes(r, id) => MentionsOf(id) \subseteq gone
    BY <1>1, <1>2 DEF MentionsOK, MentionsOf
  <1> HIDE DEF gone
  <1>7. /\ first \in Transaction /\ first.locked = txn[r].locked /\ first.row = txn[r].row
        /\ first.found = {} /\ first.inserted = {} /\ first.users = txn[r].users
    BY <1>3 DEF Transaction
  <1> HIDE DEF first
  <1>8. /\ record \in Transaction /\ record.locked = txn[r].locked /\ record.row = txn[r].row
        /\ record.found = {} /\ record.deleted = gone
        /\ record.inserted = {} /\ record.users = txn[r].users
    BY <1>5, <1>7 DEF Transaction
  <1> HIDE DEF record
  <1> QED BY <1>1, <1>3, <1>4, <1>5, <1>6, <1>8, KeepsLockStep DEF Writing

\* A mention is inserted: its key is free or freed by the same transaction, the
\* comment is there, and no other transaction has taken either.
LEMMA InsertMentionIsGood ==
  ASSUME Inv, NEW r \in Requests, InsertMention(r)
  PROVE  Inv'
  <1> DEFINE id     == call[r].id
             user   == NextUser(txn[r].users)
             new    == Mention(id, {user}, r)
             first  == [txn[r] EXCEPT !.users = @ \ {user}]
             record == [first EXCEPT !.inserted = @ \cup new]
  <1>1. pc[r] = "inserting" /\ txn[r].users # {} /\ WaitsFor(r) = {}
    BY DEF InsertMention
  <1>2. RequestOK(r) /\ TransactionOK(r) /\ MentionsOK(r) /\ RecordOK(r) /\ NoClash(r, r) /\ TypeOK
    BY DEF Inv
  <1>3. call[r] \in Calls /\ txn[r] \in Transaction
    BY <1>1, <1>2 DEF RequestOK, InFlight, Answers, TypeOK
  <1>4. call[r].op = "update" /\ id \in CommentIds
        /\ (\A m \in txn[r].found \cup txn[r].deleted \cup txn[r].inserted : m.commentId = id)
        /\ (\A m \in txn[r].inserted : m.by = r /\ UsernameOf[m.userId] \in UsernamesIn[call[r].content])
        /\ (\A u \in txn[r].users : UsernameOf[u] \in UsernamesIn[call[r].content])
        /\ (txn[r].locked => txn[r].row # NULL)
    BY <1>1, <1>2, <1>3, CallTypes DEF RequestOK, TransactionOK, Writing
  <1>5. txn[r].users \subseteq Users /\ user \in txn[r].users /\ user \in Users
    BY <1>1, <1>3, NextUserIsOne DEF Transaction
  <1>6. CASE Reject(r)
    BY <1>1, <1>6, RejectIsGood
  <1>7. ASSUME \A m \in MentionsOf(id) \ txn[r].deleted : m.userId # user,
               IF txn[r].locked THEN txn[r].row # NULL ELSE comments[id] # NULL,
               Write(r, "inserting", [txn[r] EXCEPT !.users = @ \ {user}, !.inserted = @ \cup new])
        PROVE  Inv'
    <2>1. Write(r, "inserting", record) /\ "inserting" \in Locations
      <3>1. [txn[r] EXCEPT !.users = @ \ {user}, !.inserted = @ \cup new] = record
        BY Zenon
      <3> HIDE DEF record
      <3> QED BY <1>7, <3>1 DEF Locations
    <2>2. /\ new \subseteq CommentMention
          /\ \A m \in new : m.commentId = id /\ m.userId = user /\ m.by = r
      <3> HIDE DEF user
      <3> QED BY <1>4, <1>5, MentionRows
    <2>3. \A m, n \in new : m = n
      BY DEF Mention
    <2> HIDE DEF new
    <2>4. /\ first \in Transaction /\ first.locked = txn[r].locked /\ first.row = txn[r].row
          /\ first.found = txn[r].found /\ first.deleted = txn[r].deleted
          /\ first.inserted = txn[r].inserted /\ first.users = txn[r].users \ {user}
      <3> HIDE DEF user
      <3> QED BY <1>3 DEF Transaction
    <2> HIDE DEF first
    <2>5. /\ record \in Transaction /\ record.locked = txn[r].locked /\ record.row = txn[r].row
          /\ record.found = txn[r].found /\ record.deleted = txn[r].deleted
          /\ record.inserted = txn[r].inserted \cup new /\ record.users = txn[r].users \ {user}
      BY <2>2, <2>4 DEF Transaction
    <2> HIDE DEF record
    <2>6. /\ TypeOK' /\ Frame(r) /\ UNCHANGED database
          /\ pc'[r] = "inserting" /\ txn'[r] = record /\ call'[r] = call[r] /\ entity'[r] = entity[r]
      BY <2>1, <2>5, WriteIsFramed
    <2> HIDE DEF user
    <2>7. RequestOK(r)'
      BY <1>1, <1>2, <1>4, <2>6 DEF RequestOK, InFlight, Editing, Writing, Answers
    <2>8. TransactionOK(r)'
      BY <1>4, <1>5, <2>2, <2>5, <2>6 DEF TransactionOK
    <2>9. MentionsOK(r)'
      <3>1. \A m \in mentions : \A n \in record.inserted : SameKey(m, n) => m \in record.deleted
        BY <1>2, <1>7, <2>2, <2>5 DEF MentionsOK, SameKey, MentionsOf
      <3>2. \A m \in record.inserted : ~record.locked => comments[m.commentId] # NULL
        BY <1>2, <1>7, <2>2, <2>5 DEF MentionsOK
      <3>3. \A i \in CommentIds : ~(record.locked /\ record.row = NULL)
        BY <1>4, <2>5
      <3> QED BY <2>6, <3>1, <3>2, <3>3 DEF MentionsOK, Removes, database
    <2>10. RecordOK(r)'
      BY <1>1, <1>2, <1>4, <2>5, <2>6 DEF RecordOK, InFlight, Answers, OnRecord, database
    <2>11. NoClash(r, r)'
      <3>1. \A m, n \in record.inserted : m.commentId = id /\ n.commentId = id /\ m.by = r /\ n.by = r
        BY <1>4, <2>2, <2>5
      <3>2. record.inserted \subseteq CommentMention
        BY <2>5 DEF Transaction
      <3>3. \A m, n \in record.inserted : SameKey(m, n) => m = n
        BY <3>1, <3>2, MentionColumns DEF SameKey
      <3>4. ~(record.locked /\ record.row = NULL)
        BY <1>4, <2>5
      <3> QED BY <2>6, <3>3, <3>4 DEF NoClash, Removes
    <2>12. ASSUME NEW q \in Requests \ {r}
           PROVE  NoClash(r, q)' /\ NoClash(q, r)'
      <3>1. NoClash(r, q) /\ NoClash(q, r) /\ txn'[q] = txn[q] /\ call'[q] = call[q]
        BY <2>6 DEF Inv, Frame
      <3>2. /\ \A m \in txn[q].inserted : ~(m.commentId = id /\ m.userId = user)
            /\ ~Removes(q, id)
        <4>1. CASE InFlight(q)
          BY <1>1, <4>1, NobodyBlocks DEF Removes, Locks, user
        <4>2. CASE ~InFlight(q)
          <5>1. txn[q] = NothingWritten
            BY <4>2 DEF Inv, RequestOK, Writing, InFlight, Answers
          <5> QED BY <5>1, NothingIsTransaction DEF Removes
        <4> QED BY <4>1, <4>2
      <3>3. NoClash(r, q)'
        <4>1. \A m \in record.inserted : \A n \in txn[q].inserted : SameKey(m, n) => m = n
          BY <3>1, <3>2, <2>2, <2>5 DEF NoClash, SameKey
        <4>2. \A m \in record.inserted : ~Removes(q, m.commentId)
          BY <3>1, <3>2, <2>2, <2>5 DEF NoClash
        <4> QED BY <2>6, <3>1, <4>1, <4>2 DEF NoClash, Removes
      <3>4. NoClash(q, r)'
        <4>1. \A m \in txn[q].inserted : \A n \in record.inserted : SameKey(m, n) => m = n
          BY <3>1, <3>2, <2>2, <2>5 DEF NoClash, SameKey
        <4> QED BY <2>5, <2>6, <3>1, <4>1, <1>4 DEF NoClash, Removes
      <3> QED BY <3>3, <3>4
    <2> QED BY <2>6, <2>7, <2>8, <2>9, <2>10, <2>11, <2>12, PrivateStep
  <1> QED BY <1>6, <1>7 DEF InsertMention

----------------------------------------------------------------------------
(* Commits                                                                 *)

\* A commit of request r: comment id becomes row, mentions of it are replaced,
\* and log is appended to its audit rows.
CommitsRow(r, id, row, deleted, inserted, log) ==
  /\ comments' = [comments EXCEPT ![id] = row]
  /\ mentions' = (mentions \ deleted) \cup inserted
  /\ commentLogs' = [commentLogs EXCEPT ![id] = Append(@, log)]
  /\ Answer(r, "ok")

\* What is committed about the one comment is sound ...
RowIsSound(r, id, row, deleted, inserted, log) ==
  /\ row \in Comment \cup {NULL} /\ log \in AuditLog
  /\ row # NULL => row.content = log.content \/ OnRecord(id, row.content)
  /\ row = NULL => log.action = "DELETE" \/ (comments[id] = NULL /\ commentLogs[id] # <<>>)
  /\ row = NULL => MentionsOf(id) \subseteq deleted /\ inserted = {}
  /\ inserted \subseteq CommentMention
  /\ \A m \in deleted : m.commentId = id
  /\ \A m \in inserted : /\ m.commentId = id /\ log.content # NULL
                         /\ UsernameOf[m.userId] \in UsernamesIn[log.content]
  /\ \A m \in mentions : \A n \in inserted : SameKey(m, n) => m \in deleted
  /\ \A m, n \in inserted : SameKey(m, n) => m = n

\* ... and leaves what request q is about to commit possible.
RowLeaves(q, id, row, inserted) ==
  /\ \A m \in inserted : \A n \in txn[q].inserted : ~SameKey(m, n)
  /\ Removes(q, id) => inserted = {}
  /\ row = NULL /\ comments[id] # NULL => \A m \in txn[q].inserted : m.commentId # id
  /\ pc[q] # "ok" => NewIdOf[q] # id

\* The properties of the tables after a sound commit.
LEMMA CommitKeepsTables ==
  ASSUME Inv, NEW r \in Requests, NEW id \in CommentIds, NEW row, NEW deleted, NEW inserted,
         NEW log, CommitsRow(r, id, row, deleted, inserted, log),
         RowIsSound(r, id, row, deleted, inserted, log)
  PROVE  TypeOK' /\ PublicInv'
  <1>1. TypeOK /\ PublicInv /\ commentLogs[id] \in Seq(AuditLog) /\ log \in AuditLog
    BY DEF Inv, TypeOK, RowIsSound
  <1>2. MemoryTypeOK'
    BY AnswerIsFramed DEF CommitsRow, Answers
  <1>3. /\ comments' = [comments EXCEPT ![id] = row]
        /\ mentions' = (mentions \ deleted) \cup inserted
        /\ commentLogs' = [commentLogs EXCEPT ![id] = Append(commentLogs[id], log)]
    BY DEF CommitsRow
  <1>4. /\ comments'[id] = row /\ \A i \in CommentIds \ {id} : comments'[i] = comments[i]
        /\ commentLogs'[id] = Append(commentLogs[id], log)
        /\ \A i \in CommentIds \ {id} : commentLogs'[i] = commentLogs[i]
    BY <1>1, <1>3 DEF TypeOK
  <1>5. /\ commentLogs'[id] \in Seq(AuditLog)
        /\ \A i \in DOMAIN commentLogs[id] :
             i \in DOMAIN commentLogs'[id] /\ commentLogs'[id][i] = commentLogs[id][i]
        /\ \E i \in DOMAIN commentLogs'[id] : commentLogs'[id][i] = log
    BY <1>1, <1>4, AppendKeeps
  <1>6. TypeOK'
    <2>1. comments' \in [CommentIds -> Comment \cup {NULL}] /\ mentions' \subseteq CommentMention
      BY <1>1, <1>3 DEF TypeOK, RowIsSound
    <2>2. Append(commentLogs[id], log) \in Seq(AuditLog)
      BY <1>4, <1>5
    <2>3. commentLogs' \in [CommentIds -> Seq(AuditLog)]
      BY <1>1, <1>3, <2>2 DEF TypeOK
    <2> QED BY <1>2, <2>1, <2>3 DEF TypeOK, MemoryTypeOK
  <1>7. \A m \in mentions' : m.commentId \in CommentIds
    BY <1>6 DEF TypeOK, CommentMention
  <1>8. MentionsAreSound'
    <2>1. ASSUME NEW m \in mentions'
          PROVE  comments'[m.commentId] # NULL
      <3>1. CASE m \in inserted
        BY <1>4, <3>1 DEF RowIsSound
      <3>2. CASE m \in mentions \ deleted
        BY <1>1, <1>4, <1>7, <3>2 DEF PublicInv, MentionsAreSound, RowIsSound, MentionsOf
      <3> QED BY <1>3, <3>1, <3>2
    <2>2. ASSUME NEW m \in mentions', NEW n \in mentions', SameKey(m, n)
          PROVE  n = m
      BY <1>1, <1>3, <2>2 DEF PublicInv, MentionsAreSound, RowIsSound, SameKey
    <2> QED BY <2>1, <2>2 DEF MentionsAreSound, SameKey
  <1>9. MentionsWereWritten'
    <2> SUFFICES ASSUME NEW m \in mentions'
                 PROVE  \E i \in DOMAIN commentLogs'[m.commentId] :
                          /\ commentLogs'[m.commentId][i].content # NULL
                          /\ UsernameOf[m.userId] \in UsernamesIn[commentLogs'[m.commentId][i].content]
      BY DEF MentionsWereWritten
    <2>1. CASE m \in inserted
      <3>1. m.commentId = id /\ log.content # NULL /\ UsernameOf[m.userId] \in UsernamesIn[log.content]
        BY <2>1 DEF RowIsSound
      <3> QED BY <1>5, <3>1
    <2>2. CASE m \in mentions
      <3>1. PICK i \in DOMAIN commentLogs[m.commentId] :
              /\ commentLogs[m.commentId][i].content # NULL
              /\ UsernameOf[m.userId] \in UsernamesIn[commentLogs[m.commentId][i].content]
        BY <1>1, <2>2 DEF PublicInv, MentionsWereWritten
      <3> QED BY <1>4, <1>5, <1>7, <3>1
    <2> QED BY <1>3, <2>1, <2>2
  <1>10. ContentIsAudited'
    <2> SUFFICES ASSUME NEW i \in CommentIds, comments'[i] # NULL
                 PROVE  \E n \in DOMAIN commentLogs'[i] :
                          commentLogs'[i][n].content = comments'[i].content
      BY DEF ContentIsAudited
    <2>1. CASE i # id
      BY <1>1, <1>4, <2>1 DEF PublicInv, ContentIsAudited
    <2>2. CASE i = id
      <3>1. row # NULL /\ (row.content = log.content \/ OnRecord(id, row.content))
        BY <1>4, <2>2 DEF RowIsSound
      <3> QED BY <1>4, <1>5, <2>2, <3>1 DEF OnRecord
    <2> QED BY <2>1, <2>2
  <1>11. RemovalIsAudited'
    <2> SUFFICES ASSUME NEW i \in CommentIds, comments'[i] = NULL, commentLogs'[i] # <<>>
                 PROVE  \E n \in DOMAIN commentLogs'[i] : commentLogs'[i][n].action = "DELETE"
      BY DEF RemovalIsAudited
    <2>1. CASE i # id
      BY <1>1, <1>4, <2>1 DEF PublicInv, RemovalIsAudited
    <2>2. CASE i = id
      <3>1. log.action = "DELETE" \/ (comments[id] = NULL /\ commentLogs[id] # <<>>)
        BY <1>4, <2>2 DEF RowIsSound
      <3>2. comments[id] = NULL /\ commentLogs[id] # <<>> =>
              \E n \in DOMAIN commentLogs[id] : commentLogs[id][n].action = "DELETE"
        BY <1>1 DEF PublicInv, RemovalIsAudited
      <3> QED BY <1>5, <2>2, <3>1, <3>2
    <2> QED BY <2>1, <2>2
  <1> QED BY <1>6, <1>8, <1>9, <1>10, <1>11 DEF PublicInv

\* The other requests after a sound commit that leaves them possible.
LEMMA CommitKeepsRequests ==
  ASSUME Inv, NEW r \in Requests, NEW id \in CommentIds, NEW row, NEW deleted, NEW inserted,
         NEW log, CommitsRow(r, id, row, deleted, inserted, log),
         RowIsSound(r, id, row, deleted, inserted, log),
         \A q \in Requests \ {r} : RowLeaves(q, id, row, inserted)
  PROVE  Inv'
  <1>1. TypeOK' /\ PublicInv' /\ TypeOK
    BY CommitKeepsTables DEF Inv
  <1>2. Frame(r) /\ pc'[r] = "ok" /\ txn'[r] = NothingWritten
    BY AnswerIsFramed DEF CommitsRow, Answers
  <1>3. /\ comments'[id] = row /\ \A i \in CommentIds \ {id} : comments'[i] = comments[i]
        /\ mentions' = (mentions \ deleted) \cup inserted
        /\ commentLogs'[id] = Append(commentLogs[id], log)
        /\ \A i \in CommentIds \ {id} : commentLogs'[i] = commentLogs[i]
    BY <1>1 DEF CommitsRow, TypeOK
  <1>4. /\ commentLogs'[id] # <<>>
        /\ \A i \in DOMAIN commentLogs[id] :
             i \in DOMAIN commentLogs'[id] /\ commentLogs'[id][i] = commentLogs[id][i]
    BY <1>1, <1>3, AppendKeeps DEF TypeOK, RowIsSound
  <1>5. RequestOK(r)' /\ TransactionOK(r)' /\ MentionsOK(r)' /\ RecordOK(r)'
    BY <1>2, NothingIsTransaction
       DEF RequestOK, TransactionOK, MentionsOK, RecordOK, Removes, InFlight, Answers, Editing, Writing
  <1>6. ASSUME NEW q \in Requests \ {r}
        PROVE  RequestOK(q)' /\ TransactionOK(q)' /\ MentionsOK(q)' /\ RecordOK(q)'
    <2>1. /\ pc'[q] = pc[q] /\ call'[q] = call[q] /\ entity'[q] = entity[q] /\ txn'[q] = txn[q]
          /\ RequestOK(q) /\ TransactionOK(q) /\ MentionsOK(q) /\ RecordOK(q)
          /\ RowLeaves(q, id, row, inserted)
      BY <1>2 DEF Frame, Inv
    <2>2. RequestOK(q)' /\ TransactionOK(q)'
      BY <2>1 DEF RequestOK, TransactionOK, InFlight
    <2>3. MentionsOK(q)'
      <3>1. \A m \in mentions' : \A n \in txn[q].inserted : SameKey(m, n) => m \in txn[q].deleted
        BY <1>3, <2>1 DEF MentionsOK, RowLeaves
      <3>2. ASSUME NEW m \in txn[q].inserted, ~txn[q].locked
            PROVE  comments'[m.commentId] # NULL
        <4>1. comments[m.commentId] # NULL /\ m.commentId \in CommentIds
          BY <1>1, <2>1, <3>2 DEF MentionsOK, TypeOK, Transaction, CommentMention
        <4> QED BY <1>3, <2>1, <4>1 DEF RowLeaves
      <3>3. ASSUME NEW i \in CommentIds, Removes(q, i)
            PROVE  MentionsOf(i)' \subseteq MentionsOf(i)
        <4>1. \A m \in inserted : m.commentId # i
          BY <2>1, <3>3 DEF RowLeaves, RowIsSound
        <4> QED BY <1>3, <4>1 DEF MentionsOf
      <3> QED BY <2>1, <3>1, <3>2, <3>3 DEF MentionsOK, Removes
    <2>4. RecordOK(q)'
      <3>1. InFlight(q) /\ call[q].op \in {"update", "remove"} => call[q].id \in CommentIds
        BY <2>1, CallTypes DEF RequestOK
      <3>2. txn[q].locked => InFlight(q) /\ call[q].op \in {"update", "remove"}
        BY <2>1, NothingIsTransaction DEF RequestOK, InFlight, Writing, Answers
      <3>3. InFlight(q) /\ call[q].op \in {"update", "remove"} => commentLogs'[call[q].id] # <<>>
        BY <1>3, <1>4, <2>1, <3>1 DEF RecordOK
      <3>4. txn[q].locked /\ txn[q].row # NULL =>
              \/ txn[q].row.content = call[q].content
              \/ OnRecord(call[q].id, txn[q].row.content)'
        BY <1>3, <1>4, <2>1, <3>1, <3>2 DEF RecordOK, OnRecord
      <3>5. pc[q] # "ok" => commentLogs'[NewIdOf[q]] = <<>>
        BY <1>3, <2>1, NewIdsAssumption DEF RecordOK, RowLeaves
      <3> QED BY <2>1, <3>3, <3>4, <3>5 DEF RecordOK, InFlight, OnRecord
    <2> QED BY <2>2, <2>3, <2>4
  <1>7. ASSUME NEW p \in Requests, NEW q \in Requests
        PROVE  NoClash(p, q)'
    <2>1. CASE p # r /\ q # r
      <3>1. txn'[p] = txn[p] /\ txn'[q] = txn[q] /\ call'[q] = call[q] /\ NoClash(p, q)
        BY <1>2, <2>1 DEF Inv, Frame
      <3> QED BY <3>1 DEF NoClash, Removes
    <2>2. CASE p = r \/ q = r
      BY <1>2, <2>2, NothingIsTransaction DEF NoClash, Removes
    <2> QED BY <2>1, <2>2
  <1> QED BY <1>1, <1>5, <1>6, <1>7 DEF Inv

\* A created comment comes with its mentions and its audit row.
LEMMA CommitCreateIsGood ==
  ASSUME Inv, NEW r \in Requests, CommitCreate(r)
  PROVE  Inv'
  <1> DEFINE id  == NewIdOf[r]
             row == NewComment(call[r])
             log == CommentLog(call[r], NULL)
  <1>1. pc[r] = "creating" /\ call[r].op = "create" /\ id \in CommentIds
    BY NewIdsAssumption DEF CommitCreate, At
  <1>2. call[r] \in Calls /\ commentLogs[id] = <<>>
    BY <1>1 DEF Inv, RequestOK, RecordOK, InFlight, Answers
  <1>3. comments[id] = NULL /\ MentionsOf(id) = {}
    BY <1>1, <1>2, UncreatedIsAbsent
  <1>4. PICK users \in MentionedUsers(call[r].content) : mentions' = mentions \cup Mention(id, users, r)
    BY DEF CommitCreate
  <1>5. users \subseteq Users /\ \A u \in users : UsernameOf[u] \in UsernamesIn[call[r].content]
    BY <1>4, MentionedAreNamed
  <1> DEFINE inserted == Mention(id, users, r)
  <1>6. CommitsRow(r, id, row, {}, inserted, log)
    BY <1>4 DEF CommitCreate, CommitsRow
  <1>7. row \in Comment /\ row.content = call[r].content /\ row # NULL
    BY <1>1, <1>2, CallTypes, NoCommentAssumption DEF NewComment, Comment
  <1>8. log \in AuditLog /\ log.content = call[r].content /\ log.content # NULL
    BY <1>1, <1>2, LogOfCall
  <1>9. /\ inserted \subseteq CommentMention
        /\ \A m \in inserted : m.commentId = id /\ m.userId \in users /\ m.by = r
        /\ \A m, n \in inserted : m.userId = n.userId => m = n
    BY <1>1, <1>5, MentionRows
  <1> HIDE DEF row, log, inserted
  <1>10. RowIsSound(r, id, row, {}, inserted, log)
    BY <1>3, <1>5, <1>7, <1>8, <1>9 DEF RowIsSound, SameKey, MentionsOf
  <1>11. ASSUME NEW q \in Requests \ {r}
         PROVE  RowLeaves(q, id, row, inserted)
    <2>1. NewIdOf[q] # id
      BY NewIdsAssumption
    <2>2. ASSUME pc[q] \in Writing
          PROVE  call[q].id # id
      <3>1. commentLogs[call[q].id] # <<>>
        BY <2>2 DEF Inv, RequestOK, RecordOK, Writing, InFlight, Answers
      <3> QED BY <1>2, <3>1
    <2>3. \A m \in txn[q].inserted : m.commentId # id
      <3>1. CASE pc[q] \in Writing
        BY <2>2, <3>1 DEF Inv, TransactionOK
      <3>2. CASE pc[q] \notin Writing
        BY <3>2, NothingIsTransaction DEF Inv, RequestOK
      <3> QED BY <3>1, <3>2
    <2>4. ~Removes(q, id)
      <3>1. CASE pc[q] \in Writing
        BY <2>2, <3>1 DEF Removes
      <3>2. CASE pc[q] \notin Writing
        BY <3>2, NothingIsTransaction DEF Inv, RequestOK, Removes
      <3> QED BY <3>1, <3>2
    <2> QED BY <1>9, <2>1, <2>3, <2>4 DEF RowLeaves, SameKey
  <1> QED BY <1>1, <1>6, <1>10, <1>11, CommitKeepsRequests

\* The commit of an update or a removal.
LEMMA CommitIsGood ==
  ASSUME Inv, NEW r \in Requests, Commit(r)
  PROVE  Inv'
  <1> DEFINE id  == call[r].id
             t   == txn[r]
             row == IF t.locked THEN t.row ELSE comments[id]
             log == CommentLog(call[r], entity[r])
  <1>1. pc[r] = "inserting" /\ pc[r] \in Writing /\ InFlight(r)
    BY DEF Commit, Writing, InFlight, Answers
  <1>2. TypeOK /\ RequestOK(r) /\ TransactionOK(r) /\ MentionsOK(r) /\ RecordOK(r) /\ NoClash(r, r)
    BY DEF Inv
  <1>3. call[r] \in Calls /\ call[r].op \in {"update", "remove"} /\ id \in CommentIds
        /\ t \in Transaction /\ commentLogs[id] # <<>>
    BY <1>1, <1>2, CallTypes DEF TypeOK, RequestOK, RecordOK
  <1>4. /\ \A m \in t.deleted \cup t.inserted : m.commentId = id
        /\ \A m \in t.inserted : UsernameOf[m.userId] \in UsernamesIn[call[r].content]
        /\ call[r].op = "remove" => t.inserted = {}
        /\ call[r].op = "update" /\ t.locked => t.row # NULL
        /\ call[r].op = "remove" /\ t.locked => t.row = NULL
    BY <1>1, <1>2 DEF TransactionOK
  <1>5. CommitsRow(r, id, row, t.deleted, t.inserted, log)
    BY DEF Commit, CommitsRow
  <1>6. /\ log \in AuditLog
        /\ call[r].op = "update" => log.content = call[r].content /\ log.content # NULL
        /\ call[r].op = "remove" => log.action = "DELETE"
    BY <1>3, LogOfCall
  <1> HIDE DEF log
  <1>7. RowIsSound(r, id, row, t.deleted, t.inserted, log)
    <2>1. row \in Comment \cup {NULL}
      BY <1>2, <1>3 DEF TypeOK, Transaction
    <2>2. row # NULL => row.content = log.content \/ OnRecord(id, row.content)
      <3>1. CASE t.locked
        BY <1>2, <1>3, <1>4, <1>6, <3>1 DEF RecordOK
      <3>2. CASE ~t.locked
        BY <1>3, <3>2, PresentIsOnRecord
      <3> QED BY <3>1, <3>2
    <2>3. row = NULL => log.action = "DELETE" \/ (comments[id] = NULL /\ commentLogs[id] # <<>>)
      BY <1>3, <1>4, <1>6
    <2>4. row = NULL => MentionsOf(id) \subseteq t.deleted /\ t.inserted = {}
      <3>1. CASE t.locked
        BY <1>1, <1>2, <1>3, <1>4, <3>1 DEF MentionsOK, Removes
      <3>2. CASE ~t.locked /\ comments[id] = NULL
        <4>1. MentionsOf(id) = {}
          BY <3>2 DEF Inv, PublicInv, MentionsAreSound, MentionsOf
        <4>2. t.inserted = {}
          BY <1>2, <1>4, <3>2 DEF MentionsOK
        <4> QED BY <4>1, <4>2
      <3> QED BY <3>1, <3>2
    <2>5. t.inserted \subseteq CommentMention
      BY <1>3 DEF Transaction
    <2>6. \A m \in t.inserted : /\ m.commentId = id /\ log.content # NULL
                                /\ UsernameOf[m.userId] \in UsernamesIn[log.content]
      BY <1>3, <1>4, <1>6
    <2>7. /\ \A m \in mentions : \A n \in t.inserted : SameKey(m, n) => m \in t.deleted
          /\ \A m, n \in t.inserted : SameKey(m, n) => m = n
      BY <1>2 DEF MentionsOK, NoClash
    <2> HIDE DEF row
    <2> QED BY <1>4, <1>6, <2>1, <2>2, <2>3, <2>4, <2>5, <2>6, <2>7 DEF RowIsSound
  <1>8. ASSUME NEW q \in Requests \ {r}
        PROVE  RowLeaves(q, id, row, t.inserted)
    <2>1. NoClash(r, q) /\ NoClash(q, r) /\ RecordOK(q)
      BY DEF Inv
    <2>2. \A m \in t.inserted : \A n \in txn[q].inserted : ~SameKey(m, n)
      <3> SUFFICES ASSUME NEW m \in t.inserted, NEW n \in txn[q].inserted, SameKey(m, n)
                   PROVE  FALSE
        OBVIOUS
      <3>1. m = n
        BY <2>1 DEF NoClash
      <3>2. m.by = r
        BY <1>1, <1>2 DEF TransactionOK
      <3>3. pc[q] \in Writing
        BY NothingIsTransaction DEF Inv, RequestOK
      <3>4. n.by = q
        BY <3>3 DEF Inv, TransactionOK
      <3> QED BY <3>1, <3>2, <3>4
    <2>3. Removes(q, id) => t.inserted = {}
      BY <1>4, <2>1 DEF NoClash
    <2>4. row = NULL /\ comments[id] # NULL => \A m \in txn[q].inserted : m.commentId # id
      BY <2>1 DEF NoClash, Removes
    <2>5. pc[q] # "ok" => NewIdOf[q] # id
      BY <1>3, <2>1 DEF RecordOK
    <2> HIDE DEF row
    <2> QED BY <2>2, <2>3, <2>4, <2>5 DEF RowLeaves
  <1> HIDE DEF row
  <1> QED BY <1>3, <1>5, <1>7, <1>8, CommitKeepsRequests

----------------------------------------------------------------------------
(* The invariant                                                           *)

\* The tables as they are found: each comment with the mentions its content
\* calls for and the audit row of its creation.
LEMMA InitIsGood ==
  ASSUME Init
  PROVE  Inv
  <1>1. PICK chosen \in [CommentIds -> SUBSET Users] :
          /\ \A id \in CommentIds :
               chosen[id] \in IF comments[id] = NULL THEN {{}} ELSE MentionedUsers(comments[id].content)
          /\ mentions = UNION {Mention(id, chosen[id], NULL) : id \in CommentIds}
    BY DEF Init
  <1>2. /\ comments \in [CommentIds -> Comment \cup {NULL}]
        /\ \A r \in Requests : comments[NewIdOf[r]] = NULL
        /\ \A r \in Requests : /\ pc[r] = "idle" /\ call[r] = NULL /\ entity[r] = NULL
                               /\ reloaded[r] = NULL /\ txn[r] = NothingWritten
    BY CreatedCommentsAssumption DEF Init
  <1>3. ASSUME NEW id \in CommentIds
        PROVE  /\ commentLogs[id] \in Seq(AuditLog)
               /\ comments[id] = NULL => commentLogs[id] = <<>>
               /\ comments[id] # NULL =>
                    1 \in DOMAIN commentLogs[id] /\ commentLogs[id][1].content = comments[id].content
    <2>1. commentLogs[id] = IF comments[id] = NULL THEN <<>>
                            ELSE <<[action |-> "CREATE", content |-> comments[id].content]>>
      BY DEF Init
    <2>2. CASE comments[id] = NULL
      BY <2>1, <2>2
    <2>3. CASE comments[id] # NULL
      <3> DEFINE log == [action |-> "CREATE", content |-> comments[id].content]
      <3>1. log \in AuditLog /\ log.content = comments[id].content
        BY <1>2, <2>3, CommentTypes DEF AuditLog
      <3>2. commentLogs[id] = <<log>>
        BY <2>1, <2>3
      <3> HIDE DEF log
      <3> QED BY <2>3, <3>1, <3>2
    <2> QED BY <2>2, <2>3
  <1>4. ASSUME NEW m \in mentions
        PROVE  /\ m \in CommentMention /\ m.by = NULL /\ m.commentId \in CommentIds
               /\ comments[m.commentId] # NULL
               /\ UsernameOf[m.userId] \in UsernamesIn[comments[m.commentId].content]
    <2>1. PICK id \in CommentIds : m \in Mention(id, chosen[id], NULL)
      BY <1>1
    <2>2. m \in CommentMention /\ m.by = NULL /\ m.commentId = id /\ m.userId \in chosen[id]
      BY <2>1, MentionRows
    <2>3. comments[id] # NULL /\ chosen[id] \in MentionedUsers(comments[id].content)
      BY <1>1, <2>2
    <2> QED BY <2>2, <2>3, MentionedAreNamed
  <1>5. TypeOK
    <2>1. mentions \subseteq CommentMention
      BY <1>4
    <2>2. commentLogs \in [CommentIds -> Seq(AuditLog)]
      <3>1. commentLogs = [id \in CommentIds |-> commentLogs[id]]
        BY DEF Init
      <3> QED BY <1>3, <3>1
    <2> QED BY <1>2, <2>1, <2>2, NothingIsTransaction DEF TypeOK, Init, Locations
  <1>6. PublicInv
    <2>1. MentionsAreSound
      <3>1. ASSUME NEW m \in mentions, NEW n \in mentions, n.commentId = m.commentId, n.userId = m.userId
            PROVE  n = m
        BY <1>4, <3>1, MentionColumns
      <3> QED BY <1>4, <3>1 DEF MentionsAreSound
    <2>2. MentionsWereWritten
      <3> SUFFICES ASSUME NEW m \in mentions
                   PROVE  \E i \in DOMAIN commentLogs[m.commentId] :
                            /\ commentLogs[m.commentId][i].content # NULL
                            /\ UsernameOf[m.userId] \in UsernamesIn[commentLogs[m.commentId][i].content]
        BY DEF MentionsWereWritten
      <3>1. comments[m.commentId] \in Comment
        BY <1>2, <1>4
      <3> QED BY <1>3, <1>4, <3>1, CommentTypes
    <2> QED BY <1>3, <2>1, <2>2 DEF PublicInv, ContentIsAudited, RemovalIsAudited
  <1>7. ASSUME NEW r \in Requests
        PROVE  RequestOK(r) /\ TransactionOK(r) /\ MentionsOK(r) /\ RecordOK(r)
    <2>1. commentLogs[NewIdOf[r]] = <<>>
      BY <1>2, <1>3, NewIdsAssumption
    <2> QED BY <1>2, <2>1, NothingIsTransaction
            DEF RequestOK, TransactionOK, MentionsOK, RecordOK, Removes, InFlight, Editing, Writing
  <1>8. \A r, q \in Requests : NoClash(r, q)
    BY <1>2, NothingIsTransaction DEF NoClash
  <1> QED BY <1>5, <1>6, <1>7, <1>8 DEF Inv

\* Every step of a request keeps the invariant.
LEMMA EveryStepIsGood ==
  ASSUME Inv, NEW r \in Requests, Arrive(r) \/ Proceed(r) \/ Fail(r)
  PROVE  Inv'
  <1>1. CASE Arrive(r)
    BY <1>1, BeginCreateIsGood, BeginUpdateIsGood, BeginRemoveIsGood DEF Arrive
  <1>2. CASE AbortDeadlock(r) \/ Fail(r)
    BY <1>2, RejectIsGood DEF AbortDeadlock, Fail, InFlight, Answers
  <1>3. CASE Proceed(r)
    BY <1>2, <1>3, CommitCreateIsGood, ReloadCommentIsGood, SaveCommentIsGood, DeleteCommentIsGood,
       FindMentionsIsGood, DeleteMentionsIsGood, InsertMentionIsGood, CommitIsGood DEF Proceed
  <1> QED BY <1>1, <1>2, <1>3

\* So does a step of the system.
LEMMA NextIsGood ==
  ASSUME Inv, [Next]_vars
  PROVE  Inv'
  <1>1. CASE UNCHANGED vars
    BY <1>1 DEF Inv, TypeOK, PublicInv, MentionsAreSound, MentionsWereWritten, ContentIsAudited,
                RemovalIsAudited, RequestOK, TransactionOK, MentionsOK, RecordOK, NoClash, Removes,
                MentionsOf, OnRecord, InFlight, vars
  <1> QED BY <1>1, EveryStepIsGood DEF Next, Quiescent

\* However updates, removals, aborts and lost connections overlap, the tables
\* and the transactions in flight satisfy the invariant.
THEOREM InvariantsHold == Spec => []Inv
  <1>1. Init => Inv
    BY InitIsGood
  <1>2. Inv /\ [Next]_vars => Inv'
    BY NextIsGood
  <1> QED BY <1>1, <1>2, PTL DEF Spec

----------------------------------------------------------------------------
(* What follows from it                                                    *)

\* Every variable holds what its column, object or transaction may hold.
THEOREM TypeCorrect == Spec => []TypeOK
  <1>1. Inv => TypeOK
    BY DEF Inv
  <1> QED BY <1>1, InvariantsHold, PTL

\* A removed comment leaves no mention behind, and a comment mentions a user at
\* most once, although syncMentions deletes and inserts in separate statements.
THEOREM MentionsStaySound == Spec => []MentionsAreSound
  <1>1. Inv => MentionsAreSound
    BY DEF Inv, PublicInv
  <1> QED BY <1>1, InvariantsHold, PTL

\* Nobody is mentioned in a comment that never named them.
THEOREM MentionsHaveAnAuthor == Spec => []MentionsWereWritten
  <1>1. Inv => MentionsWereWritten
    BY DEF Inv, PublicInv
  <1> QED BY <1>1, InvariantsHold, PTL

\* The content of a comment is one its audit rows report.
THEOREM ContentStaysAudited == Spec => []ContentIsAudited
  <1>1. Inv => ContentIsAudited
    BY DEF Inv, PublicInv
  <1> QED BY <1>1, InvariantsHold, PTL

\* A comment that was created and is gone has a DELETE row.
THEOREM RemovalStaysAudited == Spec => []RemovalIsAudited
  <1>1. Inv => RemovalIsAudited
    BY DEF Inv, PublicInv
  <1> QED BY <1>1, InvariantsHold, PTL

==============================================================================
