------------------------ MODULE CommentsSerial_proofs ------------------------
(***************************************************************************)
(* Proofs about Comments when one request is served at a time: what the    *)
(* slices of the documentation promise of updates, which overlapping       *)
(* requests break.                                                         *)
(***************************************************************************)
EXTENDS Comments_proofs

----------------------------------------------------------------------------
(* The inductive invariant                                                 *)

Alone(r) == \A q \in Requests \ {r} : ~InFlight(q)

\* The content the comment of request r has when r commits.
ContentLeft(r) == IF txn[r].locked THEN txn[r].row.content ELSE comments[call[r].id].content

\* Before its transaction writes, what a request has read is what the table says.
ReadIsCurrent(r) ==
  /\ pc[r] \in Editing => /\ comments[call[r].id] # NULL
                          /\ entity[r] = comments[call[r].id]
                          /\ entity[r].version = call[r].version
  /\ pc[r] = "reloaded" => reloaded[r] = comments[call[r].id]
  /\ pc[r] = "removing" => comments[call[r].id] # NULL

\* The version of an update is still the committed one, and its transaction is
\* on its way from the old mentions of the comment to those of its content.
WriteIsComplete(r) ==
  /\ pc[r] \in Writing /\ call[r].op = "remove" => txn[r].locked
  /\ pc[r] \in Writing /\ call[r].op = "update" =>
       /\ comments[call[r].id] # NULL
       /\ comments[call[r].id].version = call[r].version
       /\ ContentLeft(r) = call[r].content
  /\ pc[r] \in {"written", "deleting"} => txn[r].deleted = {}
  /\ pc[r] = "deleting" => txn[r].found = MentionsOf(call[r].id)
  /\ pc[r] = "inserting" => txn[r].deleted = MentionsOf(call[r].id)
  /\ pc[r] \in {"deleting", "inserting"} /\ call[r].op = "update" =>
       {m.userId : m \in txn[r].inserted} \cup txn[r].users \in MentionedUsers(call[r].content)

SerialOK(r) == ReadIsCurrent(r) /\ WriteIsComplete(r)

SerialInv ==
  /\ Inv /\ MentionsMatchContent
  /\ \A r, q \in Requests : InFlight(r) /\ InFlight(q) => r = q
  /\ \A r \in Requests : SerialOK(r)

----------------------------------------------------------------------------
(* Steps that write nothing to the tables                                  *)

\* A request that is not being served has nothing to be right about.
LEMMA AtRestIsOK ==
  ASSUME NEW r \in Requests, ~InFlight(r)
  PROVE  SerialOK(r)
  BY DEF SerialOK, ReadIsCurrent, WriteIsComplete, InFlight, Answers, Editing, Writing

\* What a step of the one request being served has to show.
LEMMA OnlyRequest ==
  ASSUME SerialInv, NEW r \in Requests, Alone(r), Frame(r), Inv', MentionsMatchContent', SerialOK(r)'
  PROVE  SerialInv'
  <1>1. ASSUME NEW q \in Requests \ {r}
        PROVE  ~InFlight(q)'
    BY DEF Alone, Frame, InFlight
  <1>2. ASSUME NEW q \in Requests
        PROVE  SerialOK(q)'
    <2>1. CASE q = r
      BY <2>1
    <2>2. CASE q # r
      <3>1. ~InFlight(q)'
        BY <1>1, <2>2
      <3> QED BY <3>1
              DEF SerialOK, ReadIsCurrent, WriteIsComplete, InFlight, Answers, Editing, Writing
    <2> QED BY <2>1, <2>2
  <1> QED BY <1>1, <1>2 DEF SerialInv

\* ... if it leaves the tables alone.
LEMMA OnlyPrivateStep ==
  ASSUME SerialInv, NEW r \in Requests, Alone(r), Frame(r), Inv', UNCHANGED database, SerialOK(r)'
  PROVE  SerialInv'
  <1>1. MentionsMatchContent'
    BY DEF SerialInv, MentionsMatchContent, MentionsOf, database
  <1> QED BY <1>1, OnlyRequest

\* A rejection ends the request.
LEMMA RejectIsSerial ==
  ASSUME SerialInv, NEW r \in Requests, Alone(r), pc[r] # "ok", Reject(r)
  PROVE  SerialInv'
  <1>1. Inv /\ Answer(r, "rejected") /\ UNCHANGED database /\ "rejected" \in Answers
    BY DEF SerialInv, Reject, Answers
  <1>2. Inv' /\ Frame(r) /\ pc'[r] = "rejected"
    BY <1>1, RejectIsGood, AnswerIsFramed
  <1>3. SerialOK(r)'
    BY <1>2 DEF SerialOK, ReadIsCurrent, WriteIsComplete, Editing, Writing
  <1> QED BY <1>1, <1>2, <1>3, OnlyPrivateStep

----------------------------------------------------------------------------
(* The steps of the one request being served                               *)

\* A request begins with what the table says.
LEMMA ArriveIsSerial ==
  ASSUME SerialInv, NEW r \in Requests, Alone(r), Arrive(r)
  PROVE  SerialInv'
  <1>1. Inv /\ Inv' /\ TypeOK
    BY EveryStepIsGood DEF SerialInv, Inv
  <1>2. CASE Reject(r)
    BY <1>2, RejectIsSerial DEF Arrive, BeginCreate, BeginUpdate, BeginRemove
  <1>3. ASSUME NEW c \in Calls, Begin(r, c, "creating", NULL)
        PROVE  SerialInv'
    <2>1. Frame(r) /\ UNCHANGED database /\ pc'[r] = "creating"
      BY <1>1, <1>3, BeginIsFramed DEF Locations
    <2>2. SerialOK(r)'
      BY <2>1 DEF SerialOK, ReadIsCurrent, WriteIsComplete, Editing, Writing
    <2> QED BY <1>1, <2>1, <2>2, OnlyPrivateStep
  <1>4. ASSUME NEW c \in Calls, OnTicket(c), c.op \in {"update", "remove"}, NEW location,
               \/ location = "checked" /\ comments[c.id].version = c.version
               \/ location = "removing",
               Begin(r, c, location, comments[c.id])
        PROVE  SerialInv'
    <2>1. c.id \in CommentIds /\ comments[c.id] # NULL /\ location \in Locations
      BY <1>4, CallTypes DEF OnTicket, Locations
    <2>2. comments[c.id] \in Comment
      BY <1>1, <2>1 DEF TypeOK
    <2>3. /\ Frame(r) /\ UNCHANGED database
          /\ pc'[r] = location /\ call'[r] = c /\ entity'[r] = comments[c.id]
      BY <1>1, <1>4, <2>1, <2>2, BeginIsFramed
    <2>4. SerialOK(r)'
      BY <1>4, <2>1, <2>3 DEF SerialOK, ReadIsCurrent, WriteIsComplete, Editing, Writing, database
    <2> QED BY <1>1, <2>3, <2>4, OnlyPrivateStep
  <1> QED BY <1>2, <1>3, <1>4 DEF Arrive, BeginCreate, BeginUpdate, BeginRemove

\* The row read again is the row read before.
LEMMA ReloadIsSerial ==
  ASSUME SerialInv, NEW r \in Requests, Alone(r), ReloadComment(r)
  PROVE  SerialInv'
  <1>1. /\ pc[r] = "checked" /\ UNCHANGED <<database, call, entity, txn>>
        /\ reloaded' = [reloaded EXCEPT ![r] = comments[call[r].id]]
        /\ pc' = [pc EXCEPT ![r] = "reloaded"]
    BY DEF ReloadComment, At, Goto
  <1>2. Inv /\ TypeOK /\ ReadIsCurrent(r)
    BY DEF SerialInv, Inv, SerialOK
  <1>3. Inv'
    BY <1>2, ReloadCommentIsGood
  <1>4. pc'[r] = "reloaded" /\ reloaded'[r] = comments[call[r].id] /\ Frame(r)
    BY <1>1, <1>2 DEF TypeOK, Frame
  <1>5. SerialOK(r)'
    BY <1>1, <1>2, <1>4 DEF SerialOK, ReadIsCurrent, WriteIsComplete, Editing, Writing, database
  <1> QED BY <1>1, <1>3, <1>4, <1>5, OnlyPrivateStep

\* Over the row it read, save() leaves the content of the object.
LEMMA CurrentRowSaved ==
  ASSUME NEW row \in Comment, NEW object \in Comment, NEW now \in Nat
  PROVE  /\ SavedComment(row, object, row, now) \in Comment
         /\ SavedComment(row, object, row, now).content = object.content
  BY SavedContent

\* What the write of save() leaves shows the new content, if it writes at all.
LEMMA SaveIsSerial ==
  ASSUME SerialInv, NEW r \in Requests, Alone(r), SaveComment(r)
  PROVE  SerialInv'
  <1> DEFINE id     == call[r].id
             object == Edited(entity[r], call[r])
             row    == SavedComment(comments[id], object, reloaded[r], Now(id))
  <1>1. pc[r] = "reloaded" /\ call[r].op = "update" /\ Inv /\ TypeOK /\ ReadIsCurrent(r)
    BY DEF SaveComment, At, SerialInv, Inv, SerialOK
  <1>2. Inv'
    BY <1>1, SaveCommentIsGood
  <1>3. call[r] \in Calls /\ entity[r] \in Comment /\ id \in CommentIds
    BY <1>1, CallTypes DEF Inv, RequestOK, InFlight, Answers, Editing
  <1>4. /\ comments[id] # NULL /\ comments[id] = entity[r] /\ reloaded[r] = entity[r]
        /\ comments[id].version = call[r].version /\ reloaded[r] # NULL
    BY <1>1 DEF ReadIsCurrent, Editing
  <1>5. object \in Comment /\ object.content = call[r].content
    BY <1>1, <1>3, EditedComment
  <1>6. ASSUME NEW record \in Transaction, Write(r, "written", record), record.deleted = {},
               IF record.locked THEN record.row.content = call[r].content
               ELSE comments[id].content = call[r].content
        PROVE  SerialInv'
    <2>1. /\ Frame(r) /\ UNCHANGED database
          /\ pc'[r] = "written" /\ txn'[r] = record /\ call'[r] = call[r]
      BY <1>1, <1>6, WriteIsFramed DEF Locations
    <2>2. SerialOK(r)'
      BY <1>1, <1>4, <1>6, <2>1
         DEF SerialOK, ReadIsCurrent, WriteIsComplete, ContentLeft, Editing, Writing, database
    <2> QED BY <1>2, <2>1, <2>2, OnlyPrivateStep
  <1>7. CASE Write(r, "written", [NothingWritten EXCEPT !.locked = TRUE, !.row = row])
    <2> DEFINE record == [NothingWritten EXCEPT !.locked = TRUE, !.row = row]
    <2>1. row \in Comment /\ row.content = call[r].content
      <3>1. Now(id) \in Nat
        BY <1>1, <1>3, TimeIsNat
      <3>2. \A saved \in Comment, now \in Nat :
              LET new == SavedComment(saved, object, saved, now)
              IN  new \in Comment /\ new.content = object.content
        <4> HIDE DEF object
        <4> QED BY <1>5, CurrentRowSaved
      <3> QED BY <1>3, <1>4, <1>5, <3>1, <3>2
    <2> HIDE DEF row
    <2>2. record \in Transaction /\ record.locked /\ record.row = row /\ record.deleted = {}
      BY <2>1, LockingRecord
    <2>3. Write(r, "written", record)
      BY <1>7
    <2> HIDE DEF record
    <2> QED BY <1>6, <2>1, <2>2, <2>3
  <1>8. CASE Write(r, "written", NothingWritten) /\ object = reloaded[r]
    <2>1. comments[id].content = call[r].content
      BY <1>4, <1>5, <1>8
    <2> QED BY <1>6, <1>8, <2>1, NothingIsTransaction
  <1>9. \/ Write(r, "written", [NothingWritten EXCEPT !.locked = TRUE, !.row = row])
        \/ Write(r, "written", NothingWritten) /\ object = reloaded[r]
    BY <1>4 DEF SaveComment, SendsUpdate
  <1> HIDE DEF row, object
  <1> QED BY <1>7, <1>8, <1>9

\* The comment to delete is there.
LEMMA DeleteIsSerial ==
  ASSUME SerialInv, NEW r \in Requests, Alone(r), DeleteComment(r)
  PROVE  SerialInv'
  <1>1. pc[r] = "removing" /\ call[r].op = "remove" /\ Inv /\ TypeOK /\ ReadIsCurrent(r)
    BY DEF DeleteComment, At, SerialInv, Inv, SerialOK
  <1>2. Inv'
    BY <1>1, DeleteCommentIsGood
  <1> DEFINE record == [NothingWritten EXCEPT !.locked = TRUE]
  <1>3. Write(r, "written", record)
    BY <1>1 DEF DeleteComment, ReadIsCurrent
  <1>4. record \in Transaction /\ record.locked /\ record.deleted = {}
    BY NothingIsTransaction DEF Transaction
  <1> HIDE DEF record
  <1>5. /\ Frame(r) /\ UNCHANGED database
        /\ pc'[r] = "written" /\ txn'[r] = record /\ call'[r] = call[r]
    BY <1>1, <1>3, <1>4, WriteIsFramed DEF Locations
  <1>6. SerialOK(r)'
    BY <1>1, <1>4, <1>5 DEF SerialOK, ReadIsCurrent, WriteIsComplete, Editing, Writing
  <1> QED BY <1>2, <1>5, <1>6, OnlyPrivateStep

\* The users are looked up, and every mention of the comment is found.
LEMMA FindIsSerial ==
  ASSUME SerialInv, NEW r \in Requests, Alone(r), FindMentions(r)
  PROVE  SerialInv'
  <1>1. pc[r] = "written" /\ Inv /\ TypeOK /\ WriteIsComplete(r)
    BY DEF FindMentions, SerialInv, Inv, SerialOK
  <1>2. Inv'
    BY <1>1, FindMentionsIsGood
  <1>3. txn[r] \in Transaction /\ txn[r].inserted = {}
    BY <1>1 DEF Inv, TypeOK, TransactionOK, Writing
  <1>4. PICK users \in (IF call[r].op = "update" THEN MentionedUsers(call[r].content) ELSE {{}}) :
          Write(r, "deleting", [txn[r] EXCEPT !.found = MentionsOf(call[r].id), !.users = users])
    BY DEF FindMentions
  <1>5. users \subseteq Users /\ (call[r].op = "update" => users \in MentionedUsers(call[r].content))
    BY <1>4, MentionedAreNamed
  <1> DEFINE first  == [txn[r] EXCEPT !.found = MentionsOf(call[r].id)]
             record == [first EXCEPT !.users = users]
  <1>6. Write(r, "deleting", record)
    <2>1. [txn[r] EXCEPT !.found = MentionsOf(call[r].id), !.users = users] = record
      BY Zenon
    <2> HIDE DEF record
    <2> QED BY <1>4, <2>1
  <1>7. /\ first \in Transaction /\ first.locked = txn[r].locked /\ first.row = txn[r].row
        /\ first.found = MentionsOf(call[r].id)
        /\ first.deleted = txn[r].deleted /\ first.inserted = {}
    <2>1. MentionsOf(call[r].id) \subseteq CommentMention
      BY <1>1 DEF TypeOK, MentionsOf
    <2> QED BY <1>3, <2>1 DEF Transaction
  <1> HIDE DEF first
  <1>8. /\ record \in Transaction /\ record.locked = txn[r].locked /\ record.row = txn[r].row
        /\ record.found = MentionsOf(call[r].id) /\ record.users = users
        /\ record.deleted = txn[r].deleted /\ record.inserted = {}
    BY <1>5, <1>7 DEF Transaction
  <1> HIDE DEF record
  <1>9. /\ Frame(r) /\ UNCHANGED database
        /\ pc'[r] = "deleting" /\ txn'[r] = record /\ call'[r] = call[r]
    BY <1>1, <1>6, <1>8, WriteIsFramed DEF Locations
  <1>10. {m.userId : m \in record.inserted} \cup record.users = users
    BY <1>8
  <1>11. SerialOK(r)'
    BY <1>1, <1>5, <1>8, <1>9, <1>10
       DEF SerialOK, ReadIsCurrent, WriteIsComplete, ContentLeft, Editing, Writing, MentionsOf, database
  <1> QED BY <1>2, <1>9, <1>11, OnlyPrivateStep

\* Nobody has deleted any of the mentions in the meantime.
LEMMA DeleteMentionsIsSerial ==
  ASSUME SerialInv, NEW r \in Requests, Alone(r), DeleteMentions(r)
  PROVE  SerialInv'
  <1>1. pc[r] = "deleting" /\ Inv /\ TypeOK /\ WriteIsComplete(r)
    BY DEF DeleteMentions, SerialInv, Inv, SerialOK
  <1>2. Inv'
    BY <1>1, DeleteMentionsIsGood
  <1>3. txn[r] \in Transaction /\ txn[r].deleted = {} /\ txn[r].found = MentionsOf(call[r].id)
    BY <1>1 DEF TypeOK, WriteIsComplete
  <1> DEFINE gone   == txn[r].deleted \cup (txn[r].found \cap mentions)
             first  == [txn[r] EXCEPT !.found = {}]
             record == [first EXCEPT !.deleted = gone]
  <1>4. Write(r, "inserting", record)
    <2>1. [txn[r] EXCEPT !.found = {}, !.deleted = @ \cup (txn[r].found \cap mentions)] = record
      BY Zenon DEF DeleteMentions
    <2> HIDE DEF record
    <2> QED BY <2>1 DEF DeleteMentions
  <1>5. gone \subseteq CommentMention /\ gone = MentionsOf(call[r].id)
    BY <1>3 DEF Transaction, MentionsOf
  <1> HIDE DEF gone
  <1>6. /\ first \in Transaction /\ first.locked = txn[r].locked /\ first.row = txn[r].row
        /\ first.inserted = txn[r].inserted /\ first.users = txn[r].users
    BY <1>3 DEF Transaction
  <1> HIDE DEF first
  <1>7. /\ record \in Transaction /\ record.locked = txn[r].locked /\ record.row = txn[r].row
        /\ record.deleted = MentionsOf(call[r].id)
        /\ record.inserted = txn[r].inserted /\ record.users = txn[r].users
    BY <1>5, <1>6 DEF Transaction
  <1> HIDE DEF record
  <1>8. /\ Frame(r) /\ UNCHANGED database
        /\ pc'[r] = "inserting" /\ txn'[r] = record /\ call'[r] = call[r]
    BY <1>1, <1>4, <1>7, WriteIsFramed DEF Locations
  <1>9. SerialOK(r)'
    BY <1>1, <1>7, <1>8
       DEF SerialOK, ReadIsCurrent, WriteIsComplete, ContentLeft, Editing, Writing, MentionsOf, database
  <1> QED BY <1>2, <1>8, <1>9, OnlyPrivateStep

\* A user goes from those to insert to those inserted.
LEMMA InsertIsSerial ==
  ASSUME SerialInv, NEW r \in Requests, Alone(r), InsertMention(r)
  PROVE  SerialInv'
  <1> DEFINE id     == call[r].id
             user   == NextUser(txn[r].users)
             new    == Mention(id, {user}, r)
             first  == [txn[r] EXCEPT !.users = @ \ {user}]
             record == [first EXCEPT !.inserted = @ \cup new]
  <1>1. pc[r] = "inserting" /\ txn[r].users # {} /\ Inv /\ TypeOK /\ WriteIsComplete(r)
    BY DEF InsertMention, SerialInv, Inv, SerialOK
  <1>2. Inv'
    BY <1>1, InsertMentionIsGood
  <1>3. txn[r] \in Transaction /\ user \in txn[r].users /\ user \in Users
    BY <1>1, NextUserIsOne DEF TypeOK, Transaction
  <1>4. call[r].op = "update" /\ id \in CommentIds
    BY <1>1, CallTypes DEF Inv, RequestOK, TransactionOK, Writing, InFlight, Answers
  <1>5. CASE Reject(r)
    BY <1>1, <1>5, RejectIsSerial
  <1>6. ASSUME Write(r, "inserting", [txn[r] EXCEPT !.users = @ \ {user}, !.inserted = @ \cup new])
        PROVE  SerialInv'
    <2>1. Write(r, "inserting", record)
      <3>1. [txn[r] EXCEPT !.users = @ \ {user}, !.inserted = @ \cup new] = record
        BY Zenon
      <3> HIDE DEF record
      <3> QED BY <1>6, <3>1
    <2>2. new \subseteq CommentMention /\ {m.userId : m \in new} = {user}
      <3>1. new \subseteq CommentMention /\ \A m \in new : m.userId = user
        <4> HIDE DEF user
        <4> QED BY <1>3, <1>4, MentionRows
      <3>2. new # {}
        BY DEF Mention
      <3> HIDE DEF new
      <3> QED BY <3>1, <3>2
    <2> HIDE DEF new
    <2>3. /\ first \in Transaction /\ first.locked = txn[r].locked /\ first.row = txn[r].row
          /\ first.deleted = txn[r].deleted
          /\ first.inserted = txn[r].inserted /\ first.users = txn[r].users \ {user}
      <3> HIDE DEF user
      <3> QED BY <1>3 DEF Transaction
    <2> HIDE DEF first
    <2>4. /\ record \in Transaction /\ record.locked = txn[r].locked /\ record.row = txn[r].row
          /\ record.deleted = txn[r].deleted
          /\ record.inserted = txn[r].inserted \cup new /\ record.users = txn[r].users \ {user}
      BY <2>2, <2>3 DEF Transaction
    <2> HIDE DEF record
    <2>5. /\ Frame(r) /\ UNCHANGED database
          /\ pc'[r] = "inserting" /\ txn'[r] = record /\ call'[r] = call[r]
      BY <1>1, <2>1, <2>4, WriteIsFramed DEF Locations
    <2> HIDE DEF user
    <2>6. {m.userId : m \in record.inserted} \cup record.users
            = {m.userId : m \in txn[r].inserted} \cup txn[r].users
      <3>1. {m.userId : m \in record.inserted} = {m.userId : m \in txn[r].inserted} \cup {user}
        BY <2>2, <2>4
      <3> QED BY <1>3, <2>4, <3>1
    <2>7. SerialOK(r)'
      BY <1>1, <1>4, <2>4, <2>5, <2>6
         DEF SerialOK, ReadIsCurrent, WriteIsComplete, ContentLeft, Editing, Writing, MentionsOf, database
    <2> QED BY <1>2, <2>5, <2>7, OnlyPrivateStep
  <1> QED BY <1>5, <1>6 DEF InsertMention

----------------------------------------------------------------------------
(* Commits                                                                 *)

\* The users that a set of mentions is of.
LEMMA MentionUsers ==
  ASSUME NEW id, NEW users, NEW by
  PROVE  {m.userId : m \in Mention(id, users, by)} = users
  <1>1. ASSUME NEW u \in users
        PROVE  \E m \in Mention(id, users, by) : m.userId = u
    <2> DEFINE new == [commentId |-> id, userId |-> u, by |-> by]
    <2>1. new \in Mention(id, users, by)
      BY DEF Mention
    <2>2. new.userId = u
      OBVIOUS
    <2> HIDE DEF new
    <2> QED BY <2>1, <2>2
  <1>2. \A m \in Mention(id, users, by) : m.userId \in users
    BY DEF Mention
  <1> QED BY <1>1, <1>2

\* A commit leaves the mentions of the other comments as they are.
LEMMA OtherCommentsMatch ==
  ASSUME SerialInv, NEW r \in Requests, NEW id \in CommentIds, NEW row, NEW deleted, NEW inserted,
         NEW log, CommitsRow(r, id, row, deleted, inserted, log),
         \A m \in deleted \cup inserted : m.commentId = id,
         row # NULL => {m.userId : m \in (MentionsOf(id) \ deleted) \cup inserted}
                         \in MentionedUsers(row.content)
  PROVE  MentionsMatchContent'
  <1>1. /\ comments'[id] = row /\ \A i \in CommentIds \ {id} : comments'[i] = comments[i]
        /\ mentions' = (mentions \ deleted) \cup inserted
    BY DEF CommitsRow, SerialInv, Inv, TypeOK
  <1> SUFFICES ASSUME NEW i \in CommentIds, comments'[i] # NULL
               PROVE  {m.userId : m \in MentionsOf(i)'} \in MentionedUsers(comments'[i].content)
    BY DEF MentionsMatchContent
  <1>2. CASE i # id
    <2>1. MentionsOf(i)' = MentionsOf(i)
      BY <1>1, <1>2 DEF MentionsOf
    <2>2. {m.userId : m \in MentionsOf(i)} \in MentionedUsers(comments[i].content)
      BY <1>1, <1>2 DEF SerialInv, MentionsMatchContent
    <2> QED BY <1>1, <1>2, <2>1, <2>2
  <1>3. CASE i = id
    <2>1. MentionsOf(id)' = (MentionsOf(id) \ deleted) \cup inserted
      BY <1>1 DEF MentionsOf
    <2> QED BY <1>1, <1>3, <2>1
  <1> QED BY <1>2, <1>3

\* A new comment mentions whom its content calls for.
LEMMA CommitCreateIsSerial ==
  ASSUME SerialInv, NEW r \in Requests, Alone(r), CommitCreate(r)
  PROVE  SerialInv'
  <1> DEFINE id  == NewIdOf[r]
             row == NewComment(call[r])
             log == CommentLog(call[r], NULL)
  <1>1. Inv /\ Inv' /\ pc[r] = "creating" /\ id \in CommentIds
    BY CommitCreateIsGood, NewIdsAssumption DEF SerialInv, CommitCreate, At
  <1>2. Frame(r) /\ pc'[r] = "ok"
    BY <1>1, AnswerIsFramed DEF CommitCreate, Answers
  <1>3. MentionsOf(id) = {}
    BY <1>1, UncreatedIsAbsent DEF Inv, RecordOK
  <1>4. PICK users \in MentionedUsers(call[r].content) : mentions' = mentions \cup Mention(id, users, r)
    BY DEF CommitCreate
  <1> DEFINE inserted == Mention(id, users, r)
  <1>5. CommitsRow(r, id, row, {}, inserted, log)
    BY <1>4 DEF CommitCreate, CommitsRow
  <1>6. \A m \in inserted : m.commentId = id /\ m.userId \in users
    BY <1>1, <1>4, MentionedAreNamed, MentionRows
  <1>7. {m.userId : m \in inserted} = users
    BY MentionUsers
  <1>8. row.content = call[r].content
    BY DEF NewComment
  <1> HIDE DEF inserted, row, id, log
  <1>9. MentionsMatchContent'
    <2>1. {m.userId : m \in (MentionsOf(id) \ {}) \cup inserted} = users
      BY <1>3, <1>7
    <2>2. users \in MentionedUsers(row.content)
      BY <1>4, <1>8
    <2>3. \A m \in {} \cup inserted : m.commentId = id
      BY <1>6
    <2> QED BY <1>1, <1>5, <2>1, <2>2, <2>3, OtherCommentsMatch
  <1>10. SerialOK(r)'
    BY <1>2 DEF SerialOK, ReadIsCurrent, WriteIsComplete, Editing, Writing
  <1> QED BY <1>1, <1>2, <1>9, <1>10, OnlyRequest

\* An update has replaced all mentions; a removal has removed the comment.
LEMMA CommitIsSerial ==
  ASSUME SerialInv, NEW r \in Requests, Alone(r), Commit(r)
  PROVE  SerialInv'
  <1> DEFINE id  == call[r].id
             t   == txn[r]
             row == IF t.locked THEN t.row ELSE comments[id]
             log == CommentLog(call[r], entity[r])
  <1>1. pc[r] = "inserting" /\ t.users = {} /\ pc[r] \in Writing /\ InFlight(r)
    BY DEF Commit, Writing, InFlight, Answers
  <1>2. Inv /\ Inv' /\ RequestOK(r) /\ TransactionOK(r) /\ WriteIsComplete(r)
    BY CommitIsGood DEF SerialInv, Inv, SerialOK
  <1>3. call[r] \in Calls /\ call[r].op \in {"update", "remove"} /\ id \in CommentIds
    BY <1>1, <1>2, CallTypes DEF RequestOK
  <1>4. Frame(r) /\ pc'[r] = "ok"
    BY <1>2, AnswerIsFramed DEF Commit, Answers
  <1>5. CommitsRow(r, id, row, t.deleted, t.inserted, log)
    BY DEF Commit, CommitsRow
  <1>6. \A m \in t.deleted \cup t.inserted : m.commentId = id
    BY <1>1, <1>2 DEF TransactionOK
  <1>7. row # NULL => {m.userId : m \in (MentionsOf(id) \ t.deleted) \cup t.inserted}
                        \in MentionedUsers(row.content)
    <2>1. CASE call[r].op = "remove"
      BY <1>1, <1>2, <2>1 DEF TransactionOK, WriteIsComplete
    <2>2. CASE call[r].op = "update"
      <3>1. row.content = call[r].content
        BY <1>1, <1>2, <2>2 DEF WriteIsComplete, ContentLeft
      <3>2. (MentionsOf(id) \ t.deleted) \cup t.inserted = t.inserted
        BY <1>1, <1>2 DEF WriteIsComplete
      <3>3. {m.userId : m \in t.inserted} \cup t.users \in MentionedUsers(call[r].content)
        BY <1>1, <1>2, <2>2 DEF WriteIsComplete
      <3> HIDE DEF row
      <3> QED BY <1>1, <3>1, <3>2, <3>3
    <2> QED BY <1>3, <2>1, <2>2
  <1> HIDE DEF row, log
  <1>8. MentionsMatchContent'
    BY <1>3, <1>5, <1>6, <1>7, OtherCommentsMatch
  <1>9. SerialOK(r)'
    BY <1>4 DEF SerialOK, ReadIsCurrent, WriteIsComplete, Editing, Writing
  <1> QED BY <1>2, <1>4, <1>8, <1>9, OnlyRequest

----------------------------------------------------------------------------
(* The invariant                                                           *)

\* At first no request is served, and the comments mention whom they should.
LEMMA InitIsSerial ==
  ASSUME Init
  PROVE  SerialInv
  <1>1. Inv
    BY InitIsGood
  <1>2. \A r \in Requests : ~InFlight(r)
    BY DEF Init, InFlight
  <1>3. \A r \in Requests : SerialOK(r)
    BY <1>2, AtRestIsOK
  <1>4. PICK chosen \in [CommentIds -> SUBSET Users] :
          /\ \A id \in CommentIds :
               chosen[id] \in IF comments[id] = NULL THEN {{}} ELSE MentionedUsers(comments[id].content)
          /\ mentions = UNION {Mention(id, chosen[id], NULL) : id \in CommentIds}
    BY DEF Init
  <1>5. ASSUME NEW id \in CommentIds, comments[id] # NULL
        PROVE  {m.userId : m \in MentionsOf(id)} \in MentionedUsers(comments[id].content)
    <2>1. \A i \in CommentIds : \A m \in Mention(i, chosen[i], NULL) :
            m.commentId = i /\ m.userId \in chosen[i]
      BY MentionRows
    <2>2. \A u \in chosen[id] : \E m \in MentionsOf(id) : m.userId = u
      <3>1. {m.userId : m \in Mention(id, chosen[id], NULL)} = chosen[id]
        BY MentionUsers
      <3>2. Mention(id, chosen[id], NULL) \subseteq MentionsOf(id)
        BY <1>4, <2>1 DEF MentionsOf
      <3> QED BY <3>1, <3>2
    <2>3. \A m \in MentionsOf(id) : m.userId \in chosen[id]
      BY <1>4, <2>1 DEF MentionsOf
    <2>4. {m.userId : m \in MentionsOf(id)} = chosen[id]
      BY <2>2, <2>3
    <2> QED BY <1>4, <1>5, <2>4
  <1> QED BY <1>1, <1>2, <1>3, <1>5 DEF SerialInv, MentionsMatchContent

\* Every step of the one request keeps the invariant.
LEMMA EveryStepIsSerial ==
  ASSUME SerialInv, NEW r \in Requests, Alone(r), Arrive(r) \/ Proceed(r) \/ Fail(r)
  PROVE  SerialInv'
  <1>1. CASE Arrive(r)
    BY <1>1, ArriveIsSerial
  <1>2. CASE AbortDeadlock(r) \/ Fail(r)
    BY <1>2, RejectIsSerial DEF AbortDeadlock, Fail, InFlight, Answers
  <1>3. CASE Proceed(r)
    BY <1>2, <1>3, CommitCreateIsSerial, ReloadIsSerial, SaveIsSerial, DeleteIsSerial,
       FindIsSerial, DeleteMentionsIsSerial, InsertIsSerial, CommitIsSerial DEF Proceed
  <1> QED BY <1>1, <1>2, <1>3

\* So does a step of the system.
LEMMA SerialNextIsSerial ==
  ASSUME SerialInv, [SerialNext]_vars
  PROVE  SerialInv'
  <1>1. CASE UNCHANGED vars
    <2>1. Inv'
      BY <1>1, NextIsGood DEF SerialInv
    <2> QED BY <1>1, <2>1
            DEF SerialInv, MentionsMatchContent, MentionsOf, SerialOK, ReadIsCurrent, WriteIsComplete,
                ContentLeft, InFlight, vars
  <1> QED BY <1>1, EveryStepIsSerial DEF SerialNext, Quiescent, Alone

\* One request at a time, the transaction in flight is right about the tables.
THEOREM SerialInvariantsHold == SerialSpec => []SerialInv
  <1>1. Init => SerialInv
    BY InitIsSerial
  <1>2. SerialInv /\ [SerialNext]_vars => SerialInv'
    BY SerialNextIsSerial
  <1> QED BY <1>1, <1>2, PTL DEF SerialSpec

\* Slice 11: the mentions of a comment are those its content calls for.
THEOREM MentionsFollowContent == SerialSpec => []MentionsMatchContent
  <1>1. SerialInv => MentionsMatchContent
    BY DEF SerialInv
  <1> QED BY <1>1, SerialInvariantsHold, PTL

\* Slice 10: an update commits only over the version its client named.
THEOREM StaleUpdatesAreRejected == SerialSpec => StaleCommentIsRejected
  <1>1. SerialInv =>
          \A r \in Requests :
            pc[r] = "inserting" /\ pc'[r] = "ok" /\ call[r].op = "update" =>
              /\ comments[call[r].id] # NULL
              /\ comments[call[r].id].version = call[r].version
    BY DEF SerialInv, SerialOK, WriteIsComplete, Writing
  <1> QED BY <1>1, SerialInvariantsHold, PTL DEF StaleCommentIsRejected

==============================================================================
