--------------------------------- MODULE Feeds ---------------------------------
(***************************************************************************)
(* The two lists the service reads in order of created_at: the history of  *)
(* a ticket (buildTicketStateHistory) and the pages of a user's mentions   *)
(* (findMentionsForUser).  PostgreSQL gives every row of a transaction the *)
(* time at which the transaction began, not the one at which it committed. *)
(***************************************************************************)
EXTENDS Naturals, FiniteSets, SequencesExt

CONSTANTS
  NULL,
  Transactions,  \* each runs once
  Workloads,     \* what the transactions may do to the lists
  MentionId,     \* per transaction, the id the sequence gives its mention
  Clients,       \* who pages through the mentions
  PageSize,
  MaxClock       \* bound: the last instant of a run

Kind == {"createTicket", "updateTicket", "createComment", "removeComment"}

ASSUME FeedsAssumption ==
  /\ Workloads \subseteq [Transactions -> Kind] /\ NULL \notin Nat
  /\ MentionId \in [Transactions -> Nat]
  /\ \A x, y \in Transactions : MentionId[x] = MentionId[y] => x = y
  /\ PageSize \in Nat \ {0} /\ MaxClock \in Nat

\* The actions of the rows that a transaction adds to the ticket's history.
Records(kind) ==
  CASE kind = "createTicket" -> {"CREATE", "AUTO_ASSIGN"}
    [] kind = "updateTicket" -> {"UPDATE"}
    [] OTHER -> {}

VARIABLES
  kindOf,       \* per transaction, what it does
  clock,
  startedAt,    \* per transaction, the time its rows get, NULL before it begins
  committed,    \* the transactions that have committed
  mentions,     \* the mentions there are, by the transaction that made them
  client,       \* per client, where it is in its pages
  preceding,    \* history: per transaction, those audited before it began
  there,        \* history: per client, the mentions there were when it began
  removed       \* history: the clients who lost a mention since they began

writerVars == <<kindOf, clock, startedAt, committed, mentions, preceding>>
vars == <<kindOf, clock, startedAt, committed, mentions, client, preceding, there, removed>>

Init ==
  /\ kindOf \in Workloads
  /\ clock = 0
  /\ startedAt = [x \in Transactions |-> NULL]
  /\ committed = {}
  /\ mentions = {}
  /\ client = [c \in Clients |-> [step |-> "idle", page |-> 1, ids |-> {}, seen |-> {}]]
  /\ preceding = [x \in Transactions |-> {}]
  /\ there = [c \in Clients |-> {}]
  /\ removed = {}

----------------------------------------------------------------------------
(* What the transactions leave                                             *)

Tick ==
  /\ clock < MaxClock
  /\ clock' = clock + 1
  /\ UNCHANGED <<kindOf, startedAt, committed, mentions, client, preceding, there, removed>>

Start(x) ==
  /\ startedAt[x] = NULL
  /\ startedAt' = [startedAt EXCEPT ![x] = clock]
  /\ preceding' = [preceding EXCEPT ![x] = {y \in committed : Records(kindOf[y]) # {}}]
  /\ UNCHANGED <<kindOf, clock, committed, mentions, client, there, removed>>

Commit(x) ==
  /\ startedAt[x] # NULL /\ x \notin committed
  /\ committed' = committed \cup {x}
  /\ UNCHANGED <<kindOf, clock, startedAt, client, preceding, there>>

CommitAudited(x) ==
  kindOf[x] \in {"createTicket", "updateTicket"} /\ Commit(x) /\ UNCHANGED <<mentions, removed>>

CommitComment(x) ==
  /\ kindOf[x] = "createComment"
  /\ Commit(x)
  /\ mentions' = mentions \cup {x}
  /\ UNCHANGED removed

\* The comment goes, and its mention by the cascade.  An update that deletes the
\* mentions and inserts them with new ids is a removal to a client, and left out.
CommitRemoval(x) ==
  /\ kindOf[x] = "removeComment"
  /\ Commit(x)
  /\ \E y \in mentions :
       /\ mentions' = mentions \ {y}
       /\ removed' = removed \cup {c \in Clients : client[c].step # "idle"}

----------------------------------------------------------------------------
(* How they are read                                                       *)

TicketRows == UNION {{x} \X Records(kindOf[x]) : x \in committed}

\* Fault: the newest first.
TicketHistoriesNewestFirst ==
  {s \in SetToSeqs(TicketRows) :
     \A i, j \in DOMAIN s : i < j => startedAt[s[i][1]] >= startedAt[s[j][1]]}

\* The answers buildTicketStateHistory may give: ORDER BY created_at ASC, which
\* its own sort leaves as it is, and the rows of one time in any order.
TicketHistories ==
  {s \in SetToSeqs(TicketRows) :
     \A i, j \in DOMAIN s : i < j => startedAt[s[i][1]] <= startedAt[s[j][1]]}

\* Fault: pages are counted from nought.
SkipPage(page) == page * PageSize

Skip(page) == (page - 1) * PageSize

\* ORDER BY comment.created_at DESC, to which getMany adds the mention's id.
Precedes(x, y) ==
  startedAt[x] > startedAt[y] \/ (startedAt[x] = startedAt[y] /\ MentionId[x] < MentionId[y])

\* OFFSET and LIMIT.
Page(page) ==
  LET Position(x) == Cardinality({y \in mentions : Precedes(y, x)})
  IN  {x \in mentions : Skip(page) <= Position(x) /\ Position(x) < Skip(page) + PageSize}

Turn(c, state) ==
  /\ client' = [client EXCEPT ![c] = state]
  /\ UNCHANGED writerVars

\* getMany selects the ids of the page, then the rows with these ids.  The count
\* before it goes into the answer and decides nothing.
FindPage(c) ==
  /\ client[c].step \in {"idle", "next"}
  /\ Turn(c, [client[c] EXCEPT !.step = "found", !.ids = Page(client[c].page)])
  /\ there' = [there EXCEPT ![c] = IF client[c].step = "idle" THEN mentions ELSE @]
  /\ UNCHANGED removed

\* A client asks for the next page until one is not full.
ReadPage(c) ==
  /\ client[c].step = "found"
  /\ LET data == client[c].ids \cap mentions
         full == Cardinality(data) = PageSize
     IN  Turn(c, [client[c] EXCEPT !.step = IF full THEN "next" ELSE "done",
                                   !.page = IF full THEN @ + 1 ELSE @,
                                   !.seen = @ \cup data, !.ids = {}])
  /\ UNCHANGED <<there, removed>>

----------------------------------------------------------------------------

Next ==
  \/ Tick
  \/ \E x \in Transactions : Start(x) \/ CommitAudited(x) \/ CommitComment(x) \/ CommitRemoval(x)
  \/ \E c \in Clients : FindPage(c) \/ ReadPage(c)

Spec == Init /\ [][Next]_vars

----------------------------------------------------------------------------
(* Properties                                                              *)

SameTime(x, y) == startedAt[x] = startedAt[y]

\* A history lists what happened to a ticket in the order in which it happened,
\* whatever commits when: a transaction is listed after those that had committed
\* when it began, unless it began in the very instant they did.  Only transactions
\* that overlap may change places, and the rows of one transaction.
HistoryIsInOrder ==
  \A history \in TicketHistories : \A i, j \in DOMAIN history :
    LET x == history[i][1]
        y == history[j][1]
    IN  i < j => y \notin preceding[x] \/ SameTime(x, y)

\* A client who pages through the mentions until a page is not full has seen every
\* mention there was when it began, also if comments are added between its pages,
\* made in one instant, or committed later than younger ones, unless a mention was
\* removed in between.
PagesMissNothing ==
  \A c \in Clients :
    client[c].step = "done" /\ c \notin removed => there[c] \subseteq client[c].seen

==============================================================================
