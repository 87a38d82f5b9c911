----------------------------- MODULE Feeds_proofs -----------------------------
(***************************************************************************)
(* Proofs about Feeds, for every number of transactions and clients, every *)
(* page size and any length of a run.                                      *)
(***************************************************************************)
EXTENDS Feeds, FiniteSetTheorems, FunctionTheorems, TLAPS

----------------------------------------------------------------------------
(* The inductive invariant                                                 *)

Client == [step : {"idle", "found", "next", "done"}, page : Nat \ {0},
           ids : SUBSET Transactions, seen : SUBSET Transactions]

TypeOK ==
  /\ kindOf \in [Transactions -> Kind]
  /\ clock \in Nat
  /\ startedAt \in [Transactions -> Nat \cup {NULL}]
  /\ committed \subseteq Transactions /\ mentions \subseteq committed
  /\ client \in [Clients -> Client]
  /\ preceding \in [Transactions -> SUBSET Transactions]
  /\ there \in [Clients -> SUBSET Transactions]

\* What has committed has begun, there are finitely many such transactions, and
\* those committed when a transaction began had begun no later.
TimesOK ==
  /\ IsFiniteSet(committed)
  /\ \A x \in committed : startedAt[x] # NULL
  /\ \A x \in Transactions : startedAt[x] # NULL => startedAt[x] <= clock
  /\ \A x \in Transactions : \A y \in preceding[x] :
       y \in committed /\ startedAt[x] # NULL /\ startedAt[y] <= startedAt[x]

\* How many mentions are listed before x.
Before(x) == {y \in mentions : Precedes(y, x)}

Position(x) == Cardinality(Before(x))

\* Of the mentions there were when a client began, it has seen those that are now
\* listed before its next page, and holds the ids of those on the page it found;
\* a page that was not full was the last.
PagesOK(c) ==
  c \notin removed =>
    /\ there[c] \subseteq mentions
    /\ client[c].step = "idle" => client[c].page = 1 /\ there[c] = {}
    /\ client[c].step \in {"idle", "next"} =>
         \A m \in there[c] : Position(m) < Skip(client[c].page) => m \in client[c].seen
    /\ client[c].step = "found" =>
         /\ client[c].ids \subseteq mentions
         /\ \A m \in there[c] :
              Position(m) < Skip(client[c].page) + PageSize => m \in client[c].seen \cup client[c].ids
         /\ Cardinality(client[c].ids) # PageSize => there[c] \subseteq client[c].seen \cup client[c].ids
    /\ client[c].step = "done" => there[c] \subseteq client[c].seen

Inv == TypeOK /\ TimesOK /\ \A c \in Clients : PagesOK(c)

----------------------------------------------------------------------------
(* Lemmas about the order of the mentions and their pages                  *)

\* The mentions a client may meet can be counted, and are ordered by two numbers.
LEMMA MentionsAreOrdered ==
  ASSUME Inv
  PROVE  /\ IsFiniteSet(mentions) /\ mentions \subseteq Transactions
         /\ \A x \in mentions : startedAt[x] \in Nat /\ MentionId[x] \in Nat
         /\ \A x, y \in mentions : MentionId[x] = MentionId[y] => x = y
  <1>1. IsFiniteSet(mentions)
    BY FS_Subset DEF Inv, TypeOK, TimesOK
  <1> QED BY <1>1, FeedsAssumption DEF Inv, TypeOK, TimesOK

\* The list is a strict total order.
LEMMA PrecedesIsOrder ==
  ASSUME Inv
  PROVE  /\ \A x \in mentions : ~Precedes(x, x)
         /\ \A x, y, z \in mentions : Precedes(x, y) /\ Precedes(y, z) => Precedes(x, z)
         /\ \A x, y \in mentions : x # y => Precedes(x, y) \/ Precedes(y, x)
  BY MentionsAreOrdered DEF Precedes

\* A position is a number, at which there is room for those before.
LEMMA PositionIsNat ==
  ASSUME Inv, NEW x
  PROVE  IsFiniteSet(Before(x)) /\ Position(x) \in Nat
  <1>1. Before(x) \subseteq mentions /\ IsFiniteSet(mentions)
    BY MentionsAreOrdered DEF Before
  <1> QED BY <1>1, FS_Subset, FS_CardinalityType DEF Position

\* Who is listed before has the smaller position.
LEMMA PositionGrows ==
  ASSUME Inv, NEW x \in mentions, NEW y \in mentions, Precedes(x, y)
  PROVE  Position(x) < Position(y)
  <1>1. Before(x) \subseteq Before(y) \ {x} /\ x \in Before(y)
    BY PrecedesIsOrder DEF Before
  <1>2. IsFiniteSet(Before(y)) /\ Position(x) \in Nat /\ Position(y) \in Nat
    BY PositionIsNat
  <1>3. IsFiniteSet(Before(y) \ {x}) /\ Cardinality(Before(y) \ {x}) = Position(y) - 1
    BY <1>1, <1>2, FS_RemoveElement DEF Position
  <1>4. Position(x) <= Position(y) - 1
    BY <1>1, <1>3, FS_Subset DEF Position
  <1> QED BY <1>2, <1>4

\* The first row of a page, in numbers.
LEMMA SkipIsNat ==
  ASSUME NEW page \in Nat \ {0}
  PROVE  /\ PageSize \in Nat \ {0} /\ Skip(page) \in Nat
         /\ Skip(page + 1) = Skip(page) + PageSize
  <1>1. PageSize \in Nat \ {0} /\ page - 1 \in Nat
    BY FeedsAssumption
  <1>2. (page - 1) * PageSize \in Nat
    BY <1>1
  <1>3. ((page + 1) - 1) * PageSize = (page - 1) * PageSize + PageSize
    BY <1>1
  <1> QED BY <1>1, <1>2, <1>3 DEF Skip

\* A page holds the mentions at its positions.
LEMMA PageOfPositions ==
  ASSUME NEW page
  PROVE  Page(page) = {x \in mentions : Skip(page) <= Position(x) /\ Position(x) < Skip(page) + PageSize}
  BY DEF Page, Position, Before

\* The positions before a mention are all taken: a page that ends before it is full.
LEMMA FullPage ==
  ASSUME Inv, NEW page \in Nat \ {0}, NEW m \in mentions, Skip(page) + PageSize <= Position(m)
  PROVE  Cardinality(Page(page)) = PageSize
  <1> DEFINE k     == Position(m)
             first == Skip(page)
             last  == (Skip(page) + PageSize) - 1
             place == [x \in Before(m) |-> Position(x)]
             spot  == [x \in Page(page) |-> Position(x)]
  <1>1. k \in Nat /\ first \in Nat /\ PageSize \in Nat \ {0} /\ last \in Nat /\ last < k /\ first <= last
    BY PositionIsNat, SkipIsNat
  <1>2. \A x \in mentions : Position(x) \in Nat
    BY PositionIsNat
  <1>3. \A x, y \in mentions : Position(x) = Position(y) => x = y
    BY <1>2, PrecedesIsOrder, PositionGrows
  <1>4. Before(m) \subseteq mentions /\ \A x \in Before(m) : Position(x) \in 0..(k - 1)
    <2>1. Before(m) \subseteq mentions /\ \A x \in Before(m) : Precedes(x, m)
      BY DEF Before
    <2> QED BY <1>1, <1>2, <2>1, PositionGrows
  <1>5. place \in Injection(Before(m), 0..(k - 1))
    <2>1. place \in [Before(m) -> 0..(k - 1)]
      BY <1>4
    <2>2. \A x, y \in Before(m) : place[x] = place[y] => x = y
      BY <1>3, <1>4
    <2> HIDE DEF place
    <2> QED BY <2>1, <2>2, Fun_IsInj
  <1>6. IsFiniteSet(0..(k - 1)) /\ Cardinality(0..(k - 1)) = k
    <2> DEFINE top == k - 1
    <2> HIDE DEF k
    <2>1. top \in Int /\ (0 > top => k = 0) /\ (~(0 > top) => (top - 0) + 1 = k)
      BY <1>1
    <2> HIDE DEF top
    <2>2. /\ IsFiniteSet(0..top)
          /\ Cardinality(0..top) = IF 0 > top THEN 0 ELSE (top - 0) + 1
      BY <2>1, FS_Interval
    <2>3. Cardinality(0..top) = k
      BY <2>1, <2>2
    <2> QED BY <2>2, <2>3 DEF top
  <1>7. place \in Surjection(Before(m), 0..(k - 1))
    BY <1>5, <1>6, FS_Injection DEF Position
  <1>8. Page(page) = {x \in mentions : first <= Position(x) /\ Position(x) <= last}
    BY <1>1, <1>2, PageOfPositions
  <1>9. spot \in Injection(Page(page), first..last)
    <2>1. spot \in [Page(page) -> first..last]
      BY <1>1, <1>2, <1>8
    <2>2. \A x, y \in Page(page) : spot[x] = spot[y] => x = y
      BY <1>3, <1>8
    <2> HIDE DEF spot
    <2> QED BY <2>1, <2>2, Fun_IsInj
  <1>10. ASSUME NEW n \in first..last
         PROVE  \E x \in Page(page) : spot[x] = n
    <2>1. n \in 0..(k - 1)
      BY <1>1
    <2>2. PICK x \in Before(m) : place[x] = n
      BY <1>7, <2>1 DEF Surjection
    <2>3. x \in mentions /\ Position(x) = n
      BY <1>4, <2>2
    <2>4. x \in Page(page)
      BY <1>1, <1>8, <2>3
    <2> QED BY <2>3, <2>4
  <1>11. spot \in Surjection(Page(page), first..last)
    BY <1>9, <1>10 DEF Injection, Surjection
  <1>12. IsFiniteSet(first..last) /\ Cardinality(first..last) = PageSize
    BY <1>1, FS_Interval
  <1> HIDE DEF spot, first, last
  <1> QED BY <1>9, <1>11, <1>12, FS_Injection

----------------------------------------------------------------------------
(* The steps, one lemma each                                               *)

\* What a client has been shown stays right while no mention goes, whoever is
\* mentioned, and wherever in the list.
LEMMA PagesStay ==
  ASSUME Inv, NEW c \in Clients, client'[c] = client[c], there'[c] = there[c],
         mentions \subseteq mentions', c \notin removed' => c \notin removed,
         \A m \in mentions : Position(m)' \in Nat /\ Position(m) <= Position(m)'
  PROVE  PagesOK(c)'
  <1> SUFFICES ASSUME c \notin removed'
               PROVE  PagesOK(c)'
    BY DEF PagesOK
  <1>1. PagesOK(c) /\ there[c] \subseteq mentions /\ c \notin removed
    BY DEF Inv, PagesOK
  <1>2. client[c].page \in Nat \ {0}
    BY DEF Inv, TypeOK, Client
  <1>3. Skip(client[c].page) \in Nat /\ PageSize \in Nat
    BY <1>2, SkipIsNat
  <1>4. \A m \in there[c] : Position(m) \in Nat
    BY PositionIsNat
  <1>5. Skip(client[c].page)' = Skip(client[c].page)
    BY DEF Skip
  <1>6. \A m \in there[c], n \in Nat : Position(m)' < n => Position(m) < n
    BY <1>1, <1>4
  <1>7. Skip(client[c].page) + PageSize \in Nat
    BY <1>3
  <1> QED BY <1>1, <1>3, <1>5, <1>6, <1>7 DEF PagesOK

\* The clock goes on.
LEMMA TickIsGood ==
  ASSUME Inv, Tick
  PROVE  Inv'
  <1>1. TypeOK'
    BY DEF Inv, TypeOK, Tick
  <1>2. TimesOK'
    <2>1. clock \in Nat /\ clock' = clock + 1 /\ startedAt' = startedAt /\ committed' = committed
          /\ preceding' = preceding /\ startedAt \in [Transactions -> Nat \cup {NULL}]
      BY DEF Inv, TypeOK, Tick
    <2>2. \A x \in Transactions : startedAt[x] # NULL => startedAt[x] \in Nat
      BY <2>1
    <2> QED BY <2>1, <2>2 DEF Inv, TimesOK
  <1>3. \A m \in mentions : Position(m)' = Position(m)
    BY DEF Tick, Position, Before, Precedes
  <1>4. \A c \in Clients : PagesOK(c)'
    BY <1>3, PagesStay, PositionIsNat DEF Tick
  <1> QED BY <1>1, <1>2, <1>4 DEF Inv

\* A transaction begins; it is in no list yet.
LEMMA StartIsGood ==
  ASSUME Inv, NEW x \in Transactions, Start(x)
  PROVE  Inv'
  <1>1. /\ TypeOK /\ startedAt[x] = NULL /\ x \notin committed /\ clock \in Nat
        /\ startedAt' = [startedAt EXCEPT ![x] = clock]
        /\ preceding' = [preceding EXCEPT ![x] = {y \in committed : Records(kindOf[y]) # {}}]
        /\ UNCHANGED <<kindOf, clock, committed, mentions, client, there, removed>>
    BY DEF Inv, TypeOK, TimesOK, Start
  <1>2. startedAt'[x] = clock /\ \A y \in Transactions \ {x} : startedAt'[y] = startedAt[y]
    BY <1>1 DEF TypeOK
  <1>3. preceding'[x] \subseteq committed /\ \A y \in Transactions \ {x} : preceding'[y] = preceding[y]
    BY <1>1 DEF TypeOK
  <1>4. clock # NULL
    BY <1>1, FeedsAssumption
  <1>5. TypeOK'
    BY <1>1 DEF TypeOK
  <1>6. TimesOK'
    <2>1. TimesOK /\ committed \subseteq Transactions /\ preceding \in [Transactions -> SUBSET Transactions]
      BY DEF Inv, TypeOK
    <2>2. \A y \in committed : startedAt'[y] = startedAt[y]
      BY <1>1, <1>2, <2>1
    <2>3. \A y \in Transactions : startedAt'[y] # NULL => startedAt'[y] <= clock
      BY <1>1, <1>2, <2>1 DEF TimesOK
    <2>4. ASSUME NEW y \in Transactions, NEW z \in preceding'[y]
          PROVE  z \in committed /\ startedAt'[y] # NULL /\ startedAt'[z] <= startedAt'[y]
      <3>1. CASE y = x
        BY <1>1, <1>2, <1>3, <1>4, <2>1, <2>2, <3>1 DEF TimesOK
      <3>2. CASE y # x
        BY <1>2, <1>3, <2>1, <2>2, <3>2 DEF TimesOK
      <3> QED BY <3>1, <3>2
    <2> QED BY <1>1, <2>1, <2>2, <2>3, <2>4 DEF TimesOK
  <1>7. \A m \in mentions : Position(m)' = Position(m)
    <2>1. \A y \in mentions : startedAt'[y] = startedAt[y]
      BY <1>1, <1>2 DEF TypeOK
    <2>2. ASSUME NEW m \in mentions
          PROVE  Before(m)' = Before(m)
      BY <1>1, <2>1 DEF Before, Precedes
    <2> QED BY <2>2 DEF Position
  <1>8. \A c \in Clients : PagesOK(c)'
    BY <1>1, <1>7, PagesStay, PositionIsNat
  <1> QED BY <1>5, <1>6, <1>8 DEF Inv

\* What every commit has in common.
LEMMA CommitTimes ==
  ASSUME Inv, NEW x \in Transactions, Commit(x)
  PROVE  /\ TimesOK' /\ committed' = committed \cup {x} /\ x \notin committed
         /\ committed' \subseteq Transactions
         /\ UNCHANGED <<kindOf, clock, startedAt, client, preceding, there>>
  <1>1. IsFiniteSet(committed \cup {x})
    BY FS_AddElement DEF Inv, TimesOK
  <1> QED BY <1>1 DEF Inv, TypeOK, TimesOK, Commit

\* The creation or an update of a ticket.
LEMMA CommitAuditedIsGood ==
  ASSUME Inv, NEW x \in Transactions, CommitAudited(x)
  PROVE  Inv'
  <1>1. Commit(x) /\ mentions' = mentions /\ removed' = removed
    BY DEF CommitAudited
  <1>2. TimesOK' /\ TypeOK'
    BY <1>1, CommitTimes DEF Inv, TypeOK
  <1>3. \A m \in mentions : Position(m)' = Position(m)
    BY <1>1, CommitTimes DEF Position, Before, Precedes
  <1>4. \A c \in Clients : PagesOK(c)'
    BY <1>1, <1>3, CommitTimes, PagesStay, PositionIsNat
  <1> QED BY <1>2, <1>4 DEF Inv

\* A new mention moves others down the list, never up.
LEMMA CommitCommentIsGood ==
  ASSUME Inv, NEW x \in Transactions, CommitComment(x)
  PROVE  Inv'
  <1>1. Commit(x) /\ mentions' = mentions \cup {x} /\ removed' = removed
    BY DEF CommitComment
  <1>2. TimesOK' /\ TypeOK'
    BY <1>1, CommitTimes DEF Inv, TypeOK
  <1>3. IsFiniteSet(mentions \cup {x})
    BY MentionsAreOrdered, FS_AddElement
  <1>4. ASSUME NEW m \in mentions
        PROVE  Position(m)' \in Nat /\ Position(m) <= Position(m)'
    <2>1. Before(m) \subseteq Before(m)' /\ Before(m)' \subseteq mentions \cup {x}
      BY <1>1, CommitTimes DEF Before, Precedes
    <2>2. IsFiniteSet(Before(m)') /\ Cardinality(Before(m)') \in Nat
      BY <1>3, <2>1, FS_Subset, FS_CardinalityType
    <2> QED BY <2>1, <2>2, FS_Subset DEF Position
  <1>5. \A c \in Clients : PagesOK(c)'
    BY <1>1, <1>4, CommitTimes, PagesStay
  <1> QED BY <1>2, <1>5 DEF Inv

\* A removal concerns the clients that have begun.
LEMMA CommitRemovalIsGood ==
  ASSUME Inv, NEW x \in Transactions, CommitRemoval(x)
  PROVE  Inv'
  <1>1. Commit(x) /\ mentions' \subseteq mentions
        /\ removed' = removed \cup {c \in Clients : client[c].step # "idle"}
    BY DEF CommitRemoval
  <1>2. TimesOK' /\ TypeOK'
    BY <1>1, CommitTimes DEF Inv, TypeOK
  <1>3. ASSUME NEW c \in Clients
        PROVE  PagesOK(c)'
    <2>1. client' = client /\ there' = there
      BY <1>1, CommitTimes
    <2> QED BY <1>1, <2>1 DEF Inv, PagesOK
  <1> QED BY <1>2, <1>3 DEF Inv

\* A turn of one client leaves the transactions and the other clients alone.
LEMMA TurnIsFramed ==
  ASSUME Inv, NEW c \in Clients, NEW state \in Client, Turn(c, state), removed' = removed,
         there' \in [Clients -> SUBSET Transactions],
         \A d \in Clients \ {c} : there'[d] = there[d],
         client'[c] = state => PagesOK(c)'
  PROVE  Inv'
  <1>1. /\ client' = [client EXCEPT ![c] = state] /\ client \in [Clients -> Client]
        /\ UNCHANGED <<kindOf, clock, startedAt, committed, mentions, preceding>>
    BY DEF Inv, TypeOK, Turn, writerVars
  <1>2. client'[c] = state /\ \A d \in Clients \ {c} : client'[d] = client[d]
    BY <1>1
  <1>3. TypeOK' /\ TimesOK'
    BY <1>1 DEF Inv, TypeOK, TimesOK
  <1>4. \A m \in mentions : Position(m)' = Position(m)
    BY <1>1 DEF Position, Before, Precedes
  <1>5. ASSUME NEW d \in Clients
        PROVE  PagesOK(d)'
    <2>1. CASE d = c
      BY <1>2, <2>1
    <2>2. CASE d # c
      BY <1>1, <1>2, <1>4, <2>2, PagesStay, PositionIsNat
    <2> QED BY <2>1, <2>2
  <1> QED BY <1>3, <1>5 DEF Inv

\* The ids found, with what the client has seen, are all that is listed up to the
\* end of the page.
LEMMA FindPageIsGood ==
  ASSUME Inv, NEW c \in Clients, FindPage(c)
  PROVE  Inv'
  <1> DEFINE page   == client[c].page
             ids    == Page(page)
             first  == [client[c] EXCEPT !.step = "found"]
             state  == [first EXCEPT !.ids = ids]
  <1>1. /\ client[c].step \in {"idle", "next"} /\ removed' = removed
        /\ there' = [there EXCEPT ![c] = IF client[c].step = "idle" THEN mentions ELSE there[c]]
    BY DEF FindPage
  <1>2. Turn(c, state)
    <2>1. [client[c] EXCEPT !.step = "found", !.ids = Page(client[c].page)] = state
      BY Zenon
    <2> HIDE DEF state
    <2> QED BY <2>1 DEF FindPage
  <1>3. client[c] \in Client /\ page \in Nat \ {0} /\ mentions \subseteq Transactions
        /\ there \in [Clients -> SUBSET Transactions]
    BY DEF Inv, TypeOK, Client
  <1>4. ids \subseteq mentions
    BY PageOfPositions
  <1>5. first \in Client /\ first.step = "found" /\ first.page = page /\ first.seen = client[c].seen
    BY <1>3 DEF Client
  <1> HIDE DEF first, ids
  <1>6. /\ state \in Client /\ state.step = "found" /\ state.page = page
        /\ state.seen = client[c].seen /\ state.ids = ids
    BY <1>3, <1>4, <1>5 DEF Client
  <1> HIDE DEF state
  <1>7. /\ there' \in [Clients -> SUBSET Transactions]
        /\ \A d \in Clients \ {c} : there'[d] = there[d]
        /\ there'[c] = IF client[c].step = "idle" THEN mentions ELSE there[c]
    BY <1>1, <1>3
  <1>8. mentions' = mentions /\ \A m \in mentions : Position(m)' = Position(m)
    BY <1>2 DEF Turn, writerVars, Position, Before, Precedes
  <1>9. ASSUME client'[c] = state
        PROVE  PagesOK(c)'
    <2> SUFFICES ASSUME c \notin removed
                 PROVE  PagesOK(c)'
      BY <1>1 DEF PagesOK
    <2>1. PagesOK(c)
      BY DEF Inv
    <2>2. Skip(page) \in Nat /\ PageSize \in Nat \ {0} /\ (page = 1 => Skip(page) = 0)
      <3>1. PageSize \in Nat \ {0} /\ (1 - 1) * PageSize = 0
        BY FeedsAssumption
      <3>2. Skip(1) = 0
        BY <3>1 DEF Skip
      <3> QED BY <1>3, <3>1, <3>2, SkipIsNat
    <2>3. there'[c] \subseteq mentions
      BY <1>7, <2>1 DEF PagesOK
    <2>4. ASSUME NEW m \in there'[c], Position(m) < Skip(page) + PageSize
          PROVE  m \in client[c].seen \cup ids
      <3>1. m \in mentions /\ Position(m) \in Nat
        BY <2>3, PositionIsNat
      <3>2. CASE Skip(page) <= Position(m)
        BY <2>4, <3>1, <3>2, PageOfPositions DEF ids
      <3>3. CASE Position(m) < Skip(page)
        <4>1. client[c].step = "next"
          BY <1>1, <2>1, <2>2, <3>1, <3>3 DEF PagesOK
        <4> QED BY <1>7, <2>1, <3>3, <4>1 DEF PagesOK
      <3> QED BY <2>2, <3>1, <3>2, <3>3
    <2>5. ASSUME Cardinality(ids) # PageSize
          PROVE  there'[c] \subseteq client[c].seen \cup ids
      <3>1. \A m \in mentions : ~(Skip(page) + PageSize <= Position(m))
        BY <1>3, <2>5, FullPage DEF ids
      <3>2. \A m \in mentions : Position(m) < Skip(page) + PageSize
        BY <2>2, <3>1, PositionIsNat
      <3> QED BY <2>3, <2>4, <3>2
    <2> QED BY <1>4, <1>6, <1>8, <1>9, <2>3, <2>4, <2>5 DEF PagesOK
  <1> QED BY <1>1, <1>2, <1>6, <1>7, <1>9, TurnIsFramed

\* What is found is read, and a page that is not full is the last.
LEMMA ReadPageIsGood ==
  ASSUME Inv, NEW c \in Clients, ReadPage(c)
  PROVE  Inv'
  <1> DEFINE data   == client[c].ids \cap mentions
             full   == Cardinality(data) = PageSize
             step   == IF full THEN "next" ELSE "done"
             page   == IF full THEN client[c].page + 1 ELSE client[c].page
             seen   == client[c].seen \cup data
             first  == [client[c] EXCEPT !.step = step]
             second == [first EXCEPT !.page = page]
             third  == [second EXCEPT !.seen = seen]
             state  == [third EXCEPT !.ids = {}]
  <1>1. client[c].step = "found" /\ there' = there /\ removed' = removed
    BY DEF ReadPage
  <1>2. Turn(c, state)
    <2>1. [client[c] EXCEPT !.step = IF full THEN "next" ELSE "done",
                            !.page = IF full THEN @ + 1 ELSE @,
                            !.seen = @ \cup data, !.ids = {}] = state
      BY Zenon
    <2> HIDE DEF state
    <2> QED BY <2>1 DEF ReadPage
  <1>3. /\ client[c] \in Client /\ client[c].page \in Nat \ {0} /\ client[c].seen \subseteq Transactions
        /\ client[c].ids \subseteq Transactions /\ there \in [Clients -> SUBSET Transactions]
    BY DEF Inv, TypeOK, Client
  <1>4. step \in {"next", "done"} /\ page \in Nat \ {0} /\ seen \subseteq Transactions
    BY <1>3
  <1>5. (full => step = "next" /\ page = client[c].page + 1) /\ (~full => step = "done")
    OBVIOUS
  <1> HIDE DEF step, page, full
  <1>6. first \in Client /\ first.step = step /\ first.seen = client[c].seen
    BY <1>3, <1>4 DEF Client
  <1> HIDE DEF first
  <1>7. second \in Client /\ second.step = step /\ second.page = page
    BY <1>4, <1>6 DEF Client
  <1> HIDE DEF second
  <1>8. third \in Client /\ third.step = step /\ third.page = page /\ third.seen = seen
    BY <1>4, <1>7 DEF Client
  <1> HIDE DEF third
  <1>9. state \in Client /\ state.step = step /\ state.page = page /\ state.seen = seen
    BY <1>8 DEF Client
  <1> HIDE DEF state
  <1>10. mentions' = mentions /\ \A m \in mentions : Position(m)' = Position(m)
    BY <1>2 DEF Turn, writerVars, Position, Before, Precedes
  <1>11. ASSUME client'[c] = state
         PROVE  PagesOK(c)'
    <2> SUFFICES ASSUME c \notin removed
                 PROVE  PagesOK(c)'
      BY <1>1 DEF PagesOK
    <2>1. PagesOK(c) /\ data = client[c].ids
      BY <1>1 DEF Inv, PagesOK
    <2>2. there[c] \subseteq mentions
      BY <2>1 DEF PagesOK
    <2>3. CASE full
      <3>1. Skip(page) = Skip(client[c].page) + PageSize /\ step = "next"
        BY <1>3, <1>5, <2>3, SkipIsNat
      <3>2. \A m \in there[c] : Position(m) < Skip(page) => m \in seen
        BY <1>1, <2>1, <3>1 DEF PagesOK
      <3> HIDE DEF seen
      <3> QED BY <1>1, <1>9, <1>10, <1>11, <2>2, <3>1, <3>2 DEF PagesOK
    <2>4. CASE ~full
      <3>1. there[c] \subseteq seen /\ step = "done"
        BY <1>1, <1>5, <2>1, <2>4 DEF PagesOK, full
      <3> HIDE DEF seen
      <3> QED BY <1>1, <1>9, <1>10, <1>11, <2>2, <3>1 DEF PagesOK
    <2> QED BY <2>3, <2>4
  <1>12. there' \in [Clients -> SUBSET Transactions] /\ \A d \in Clients \ {c} : there'[d] = there[d]
    BY <1>1, <1>3
  <1> QED BY <1>1, <1>2, <1>9, <1>11, <1>12, TurnIsFramed

----------------------------------------------------------------------------
(* The invariant and what follows from it                                  *)

\* Nothing has begun.
LEMMA InitIsGood ==
  ASSUME Init
  PROVE  Inv
  <1>1. TypeOK
    <2> DEFINE new == [step |-> "idle", page |-> 1, ids |-> {}, seen |-> {}]
    <2>1. new \in Client
      BY DEF Client
    <2>2. client = [c \in Clients |-> new]
      BY DEF Init
    <2> HIDE DEF new
    <2>3. client \in [Clients -> Client]
      BY <2>1, <2>2
    <2>4. kindOf \in [Transactions -> Kind]
      BY FeedsAssumption DEF Init
    <2> QED BY <2>3, <2>4 DEF TypeOK, Init
  <1>2. TimesOK
    BY FS_EmptySet DEF TimesOK, Init
  <1>3. ASSUME NEW c \in Clients
        PROVE  PagesOK(c)
    <2>1. client[c].step = "idle" /\ client[c].page = 1 /\ there[c] = {}
      BY DEF Init
    <2> QED BY <2>1 DEF PagesOK
  <1> QED BY <1>1, <1>2, <1>3 DEF Inv

\* Every step keeps the invariant.
LEMMA NextIsGood ==
  ASSUME Inv, [Next]_vars
  PROVE  Inv'
  <1>1. CASE UNCHANGED vars
    BY <1>1 DEF Inv, TypeOK, TimesOK, PagesOK, Position, Before, Precedes, vars
  <1>2. CASE Next
    BY <1>2, TickIsGood, StartIsGood, CommitAuditedIsGood, CommitCommentIsGood,
       CommitRemovalIsGood, FindPageIsGood, ReadPageIsGood DEF Next
  <1> QED BY <1>1, <1>2

\* The times of the rows and the pages of the clients satisfy the invariant.
THEOREM InvariantsHold == Spec => []Inv
  <1>1. Init => Inv
    BY InitIsGood
  <1>2. Inv /\ [Next]_vars => Inv'
    BY NextIsGood
  <1> QED BY <1>1, <1>2, PTL DEF Spec

\* Whoever was audited before a transaction began is listed before it, unless
\* both began in one instant.
LEMMA HistoryFollowsTimes ==
  ASSUME Inv
  PROVE  HistoryIsInOrder
  <1> SUFFICES ASSUME NEW history \in TicketHistories, NEW i \in DOMAIN history, NEW j \in DOMAIN history,
                      i < j, history[j][1] \in preceding[history[i][1]]
               PROVE  startedAt[history[i][1]] = startedAt[history[j][1]]
    BY DEF HistoryIsInOrder, SameTime
  <1> DEFINE x == history[i][1]
             y == history[j][1]
  <1>1. history \in [1..Cardinality(TicketRows) -> TicketRows]
    BY DEF TicketHistories, SetToSeqs
  <1>2. history[i] \in TicketRows
    BY <1>1
  <1>3. x \in committed
    <2>1. PICK w \in committed : history[i] \in {w} \X Records(kindOf[w])
      BY <1>2 DEF TicketRows
    <2> QED BY <2>1
  <1>4. startedAt[x] <= startedAt[y]
    BY DEF TicketHistories
  <1>5. x \in Transactions /\ y \in committed /\ startedAt[y] <= startedAt[x]
    BY <1>3 DEF Inv, TypeOK, TimesOK
  <1>6. startedAt[x] \in Nat /\ startedAt[y] \in Nat
    BY <1>3, <1>5 DEF Inv, TypeOK, TimesOK
  <1> HIDE DEF x, y
  <1>7. startedAt[x] = startedAt[y]
    BY <1>4, <1>5, <1>6
  <1> QED BY <1>7 DEF x, y

\* The history of a ticket is in the order of what happened, although its rows
\* carry the time their transactions began and not that of their commit.
THEOREM HistoriesAreInOrder == Spec => []HistoryIsInOrder
  <1>1. Inv => HistoryIsInOrder
    BY HistoryFollowsTimes
  <1> QED BY <1>1, InvariantsHold, PTL

\* A client who reads the mentions page by page misses none that was there when
\* it began, unless one was removed.
THEOREM PagesAreComplete == Spec => []PagesMissNothing
  <1>1. Inv => PagesMissNothing
    BY DEF Inv, PagesOK, PagesMissNothing
  <1> QED BY <1>1, InvariantsHold, PTL

==============================================================================
