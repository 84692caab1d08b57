------------------------- MODULE FeedPollingProofs -------------------------
(***************************************************************************)
(* Proofs about FeedPolling, for every feed, limit and number of pollers:  *)
(* a cursor passes only what is stored, never goes back, and a jam lasts   *)
(* until the provider changes the feed.                                    *)
(*                                                                         *)
(* Both connectors sort a finite set by a strict order, so the first       *)
(* section is about positions in a sorted set.  The invariant then says    *)
(* what a batch on its way promises: once its records are stored, nothing  *)
(* its next cursor passes is missing.                                      *)
(***************************************************************************)
EXTENDS FeedPolling, TLAPS, FiniteSetTheorems, WellFoundedInduction
-----------------------------------------------------------------------------
(* Sorting: a strict order on a finite set, as a set of pairs. *)

StrictOrder(S, R) ==
  /\ \A d \in S : <<d, d>> \notin R
  /\ \A c, d, e \in S : <<c, d>> \in R /\ <<d, e>> \in R => <<c, e>> \in R
  /\ \A d, e \in S : d # e => <<d, e>> \in R \/ <<e, d>> \in R

Below(S, R, e) == {d \in S : <<d, e>> \in R}

LEMMA BelowIsFinite ==
  ASSUME NEW S, IsFiniteSet(S), NEW R, NEW e
  PROVE  IsFiniteSet(Below(S, R, e)) /\ Cardinality(Below(S, R, e)) \in Nat
<1>1. Below(S, R, e) \in SUBSET S
  BY DEF Below
<1> QED BY <1>1, FS_Subset, FS_CardinalityType

\* A later element has more elements below it, but never all.
LEMMA RankGrows ==
  ASSUME NEW S, IsFiniteSet(S), NEW R, StrictOrder(S, R), NEW d \in S, NEW e \in S,
         <<d, e>> \in R
  PROVE  Cardinality(Below(S, R, d)) < Cardinality(Below(S, R, e))
<1>1. Below(S, R, d) \in SUBSET Below(S, R, e)
  BY DEF Below, StrictOrder
<1>2. d \in Below(S, R, e) /\ d \notin Below(S, R, d)
  BY DEF Below, StrictOrder
<1> QED BY <1>1, <1>2, BelowIsFinite, FS_Subset

LEMMA RankIsInside ==
  ASSUME NEW S, IsFiniteSet(S), NEW R, StrictOrder(S, R), NEW e \in S
  PROVE  Cardinality(Below(S, R, e)) < Cardinality(S)
<1>1. Below(S, R, e) \in SUBSET S
  BY DEF Below
<1>2. e \notin Below(S, R, e)
  BY DEF Below, StrictOrder
<1> QED BY <1>1, <1>2, BelowIsFinite, FS_Subset, FS_CardinalityType

\* A slice of the sorted set is no longer than the interval of its positions.
LEMMA SliceIsBounded ==
  ASSUME NEW S, IsFiniteSet(S), NEW R, StrictOrder(S, R), NEW a \in Nat, NEW b \in Int,
         NEW T \in SUBSET S, \A e \in T : Cardinality(Below(S, R, e)) \in a .. b
  PROVE  /\ IsFiniteSet(T) /\ Cardinality(T) \in Nat
         /\ Cardinality(T) <= IF a > b THEN 0 ELSE b - a + 1
<1> DEFINE rank == [e \in T |-> Cardinality(Below(S, R, e))]
<1>1. rank \in [T -> a .. b]
  OBVIOUS
<1>2. ASSUME NEW d \in T, NEW e \in T, rank[d] = rank[e] PROVE d = e
  <2>1. rank[d] \in Nat
    BY BelowIsFinite
  <2>2. <<d, e>> \notin R /\ <<e, d>> \notin R
    BY <1>2, <2>1, RankGrows
  <2> QED BY <2>2 DEF StrictOrder
<1>3. rank \in Injection(T, a .. b)
  BY <1>1, <1>2 DEF Injection, IsInjective
<1>4. IsFiniteSet(a .. b) /\ Cardinality(a .. b) = IF a > b THEN 0 ELSE b - a + 1
  BY FS_Interval
<1>5. Cardinality(T) <= Cardinality(a .. b)
  BY <1>3, <1>4, FS_Injection
<1>6. IsFiniteSet(T) /\ Cardinality(T) \in Nat
  BY FS_Subset, FS_CardinalityType
<1> QED BY <1>4, <1>5, <1>6

\* A sorted set that is not empty has a last element.
LEMMA LastExists ==
  ASSUME NEW S, IsFiniteSet(S), S # {}, NEW R, StrictOrder(S, R)
  PROVE  \E e \in S : \A d \in S : <<e, d>> \notin R
<1> DEFINE Above(e) == {d \in S : <<e, d>> \in R}
           tails == {Above(e) : e \in S}
<1>1. tails \subseteq SUBSET S /\ tails # {}
  OBVIOUS
<1>2. IsWellFoundedOn(StrictSubsetOrdering(S), SUBSET S)
  BY FS_StrictSubsetOrderingWellFounded, FS_FiniteSubsetsOfFinite
<1>3. PICK T \in tails : \A U \in tails : <<U, T>> \notin StrictSubsetOrdering(S)
  <2> HIDE DEF tails
  <2> QED BY <1>1, <1>2, WFMin
<1>4. PICK e \in S : T = Above(e)
  OBVIOUS
<1>5. ASSUME NEW d \in S, <<e, d>> \in R PROVE FALSE
  <2>1. Above(d) \subseteq Above(e) /\ Above(e) \subseteq S
    BY <1>5 DEF StrictOrder
  <2>2. d \in Above(e) /\ d \notin Above(d)
    BY <1>5 DEF StrictOrder
  <2>3. <<Above(d), Above(e)>> \in StrictSubsetOrdering(S)
    <3> HIDE DEF Above
    <3> QED BY <2>1, <2>2 DEF StrictSubsetOrdering
  <2>4. Above(d) \in tails
    OBVIOUS
  <2> QED BY <1>3, <1>4, <2>3, <2>4
<1> QED BY <1>5

-----------------------------------------------------------------------------
(* The two sort orders. *)

LEMMA EntryTypes ==
  ASSUME NEW e \in Published
  PROVE  /\ e.name \in Nat /\ e.date \in Nat /\ e.text \in 0 .. 9
         /\ e.name = 0 \/ e.name \in 1 .. 99
         /\ ExternalId(e) \in Nat /\ Position(e) \in [date : Nat, id : Nat]
         /\ Position(e).date = e.date /\ Position(e).id = ExternalId(e)
         /\ ExternalId(e) = IF e.name # 0 THEN e.name ELSE 100 + 10 * e.date + e.text
<1>1. /\ e.name \in Nat /\ e.date \in Nat /\ e.text \in 0 .. 9
      /\ e.name = 0 \/ e.name \in 1 .. 99
  <2>1. /\ e.name \in Names \cup {0} /\ e.date \in Dates /\ e.text \in Texts
    BY EntriesArePublished DEF Entries, NoName
  <2>2. e.date \in Nat /\ e.text \in 0 .. 9
    BY <2>1, ConnectorNumbers
  <2>3. e.name = 0 \/ e.name \in 1 .. 99
    BY <2>1, ConnectorNumbers
  <2> QED BY <2>2, <2>3
<1>2. ExternalId(e) = IF e.name # 0 THEN e.name ELSE 100 + 10 * e.date + e.text
  BY DEF ExternalId, NoName
<1>3. ExternalId(e) \in Nat
  BY <1>1, <1>2
<1> QED BY <1>1, <1>2, <1>3 DEF Position

LEMMA BeforeOrders ==
  ASSUME NEW p \in [date : Nat, id : Nat], NEW q \in [date : Nat, id : Nat],
         NEW r \in [date : Nat, id : Nat]
  PROVE  /\ ~Before(p, p)
         /\ Before(p, q) /\ Before(q, r) => Before(p, r)
         /\ Before(p, q) => ~Before(q, p)
         /\ p # q => Before(p, q) \/ Before(q, p)
<1>1. p.date \in Nat /\ p.id \in Nat /\ q.date \in Nat /\ q.id \in Nat
      /\ r.date \in Nat /\ r.id \in Nat
  OBVIOUS
<1>2. p # q => p.date # q.date \/ p.id # q.id
  OBVIOUS
<1> QED BY <1>1, <1>2 DEF Before

EarlierIn(S) == {q \in S \X S : Earlier(q[1], q[2])}

ByIdIn(S) == {q \in S \X S : ByExternalId(q[1], q[2])}

\* No two published entries are equal to the RSS connector's sort.
LEMMA EarlierOrders ==
  ASSUME NEW S \in SUBSET Published
  PROVE  StrictOrder(S, EarlierIn(S))
<1>1. \A d, e \in S : <<d, e>> \in EarlierIn(S) <=> Earlier(d, e)
  BY DEF EarlierIn
<1>2. ASSUME NEW d \in S PROVE ~Earlier(d, d)
  BY EntryTypes, BeforeOrders DEF Earlier
<1>3. ASSUME NEW c \in S, NEW d \in S, NEW e \in S, Earlier(c, d), Earlier(d, e)
      PROVE  Earlier(c, e)
  <2>1. /\ Position(c) \in [date : Nat, id : Nat] /\ Position(d) \in [date : Nat, id : Nat]
        /\ Position(e) \in [date : Nat, id : Nat]
        /\ c.text \in Nat /\ d.text \in Nat /\ e.text \in Nat
    BY EntryTypes
  <2>2. Before(Position(c), Position(d)) \/ (Position(c) = Position(d) /\ c.text < d.text)
    BY <1>3 DEF Earlier
  <2>3. Before(Position(d), Position(e)) \/ (Position(d) = Position(e) /\ d.text < e.text)
    BY <1>3 DEF Earlier
  <2>4. Before(Position(c), Position(d)) /\ Before(Position(d), Position(e))
          => Before(Position(c), Position(e))
    BY <2>1, BeforeOrders
  <2> QED BY <2>1, <2>2, <2>3, <2>4 DEF Earlier
<1>4. ASSUME NEW d \in S, NEW e \in S, d # e PROVE Earlier(d, e) \/ Earlier(e, d)
  <2>1. /\ d \in Published /\ e \in Published
        /\ Position(d) \in [date : Nat, id : Nat] /\ Position(e) \in [date : Nat, id : Nat]
        /\ d.text \in Nat /\ e.text \in Nat
    BY EntryTypes
  <2>2. CASE Position(d) = Position(e) /\ d.text = e.text
    <3>1. d.date = e.date /\ ExternalId(d) = ExternalId(e)
      BY <2>1, <2>2, EntryTypes
    <3>2. d.name = e.name
      BY <2>1, <3>1, EntryTypes
    <3> QED BY <1>4, <2>1, <2>2, <3>1, <3>2, EntriesArePublished
  <2>3. Position(d) # Position(e) =>
          Before(Position(d), Position(e)) \/ Before(Position(e), Position(d))
    BY <2>1, BeforeOrders
  <2> QED BY <2>1, <2>2, <2>3 DEF Earlier
<1> QED BY <1>1, <1>2, <1>3, <1>4 DEF StrictOrder

\* Nor to the manifest's.
LEMMA ByIdOrders ==
  ASSUME NEW S \in SUBSET Published
  PROVE  StrictOrder(S, ByIdIn(S))
<1>1. \A d, e \in S : <<d, e>> \in ByIdIn(S) <=> ByExternalId(d, e)
  BY DEF ByIdIn
<1>2. \A e \in S : e.name \in Nat /\ e.date \in Nat /\ e.text \in Nat
  BY EntryTypes
<1>3. ASSUME NEW d \in S PROVE ~ByExternalId(d, d)
  BY <1>2 DEF ByExternalId
<1>4. ASSUME NEW c \in S, NEW d \in S, NEW e \in S, ByExternalId(c, d), ByExternalId(d, e)
      PROVE  ByExternalId(c, e)
  BY <1>2, <1>4 DEF ByExternalId
<1>5. ASSUME NEW d \in S, NEW e \in S, d # e PROVE ByExternalId(d, e) \/ ByExternalId(e, d)
  <2>1. d.name # e.name \/ d.date # e.date \/ d.text # e.text
    BY <1>5, EntriesArePublished
  <2> QED BY <1>2, <2>1 DEF ByExternalId
<1> QED BY <1>1, <1>3, <1>4, <1>5 DEF StrictOrder

-----------------------------------------------------------------------------
(* What an RSS fetch selects. *)

LEMMA EarliestSelects ==
  ASSUME NEW S \in SUBSET Published, IsFiniteSet(S)
  PROVE  /\ Earliest(S) \in SUBSET S /\ IsFiniteSet(Earliest(S))
         /\ Cardinality(Earliest(S)) \in Nat /\ Cardinality(Earliest(S)) <= Limit
         /\ \A d \in S, e \in Earliest(S) : Earlier(d, e) => d \in Earliest(S)
<1> DEFINE R == EarlierIn(S)
           rank(e) == Cardinality(Below(S, R, e))
<1>1. StrictOrder(S, R)
  BY EarlierOrders
<1>2. \A e \in S : {d \in S : Earlier(d, e)} = Below(S, R, e)
  BY DEF Below, EarlierIn
<1>3. \A e \in S : rank(e) \in Nat
  BY BelowIsFinite
<1>4. \A d, e \in S : Earlier(d, e) => rank(d) < rank(e)
  <2>1. \A d, e \in S : Earlier(d, e) => <<d, e>> \in R
    BY DEF EarlierIn
  <2> HIDE DEF R
  <2> QED BY <1>1, <2>1, RankGrows
<1>5. Earliest(S) = {e \in S : rank(e) < Limit}
  <2> HIDE DEF R
  <2> QED BY <1>2 DEF Earliest
<1> HIDE DEF rank, R
<1>6. \A e \in Earliest(S) : rank(e) \in 0 .. Limit - 1
  BY <1>3, <1>5, ConnectorNumbers
<1>7. /\ IsFiniteSet(Earliest(S)) /\ Cardinality(Earliest(S)) \in Nat
      /\ Cardinality(Earliest(S)) <= Limit
  <2>1. Earliest(S) \in SUBSET S /\ Limit - 1 \in Int /\ Limit \in Nat \ {0}
    BY <1>5, ConnectorNumbers
  <2>2. \A e \in Earliest(S) : Cardinality(Below(S, R, e)) \in 0 .. Limit - 1
    BY <1>6 DEF rank
  <2>3. /\ IsFiniteSet(Earliest(S)) /\ Cardinality(Earliest(S)) \in Nat
        /\ Cardinality(Earliest(S)) <= IF 0 > Limit - 1 THEN 0 ELSE (Limit - 1) - 0 + 1
    <3>1. 0 \in Nat
      OBVIOUS
    <3> QED BY <1>1, <2>1, <2>2, <3>1, SliceIsBounded
  <2> QED BY <2>1, <2>3
<1>8. \A d \in S, e \in Earliest(S) : Earlier(d, e) => d \in Earliest(S)
  BY <1>3, <1>4, <1>5, ConnectorNumbers
<1> QED BY <1>5, <1>7, <1>8

LEMMA LastIsLast ==
  ASSUME NEW S \in SUBSET Published, IsFiniteSet(S), S # {}
  PROVE  \E e \in S : LastPosition(S) = Position(e) /\ \A d \in S : ~Earlier(e, d)
<1>1. \E e \in S : \A d \in S : <<e, d>> \notin EarlierIn(S)
  BY EarlierOrders, LastExists
<1>2. \E e \in S : \A d \in S : ~Earlier(e, d)
  BY <1>1 DEF EarlierIn
<1> QED BY <1>2 DEF LastPosition

\* An RSS batch: its records are unread, its cursor is the position of one of them and
\* not before any, and what the cursor passes is behind the old one or has the id of a
\* record.
LEMMA RssFetch ==
  ASSUME NEW entries \in SUBSET Published, IsFiniteSet(entries), NEW from, NEW mark,
         from = None \/ from \in [date : Nat, id : Nat]
  PROVE  LET batch == RssBatch(entries, from, mark)  unread == Unread(entries, from, mark) IN
         /\ batch.records \in SUBSET unread /\ unread \in SUBSET entries
         /\ IsFiniteSet(batch.records) /\ Cardinality(batch.records) <= Limit
         /\ batch.records = {} => batch.next = from /\ unread = {}
         /\ batch.records # {} =>
              /\ batch.next \in [date : Nat, id : Nat]
              /\ \E e \in batch.records : batch.next = Position(e)
              /\ \A e \in batch.records : ~Before(batch.next, Position(e))
              /\ \A e \in unread : ~Before(batch.next, Position(e)) =>
                   ExternalId(e) \in Ids(batch.records)
<1> DEFINE unread == Unread(entries, from, mark)
           selected == Earliest(unread)
           batch == RssBatch(entries, from, mark)
<1>1. unread \in SUBSET entries /\ unread \in SUBSET Published
  BY DEF Unread
<1>2. IsFiniteSet(unread)
  BY <1>1, FS_Subset
<1> HIDE DEF unread
<1>3. /\ selected \in SUBSET unread /\ IsFiniteSet(selected)
      /\ Cardinality(selected) <= Limit
      /\ \A d \in unread, e \in selected : Earlier(d, e) => d \in selected
  BY <1>1, <1>2, EarliestSelects
<1>4. /\ batch.records = selected
      /\ batch.next = IF selected = {} THEN from ELSE LastPosition(selected)
  BY DEF RssBatch, Batch, unread
<1>5. selected = {} => unread = {}
  <2>1. ASSUME unread # {} PROVE \E e \in unread : \A d \in unread : ~Earlier(d, e)
    <3> DEFINE R == {q \in unread \X unread : <<q[2], q[1]>> \in EarlierIn(unread)}
    <3>1. StrictOrder(unread, EarlierIn(unread))
      BY <1>1, EarlierOrders
    <3>2. \A d, e \in unread : <<d, e>> \in R <=> <<e, d>> \in EarlierIn(unread)
      OBVIOUS
    <3> HIDE DEF R
    <3>3. StrictOrder(unread, R)
      BY <3>1, <3>2 DEF StrictOrder
    <3>4. \E e \in unread : \A d \in unread : <<e, d>> \notin R
      BY <1>2, <2>1, <3>3, LastExists
    <3> QED BY <3>2, <3>4 DEF EarlierIn
  <2>2. ASSUME NEW e \in unread, \A d \in unread : ~Earlier(d, e) PROVE e \in selected
    <3>1. {d \in unread : Earlier(d, e)} = {}
      BY <2>2
    <3>2. Cardinality({d \in unread : Earlier(d, e)}) < Limit
      BY <3>1, FS_EmptySet, ConnectorNumbers
    <3> QED BY <3>2 DEF Earliest
  <2> QED BY <2>1, <2>2
<1> HIDE DEF selected, batch
<1>6. CASE selected # {}
  <2>1. selected \in SUBSET Published
    BY <1>1, <1>3
  <2>2. PICK e \in selected : LastPosition(selected) = Position(e) /\ \A d \in selected : ~Earlier(e, d)
    BY <1>3, <1>6, <2>1, LastIsLast
  <2>3. batch.next = Position(e) /\ batch.next \in [date : Nat, id : Nat]
    BY <1>4, <1>6, <2>1, <2>2, EntryTypes
  <2>4. \A d \in selected : ~Before(batch.next, Position(d))
    BY <2>2, <2>3 DEF Earlier
  <2>5. ASSUME NEW d \in unread, ~Before(batch.next, Position(d))
        PROVE  ExternalId(d) \in Ids(selected)
    <3>1. d \in Published /\ Position(d) \in [date : Nat, id : Nat]
      BY <1>1, EntryTypes
    <3>2. CASE Before(Position(d), Position(e))
      <4>1. d \in selected
        BY <1>3, <2>2, <3>2 DEF Earlier
      <4> QED BY <4>1 DEF Ids
    <3>3. CASE Position(d) = Position(e)
      <4>1. ExternalId(d) = ExternalId(e)
        BY <2>1, <2>2, <3>1, <3>3, EntryTypes
      <4> QED BY <2>2, <4>1 DEF Ids
    <3> QED BY <2>3, <2>5, <3>1, <3>2, <3>3, BeforeOrders
  <2> QED BY <1>1, <1>3, <1>4, <1>6, <2>2, <2>3, <2>4, <2>5 DEF batch, unread
<1>7. CASE selected = {}
  BY <1>1, <1>3, <1>4, <1>5, <1>7 DEF batch, unread
<1> QED BY <1>6, <1>7

-----------------------------------------------------------------------------
(* What a filing fetch selects, and what the provider does to the positions. *)

LEMMA RankIsBelow ==
  ASSUME NEW S \in SUBSET Published, IsFiniteSet(S)
  PROVE  /\ \A e \in S : Rank(S, e) = Cardinality(Below(S, ByIdIn(S), e))
         /\ \A e : Rank(S, e) \in Nat
<1>1. ASSUME NEW e \in S PROVE Rank(S, e) = Cardinality(Below(S, ByIdIn(S), e))
  <2>1. {d \in S : ByExternalId(d, e)} = Below(S, ByIdIn(S), e)
    BY DEF Below, ByIdIn
  <2> QED BY <2>1 DEF Rank
<1>2. ASSUME NEW e PROVE Rank(S, e) \in Nat
  <2>1. {d \in S : ByExternalId(d, e)} \in SUBSET S
    OBVIOUS
  <2> QED BY <2>1, FS_Subset, FS_CardinalityType DEF Rank
<1> QED BY <1>1, <1>2

LEMMA WindowSelects ==
  ASSUME NEW S \in SUBSET Published, IsFiniteSet(S), NEW start \in Nat
  PROVE  /\ Window(S, start) \in SUBSET S /\ IsFiniteSet(Window(S, start))
         /\ Cardinality(Window(S, start)) \in Nat
         /\ Cardinality(Window(S, start)) <= Limit
         /\ start <= Cardinality(S) => start + Cardinality(Window(S, start)) <= Cardinality(S)
         /\ \A e \in S : Rank(S, e) < start + Cardinality(Window(S, start)) =>
              Rank(S, e) < start \/ e \in Window(S, start)
<1> DEFINE T == Window(S, start)
<1>1. T \in SUBSET S /\ \A e \in T : Rank(S, e) \in start .. start + Limit - 1
  BY DEF Window
<1>2. StrictOrder(S, ByIdIn(S)) /\ Cardinality(S) \in Nat /\ Limit \in Nat \ {0}
  BY ByIdOrders, FS_CardinalityType, ConnectorNumbers
<1>3. \A e \in S : Rank(S, e) \in Nat /\ Rank(S, e) < Cardinality(S)
  BY <1>2, RankIsBelow, RankIsInside
<1> HIDE DEF T
<1>4. /\ IsFiniteSet(T) /\ Cardinality(T) \in Nat
      /\ Cardinality(T) <= IF start > start + Limit - 1 THEN 0
                           ELSE (start + Limit - 1) - start + 1
  <2>1. \A e \in T : Cardinality(Below(S, ByIdIn(S), e)) \in start .. start + Limit - 1
    BY <1>1, RankIsBelow
  <2>2. start + Limit - 1 \in Int
    BY <1>2
  <2> QED BY <1>1, <1>2, <2>1, <2>2, SliceIsBounded
<1>5. Cardinality(T) <= Limit
  BY <1>2, <1>4
<1>6. ASSUME start <= Cardinality(S) PROVE start + Cardinality(T) <= Cardinality(S)
  <2>1. \A e \in T : Rank(S, e) \in start .. Cardinality(S) - 1
    BY <1>1, <1>2, <1>3
  <2>2. \A e \in T : Cardinality(Below(S, ByIdIn(S), e)) \in start .. Cardinality(S) - 1
    BY <1>1, <2>1, RankIsBelow
  <2>3. Cardinality(S) - 1 \in Int
    BY <1>2
  <2>4. Cardinality(T) <= IF start > Cardinality(S) - 1 THEN 0
                          ELSE (Cardinality(S) - 1) - start + 1
    BY <1>1, <1>2, <2>2, <2>3, SliceIsBounded
  <2> QED BY <1>2, <1>4, <1>6, <2>4
<1>7. ASSUME NEW e \in S, Rank(S, e) < start + Cardinality(T), ~(Rank(S, e) < start)
      PROVE  e \in T
  <2>1. Rank(S, e) \in start .. start + Limit - 1
    BY <1>2, <1>3, <1>4, <1>5, <1>7
  <2> QED BY <2>1 DEF T, Window
<1> QED BY <1>1, <1>4, <1>5, <1>6, <1>7 DEF T

\* A record withdrawn at or after a position leaves what is before it where it is.
LEMMA WithdrawnRank ==
  ASSUME NEW S \in SUBSET Published, IsFiniteSet(S), NEW e \in S,
         NEW c \in Nat, c <= Rank(S, e), NEW d \in S \ {e}, Rank(S \ {e}, d) < c
  PROVE  Rank(S, d) < c
<1>1. \A b, x \in S : /\ ~(ByExternalId(b, x) /\ ByExternalId(x, b))
                      /\ b # x => ByExternalId(b, x) \/ ByExternalId(x, b)
  <2>1. \A b, x \in S : <<b, x>> \in ByIdIn(S) <=> ByExternalId(b, x)
    BY DEF ByIdIn
  <2> QED BY <2>1, ByIdOrders DEF StrictOrder
<1>2. CASE ByExternalId(d, e)
  <2>1. {x \in S \ {e} : ByExternalId(x, d)} = {x \in S : ByExternalId(x, d)}
    BY <1>1, <1>2
  <2> QED BY <2>1 DEF Rank
<1>3. CASE ByExternalId(e, d)
  <2> DEFINE A == {x \in S : ByExternalId(x, e)}
             B == {x \in S \ {e} : ByExternalId(x, d)}
  <2>1. A \in SUBSET B
    <3>1. \A x \in S : ByExternalId(x, e) => ByExternalId(x, d)
      <4>1. \A b, x \in S : <<b, x>> \in ByIdIn(S) <=> ByExternalId(b, x)
        BY DEF ByIdIn
      <4> QED BY <1>3, <4>1, ByIdOrders DEF StrictOrder
    <3> QED BY <1>1, <3>1
  <2>2. IsFiniteSet(B)
    <3>1. B \in SUBSET S
      OBVIOUS
    <3> QED BY <3>1, FS_Subset
  <2>3. Rank(S, e) = Cardinality(A) /\ Rank(S \ {e}, d) = Cardinality(B)
    BY DEF Rank
  <2> HIDE DEF A, B
  <2>4. Cardinality(A) <= Cardinality(B) /\ Cardinality(A) \in Nat /\ Cardinality(B) \in Nat
    BY <2>1, <2>2, FS_Subset, FS_CardinalityType
  <2> QED BY <2>3, <2>4
<1> QED BY <1>1, <1>2, <1>3

\* A record published at or after a position is not before it, and what is was.
LEMMA PublishedRank ==
  ASSUME NEW S \in SUBSET Published, IsFiniteSet(S), NEW e \in Published,
         NEW c \in Nat, c <= Rank(S, e), NEW d \in S \cup {e}, Rank(S \cup {e}, d) < c
  PROVE  d \in S /\ Rank(S, d) < c
<1> DEFINE A == {x \in S : ByExternalId(x, d)}
           B == {x \in S \cup {e} : ByExternalId(x, d)}
<1>1. A \in SUBSET B /\ B \in SUBSET (S \cup {e})
  OBVIOUS
<1>2. Rank(S, d) = Cardinality(A) /\ Rank(S \cup {e}, d) = Cardinality(B)
  BY DEF Rank
<1> HIDE DEF A, B
<1>3. IsFiniteSet(S \cup {e})
  BY FS_AddElement
<1>4. Cardinality(A) <= Cardinality(B) /\ Cardinality(A) \in Nat /\ Cardinality(B) \in Nat
  BY <1>1, <1>3, FS_Subset, FS_CardinalityType
<1> QED BY <1>2, <1>4

-----------------------------------------------------------------------------
(* The inductive invariant. *)

PollingInv ==
  /\ TypeOK /\ CursorInv /\ BatchInv
  /\ NothingSkipped /\ PrefixCollected

LEMMA NothingIsNoBatch == \A b \in Batches : b # Nothing
<1> SUFFICES ASSUME NEW b \in Batches PROVE b # Nothing
  OBVIOUS
<1>1. "records" \in DOMAIN b /\ "records" \notin DOMAIN Nothing
  BY DEF Batches, Nothing
<1> QED BY <1>1

LEMMA HeldBatch ==
  ASSUME TypeOK, NEW p \in Pollers
  PROVE  /\ held[p] # Nothing => held[p] \in Batches
         /\ held[p].next \in Cursors \cup {None}
<1>1. held[p] \in Batches \cup {Nothing}
  BY DEF TypeOK
<1> QED BY <1>1 DEF Batches, Nothing

LEMMA CursorTypes ==
  ASSUME TypeOK
  PROVE  /\ connector = "rss" => Cursors = [date : Nat, id : Nat]
         /\ connector # "rss" => connector = "filing" /\ Cursors = Nat
         /\ None \notin Cursors
BY ConnectorNumbers DEF TypeOK, Cursors

LEMMA FeedInitially == Init => PollingInv
<1> SUFFICES ASSUME Init PROVE PollingInv
  OBVIOUS
<1>1. TypeOK
  BY FS_EmptySet DEF Init, TypeOK, Batches
<1>2. \A p \in Pollers : held[p] = Nothing
  BY DEF Init
<1>3. CursorInv
  <2>1. \A c \in CursorsInUse : c = None
    BY <1>2 DEF Init, CursorsInUse, Nothing
  <2> QED BY <2>1 DEF Init, CursorInv
<1>4. BatchInv
  BY <1>2 DEF BatchInv
<1> QED BY <1>1, <1>3, <1>4 DEF Init, PollingInv, NothingSkipped, PrefixCollected

\* What a fetch returns, whichever connector it asks.
LEMMA ConnectTypes ==
  ASSUME TypeOK
  PROVE  /\ Connect \in Batches
         /\ IsFiniteSet(Connect.records) /\ Cardinality(Connect.records) <= Limit
<1>1. feed \in SUBSET Published /\ IsFiniteSet(feed) /\ cursor \in Cursors \cup {None}
  BY DEF TypeOK
<1>2. CASE connector = "rss"
  <2> DEFINE b == RssBatch(feed, cursor, watermark)
  <2>1. Connect = b /\ (cursor = None \/ cursor \in [date : Nat, id : Nat])
    BY <1>1, <1>2, CursorTypes DEF Connect
  <2>2. b = [records |-> b.records, next |-> b.next]
    BY DEF RssBatch, Batch
  <2>3. /\ b.records \in SUBSET Published
        /\ IsFiniteSet(b.records) /\ Cardinality(b.records) <= Limit
        /\ b.next = cursor \/ b.next \in [date : Nat, id : Nat]
    BY <1>1, <2>1, RssFetch
  <2> HIDE DEF b
  <2> QED BY <1>1, <1>2, <2>1, <2>2, <2>3, CursorTypes DEF Batches
<1>3. CASE connector # "rss"
  <2>1. Connect = FilingBatch(feed, cursor) /\ StartOf(cursor) \in Nat
    BY <1>1, <1>3, CursorTypes DEF Connect, StartOf
  <2> DEFINE s == Window(feed, StartOf(cursor))
  <2>2. /\ s \in SUBSET Published /\ IsFiniteSet(s)
        /\ Cardinality(s) \in Nat /\ Cardinality(s) <= Limit
    BY <1>1, <2>1, WindowSelects
  <2>3. Connect = [records |-> s, next |-> StartOf(cursor) + Cardinality(s)]
    BY <2>1 DEF FilingBatch, Batch
  <2> HIDE DEF s
  <2>4. StartOf(cursor) + Cardinality(s) \in Cursors
    BY <1>3, <2>1, <2>2, CursorTypes
  <2> QED BY <2>2, <2>3, <2>4 DEF Batches
<1> QED BY <1>2, <1>3

-----------------------------------------------------------------------------
(* The steps. *)

\* Types, under every step.
LEMMA TypeStep ==
  ASSUME PollingInv, Next, UNCHANGED connector
  PROVE  TypeOK'
<1>1. TypeOK /\ connector' = connector /\ Cursors' = Cursors /\ Batches' = Batches
  BY DEF PollingInv, Cursors, Batches
<1>2. ASSUME NEW e \in Published, Publish(e) PROVE TypeOK'
  <2>1. IsFiniteSet(feed') /\ feed' \subseteq Published /\ prompt' \subseteq feed'
    BY <1>1, <1>2, FS_AddElement DEF Publish, TypeOK
  <2>2. shaken' \in BOOLEAN
    BY <1>1, <1>2 DEF Publish, TypeOK
  <2> QED BY <1>1, <1>2, <2>1, <2>2 DEF Publish, TypeOK
<1>3. ASSUME NEW e \in Published, Withdraw(e) PROVE TypeOK'
  <2>1. IsFiniteSet(feed') /\ feed' \subseteq Published /\ prompt' \subseteq feed'
    BY <1>1, <1>3, FS_RemoveElement DEF Withdraw, TypeOK
  <2>2. shaken' \in BOOLEAN
    BY <1>1, <1>3 DEF Withdraw, TypeOK
  <2> QED BY <1>1, <1>3, <2>1, <2>2 DEF Withdraw, TypeOK
<1>4. ASSUME NEW p \in Pollers, NEW batch \in Batches, IsFiniteSet(batch.records),
             Cardinality(batch.records) <= Limit, held' = [held EXCEPT ![p] = batch],
             UNCHANGED <<feed, store, cursor, watermark, stale, prompt, shaken>>
      PROVE  TypeOK'
  BY <1>1, <1>4 DEF TypeOK
<1>5. ASSUME NEW p \in Pollers, Fetch(p) PROVE TypeOK'
  <2>1. CASE held' = [held EXCEPT ![p] = Connect]
    BY <1>1, <1>4, <1>5, <2>1, ConnectTypes DEF Fetch
  <2>2. CASE UNCHANGED held
    BY <1>1, <1>5, <2>2 DEF Fetch, TypeOK
  <2> QED BY <1>5, <2>1, <2>2 DEF Fetch
<1>6. ASSUME NEW p \in Pollers, FetchNothing(p) PROVE TypeOK'
  <2>1. NotModified \in Batches
    BY DEF NotModified, Batch, Batches
  <2>2. IsFiniteSet(NotModified.records) /\ Cardinality(NotModified.records) <= Limit
    BY FS_EmptySet, ConnectorNumbers DEF NotModified, Batch
  <2> QED BY <1>4, <1>6, <2>1, <2>2 DEF FetchNothing
<1>7. ASSUME NEW p \in Pollers, FetchFails(p) PROVE TypeOK'
  BY <1>1, <1>7 DEF FetchFails, TypeOK
<1>8. ASSUME NEW p \in Pollers, held' = [held EXCEPT ![p] = Nothing]
      PROVE  /\ held' \in [Pollers -> Batches \cup {Nothing}]
             /\ \A q \in Pollers : held'[q] # Nothing =>
                  IsFiniteSet(held'[q].records) /\ Cardinality(held'[q].records) <= Limit
  BY <1>1, <1>8 DEF TypeOK
<1>9. ASSUME NEW p \in Pollers, Commit(p) PROVE TypeOK'
  <2>1. held[p] \in Batches /\ NextCursor(p) \in Cursors \cup {None}
    BY <1>1, <1>9, HeldBatch DEF Commit, NextCursor, TypeOK
  <2>2. Documents(held[p].records) \subseteq Documents(Published)
    BY <2>1 DEF Documents, Batches
  <2> QED BY <1>1, <1>8, <1>9, <2>1, <2>2 DEF Commit, TypeOK
<1>10. ASSUME NEW p \in Pollers, Refuse(p) \/ Crash(p) PROVE TypeOK'
  BY <1>1, <1>8, <1>10 DEF Refuse, Crash, TypeOK
<1> QED BY <1>2, <1>3, <1>5, <1>6, <1>7, <1>9, <1>10 DEF Next, Conclude

\* A batch dropped, or still held, stays what it was.
LEMMA DroppedBatches ==
  ASSUME PollingInv, NEW p \in Pollers, held' = [held EXCEPT ![p] = Nothing],
         stale' = stale \ {p}, UNCHANGED <<feed, store, cursor, watermark, prompt, shaken, connector>>
  PROVE  CursorInv' /\ BatchInv' /\ NothingSkipped' /\ PrefixCollected'
<1>1. \A q \in Pollers : held'[q] # Nothing => held'[q] = held[q] /\ q # p
  BY DEF PollingInv, TypeOK
<1>2. \A q \in Pollers : held'[q].next \in {held[q].next, None}
  BY <1>1 DEF PollingInv, TypeOK, Nothing
<1>3. CursorsInUse' \subseteq CursorsInUse \cup {None}
  BY <1>2 DEF CursorsInUse
<1>4. CursorInv'
  BY <1>3 DEF PollingInv, CursorInv
<1>5. BatchInv'
  <2> SUFFICES ASSUME NEW q \in Pollers, held'[q] # Nothing, q \notin stale'
               PROVE  IF connector = "rss" THEN RssBatchInv(held[q])' ELSE FilingBatchInv(held[q])'
    BY <1>1 DEF BatchInv
  <2>1. IF connector = "rss" THEN RssBatchInv(held[q]) ELSE FilingBatchInv(held[q])
    BY <1>1 DEF PollingInv, BatchInv
  <2>2. held'[q] = held[q]
    BY <1>1
  <2> QED BY <2>1, <2>2 DEF RssBatchInv, FilingBatchInv, Stored
<1> QED BY <1>4, <1>5 DEF PollingInv, NothingSkipped, PrefixCollected, Stored

\* The provider publishes: an RSS entry is promised only ahead of every cursor in use.
LEMMA RssPublishKeeps ==
  ASSUME PollingInv, connector = "rss", UNCHANGED connector, NEW e \in Published, Publish(e)
  PROVE  CursorInv' /\ BatchInv' /\ NothingSkipped'
<1>1. /\ UNCHANGED <<store, cursor, watermark, held, stale>>
      /\ \A d \in prompt' : d \in prompt \/ (d = e /\ Ahead(e))
  BY DEF Publish
<1>2. CursorInv'
  BY <1>1 DEF PollingInv, CursorInv, Ahead
<1>3. NothingSkipped'
  BY <1>1 DEF PollingInv, NothingSkipped, Ahead, CursorsInUse, Stored
<1>4. ASSUME NEW p \in Pollers, RssBatchInv(held[p]) PROVE RssBatchInv(held[p])'
  <2>1. held[p].next \in CursorsInUse
    BY DEF CursorsInUse
  <2> QED BY <1>1, <1>4, <2>1 DEF RssBatchInv, Ahead, Stored
<1>5. BatchInv'
  BY <1>1, <1>4 DEF PollingInv, BatchInv
<1> QED BY <1>2, <1>3, <1>5

LEMMA RssWithdrawKeeps ==
  ASSUME PollingInv, connector = "rss", UNCHANGED connector, NEW e \in Published, Withdraw(e)
  PROVE  CursorInv' /\ BatchInv' /\ NothingSkipped'
<1>1. /\ UNCHANGED <<store, cursor, watermark, held, stale>>
      /\ \A d \in prompt' : d \in prompt
  BY DEF Withdraw
<1>2. ASSUME NEW p \in Pollers, RssBatchInv(held[p]) PROVE RssBatchInv(held[p])'
  BY <1>1, <1>2 DEF RssBatchInv, Stored
<1>3. BatchInv'
  BY <1>1, <1>2 DEF PollingInv, BatchInv
<1> QED BY <1>1, <1>3 DEF PollingInv, CursorInv, NothingSkipped, Stored

\* A new batch: what its cursor passes is stored, or is in the batch.
LEMMA RssFetchKeeps ==
  ASSUME PollingInv, connector = "rss", UNCHANGED connector, NEW p \in Pollers,
         NEW batch, batch \in {Connect, NotModified}, held' = [held EXCEPT ![p] = batch],
         UNCHANGED <<feed, store, cursor, watermark, stale, prompt, shaken>>
  PROVE  CursorInv' /\ BatchInv' /\ NothingSkipped'
<1>1. RssBatchInv(batch)'
  <2>1. CASE batch = NotModified
    BY <2>1 DEF RssBatchInv, NotModified, Batch
  <2>2. CASE batch = Connect
    <3>1. /\ batch = RssBatch(feed, cursor, watermark)
          /\ feed \in SUBSET Published /\ IsFiniteSet(feed)
          /\ cursor = None \/ cursor \in [date : Nat, id : Nat]
      BY <2>2, CursorTypes DEF Connect, PollingInv, TypeOK
    <3> DEFINE unread == Unread(feed, cursor, watermark)
    <3>2. /\ batch.records \in SUBSET unread /\ unread \in SUBSET feed
          /\ batch.records = {} => batch.next = cursor /\ unread = {}
          /\ batch.records # {} =>
               /\ batch.next \in [date : Nat, id : Nat]
               /\ \E e \in batch.records : batch.next = Position(e)
               /\ \A e \in batch.records : ~Before(batch.next, Position(e))
               /\ \A e \in unread : ~Before(batch.next, Position(e)) =>
                    ExternalId(e) \in Ids(batch.records)
      BY <3>1, RssFetch
    <3>3. \A e \in unread : cursor # None => Before(cursor, Position(e))
      BY DEF Unread
    <3>4. \A e \in prompt : e \in unread \/ (cursor # None /\ ~Before(cursor, Position(e)))
      BY DEF PollingInv, TypeOK, CursorInv, Unread
    <3>5. \A e \in prompt : e \in unread \/ ExternalId(e) \in Stored
      BY <3>4 DEF PollingInv, NothingSkipped
    <3> HIDE DEF unread
    <3>6. CASE batch.records = {}
      <4>1. \A e \in prompt : ExternalId(e) \in Stored
        BY <3>2, <3>5, <3>6
      <4> QED BY <3>2, <3>6, <4>1 DEF RssBatchInv, Stored
    <3>7. CASE batch.records # {}
      <4>1. batch.next # None /\ (cursor # None => Before(cursor, batch.next))
        BY <3>2, <3>3, <3>7, ConnectorNumbers
      <4>2. \A e \in batch.records : /\ cursor # None => Before(cursor, Position(e))
                                     /\ ~Before(batch.next, Position(e))
        BY <3>2, <3>3, <3>7
      <4>3. \A e \in prompt : ~Before(batch.next, Position(e)) =>
              ExternalId(e) \in Stored \cup Ids(batch.records)
        BY <3>2, <3>5, <3>7
      <4> QED BY <3>7, <4>1, <4>2, <4>3 DEF RssBatchInv, Stored
    <3> QED BY <3>6, <3>7
  <2> QED BY <2>1, <2>2
<1>2. \A q \in Pollers : held'[q] = IF q = p THEN batch ELSE held[q]
  BY DEF PollingInv, TypeOK
<1>3. ASSUME NEW q \in Pollers, RssBatchInv(held[q]) PROVE RssBatchInv(held[q])' \/ q = p
  BY <1>2, <1>3 DEF RssBatchInv, Stored
<1>4. BatchInv'
  BY <1>1, <1>2, <1>3 DEF PollingInv, BatchInv
<1> QED BY <1>4 DEF PollingInv, CursorInv, NothingSkipped, Stored

LEMMA CommittedIds ==
  ASSUME NEW records, store' = store \cup Documents(records)
  PROVE  Stored' = Stored \cup Ids(records)
<1>1. \A d \in Documents(records) : d.id \in Ids(records)
  BY DEF Documents, Ids
<1>2. ASSUME NEW i \in Ids(records) PROVE i \in Stored'
  <2>1. PICK e \in records : i = ExternalId(e)
    BY DEF Ids
  <2>2. [id |-> ExternalId(e), entry |-> e] \in store'
    BY DEF Documents
  <2> QED BY <2>1, <2>2 DEF Stored
<1>3. \A i \in Stored : i \in Stored'
  BY DEF Stored
<1>4. \A i \in Stored' : i \in Stored \cup Ids(records)
  BY <1>1 DEF Stored
<1> QED BY <1>2, <1>3, <1>4

LEMMA RssCommitKeeps ==
  ASSUME PollingInv, connector = "rss", UNCHANGED connector, NEW p \in Pollers, Commit(p)
  PROVE  CursorInv' /\ BatchInv' /\ NothingSkipped'
<1> DEFINE next == held[p].next
           records == held[p].records
<1>1. /\ store' = store \cup Documents(records) /\ cursor' = NextCursor(p)
      /\ UNCHANGED <<watermark, prompt>>
      /\ \A q \in Pollers : held'[q] # Nothing => q \in stale'
  BY DEF Commit, PollingInv, TypeOK
<1>2. RssBatchInv(held[p])
  BY DEF PollingInv, BatchInv, Commit, Accepted
<1>3. /\ held[p] \in Batches /\ records \in SUBSET Published
      /\ next = None \/ next \in [date : Nat, id : Nat]
      /\ cursor = None \/ cursor \in [date : Nat, id : Nat]
      /\ \A d \in store : d \in Documents(Published)
  BY HeldBatch, CursorTypes DEF Commit, PollingInv, TypeOK, Batches
<1>4. BatchInv'
  BY <1>1 DEF BatchInv
<1>5. Stored' = Stored \cup Ids(records)
  BY <1>1, CommittedIds
<1>6. CASE records = {}
  <2>1. cursor' = cursor /\ store' = store
    BY <1>1, <1>2, <1>6 DEF RssBatchInv, NextCursor, Documents
  <2> QED BY <1>1, <1>4, <2>1 DEF PollingInv, CursorInv, NothingSkipped, Stored
<1>7. CASE records # {}
  <2>1. cursor' = next /\ next # None /\ (cursor # None => Before(cursor, next))
    BY <1>1, <1>2, <1>7 DEF RssBatchInv, NextCursor
  <2>2. ASSUME NEW d \in store' PROVE ~Before(next, Position(d.entry))
    <3>1. CASE d \in store
      <4>1. cursor # None /\ ~Before(cursor, Position(d.entry)) /\ d.entry \in Published
        BY <1>3, <3>1 DEF PollingInv, CursorInv, Documents
      <4>2. Position(d.entry) \in [date : Nat, id : Nat]
        BY <4>1, EntryTypes
      <4> QED BY <1>3, <2>1, <4>1, <4>2, BeforeOrders
    <3>2. CASE d \in Documents(records)
      BY <1>2, <3>2 DEF RssBatchInv, Documents
    <3> QED BY <1>1, <3>1, <3>2
  <2>3. CursorInv'
    BY <1>1, <2>1, <2>2 DEF PollingInv, CursorInv
  <2>4. NothingSkipped'
    BY <1>1, <1>2, <1>5, <2>1 DEF RssBatchInv, NothingSkipped
  <2> QED BY <1>4, <2>3, <2>4
<1> QED BY <1>6, <1>7

\* A filing cursor counts; what the provider adds or removes behind every cursor in use
\* leaves what they count alone.
LEMMA FilingProviderKeeps ==
  ASSUME PollingInv, connector = "filing", UNCHANGED connector, NEW e \in Published,
         Publish(e) \/ Withdraw(e)
  PROVE  CursorInv' /\ BatchInv' /\ PrefixCollected'
<1>1. /\ UNCHANGED <<store, cursor, watermark, held, stale>> /\ prompt' = {}
      /\ shaken' = (shaken \/ Shifts(e))
      /\ e \in feed => feed' = feed \ {e}
      /\ e \notin feed => feed' = feed \cup {e}
  BY DEF Publish, Withdraw, PollingInv, CursorInv
<1>2. /\ feed \in SUBSET Published /\ IsFiniteSet(feed) /\ Cardinality(feed) \in Nat
      /\ Rank(feed, e) \in Nat /\ cursor \in Nat \cup {None}
  BY RankIsBelow, CursorTypes, FS_CardinalityType DEF PollingInv, TypeOK
<1>3. CursorsInUse' = CursorsInUse /\ CursorsInUse \subseteq Nat \cup {None}
  <2>1. \A p \in Pollers : held[p].next \in Nat \cup {None}
    BY HeldBatch, CursorTypes DEF PollingInv
  <2> QED BY <1>1, <1>2, <2>1 DEF CursorsInUse
<1>4. CASE shaken'
  <2>1. ASSUME NEW p \in Pollers, FilingBatchInv(held[p]) PROVE FilingBatchInv(held[p])'
    BY <1>1, <1>4, <2>1 DEF FilingBatchInv
  <2>2. BatchInv'
    BY <1>1, <2>1 DEF PollingInv, BatchInv
  <2> QED BY <1>1, <1>4, <2>2 DEF CursorInv, PrefixCollected
<1>5. CASE ~shaken'
  <2>1. ~shaken /\ ~Shifts(e)
    BY <1>1, <1>5
  <2>2. \A c \in CursorsInUse : c # None => c \in Nat /\ c <= Cardinality(feed)
    BY <1>3, <2>1 DEF PollingInv, CursorInv
  <2>3. \A c \in CursorsInUse : c # None => c <= Rank(feed, e)
    BY <1>2, <2>1, <2>2 DEF Shifts
  <2>4. ASSUME NEW c \in CursorsInUse, c # None, NEW d \in feed', Rank(feed', d) < c
        PROVE  d \in feed /\ Rank(feed, d) < c
    <3>1. c \in Nat /\ c <= Rank(feed, e)
      BY <2>2, <2>3, <2>4
    <3>2. CASE e \in feed
      <4>1. d \in feed \ {e} /\ Rank(feed \ {e}, d) < c
        BY <1>1, <2>4, <3>2
      <4> QED BY <1>2, <3>1, <3>2, <4>1, WithdrawnRank
    <3>3. CASE e \notin feed
      <4>1. d \in feed \cup {e} /\ Rank(feed \cup {e}, d) < c
        BY <1>1, <2>4, <3>3
      <4> QED BY <1>2, <3>1, <4>1, PublishedRank
    <3> QED BY <3>2, <3>3
  <2>5. \A c \in CursorsInUse : c # None => c <= Cardinality(feed')
    <3>1. CASE e \in feed
      <4>1. Rank(feed, e) < Cardinality(feed)
        BY <1>2, <3>1, ByIdOrders, RankIsBelow, RankIsInside
      <4>2. Cardinality(feed') = Cardinality(feed) - 1
        BY <1>1, <1>2, <3>1, FS_RemoveElement
      <4> QED BY <1>2, <2>2, <2>3, <4>1, <4>2
    <3>2. CASE e \notin feed
      <4>1. Cardinality(feed') = Cardinality(feed) + 1
        BY <1>1, <1>2, <3>2, FS_AddElement
      <4> QED BY <1>2, <2>2, <4>1
    <3> QED BY <3>1, <3>2
  <2>6. CursorInv'
    BY <1>1, <1>3, <2>5 DEF CursorInv
  <2>7. PrefixCollected'
    <3> SUFFICES ASSUME NEW d \in feed', Rank(feed', d) < StartOf(cursor)
                 PROVE  ExternalId(d) \in Stored
      BY <1>1 DEF PrefixCollected, Stored
    <3>1. cursor # None /\ cursor \in CursorsInUse
      <4>1. Rank(feed', d) \in Nat
        BY <1>1, <1>2, RankIsBelow, FS_AddElement, FS_RemoveElement
      <4> QED BY <4>1 DEF StartOf, CursorsInUse
    <3>2. d \in feed /\ Rank(feed, d) < cursor
      BY <2>4, <3>1 DEF StartOf
    <3> QED BY <2>1, <3>1, <3>2 DEF PollingInv, PrefixCollected, StartOf
  <2>8. ASSUME NEW p \in Pollers, held[p] # Nothing, FilingBatchInv(held[p])
        PROVE  FilingBatchInv(held[p])'
    <3>1. held[p].next \in CursorsInUse
      BY DEF CursorsInUse
    <3>2. held[p].next # None
      <4>1. Cardinality(held[p].records) \in Nat /\ StartOf(cursor) \in Nat
        BY <1>2, <2>8, FS_CardinalityType DEF PollingInv, TypeOK, StartOf
      <4> QED BY <2>8, <4>1, ConnectorNumbers DEF FilingBatchInv
    <3>3. \A d \in feed' : Rank(feed', d) < held[p].next =>
            d \in feed /\ Rank(feed, d) < held[p].next
      BY <2>4, <3>1, <3>2
    <3> QED BY <1>1, <2>1, <2>8, <3>3 DEF FilingBatchInv, Stored
  <2>9. BatchInv'
    BY <1>1, <2>8 DEF PollingInv, BatchInv
  <2> QED BY <2>6, <2>7, <2>9
<1> QED BY <1>4, <1>5

LEMMA FilingFetchKeeps ==
  ASSUME PollingInv, connector = "filing", UNCHANGED connector, NEW p \in Pollers,
         held' = [held EXCEPT ![p] = Connect],
         UNCHANGED <<feed, store, cursor, watermark, stale, prompt, shaken>>
  PROVE  CursorInv' /\ BatchInv' /\ PrefixCollected'
<1> DEFINE start == StartOf(cursor)
           selected == Window(feed, start)
<1>1. /\ Connect.records = selected /\ Connect.next = start + Cardinality(selected)
      /\ feed \in SUBSET Published /\ IsFiniteSet(feed) /\ start \in Nat
  BY CursorTypes DEF Connect, FilingBatch, Batch, PollingInv, TypeOK, StartOf
<1>2. /\ Cardinality(selected) \in Nat
      /\ start <= Cardinality(feed) => start + Cardinality(selected) <= Cardinality(feed)
      /\ \A e \in feed : Rank(feed, e) < start + Cardinality(selected) =>
           Rank(feed, e) < start \/ e \in selected
  BY <1>1, WindowSelects
<1>3. \A q \in Pollers : held'[q] = IF q = p THEN Connect ELSE held[q]
  BY DEF PollingInv, TypeOK
<1> HIDE DEF start, selected
<1>4. FilingBatchInv(Connect)'
  <2>1. ASSUME ~shaken, NEW e \in feed, Rank(feed, e) < start + Cardinality(selected)
        PROVE  ExternalId(e) \in Stored \cup Ids(selected)
    <3>1. CASE Rank(feed, e) < start
      BY <2>1, <3>1 DEF PollingInv, PrefixCollected, start
    <3>2. CASE e \in selected
      BY <3>2 DEF Ids
    <3> QED BY <1>2, <2>1, <3>1, <3>2
  <2>2. Connect' = Connect
    BY DEF Connect
  <2> QED BY <1>1, <2>1, <2>2 DEF FilingBatchInv, Stored, start
<1>5. CursorInv'
  <2>1. ASSUME ~shaken, NEW c \in CursorsInUse', c # None PROVE c <= Cardinality(feed)
    <3>1. c \in CursorsInUse \/ c = Connect.next
      BY <1>3 DEF CursorsInUse
    <3>2. start <= Cardinality(feed)
      <4>1. cursor # None => cursor <= Cardinality(feed)
        BY <2>1 DEF PollingInv, CursorInv, CursorsInUse
      <4>2. Cardinality(feed) \in Nat
        BY <1>1, FS_CardinalityType
      <4> QED BY <4>1, <4>2 DEF start, StartOf
    <3> QED BY <1>1, <1>2, <2>1, <3>1, <3>2 DEF PollingInv, CursorInv
  <2> QED BY <2>1 DEF PollingInv, CursorInv
<1>6. ASSUME NEW q \in Pollers, q # p, FilingBatchInv(held[q]) PROVE FilingBatchInv(held[q])'
  BY <1>3, <1>6 DEF FilingBatchInv, Stored
<1>7. FilingBatchInv(held[p])'
  <2>1. held'[p] = Connect /\ Connect' = Connect
    BY <1>3 DEF Connect
  <2> QED BY <1>4, <2>1 DEF FilingBatchInv
<1>8. BatchInv'
  BY <1>3, <1>6, <1>7 DEF PollingInv, BatchInv
<1> QED BY <1>5, <1>8 DEF PollingInv, PrefixCollected, Stored

LEMMA FilingCommitKeeps ==
  ASSUME PollingInv, connector = "filing", UNCHANGED connector, NEW p \in Pollers, Commit(p)
  PROVE  CursorInv' /\ BatchInv' /\ PrefixCollected'
<1> DEFINE next == held[p].next
           records == held[p].records
<1>1. /\ store' = store \cup Documents(records) /\ cursor' = NextCursor(p)
      /\ UNCHANGED <<feed, watermark, prompt, shaken>>
      /\ \A q \in Pollers : held'[q] # Nothing => q \in stale'
      /\ \A q \in Pollers : held'[q] = IF q = p THEN Nothing ELSE held[q]
  BY DEF Commit, PollingInv, TypeOK
<1>2. FilingBatchInv(held[p]) /\ held[p] # Nothing
  BY DEF PollingInv, BatchInv, Commit, Accepted
<1>3. /\ Cardinality(records) \in Nat /\ StartOf(cursor) \in Nat
  BY <1>2, CursorTypes, FS_CardinalityType DEF PollingInv, TypeOK, StartOf
<1>4. next \in Nat /\ next # None /\ cursor' = next
  BY <1>1, <1>2, <1>3, ConnectorNumbers DEF FilingBatchInv, NextCursor
<1>5. BatchInv'
  BY <1>1 DEF BatchInv
<1>6. CursorsInUse' \subseteq CursorsInUse \cup {None}
  BY <1>1, <1>4 DEF CursorsInUse, Nothing
<1>7. CursorInv'
  BY <1>1, <1>6 DEF PollingInv, CursorInv
<1>8. Stored' = Stored \cup Ids(records)
  BY <1>1, CommittedIds
<1>9. PrefixCollected'
  BY <1>1, <1>2, <1>4, <1>8 DEF FilingBatchInv, PrefixCollected, StartOf
<1> QED BY <1>5, <1>7, <1>9

LEMMA PollingStep == PollingInv /\ [Next /\ UNCHANGED connector]_<<vars, connector>> => PollingInv'
<1> SUFFICES ASSUME PollingInv, [Next /\ UNCHANGED connector]_<<vars, connector>>
             PROVE  PollingInv'
  OBVIOUS
<1>1. CASE UNCHANGED <<vars, connector>>
  BY <1>1 DEF vars, PollingInv, TypeOK, CursorInv, CursorsInUse, BatchInv, RssBatchInv,
     FilingBatchInv, NothingSkipped, PrefixCollected, Stored, Cursors, Batches
<1>2. CASE Next /\ UNCHANGED connector
  <2>1. TypeOK' /\ connector \in {"rss", "filing"} /\ connector' = connector
    BY <1>2, TypeStep DEF PollingInv, TypeOK
  <2>2. ASSUME NEW p \in Pollers, FetchFails(p) \/ (Fetch(p) /\ UNCHANGED held)
        PROVE  CursorInv' /\ BatchInv' /\ NothingSkipped' /\ PrefixCollected'
    BY <2>1, <2>2 DEF FetchFails, Fetch, PollingInv, CursorInv, CursorsInUse, BatchInv,
       RssBatchInv, FilingBatchInv, NothingSkipped, PrefixCollected, Stored
  <2>3. ASSUME NEW p \in Pollers, Refuse(p) \/ Crash(p)
        PROVE  CursorInv' /\ BatchInv' /\ NothingSkipped' /\ PrefixCollected'
    BY <2>1, <2>3, DroppedBatches DEF Refuse, Crash
  <2>4. ASSUME NEW p \in Pollers, Fetch(p)
        PROVE  UNCHANGED held \/ held' = [held EXCEPT ![p] = Connect]
    BY <2>4 DEF Fetch
  <2>5. CASE connector = "rss"
    <3>1. PrefixCollected'
      BY <2>1, <2>5 DEF PrefixCollected
    <3>2. ASSUME NEW p \in Pollers, Fetch(p) \/ FetchNothing(p)
          PROVE  CursorInv' /\ BatchInv' /\ NothingSkipped'
      BY <2>1, <2>2, <2>4, <2>5, <3>2, RssFetchKeeps DEF Fetch, FetchNothing
    <3>3. CursorInv' /\ BatchInv' /\ NothingSkipped'
      BY <1>2, <2>1, <2>2, <2>3, <2>5, <3>2, RssPublishKeeps, RssWithdrawKeeps, RssCommitKeeps
         DEF Next, Conclude
    <3> QED BY <2>1, <3>1, <3>3 DEF PollingInv
  <2>6. CASE connector = "filing"
    <3>1. ASSUME NEW p \in Pollers, Fetch(p) PROVE CursorInv' /\ BatchInv' /\ PrefixCollected'
      BY <2>1, <2>2, <2>4, <2>6, <3>1, FilingFetchKeeps DEF Fetch
    <3>2. CursorInv' /\ BatchInv' /\ PrefixCollected'
      BY <1>2, <2>1, <2>2, <2>3, <2>6, <3>1, FilingProviderKeeps, FilingCommitKeeps
         DEF Next, Conclude, FetchNothing
    <3>3. NothingSkipped'
      BY <2>1, <2>6, <3>2 DEF CursorInv, NothingSkipped
    <3> QED BY <2>1, <3>2, <3>3 DEF PollingInv
  <2> QED BY <2>1, <2>5, <2>6
<1> QED BY <1>1, <1>2

-----------------------------------------------------------------------------
(* Theorems. *)

\* A batch built on the current checkpoint starts behind everything that is stored.
LEMMA FetchedOnce == PollingInv => NothingTwice
<1> SUFFICES ASSUME PollingInv, NEW p \in Pollers, connector = "rss", held[p] # Nothing,
                    p \notin stale, NEW d \in Documents(held[p].records), d \in store
             PROVE  FALSE
  BY DEF NothingTwice
<1>1. RssBatchInv(held[p])
  BY DEF PollingInv, BatchInv
<1>2. cursor # None /\ ~Before(cursor, Position(d.entry))
  BY DEF PollingInv, CursorInv
<1>3. d.entry \in held[p].records
  BY DEF Documents
<1> QED BY <1>1, <1>2, <1>3 DEF RssBatchInv

LEMMA PollingHolds == Spec => []PollingInv
BY FeedInitially, PollingStep, PTL DEF Spec

\* For every feed, limit and number of pollers: what a fetch returns and a cursor counts,
\* the RSS entries behind the cursor and the filings of its prefix (rss.py:153,
\* filing_fixture.py:44).
THEOREM FeedIsCollected == Spec => []FeedInv
<1>1. PollingInv => FeedInv
  BY FetchedOnce DEF PollingInv, FeedInv
<1> QED BY <1>1, PollingHolds, PTL

\* No poll steps over an RSS entry that was published ahead of every cursor in use:
\* neither the limit, nor a refused commit, nor equal dates (rss.py:160).
THEOREM NothingIsSkipped == Spec => []NothingSkipped
<1>1. PollingInv => NothingSkipped
  BY DEF PollingInv
<1> QED BY <1>1, PollingHolds, PTL

LEMMA CursorAdvances ==
  ASSUME PollingInv, NEW p \in Pollers, Commit(p), cursor # None, cursor' # cursor
  PROVE  IF connector = "rss" THEN Before(cursor, cursor') ELSE cursor < cursor'
<1>1. cursor' = NextCursor(p) /\ held[p] # Nothing /\ p \notin stale
  BY DEF Commit, Accepted
<1>2. CASE connector = "rss"
  <2>1. RssBatchInv(held[p])
    BY <1>1, <1>2 DEF PollingInv, BatchInv
  <2> QED BY <1>1, <1>2, <2>1 DEF RssBatchInv, NextCursor
<1>3. CASE connector # "rss"
  <2>1. held[p].next = cursor + Cardinality(held[p].records)
    BY <1>1, <1>3 DEF PollingInv, BatchInv, FilingBatchInv, StartOf
  <2>2. Cardinality(held[p].records) \in Nat /\ cursor \in Nat
    BY <1>1, <1>3, CursorTypes, FS_CardinalityType DEF PollingInv, TypeOK
  <2> QED BY <1>1, <1>3, <2>1, <2>2 DEF NextCursor
<1> QED BY <1>2, <1>3

\* No commit moves the cursor back, whichever poller it belongs to
\* (checkpoints.py:92).
THEOREM CursorOnlyAdvances == Spec => CursorNeverGoesBack
<1>1. ASSUME PollingInv, [Next /\ UNCHANGED connector]_<<vars, connector>>,
             cursor # None, cursor' # cursor
      PROVE  IF connector = "rss" THEN Before(cursor, cursor') ELSE cursor < cursor'
  <2>1. \E p \in Pollers : Commit(p)
    BY <1>1 DEF vars, Next, Publish, Withdraw, Fetch, FetchNothing, FetchFails, Conclude,
       Refuse, Crash
  <2> QED BY <1>1, <2>1, CursorAdvances
<1>2. PollingInv /\ [Next /\ UNCHANGED connector]_<<vars, connector>> =>
        [cursor # None /\ cursor' # cursor
           => IF connector = "rss" THEN Before(cursor, cursor') ELSE cursor < cursor']_vars
  BY <1>1
<1> QED BY <1>2, PollingHolds, PTL DEF Spec, CursorNeverGoesBack

-----------------------------------------------------------------------------
(* A jammed source. *)

\* A batch that is refused, or has no records.
Idle(p) == held[p] # Nothing => p \in stale \/ held[p].records = {} \/ Clashes(p) # {}

\* A commit out of a jam changes nothing a fetch depends on.
LEMMA IdleCommit ==
  ASSUME PollingInv, NEW p \in Pollers, Commit(p), Idle(p)
  PROVE  /\ store' = store
         /\ IF connector = "rss" THEN cursor' = cursor ELSE StartOf(cursor') = StartOf(cursor)
<1>1. /\ held[p] # Nothing /\ p \notin stale /\ held[p].records = {}
      /\ cursor' = NextCursor(p) /\ store' = store \cup Documents(held[p].records)
  BY DEF Commit, Accepted, Idle
<1>2. store' = store
  BY <1>1 DEF Documents
<1>3. CASE connector = "rss"
  <2>1. RssBatchInv(held[p])
    BY <1>1, <1>3 DEF PollingInv, BatchInv
  <2> QED BY <1>1, <1>2, <1>3, <2>1 DEF RssBatchInv, NextCursor
<1>4. CASE connector # "rss"
  <2>1. held[p].next = StartOf(cursor) + 0 /\ StartOf(cursor) \in Nat
    BY <1>1, <1>4, CursorTypes, FS_EmptySet
       DEF PollingInv, TypeOK, BatchInv, FilingBatchInv, StartOf
  <2>2. cursor' = StartOf(cursor)
    BY <1>1, <2>1, ConnectorNumbers DEF NextCursor
  <2> QED BY <1>2, <1>4, <2>1, <2>2, ConnectorNumbers DEF StartOf
<1> QED BY <1>3, <1>4

LEMMA JamStays ==
  ASSUME PollingInv, [Next /\ UNCHANGED connector]_<<vars, connector>>, feed' = feed, Jammed
  PROVE  store' = store /\ Jammed'
<1>1. /\ \A p \in Pollers : Idle(p)
      /\ Unreadable(Connect) \/ Repeats(Connect.records) \/ Ids(Connect.records) \cap Stored # {}
  BY DEF Jammed, Idle
<1>2. ASSUME store' = store, \A p \in Pollers : Idle(p)', Connect' = Connect,
             connector' = connector
      PROVE  store' = store /\ Jammed'
  <2>1. Stored' = Stored /\ Unreadable(Connect)' = Unreadable(Connect)
    BY <1>2 DEF Stored, Unreadable
  <2> QED BY <1>1, <1>2, <2>1 DEF Jammed, Idle
<1>3. ASSUME UNCHANGED <<cursor, watermark, connector>> PROVE Connect' = Connect
  BY <1>3 DEF Connect
<1>4. CASE UNCHANGED <<vars, connector>>
  <2>1. \A p \in Pollers : Idle(p)'
    BY <1>1, <1>4 DEF vars, Idle, Clashes, Stored
  <2> QED BY <1>2, <1>3, <1>4, <2>1 DEF vars
<1>5. ASSUME NEW e \in Published, Publish(e) \/ Withdraw(e), UNCHANGED connector PROVE FALSE
  BY <1>5 DEF Publish, Withdraw
<1>6. ASSUME NEW p \in Pollers, Fetch(p), UNCHANGED connector PROVE store' = store /\ Jammed'
  <2>1. UNCHANGED <<cursor, watermark, connector, store, stale>>
    BY <1>6 DEF Fetch
  <2>2. ASSUME held' = [held EXCEPT ![p] = Connect],
               ~Unreadable(Connect), ~Repeats(Connect.records)
        PROVE  \A q \in Pollers : Idle(q)'
    <3>1. PICK i \in Ids(Connect.records) : i \in Stored
      BY <1>1, <2>2
    <3>2. PICK d \in Documents(Connect.records) : d.id = i
      <4>1. PICK e \in Connect.records : i = ExternalId(e)
        BY DEF Ids
      <4>2. [id |-> ExternalId(e), entry |-> e] \in Documents(Connect.records)
        BY DEF Documents
      <4> QED BY <4>1, <4>2
    <3>3. held'[p] = Connect /\ \A q \in Pollers \ {p} : held'[q] = held[q]
      BY <2>2 DEF PollingInv, TypeOK
    <3>4. d \in Clashes(p)'
      BY <2>1, <3>1, <3>2, <3>3 DEF Clashes, Stored
    <3>5. \A q \in Pollers \ {p} : Idle(q)'
      BY <1>1, <2>1, <3>3 DEF Idle, Clashes, Stored
    <3> QED BY <3>4, <3>5 DEF Idle
  <2>3. ASSUME UNCHANGED held PROVE \A q \in Pollers : Idle(q)'
    BY <1>1, <2>1, <2>3 DEF Idle, Clashes, Stored
  <2>4. \A q \in Pollers : Idle(q)'
    BY <1>6, <2>2, <2>3 DEF Fetch
  <2> QED BY <1>2, <1>3, <2>1, <2>4
<1>7. ASSUME NEW p \in Pollers, FetchNothing(p) \/ FetchFails(p), UNCHANGED connector
      PROVE  store' = store /\ Jammed'
  <2>1. UNCHANGED <<cursor, watermark, connector, store, stale>>
    BY <1>7 DEF FetchNothing, FetchFails
  <2>2. \A q \in Pollers : held'[q] = held[q] \/ held'[q] = NotModified
    BY <1>7 DEF FetchNothing, FetchFails, PollingInv, TypeOK
  <2>3. \A q \in Pollers : Idle(q)'
    BY <1>1, <2>1, <2>2 DEF Idle, Clashes, Stored, NotModified, Batch
  <2> QED BY <1>2, <1>3, <2>1, <2>3
<1>8. ASSUME NEW p \in Pollers, Refuse(p) \/ Crash(p), UNCHANGED connector
      PROVE  store' = store /\ Jammed'
  <2>1. /\ UNCHANGED <<cursor, watermark, connector, store>>
        /\ stale' = stale \ {p} /\ held' = [held EXCEPT ![p] = Nothing]
    BY <1>8 DEF Refuse, Crash
  <2>2. \A q \in Pollers : held'[q] = IF q = p THEN Nothing ELSE held[q]
    BY <2>1 DEF PollingInv, TypeOK
  <2>3. \A q \in Pollers : Idle(q)'
    BY <1>1, <2>1, <2>2 DEF Idle, Clashes, Stored
  <2> QED BY <1>2, <1>3, <2>1, <2>3
<1>9. ASSUME NEW p \in Pollers, Commit(p), UNCHANGED connector
      PROVE  store' = store /\ Jammed'
  <2>1. /\ store' = store
        /\ IF connector = "rss" THEN cursor' = cursor ELSE StartOf(cursor') = StartOf(cursor)
    BY <1>1, <1>9, IdleCommit
  <2>2. Connect' = Connect
    BY <1>9, <2>1 DEF Commit, Connect, FilingBatch
  <2>3. \A q \in Pollers : held'[q] # Nothing => q \in stale'
    BY <1>9 DEF Commit, PollingInv, TypeOK
  <2>4. \A q \in Pollers : Idle(q)'
    BY <2>3 DEF Idle
  <2> QED BY <1>2, <1>9, <2>1, <2>2, <2>4
<1> QED BY <1>4, <1>5, <1>6, <1>7, <1>8, <1>9 DEF Next, Conclude

\* A source whose next batch is unreadable, ambiguous or holds an id that is stored
\* stays stuck, whatever is polled, refused or restarted, until the provider changes
\* the feed (collection.py:36).
THEOREM JamsStay == Spec => JamIsStable
<1>1. PollingInv /\ [Next /\ UNCHANGED connector]_<<vars, connector>> =>
        [feed' = feed /\ Jammed => store' = store /\ Jammed']_vars
  BY JamStays
<1> QED BY <1>1, PollingHolds, PTL DEF Spec, JamIsStable
=============================================================================
