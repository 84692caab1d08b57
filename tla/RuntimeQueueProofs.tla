-------------------------- MODULE RuntimeQueueProofs --------------------------
(***************************************************************************)
(* Theorems about RuntimeQueue for every value of its constants.           *)
(***************************************************************************)
EXTENDS RuntimeQueue, FiniteSetTheorems, SequenceTheorems, TLAPS

-----------------------------------------------------------------------------
(* Buckets: sequences of item numbers in increasing order. *)

LEMMA AppendIncreasing ==
  ASSUME NEW s \in Seq(Nat), NEW n \in Nat, Increasing(s),
         \A k \in DOMAIN s : s[k] < n
  PROVE  /\ Append(s, n) \in Seq(Nat)
         /\ Increasing(Append(s, n))
         /\ ToSet(Append(s, n)) = ToSet(s) \cup {n}
<1> DEFINE t == Append(s, n)
<1>1. /\ t \in Seq(Nat) /\ Len(t) = Len(s) + 1
      /\ \A k \in 1 .. Len(s) : t[k] = s[k]
      /\ t[Len(s) + 1] = n
  OBVIOUS
<1>2. DOMAIN t = DOMAIN s \cup {Len(s) + 1} /\ DOMAIN s = 1 .. Len(s)
  BY <1>1
<1>3. Increasing(t)
  BY <1>1, <1>2 DEF Increasing
<1>4. ToSet(t) = ToSet(s) \cup {n}
  BY <1>1, <1>2 DEF ToSet
<1> QED
  BY <1>1, <1>3, <1>4

LEMMA TailIncreasing ==
  ASSUME NEW s \in Seq(Nat), Increasing(s), s # <<>>
  PROVE  /\ Tail(s) \in Seq(Nat)
         /\ Increasing(Tail(s))
         /\ Head(s) \in ToSet(s)
         /\ ToSet(Tail(s)) = ToSet(s) \ {Head(s)}
         /\ \A k \in DOMAIN Tail(s) : Head(s) < Tail(s)[k]
<1> DEFINE t == Tail(s)
<1>1. /\ t \in Seq(Nat) /\ Len(t) = Len(s) - 1 /\ Len(s) > 0
      /\ \A k \in 1 .. Len(t) : t[k] = s[k + 1]
      /\ Head(s) = s[1]
  OBVIOUS
<1>2. DOMAIN t = 1 .. Len(t) /\ DOMAIN s = 1 .. Len(s) /\ 1 \in DOMAIN s
  BY <1>1
<1>3. Increasing(t)
  BY <1>1, <1>2 DEF Increasing
<1>4. \A k \in DOMAIN t : Head(s) < t[k]
  BY <1>1, <1>2 DEF Increasing
<1>5. ToSet(t) = ToSet(s) \ {Head(s)}
  <2>1. ASSUME NEW x \in ToSet(t) PROVE x \in ToSet(s) \ {Head(s)}
    <3>1. PICK k \in DOMAIN t : x = t[k]
      BY DEF ToSet
    <3>2. k + 1 \in DOMAIN s /\ t[k] = s[k + 1] /\ t[k] \in Nat /\ s[1] \in Nat
      BY <1>1, <1>2
    <3> QED
      BY <1>1, <1>4, <3>1, <3>2 DEF ToSet
  <2>2. ASSUME NEW x \in ToSet(s) \ {Head(s)} PROVE x \in ToSet(t)
    <3>1. PICK k \in DOMAIN s : x = s[k]
      BY DEF ToSet
    <3>2. k - 1 \in DOMAIN t /\ t[k - 1] = s[k]
      BY <1>1, <1>2, <3>1
    <3> QED
      BY <3>1, <3>2 DEF ToSet
  <2> QED
    BY <2>1, <2>2
<1> QED
  BY <1>1, <1>2, <1>3, <1>4, <1>5 DEF ToSet

LEMMA RemoveAtFacts ==
  ASSUME NEW s \in Seq(Nat), NEW k \in 1 .. Len(s)
  PROVE  /\ RemoveAt(s, k) \in Seq(Nat)
         /\ Len(RemoveAt(s, k)) = Len(s) - 1
         /\ \A l \in 1 .. Len(s) - 1 :
              RemoveAt(s, k)[l] = IF l < k THEN s[l] ELSE s[l + 1]
<1> DEFINE a == SubSeq(s, 1, k - 1)
           b == SubSeq(s, k + 1, Len(s))
<1>1. Len(s) \in Nat /\ k \in Nat /\ k >= 1 /\ k <= Len(s)
  OBVIOUS
<1>2. /\ a \in Seq(Nat) /\ Len(a) = k - 1
      /\ \A l \in 1 .. k - 1 : a[l] = s[l]
  BY <1>1
<1>3. /\ b \in Seq(Nat) /\ Len(b) = Len(s) - k
      /\ \A l \in 1 .. Len(s) - k : b[l] = s[l + k]
  BY <1>1
<1>4. /\ a \o b \in Seq(Nat) /\ Len(a \o b) = Len(s) - 1
      /\ \A l \in 1 .. Len(s) - 1 :
           (a \o b)[l] = IF l <= k - 1 THEN a[l] ELSE b[l - (k - 1)]
  <2> HIDE DEF a, b
  <2>1. /\ a \o b \in Seq(Nat)
        /\ Len(a \o b) = Len(a) + Len(b)
        /\ \A l \in 1 .. Len(a) + Len(b) :
             (a \o b)[l] = IF l <= Len(a) THEN a[l] ELSE b[l - Len(a)]
    BY <1>2, <1>3, ConcatProperties
  <2>2. Len(a) + Len(b) = Len(s) - 1
    BY <1>1, <1>2, <1>3
  <2> QED
    BY <1>2, <2>1, <2>2
<1>5. RemoveAt(s, k) = a \o b
  BY DEF RemoveAt
<1>6. ASSUME NEW l \in 1 .. Len(s) - 1
      PROVE  RemoveAt(s, k)[l] = IF l < k THEN s[l] ELSE s[l + 1]
  <2> HIDE DEF a, b
  <2>1. CASE l < k
    BY <1>1, <1>2, <1>4, <1>5, <2>1
  <2>2. CASE ~ (l < k)
    <3>1. l - (k - 1) \in 1 .. Len(s) - k /\ (l - (k - 1)) + k = l + 1
      BY <1>1, <2>2
    <3>2. (a \o b)[l] = b[l - (k - 1)]
      BY <1>1, <1>4, <2>2
    <3> QED
      BY <1>3, <1>5, <2>2, <3>1, <3>2
  <2> QED
    BY <2>1, <2>2
<1> QED
  BY <1>4, <1>5, <1>6

LEMMA RemoveIncreasing ==
  ASSUME NEW s \in Seq(Nat), NEW n \in Nat, Increasing(s)
  PROVE  /\ RemoveFirst(s, n) \in Seq(Nat)
         /\ Increasing(RemoveFirst(s, n))
         /\ ToSet(RemoveFirst(s, n)) = ToSet(s) \ {n}
         /\ Len(RemoveFirst(s, n)) <= Len(s)
<1>1. CASE n \notin ToSet(s)
  <2>1. RemoveFirst(s, n) = s
    BY <1>1 DEF RemoveFirst, ToSet
  <2>2. Len(s) \in Nat
    OBVIOUS
  <2> QED
    BY <1>1, <2>1, <2>2
<1>2. CASE n \in ToSet(s)
  <2>1. PICK k \in 1 .. Len(s) : s[k] = n
    BY <1>2 DEF ToSet
  <2>2. \A l \in 1 .. Len(s) : s[l] = n => l = k
    BY <2>1 DEF Increasing
  <2>3. SelectInSeq(s, LAMBDA v : v = n) = k
    <3>1. {l \in 1 .. Len(s) : s[l] = n} = {k}
      BY <2>1, <2>2
    <3>2. Min({k}) = k
      BY DEF Min
    <3> QED
      BY <3>1, <3>2 DEF SelectInSeq
  <2>4. RemoveFirst(s, n) = RemoveAt(s, k)
    BY <2>1, <2>3 DEF RemoveFirst
  <2> DEFINE t == RemoveFirst(s, n)
             up(l) == IF l < k THEN l ELSE l + 1
  <2>5. /\ t \in Seq(Nat) /\ Len(t) = Len(s) - 1
        /\ \A l \in 1 .. Len(s) - 1 : t[l] = s[up(l)]
    BY <2>4, RemoveAtFacts
  <2> HIDE DEF t
  <2>6. /\ DOMAIN t = 1 .. Len(s) - 1 /\ DOMAIN s = 1 .. Len(s)
        /\ Len(s) \in Nat /\ k \in Nat /\ k >= 1 /\ k <= Len(s)
    BY <2>5
  <2>7. /\ \A l \in 1 .. Len(s) - 1 : up(l) \in 1 .. Len(s) /\ up(l) # k
        /\ \A l, m \in 1 .. Len(s) - 1 : l < m => up(l) < up(m)
    BY <2>6
  <2>8. ASSUME NEW j \in 1 .. Len(s), j # k
        PROVE  \E l \in 1 .. Len(s) - 1 : up(l) = j
    <3>1. CASE j < k
      <4>1. j \in 1 .. Len(s) - 1 /\ up(j) = j
        BY <2>6, <3>1
      <4> QED
        BY <4>1
    <3>2. CASE j > k
      <4>1. j - 1 \in 1 .. Len(s) - 1 /\ up(j - 1) = j
        BY <2>6, <3>2
      <4> QED
        BY <4>1
    <3>3. j < k \/ j > k
      BY <2>6, <2>8
    <3> QED
      BY <3>1, <3>2, <3>3
  <2> HIDE DEF up
  <2>9. Increasing(t)
    BY <2>5, <2>6, <2>7 DEF Increasing
  <2>10. ASSUME NEW x \in ToSet(t) PROVE x \in ToSet(s) \ {n}
    <3>1. PICK l \in 1 .. Len(s) - 1 : x = t[l]
      BY <2>6 DEF ToSet
    <3> QED
      BY <2>2, <2>5, <2>6, <2>7, <3>1 DEF ToSet
  <2>11. ASSUME NEW x \in ToSet(s) \ {n} PROVE x \in ToSet(t)
    <3>1. PICK j \in 1 .. Len(s) : x = s[j] /\ j # k
      BY <2>1, <2>6 DEF ToSet
    <3>2. PICK l \in 1 .. Len(s) - 1 : up(l) = j
      BY <2>8, <3>1
    <3> QED
      BY <2>5, <2>6, <3>1, <3>2 DEF ToSet
  <2>12. Len(t) <= Len(s)
    BY <2>5, <2>6
  <2> QED
    BY <2>5, <2>9, <2>10, <2>11, <2>12 DEF t
<1> QED
  BY <1>1, <1>2
-----------------------------------------------------------------------------
(* What the operations of the queue do to its contents. *)

LEMMA PriorityNames == Priorities = {0, 10, 50, 90, 100}
BY DEF Priorities, HIGHEST, HIGH, NORMAL, LOW, LOWEST

\* The length of the queue, bucket by bucket.
Total(b) ==
  Len(b[0]) + Len(b[10]) + Len(b[50]) + Len(b[90]) + Len(b[100])

LEMMA SizeIsTotal == Size = Total(buckets) /\ Size' = Total(buckets')
BY DEF Size, Total, HIGHEST, HIGH, NORMAL, LOW, LOWEST

\* Shortening one bucket by k shortens the queue by k.
LEMMA TotalShrinks ==
  ASSUME NEW f \in [Priorities -> Seq(Nat)], NEW p \in Priorities,
         NEW b \in Seq(Nat), NEW k \in Nat, Len(f[p]) = Len(b) + k
  PROVE  LET g == [f EXCEPT ![p] = b]
         IN  Total(f) = Total(g) + k /\ Total(g) \in Nat
<1> DEFINE g == [f EXCEPT ![p] = b]
           old(q) == Len(f[q])
           new(q) == Len(g[q])
<1>1. \A q \in Priorities :
        new(q) \in Nat /\ old(q) = IF q = p THEN new(q) + k ELSE new(q)
  OBVIOUS
<1>2. Priorities = {0, 10, 50, 90, 100}
  BY PriorityNames
<1>3. p = 0 \/ p = 10 \/ p = 50 \/ p = 90 \/ p = 100
  BY <1>2
<1>4. /\ new(0) \in Nat /\ new(10) \in Nat /\ new(50) \in Nat
      /\ new(90) \in Nat /\ new(100) \in Nat
  BY <1>1, <1>2
<1>5. \A q \in {0, 10, 50, 90, 100} :
        old(q) = IF q = p THEN new(q) + k ELSE new(q)
  BY <1>1, <1>2
<1>6. /\ Total(f) = old(0) + old(10) + old(50) + old(90) + old(100)
      /\ Total(g) = new(0) + new(10) + new(50) + new(90) + new(100)
  BY DEF Total
<1> HIDE DEF old, new, g
<1>7. Total(g) \in Nat
  BY <1>4, <1>6
<1>8. Total(f) = Total(g) + k
  <2>1. CASE p = 0
    BY <1>4, <1>5, <1>6, <2>1
  <2>2. CASE p = 10
    BY <1>4, <1>5, <1>6, <2>2
  <2>3. CASE p = 50
    BY <1>4, <1>5, <1>6, <2>3
  <2>4. CASE p = 90
    BY <1>4, <1>5, <1>6, <2>4
  <2>5. CASE p = 100
    BY <1>4, <1>5, <1>6, <2>5
  <2> QED
    BY <1>3, <2>1, <2>2, <2>3, <2>4, <2>5
<1> QED
  BY <1>7, <1>8 DEF g


\* The typed state, in the form the provers need it.
LEMMA TypeFacts ==
  ASSUME TypeOK
  PROVE  /\ items \in Seq(Item) /\ Len(items) \in Nat
         /\ DOMAIN items = 1 .. Len(items)
         /\ \A i \in DOMAIN items : items[i] \in Item /\ CycleOf(i) \in Cycles
         /\ \A p \in Priorities :
              buckets[p] \in Seq(DOMAIN items) /\ buckets[p] \in Seq(Nat)
         /\ Queued \subseteq DOMAIN items
         /\ Failing \subseteq DOMAIN items
         /\ Buried \subseteq DOMAIN items
         /\ Live \subseteq DOMAIN items
<1>1. items \in Seq(Item) /\ Len(items) \in Nat /\ DOMAIN items = 1 .. Len(items)
  BY DEF TypeOK
<1>2. \A i \in DOMAIN items : items[i] \in Item /\ CycleOf(i) \in Cycles
  <2>1. \A i \in DOMAIN items : items[i] \in Item
    BY <1>1
  <2>2. \A r \in Item : r.cycle \in Cycles
    BY DEF Item
  <2> QED
    BY <2>1, <2>2 DEF CycleOf
<1>3. ASSUME NEW p \in Priorities
      PROVE  buckets[p] \in Seq(DOMAIN items) /\ buckets[p] \in Seq(Nat)
  <2>1. buckets[p] \in Seq(DOMAIN items)
    BY DEF TypeOK
  <2>2. DOMAIN items \subseteq Nat
    BY <1>1
  <2> QED
    BY <2>1, <2>2, SeqMonotonic
<1>4. Queued \subseteq DOMAIN items
  BY <1>3 DEF Queued, ToSet
<1>5. Failing \subseteq DOMAIN items
  BY DEF TypeOK, Failing, Failure
<1>6. Buried \subseteq DOMAIN items
  <2>1. \A k \in DOMAIN dead : dead[k] \in Entry
    BY DEF TypeOK
  <2>2. \A e \in Entry : e.item \in DOMAIN items
    BY DEF Entry
  <2> QED
    BY <2>1, <2>2 DEF Buried, ToSet
<1>7. running \subseteq DOMAIN items
  BY DEF TypeOK
<1> QED
  BY <1>1, <1>2, <1>3, <1>4, <1>5, <1>6, <1>7 DEF Live, Active

NewItem == Len(items) + 1

\* One PENDING item joined the queue, and nothing else in it changed.
ItemAdded(c, p, t, at) ==
  /\ NewItem \in Nat /\ NewItem \notin DOMAIN items
  /\ \A i \in DOMAIN items : i < NewItem
  /\ items' \in Seq(Item)
  /\ DOMAIN items' = DOMAIN items \cup {NewItem}
  /\ \A i \in DOMAIN items : items'[i] = items[i]
  /\ items'[NewItem] = [cycle |-> c, priority |-> p, trigger |-> t, at |-> at]
  /\ log' \in [DOMAIN items' -> Seq(Terminal)]
  /\ \A i \in DOMAIN items : log'[i] = log[i]
  /\ log'[NewItem] = <<>>
  /\ buckets' \in [Priorities -> Seq(DOMAIN items')]
  /\ Queued' = Queued \cup {NewItem}
  /\ InOrder'
  /\ Size < MaxSize /\ Size' = Size + 1

LEMMA EnqueueAdds ==
  ASSUME TypeOK, InOrder,
         NEW c \in Cycles, NEW p \in Priorities, NEW t \in Triggers, NEW at \in 0 .. MaxTime,
         Enqueue(c, p, t, at)
  PROVE  ItemAdded(c, p, t, at)
<1> DEFINE n == NewItem
           item == [cycle |-> c, priority |-> p, trigger |-> t, at |-> at]
<1>1. /\ items \in Seq(Item) /\ Len(items) \in Nat /\ DOMAIN items = 1 .. Len(items)
      /\ item \in Item
  BY TypeFacts DEF TypeOK, Item
<1>2. /\ items' = Append(items, item)
      /\ buckets' = [buckets EXCEPT ![p] = Append(@, n)]
      /\ log' = Append(log, <<>>)
      /\ Size < MaxSize
  BY DEF Enqueue, NewItem, HasRoom
<1>3. /\ n \in Nat /\ n \notin DOMAIN items /\ \A i \in DOMAIN items : i < n
  BY <1>1 DEF NewItem
<1>4. /\ items' \in Seq(Item) /\ DOMAIN items' = DOMAIN items \cup {n}
      /\ \A i \in DOMAIN items : items'[i] = items[i]
      /\ items'[n] = item
  <2> HIDE DEF item
  <2> QED
    BY <1>1, <1>2 DEF NewItem
<1>5. /\ log' \in [DOMAIN items' -> Seq(Terminal)]
      /\ \A i \in DOMAIN items : log'[i] = log[i]
      /\ log'[n] = <<>>
  <2>1. log \in Seq(Seq(Terminal)) /\ Len(log) = Len(items)
    <3>1. log \in [1 .. Len(items) -> Seq(Terminal)]
      BY <1>1 DEF TypeOK
    <3> QED
      BY <1>1, <3>1, SeqDef
  <2>2. <<>> \in Seq(Terminal)
    OBVIOUS
  <2>3. /\ log' \in Seq(Seq(Terminal)) /\ DOMAIN log' = DOMAIN items'
        /\ \A i \in DOMAIN items : log'[i] = log[i]
        /\ log'[n] = <<>>
    BY <1>1, <1>2, <1>4, <2>1, <2>2 DEF NewItem
  <2> QED
    BY <2>3
<1>6. \A q \in Priorities : buckets[q] \in Seq(DOMAIN items) /\ buckets[q] \in Seq(Nat)
  BY TypeFacts
<1>7. /\ DOMAIN buckets' = Priorities
      /\ buckets'[p] = Append(buckets[p], n)
      /\ \A q \in Priorities \ {p} : buckets'[q] = buckets[q]
  BY <1>2 DEF TypeOK
<1>8. /\ Append(buckets[p], n) \in Seq(Nat)
      /\ Increasing(Append(buckets[p], n))
      /\ ToSet(Append(buckets[p], n)) = ToSet(buckets[p]) \cup {n}
  <2>1. \A k \in DOMAIN buckets[p] : buckets[p][k] < n
    BY <1>3, <1>6
  <2> QED
    BY <1>3, <1>6, <2>1, AppendIncreasing DEF InOrder
<1>9. buckets' \in [Priorities -> Seq(DOMAIN items')]
  <2>1. Append(buckets[p], n) \in Seq(DOMAIN items')
    <3>1. buckets[p] \in Seq(DOMAIN items')
      BY <1>4, <1>6, SeqMonotonic
    <3> QED
      BY <1>4, <3>1
  <2>2. \A q \in Priorities : buckets[q] \in Seq(DOMAIN items')
    BY <1>4, <1>6, SeqMonotonic
  <2>3. buckets' = [q \in Priorities |-> buckets'[q]]
    BY <1>2 DEF TypeOK
  <2> QED
    BY <1>7, <2>1, <2>2, <2>3
<1>10. Queued' = Queued \cup {n}
  BY <1>7, <1>8 DEF Queued
<1>11. InOrder'
  <2> SUFFICES ASSUME NEW q \in Priorities
               PROVE  /\ Increasing(buckets'[q])
                      /\ \A i \in ToSet(buckets'[q]) : items'[i].priority = q
    BY DEF InOrder
  <2>1. \A i \in ToSet(buckets[q]) : i \in DOMAIN items /\ items[i].priority = q
    BY <1>6 DEF InOrder, ToSet
  <2>2. CASE q = p
    <3>1. items'[n].priority = p
      BY <1>4
    <3>2. /\ buckets'[q] = Append(buckets[q], n)
          /\ ToSet(buckets'[q]) = ToSet(buckets[q]) \cup {n}
          /\ Increasing(buckets'[q])
      BY <1>7, <1>8, <2>2
    <3> HIDE DEF n, item
    <3>3. \A i \in ToSet(buckets'[q]) : items'[i].priority = q
      BY <1>4, <2>1, <2>2, <3>1, <3>2
    <3> QED
      BY <3>2, <3>3
  <2>3. CASE q # p
    BY <1>4, <1>7, <2>1, <2>3 DEF InOrder
  <2> QED
    BY <2>2, <2>3
<1>12. Size' = Size + 1
  <2> DEFINE old(q) == Len(buckets[q])
             new(q) == Len(buckets'[q])
  <2>1. \A q \in Priorities :
          old(q) \in Nat /\ new(q) = IF q = p THEN old(q) + 1 ELSE old(q)
    BY <1>6, <1>7
  <2>2. Priorities = {0, 10, 50, 90, 100}
    BY PriorityNames
  <2>3. p = 0 \/ p = 10 \/ p = 50 \/ p = 90 \/ p = 100
    BY <2>2
  <2>4. /\ old(0) \in Nat /\ old(10) \in Nat /\ old(50) \in Nat
        /\ old(90) \in Nat /\ old(100) \in Nat
    BY <2>1, <2>2
  <2>5. \A q \in {0, 10, 50, 90, 100} :
          new(q) = IF q = p THEN old(q) + 1 ELSE old(q)
    BY <2>1, <2>2
  <2>6. /\ Size = old(0) + old(10) + old(50) + old(90) + old(100)
        /\ Size' = new(0) + new(10) + new(50) + new(90) + new(100)
    BY SizeIsTotal DEF Total
  <2> HIDE DEF n, item, old, new
  <2> QED
    BY <2>3, <2>4, <2>5, <2>6
<1> QED
  BY <1>2, <1>3, <1>4, <1>5, <1>9, <1>10, <1>11, <1>12 DEF ItemAdded

\* Item x, of priority p, left the queue.
ItemRemoved(x) ==
  /\ buckets' \in [Priorities -> Seq(DOMAIN items)]
  /\ Queued' = Queued \ {x}
  /\ InOrder'
  /\ Size' <= Size

LEMMA BucketLoses ==
  ASSUME TypeOK, InOrder, items' = items,
         NEW p \in Priorities, NEW x \in DOMAIN items, items[x].priority = p,
         NEW b \in Seq(Nat), Increasing(b),
         ToSet(b) = ToSet(buckets[p]) \ {x}, Len(b) <= Len(buckets[p]),
         buckets' = [buckets EXCEPT ![p] = b]
  PROVE  ItemRemoved(x)
<1>1. \A q \in Priorities : buckets[q] \in Seq(DOMAIN items) /\ buckets[q] \in Seq(Nat)
  BY TypeFacts
<1>2. /\ buckets'[p] = b
      /\ \A q \in Priorities \ {p} : buckets'[q] = buckets[q]
      /\ buckets' = [q \in Priorities |-> buckets'[q]]
  BY DEF TypeOK
<1>3. b \in Seq(DOMAIN items)
  <2>1. \A k \in 1 .. Len(b) : b[k] \in ToSet(b)
    BY DEF ToSet
  <2>2. ToSet(buckets[p]) \subseteq DOMAIN items
    BY <1>1 DEF ToSet
  <2>3. \A k \in 1 .. Len(b) : b[k] \in DOMAIN items
    BY <2>1, <2>2
  <2> QED
    BY <2>3
<1>4. buckets' \in [Priorities -> Seq(DOMAIN items)]
  BY <1>1, <1>2, <1>3
<1>5. \A q \in Priorities \ {p} : x \notin ToSet(buckets[q])
  BY DEF InOrder
<1>6. Queued' = Queued \ {x}
  BY <1>2, <1>5 DEF Queued
<1>7. InOrder'
  BY <1>2 DEF InOrder
<1>8. Size' <= Size
  <2>1. buckets \in [Priorities -> Seq(Nat)]
    BY <1>1 DEF TypeOK
  <2>2. PICK k \in Nat : Len(buckets[p]) = Len(b) + k
    <3>1. Len(buckets[p]) \in Nat /\ Len(b) \in Nat
      BY <1>1
    <3>2. Len(buckets[p]) - Len(b) \in Nat
      BY <3>1
    <3>3. Len(buckets[p]) = Len(b) + (Len(buckets[p]) - Len(b))
      BY <3>1
    <3> QED
      BY <3>2, <3>3
  <2>3. Total(buckets) = Total(buckets') + k /\ Total(buckets') \in Nat
    BY <2>1, <2>2, TotalShrinks
  <2>4. \A old, new : old = new + k /\ new \in Nat => new <= old
    BY <2>2
  <2> QED
    BY <2>3, <2>4, SizeIsTotal
<1> QED
  BY <1>4, <1>6, <1>7, <1>8 DEF ItemRemoved

LEMMA CancelRemoves ==
  ASSUME TypeOK, InOrder, NEW i \in DOMAIN items, Cancel(i)
  PROVE  ItemRemoved(i)
<1> DEFINE p == items[i].priority
           b == RemoveFirst(buckets[p], i)
<1>1. p \in Priorities /\ i \in Nat
  BY TypeFacts DEF Item
<1>2. buckets[p] \in Seq(Nat) /\ Increasing(buckets[p])
  BY <1>1, TypeFacts DEF InOrder
<1>3. /\ b \in Seq(Nat) /\ Increasing(b)
      /\ ToSet(b) = ToSet(buckets[p]) \ {i} /\ Len(b) <= Len(buckets[p])
  BY <1>1, <1>2, RemoveIncreasing
<1>4. items' = items /\ buckets' = [buckets EXCEPT ![p] = b]
  BY DEF Cancel
<1> HIDE DEF b, p
<1> QED
  BY <1>1, <1>3, <1>4, BucketLoses DEF p

\* A dequeue takes an item that no queued item precedes.
LEMMA TakeRemoves ==
  ASSUME TypeOK, InOrder, items' = items, NEW p \in Priorities, TakeNext(p)
  PROVE  \E x \in Queued :
           /\ running' = running \cup {x}
           /\ ItemRemoved(x)
           /\ \A j \in Queued \ {x} :
                \/ items[x].priority < items[j].priority
                \/ items[x].priority = items[j].priority /\ x < j
<1> DEFINE x == Head(buckets[p])
           b == Tail(buckets[p])
<1>1. buckets[p] \in Seq(Nat) /\ Increasing(buckets[p]) /\ buckets[p] # <<>>
  BY TypeFacts DEF InOrder, TakeNext
<1>2. /\ b \in Seq(Nat) /\ Increasing(b) /\ x \in ToSet(buckets[p])
      /\ ToSet(b) = ToSet(buckets[p]) \ {x}
      /\ \A k \in DOMAIN b : x < b[k]
      /\ Len(b) <= Len(buckets[p])
  BY <1>1, TailIncreasing
<1>3. x \in Queued /\ x \in DOMAIN items /\ items[x].priority = p
  BY <1>2, TypeFacts DEF Queued, InOrder
<1>4. running' = running \cup {x} /\ buckets' = [buckets EXCEPT ![p] = b]
  BY DEF TakeNext
<1>5. ItemRemoved(x)
  <2> HIDE DEF x, b
  <2> QED
    BY <1>2, <1>3, <1>4, BucketLoses
<1>6. ASSUME NEW j \in Queued \ {x}
      PROVE  \/ items[x].priority < items[j].priority
             \/ items[x].priority = items[j].priority /\ x < j
  <2>1. PICK q \in Priorities : j \in ToSet(buckets[q])
    BY DEF Queued
  <2>2. items[j].priority = q
    BY <2>1 DEF InOrder
  <2>3. ~ (q < p)
    BY <2>1 DEF TakeNext, ToSet
  <2>4. CASE q = p
    <3>1. j \in ToSet(b)
      BY <1>2, <2>1, <2>4
    <3>2. x < j
      BY <1>2, <3>1 DEF ToSet
    <3> QED
      BY <1>3, <2>2, <2>4, <3>2
  <2>5. CASE q # p
    BY <1>3, <2>2, <2>3, <2>5, PriorityNames
  <2> QED
    BY <2>4, <2>5
<1> QED
  BY <1>3, <1>4, <1>5, <1>6

-----------------------------------------------------------------------------
(* What the operations do to the terminal logs. *)

LEMMA NotYetLogged ==
  ASSUME TypeOK, TerminalOnce, NEW i \in DOMAIN items, i \notin LoggedItems
  PROVE  log[i] = <<>>
<1>1. log[i] \in Seq(Terminal) /\ Len(log[i]) <= 1
  BY DEF TypeOK, TerminalOnce
<1>2. \A k \in DOMAIN log[i] : log[i][k] \in Terminal /\ log[i][k] \in ToSet(log[i])
  BY <1>1 DEF ToSet
<1>3. DOMAIN log[i] = {}
  BY <1>2 DEF LoggedItems, LoggedAs
<1>4. ASSUME NEW l \in Seq(Terminal), DOMAIN l = {} PROVE l = <<>>
  BY <1>4
<1> QED
  BY <1>1, <1>3, <1>4

LEMMA LogUnmoved ==
  ASSUME items' = items, log' = log
  PROVE  LoggedItems' = LoggedItems /\ \A u : LoggedAs(u)' = LoggedAs(u)
BY DEF LoggedItems, LoggedAs

LEMMA LogGrows ==
  ASSUME TypeOK, items' = items, NEW i \in DOMAIN items, NEW s \in Terminal,
         log[i] = <<>>, Logged(i, s)
  PROVE  /\ log' \in [DOMAIN items -> Seq(Terminal)]
         /\ \A j \in DOMAIN items : log'[j] = IF j = i THEN <<s>> ELSE log[j]
         /\ \A u : LoggedAs(u)' = IF u = s THEN LoggedAs(u) \cup {i} ELSE LoggedAs(u)
         /\ LoggedItems' = LoggedItems \cup {i}
         /\ (\A j \in DOMAIN items : Len(log[j]) <= 1)
              => \A j \in DOMAIN items : Len(log'[j]) <= 1
<1>1. /\ log \in [DOMAIN items -> Seq(Terminal)]
      /\ log' = [log EXCEPT ![i] = <<s>>]
  <2>1. Append(<<>>, s) = <<s>>
    OBVIOUS
  <2> QED
    BY <2>1 DEF TypeOK, Logged
<1>2. <<s>> \in Seq(Terminal)
  OBVIOUS
<1>3. /\ log' \in [DOMAIN items -> Seq(Terminal)]
      /\ \A j \in DOMAIN items : log'[j] = IF j = i THEN <<s>> ELSE log[j]
  BY <1>1, <1>2
<1>4. ToSet(<<s>>) = {s} /\ ToSet(log[i]) = {}
  BY DEF ToSet
<1>5. \A j \in DOMAIN items :
        ToSet(log'[j]) = IF j = i THEN {s} ELSE ToSet(log[j])
  BY <1>3, <1>4
<1>6. ASSUME NEW u
      PROVE  LoggedAs(u)' = IF u = s THEN LoggedAs(u) \cup {i} ELSE LoggedAs(u)
  BY <1>4, <1>5 DEF LoggedAs
<1>7. LoggedItems' = LoggedItems \cup {i}
  BY <1>6 DEF LoggedItems
<1>8. Len(<<s>>) <= 1
  OBVIOUS
<1> QED
  BY <1>3, <1>6, <1>7, <1>8

LEMMA LogKeepsAdded ==
  ASSUME NEW c, NEW p, NEW t, NEW at, ItemAdded(c, p, t, at)
  PROVE  LoggedItems' = LoggedItems /\ \A u : LoggedAs(u)' = LoggedAs(u)
<1>1. /\ DOMAIN items' = DOMAIN items \cup {NewItem}
      /\ \A i \in DOMAIN items : log'[i] = log[i]
      /\ ToSet(log'[NewItem]) = {}
  BY DEF ItemAdded, ToSet
<1>2. ASSUME NEW u PROVE LoggedAs(u)' = LoggedAs(u)
  BY <1>1 DEF LoggedAs
<1> QED
  BY <1>2 DEF LoggedItems

-----------------------------------------------------------------------------
(* What the operations do to the dead-letter queue. *)

LEMMA PopFacts ==
  ASSUME TypeOK, OneItemPerCycle, PopOldest
  PROVE  /\ Head(dead) \in Entry /\ Head(dead).item \in Buried
         /\ Head(dead) = dead[1] /\ 1 \in DOMAIN dead
         /\ dead' \in Seq(Entry) /\ Len(dead') <= Len(dead)
         /\ Buried' = Buried \ {Head(dead).item}
         /\ \A k \in DOMAIN dead' : k + 1 \in DOMAIN dead /\ dead'[k] = dead[k + 1]
         /\ \A k, l \in DOMAIN dead' : dead'[k].item = dead'[l].item => k = l
<1>1. dead \in Seq(Entry) /\ dead # <<>> /\ dead' = Tail(dead)
  BY DEF TypeOK, PopOldest
<1>2. /\ Len(dead) \in Nat /\ Len(dead) > 0 /\ DOMAIN dead = 1 .. Len(dead)
      /\ dead' \in Seq(Entry) /\ Len(dead') = Len(dead) - 1
      /\ DOMAIN dead' = 1 .. Len(dead')
      /\ \A k \in 1 .. Len(dead') : dead'[k] = dead[k + 1]
      /\ Head(dead) = dead[1]
  BY <1>1
<1>3. 1 \in DOMAIN dead /\ Head(dead) \in Entry /\ Len(dead') <= Len(dead)
  BY <1>1, <1>2
<1>4. \A k \in DOMAIN dead' : k + 1 \in DOMAIN dead /\ k + 1 # 1 /\ dead'[k] = dead[k + 1]
  BY <1>2
<1>5. Head(dead).item \in Buried
  BY <1>2, <1>3 DEF Buried, ToSet
<1>6. \A k, l \in DOMAIN dead : dead[k].item = dead[l].item => k = l
  BY DEF OneItemPerCycle
<1>7. \A k, l \in DOMAIN dead' : dead'[k].item = dead'[l].item => k = l
  BY <1>2, <1>4, <1>6
<1>8. Buried' = Buried \ {Head(dead).item}
  <2>1. ASSUME NEW x \in Buried' PROVE x \in Buried \ {Head(dead).item}
    <3>1. PICK k \in DOMAIN dead' : x = dead'[k].item
      BY DEF Buried, ToSet
    <3> QED
      BY <1>2, <1>3, <1>4, <1>6, <3>1 DEF Buried, ToSet
  <2>2. ASSUME NEW x \in Buried \ {Head(dead).item} PROVE x \in Buried'
    <3>1. PICK k \in DOMAIN dead : x = dead[k].item
      BY DEF Buried, ToSet
    <3>2. k - 1 \in DOMAIN dead' /\ dead'[k - 1] = dead[k]
      BY <1>2, <3>1
    <3> QED
      BY <3>1, <3>2 DEF Buried, ToSet
  <2> QED
    BY <2>1, <2>2
<1> QED
  BY <1>2, <1>3, <1>4, <1>5, <1>7, <1>8

LEMMA BuryFacts ==
  ASSUME TypeOK, OneItemPerCycle, Len(dead) <= MaxDead,
         NEW e \in Entry, e.item \notin Buried, Bury(e)
  PROVE  /\ dead' \in Seq(Entry) /\ Len(dead') <= MaxDead
         /\ Buried' \subseteq Buried \cup {e.item} /\ Buried \subseteq Buried'
         /\ \A k \in DOMAIN dead' : dead'[k] = e \/ (k \in DOMAIN dead /\ dead'[k] = dead[k])
         /\ \A k, l \in DOMAIN dead' : dead'[k].item = dead'[l].item => k = l
<1>1. dead \in Seq(Entry) /\ Len(dead) \in Nat /\ MaxDead \in Nat
  BY ConfigurationIsValid DEF TypeOK
<1>2. \A k, l \in DOMAIN dead : dead[k].item = dead[l].item => k = l
  BY DEF OneItemPerCycle
<1>3. \A k \in DOMAIN dead : dead[k].item # e.item
  BY DEF Buried, ToSet
<1>4. CASE dead' = dead
  BY <1>1, <1>2, <1>4 DEF Buried
<1>5. CASE dead' = Append(dead, e) /\ Len(dead) < MaxDead
  <2>1. /\ dead' \in Seq(Entry) /\ Len(dead') = Len(dead) + 1
        /\ DOMAIN dead' = DOMAIN dead \cup {Len(dead) + 1}
        /\ Len(dead) + 1 \notin DOMAIN dead
        /\ \A k \in DOMAIN dead : dead'[k] = dead[k]
        /\ dead'[Len(dead) + 1] = e
    BY <1>1, <1>5
  <2>2. Len(dead') <= MaxDead
    BY <1>1, <1>5, <2>1
  <2>3. Buried' \subseteq Buried \cup {e.item} /\ Buried \subseteq Buried'
    BY <2>1 DEF Buried, ToSet
  <2>4. \A k, l \in DOMAIN dead' : dead'[k].item = dead'[l].item => k = l
    BY <1>2, <1>3, <2>1
  <2> QED
    BY <2>1, <2>2, <2>3, <2>4
<1> QED
  BY <1>4, <1>5 DEF Bury

-----------------------------------------------------------------------------
(* Attempt numbers. *)

RetryItems(c) == {i \in DOMAIN items : CycleOf(i) = c /\ items[i].trigger = "retry"}

LEMMA RetriesCounted ==
  ASSUME NEW c
  PROVE  /\ RetriesOf(c) = Cardinality(RetryItems(c))
         /\ RetriesOf(c)' = Cardinality(RetryItems(c)')
BY DEF RetriesOf, RetryItems, Quantify

LEMMA RetriesFinite ==
  ASSUME TypeOK, NEW c
  PROVE  /\ IsFiniteSet(RetryItems(c))
         /\ RetriesOf(c) \in Nat
         /\ (\A i \in DOMAIN items : CycleOf(i) # c) => RetriesOf(c) = 0
<1>1. IsFiniteSet(DOMAIN items)
  BY TypeFacts, FS_Interval
<1>2. IsFiniteSet(RetryItems(c))
  BY <1>1, FS_Subset DEF RetryItems
<1>3. (\A i \in DOMAIN items : CycleOf(i) # c) => RetryItems(c) = {}
  BY DEF RetryItems
<1> QED
  BY <1>2, <1>3, FS_CardinalityType, FS_EmptySet, RetriesCounted

LEMMA RetriesAdded ==
  ASSUME TypeOK, NEW c, NEW p, NEW t, NEW at, ItemAdded(c, p, t, at), NEW d
  PROVE  RetriesOf(d)' = IF d = c /\ t = "retry" THEN RetriesOf(d) + 1 ELSE RetriesOf(d)
<1>1. /\ DOMAIN items' = DOMAIN items \cup {NewItem}
      /\ \A i \in DOMAIN items : items'[i] = items[i]
      /\ items'[NewItem].cycle = c /\ items'[NewItem].trigger = t
      /\ NewItem \notin DOMAIN items
  BY DEF ItemAdded
<1>2. CASE d = c /\ t = "retry"
  <2>1. /\ RetryItems(d)' = RetryItems(d) \cup {NewItem}
        /\ NewItem \notin RetryItems(d)
    BY <1>1, <1>2 DEF RetryItems, CycleOf
  <2> QED
    BY <1>2, <2>1, RetriesCounted, RetriesFinite, FS_AddElement
<1>3. CASE ~ (d = c /\ t = "retry")
  <2>1. RetryItems(d)' = RetryItems(d)
    BY <1>1, <1>3 DEF RetryItems, CycleOf
  <2> QED
    BY <1>3, <2>1, RetriesCounted
<1> QED
  BY <1>2, <1>3

LEMMA Budget ==
  /\ AllowedRetries \in Nat /\ AllowedRetries + 1 <= MaxAttempts
  /\ MaxAttempts \in Nat \ {0}
  /\ \A e \in BOOLEAN : \A n : Retries(e, n) => n < MaxAttempts /\ AllowedRetries = MaxAttempts - 1
BY ConfigurationIsValid DEF AllowedRetries, Retries

-----------------------------------------------------------------------------
(* Two ways the cycles and their items are related again after a step. *)

OneLiveItem == \A i, j \in Live : CycleOf(i) = CycleOf(j) => i = j
Settled == LoggedAs("completed") \cup LoggedAs("cancelled")

\* No item was added; what left the live items is on record.
LEMMA NothingAdded ==
  ASSUME OneLiveItem, NoItemVanishes, SettledIsFinal,
         items' = items, Live' \subseteq Live,
         LoggedItems \subseteq LoggedItems', Live \ Live' \subseteq LoggedItems',
         Settled' \ Settled \subseteq Live \ Live',
         Settled' \subseteq DOMAIN items, Live \subseteq DOMAIN items
  PROVE  OneLiveItem' /\ NoItemVanishes' /\ SettledIsFinal'
<1>1. \A i : CycleOf(i)' = CycleOf(i)
  BY DEF CycleOf
<1>2. OneLiveItem'
  BY <1>1 DEF OneLiveItem
<1>3. NoItemVanishes'
  BY <1>1 DEF NoItemVanishes
<1>4. ASSUME NEW i \in Settled', NEW j \in Live' PROVE CycleOf(i) # CycleOf(j)
  <2>1. CASE i \in Settled
    BY <1>4, <2>1 DEF SettledIsFinal, Settled
  <2>2. CASE i \notin Settled
    BY <1>4, <2>2 DEF OneLiveItem
  <2> QED
    BY <2>1, <2>2
<1>5. SettledIsFinal'
  BY <1>1, <1>4 DEF SettledIsFinal, Settled
<1> QED
  BY <1>2, <1>3, <1>5

\* An item of a cycle was added and took the place of its live items.
LEMMA OneAdded ==
  ASSUME OneLiveItem, NoItemVanishes, SettledIsFinal,
         NEW c, NEW p, NEW t, NEW at, ItemAdded(c, p, t, at),
         NEW gone, Live' = (Live \ gone) \cup {NewItem},
         \A i \in gone : CycleOf(i) = c,
         \A i \in Live \ gone : CycleOf(i) # c,
         \A i \in Settled : CycleOf(i) # c,
         Live \subseteq DOMAIN items
  PROVE  OneLiveItem' /\ NoItemVanishes' /\ SettledIsFinal'
<1> PICK n : n = NewItem
  OBVIOUS
<1>1. /\ DOMAIN items' = DOMAIN items \cup {n}
      /\ \A i \in DOMAIN items : CycleOf(i)' = CycleOf(i) /\ i < n
      /\ CycleOf(n)' = c
      /\ n \notin DOMAIN items
      /\ Live' = (Live \ gone) \cup {n}
  BY DEF ItemAdded, CycleOf
<1>2. LoggedItems' = LoggedItems /\ Settled' = Settled
  BY LogKeepsAdded DEF Settled
<1>3. Settled \subseteq DOMAIN items
  BY DEF Settled, LoggedAs
<1>4. OneLiveItem'
  BY <1>1 DEF OneLiveItem
<1>5. NoItemVanishes'
  <2> SUFFICES ASSUME NEW i \in DOMAIN items',
                      i \notin Live' \cup LoggedItems'
               PROVE  \E j \in DOMAIN items' : i < j /\ CycleOf(i)' = CycleOf(j)'
    BY DEF NoItemVanishes
  <2>1. i \in DOMAIN items
    BY <1>1
  <2>2. CASE i \in gone
    BY <1>1, <2>1, <2>2
  <2>3. CASE i \notin gone
    BY <1>1, <1>2, <2>1, <2>3 DEF NoItemVanishes
  <2> QED
    BY <2>2, <2>3
<1>6. \A i \in Settled' : \A j \in Live' : CycleOf(i)' # CycleOf(j)'
  BY <1>1, <1>2, <1>3 DEF SettledIsFinal, Settled
<1>7. SettledIsFinal'
  BY <1>6 DEF SettledIsFinal, Settled
<1> QED
  BY <1>4, <1>5, <1>7

-----------------------------------------------------------------------------
(* QueueInv after a step that adds no item. *)

LEMMA TotalIsNat ==
  ASSUME NEW b, \A q \in Priorities : Len(b[q]) \in Nat
  PROVE  Total(b) \in Nat
<1> DEFINE len(q) == Len(b[q])
<1>1. /\ len(0) \in Nat /\ len(10) \in Nat /\ len(50) \in Nat
      /\ len(90) \in Nat /\ len(100) \in Nat
  BY PriorityNames
<1>2. Total(b) = len(0) + len(10) + len(50) + len(90) + len(100)
  BY DEF Total
<1> HIDE DEF len
<1> QED
  BY <1>1, <1>2

LEMMA AtMost ==
  \A k, l, m \in Nat : k <= l /\ l <= m => k <= m
OBVIOUS

\* The places of an item exclude each other.
Apart ==
  /\ Queued \cap (running \cup Failing \cup Buried) = {}
  /\ running \cap (Failing \cup Buried) = {}
  /\ Failing \cap Buried = {}

FailuresDiffer == \A f, g \in failures : f.item = g.item => f = g
EntriesDiffer == \A k, l \in DOMAIN dead : dead[k].item = dead[l].item => k = l

LEMMA OneItemParts ==
  OneItemPerCycle <=> OneLiveItem /\ Apart /\ FailuresDiffer /\ EntriesDiffer
BY DEF OneItemPerCycle, OneLiveItem, Apart, FailuresDiffer, EntriesDiffer

LEMMA NowInRange ==
  ASSUME QueueInv PROVE now \in 0 .. MaxTime
BY DEF QueueInv, TypeOK

LEMMA SameItems ==
  ASSUME QueueInv, items' = items, attempt' = attempt,
         now' \in 0 .. MaxTime, fired' \in {None} \cup 0 .. MaxTime, setBack' \subseteq DOMAIN items,
         buckets' \in [Priorities -> Seq(DOMAIN items)], InOrder', Size' <= Size,
         log' \in [DOMAIN items -> Seq(Terminal)],
         running' \subseteq DOMAIN items, failures' \subseteq Failure,
         dead' \in Seq(Entry), Len(dead') <= MaxDead,
         \A k \in DOMAIN dead' : dead'[k].attempt = attempt[CycleOf(dead'[k].item)],
         Apart', FailuresDiffer', EntriesDiffer',
         Live' \subseteq Live, LoggedItems \subseteq LoggedItems',
         Live \ Live' \subseteq LoggedItems',
         Settled' \ Settled \subseteq Live \ Live',
         Buried' \subseteq LoggedItems', TerminalOnce'
  PROVE  QueueInv'
<1>1. TypeOK'
  BY DEF QueueInv, TypeOK, Failure, Entry
<1>2. WithinCapacity'
  <2>1. Size \in Nat /\ Size' \in Nat /\ MaxSize \in Nat
    <3>1. \A q \in Priorities : Len(buckets[q]) \in Nat /\ Len(buckets'[q]) \in Nat
      BY DEF QueueInv, TypeOK
    <3> QED
      BY <3>1, TotalIsNat, SizeIsTotal, ConfigurationIsValid
  <2> QED
    BY <2>1, AtMost DEF QueueInv, WithinCapacity
<1>3. OneLiveItem' /\ NoItemVanishes' /\ SettledIsFinal'
  <2>1. OneLiveItem /\ NoItemVanishes /\ SettledIsFinal
    BY OneItemParts DEF QueueInv
  <2>2. Live \subseteq DOMAIN items
    BY TypeFacts DEF QueueInv
  <2>3. Settled' \subseteq DOMAIN items
    BY DEF Settled, LoggedAs
  <2> QED
    BY <2>1, <2>2, <2>3, NothingAdded
<1>4. OneItemPerCycle'
  BY <1>3, OneItemParts, PTL
<1>5. Numbered'
  <2>1. ASSUME NEW c PROVE RetriesOf(c)' = RetriesOf(c)
    <3>1. RetryItems(c)' = RetryItems(c)
      BY DEF RetryItems, CycleOf
    <3> QED
      BY <3>1, RetriesCounted
  <2>2. \A i : CycleOf(i)' = CycleOf(i)
    BY DEF CycleOf
  <2> QED
    BY <2>1, <2>2 DEF QueueInv, Numbered
<1>6. BuriedAreLogged'
  BY DEF BuriedAreLogged
<1> QED
  BY <1>1, <1>2, <1>3, <1>4, <1>5, <1>6 DEF QueueInv

-----------------------------------------------------------------------------
(* Each action preserves QueueInv. *)

\* What the invariant says of an item the queue or a runner holds.
LEMMA Unlogged ==
  ASSUME QueueInv, NEW i \in Queued \cup running
  PROVE  i \in DOMAIN items /\ i \notin LoggedItems /\ log[i] = <<>>
<1>1. i \in DOMAIN items
  BY TypeFacts DEF QueueInv, TypeOK
<1>2. i \notin LoggedItems
  BY DEF QueueInv, TerminalOnce
<1> QED
  BY <1>1, <1>2, NotYetLogged DEF QueueInv

LEMMA DeadUnmoved ==
  ASSUME QueueInv, dead' = dead
  PROVE  /\ dead' \in Seq(Entry) /\ Len(dead') <= MaxDead
         /\ \A k \in DOMAIN dead' : dead'[k].attempt = attempt[CycleOf(dead'[k].item)]
         /\ EntriesDiffer' /\ Buried' = Buried
BY OneItemParts DEF QueueInv, TypeOK, WithinCapacity, Numbered, EntriesDiffer, Buried

LEMMA QueueUnmoved ==
  ASSUME QueueInv, items' = items, buckets' = buckets
  PROVE  /\ buckets' \in [Priorities -> Seq(DOMAIN items)]
         /\ InOrder' /\ Size' <= Size /\ Queued' = Queued
<1>1. \A k \in Nat : k <= k
  OBVIOUS
<1>2. Size \in Nat /\ Size' = Size
  <2>1. \A q \in Priorities : Len(buckets[q]) \in Nat
    BY DEF QueueInv, TypeOK
  <2> QED
    BY <2>1, TotalIsNat, SizeIsTotal
<1> QED
  BY <1>1, <1>2 DEF QueueInv, TypeOK, InOrder, Queued

LEMMA IdleStep ==
  ASSUME QueueInv, now' \in 0 .. MaxTime,
         UNCHANGED <<items, buckets, log, running, failures, dead, attempt, fired, setBack>>
  PROVE  QueueInv'
<1>1. UNCHANGED <<items, buckets, log, running, failures, dead, attempt, fired, setBack>>
  OBVIOUS
<1>2. Queued' = Queued /\ Failing' = Failing /\ Buried' = Buried
  BY <1>1, QueueUnmoved DEF Failing, Buried
<1>3. Apart' /\ FailuresDiffer' /\ Live' = Live
  BY <1>1, <1>2, OneItemParts DEF QueueInv, Apart, FailuresDiffer, Live, Active
<1>4. LoggedItems' = LoggedItems /\ Settled' = Settled
  BY <1>1, LogUnmoved DEF Settled
<1>5. TerminalOnce' /\ Buried' \subseteq LoggedItems'
  BY <1>1, <1>2, <1>4 DEF QueueInv, TerminalOnce, BuriedAreLogged
<1>6. /\ fired' \in {None} \cup 0 .. MaxTime /\ setBack' \subseteq DOMAIN items
      /\ log' \in [DOMAIN items -> Seq(Terminal)]
      /\ running' \subseteq DOMAIN items /\ failures' \subseteq Failure
  BY <1>1 DEF QueueInv, TypeOK
<1> QED
  BY <1>1, <1>3, <1>4, <1>5, <1>6, DeadUnmoved, QueueUnmoved, SameItems

LEMMA DequeueStep ==
  ASSUME QueueInv, Dequeue
  PROVE  QueueInv'
<1>1. /\ UNCHANGED <<items, log, failures, dead, attempt, now, fired, setBack>>
      /\ \E p \in Priorities : TakeNext(p)
  BY DEF Dequeue, clockVars
<1>2. PICK x \in Queued : running' = running \cup {x} /\ ItemRemoved(x)
  BY <1>1, TakeRemoves DEF QueueInv
<1>3. /\ Queued' = Queued \ {x} /\ Failing' = Failing /\ Buried' = Buried
      /\ x \in DOMAIN items /\ x \notin LoggedItems
  BY <1>1, <1>2, Unlogged DEF ItemRemoved, Failing, Buried
<1>4. Apart /\ OneLiveItem /\ FailuresDiffer
  BY OneItemParts DEF QueueInv
<1>5. Apart' /\ FailuresDiffer' /\ Live' = Live
  BY <1>1, <1>2, <1>3, <1>4 DEF Apart, FailuresDiffer, Live, Active
<1>6. /\ LoggedItems' = LoggedItems /\ Settled' = Settled
  BY <1>1, LogUnmoved DEF Settled
<1>7. TerminalOnce'
  BY <1>1, <1>2, <1>3, <1>6 DEF QueueInv, TerminalOnce
<1>8. /\ now' \in 0 .. MaxTime /\ fired' \in {None} \cup 0 .. MaxTime
      /\ setBack' \subseteq DOMAIN items
      /\ log' \in [DOMAIN items -> Seq(Terminal)]
      /\ running' \subseteq DOMAIN items /\ failures' \subseteq Failure
  BY <1>1, <1>2, <1>3 DEF QueueInv, TypeOK
<1>9. Buried' \subseteq LoggedItems'
  BY <1>3, <1>6 DEF QueueInv, BuriedAreLogged
<1> QED
  BY <1>1, <1>2, <1>5, <1>6, <1>7, <1>8, <1>9, DeadUnmoved, SameItems DEF ItemRemoved

LEMMA CancelStep ==
  ASSUME QueueInv, NEW i \in Queued, Cancel(i)
  PROVE  QueueInv'
<1>1. /\ UNCHANGED <<items, running, failures, dead, attempt, now, fired, setBack>>
      /\ Logged(i, "cancelled") /\ "cancelled" \in Terminal
  BY DEF Cancel, clockVars, Terminal
<1>2. i \in DOMAIN items /\ i \notin LoggedItems /\ log[i] = <<>>
  BY Unlogged
<1>3. ItemRemoved(i)
  BY <1>2, CancelRemoves DEF QueueInv
<1>4. Queued' = Queued \ {i} /\ Failing' = Failing /\ Buried' = Buried
  BY <1>1, <1>3 DEF ItemRemoved, Failing, Buried
<1>5. Apart /\ OneLiveItem /\ FailuresDiffer
  BY OneItemParts DEF QueueInv
<1>6. Apart' /\ FailuresDiffer' /\ Live' = Live \ {i} /\ i \in Live
  BY <1>1, <1>4, <1>5 DEF Apart, FailuresDiffer, Live, Active
<1>7. /\ log' \in [DOMAIN items -> Seq(Terminal)]
      /\ \A j \in DOMAIN items : log'[j] = IF j = i THEN <<"cancelled">> ELSE log[j]
      /\ LoggedItems' = LoggedItems \cup {i}
      /\ Settled' = Settled \cup {i}
      /\ \A j \in DOMAIN items : Len(log'[j]) <= 1
  BY <1>1, <1>2, LogGrows DEF QueueInv, Settled, TerminalOnce
<1>8. TerminalOnce'
  <2>1. \A j \in DOMAIN items' : Len(log'[j]) <= 1
    BY <1>1, <1>7
  <2>2. i \notin running /\ i \notin Failing
    BY <1>5 DEF Apart
  <2>3. \A f \in failures' : f.item \in LoggedItems' <=> f.status = "failed"
    BY <1>1, <1>7, <2>2 DEF QueueInv, TerminalOnce, Failing
  <2> QED
    BY <1>1, <1>4, <1>7, <2>1, <2>2, <2>3 DEF QueueInv, TerminalOnce
<1>9. /\ now' \in 0 .. MaxTime /\ fired' \in {None} \cup 0 .. MaxTime
      /\ setBack' \subseteq DOMAIN items
      /\ running' \subseteq DOMAIN items /\ failures' \subseteq Failure
  BY <1>1 DEF QueueInv, TypeOK
<1>10. Buried' \subseteq LoggedItems'
  BY <1>4, <1>7 DEF QueueInv, BuriedAreLogged
<1> QED
  BY <1>1, <1>3, <1>6, <1>7, <1>8, <1>9, <1>10, DeadUnmoved, SameItems DEF ItemRemoved

LEMMA SucceedsStep ==
  ASSUME QueueInv, NEW i \in running, CycleSucceeds(i)
  PROVE  QueueInv'
<1>1. /\ UNCHANGED <<items, buckets, failures, dead, attempt, now, fired, setBack>>
      /\ running' = running \ {i}
      /\ Logged(i, "completed") /\ "completed" \in Terminal
  BY DEF CycleSucceeds, clockVars, Terminal
<1>2. i \in DOMAIN items /\ i \notin LoggedItems /\ log[i] = <<>>
  BY Unlogged
<1>3. Queued' = Queued /\ Failing' = Failing /\ Buried' = Buried
  BY <1>1, QueueUnmoved DEF Failing, Buried
<1>4. Apart /\ OneLiveItem /\ FailuresDiffer
  BY OneItemParts DEF QueueInv
<1>5. Apart' /\ FailuresDiffer' /\ Live' = Live \ {i} /\ i \in Live
  BY <1>1, <1>3, <1>4 DEF Apart, FailuresDiffer, Live, Active
<1>6. /\ log' \in [DOMAIN items -> Seq(Terminal)]
      /\ LoggedItems' = LoggedItems \cup {i}
      /\ Settled' = Settled \cup {i}
      /\ \A j \in DOMAIN items : Len(log'[j]) <= 1
  <2>1. \A j \in DOMAIN items : Len(log[j]) <= 1
    BY DEF QueueInv, TerminalOnce
  <2>2. /\ log' \in [DOMAIN items -> Seq(Terminal)]
        /\ LoggedItems' = LoggedItems \cup {i}
        /\ \A u : LoggedAs(u)' = IF u = "completed" THEN LoggedAs(u) \cup {i} ELSE LoggedAs(u)
        /\ \A j \in DOMAIN items : Len(log'[j]) <= 1
    BY <1>1, <1>2, <2>1, LogGrows DEF QueueInv
  <2>3. Settled' = Settled \cup {i}
    BY <2>2 DEF Settled
  <2> QED
    BY <2>2, <2>3
<1>7. TerminalOnce'
  <2>1. i \notin Queued /\ i \notin Failing
    BY <1>4 DEF Apart
  <2>2. \A f \in failures' : f.item \in LoggedItems' <=> f.status = "failed"
    BY <1>1, <1>6, <2>1 DEF QueueInv, TerminalOnce, Failing
  <2> QED
    BY <1>1, <1>3, <1>6, <2>1, <2>2 DEF QueueInv, TerminalOnce
<1>8. /\ now' \in 0 .. MaxTime /\ fired' \in {None} \cup 0 .. MaxTime
      /\ setBack' \subseteq DOMAIN items
      /\ running' \subseteq DOMAIN items /\ failures' \subseteq Failure
  BY <1>1 DEF QueueInv, TypeOK
<1>9. Buried' \subseteq LoggedItems'
  BY <1>3, <1>6 DEF QueueInv, BuriedAreLogged
<1> QED
  BY <1>1, <1>5, <1>6, <1>7, <1>8, <1>9, DeadUnmoved, QueueUnmoved, SameItems

\* The end of a cycle that failed: its copy is logged if it is FAILED.
LEMMA EndsStep ==
  ASSUME QueueInv, NEW i \in running, NEW s \in {"running", "failed"},
         NEW e \in BOOLEAN, Ends(i, s, e),
         IF s = "failed" THEN Logged(i, "failed") ELSE log' = log
  PROVE  QueueInv'
<1> DEFINE f == [item |-> i, status |-> s, error |-> e]
<1>1. /\ UNCHANGED <<items, buckets, dead, attempt, now, fired, setBack>>
      /\ running' = running \ {i} /\ failures' = failures \cup {f}
  BY DEF Ends, clockVars
<1>2. i \in DOMAIN items /\ i \notin LoggedItems /\ log[i] = <<>>
  BY Unlogged
<1>3. f \in Failure /\ f.item = i /\ f.status = s
  BY <1>2 DEF Failure
<1> HIDE DEF f
<1>4. Queued' = Queued /\ Failing' = Failing \cup {i} /\ Buried' = Buried
  BY <1>1, <1>3, QueueUnmoved DEF Failing, Buried
<1>5. Apart /\ OneLiveItem /\ FailuresDiffer
  BY OneItemParts DEF QueueInv
<1>6. i \notin Queued /\ i \notin Failing /\ i \notin Buried
  BY <1>5 DEF Apart
<1>7. Apart' /\ Live' = Live
  BY <1>1, <1>4, <1>5, <1>6 DEF Apart, Live, Active
<1>8. FailuresDiffer'
  BY <1>1, <1>3, <1>5, <1>6 DEF FailuresDiffer, Failing
<1>9. /\ log' \in [DOMAIN items -> Seq(Terminal)]
      /\ LoggedItems' = IF s = "failed" THEN LoggedItems \cup {i} ELSE LoggedItems
      /\ Settled' = Settled
      /\ \A j \in DOMAIN items : Len(log'[j]) <= 1
  <2>1. CASE s = "failed"
    BY <1>1, <1>2, <2>1, LogGrows DEF QueueInv, Settled, TerminalOnce, Terminal
  <2>2. CASE s # "failed"
    BY <1>1, <2>2, LogUnmoved DEF QueueInv, TypeOK, Settled, TerminalOnce
  <2> QED
    BY <2>1, <2>2
<1>10. TerminalOnce'
  <2>1. \A g \in failures' : g.item \in LoggedItems' <=> g.status = "failed"
    <3>1. \A g \in failures : g.item # i
      BY <1>6 DEF Failing
    <3> QED
      BY <1>1, <1>2, <1>3, <1>9, <3>1 DEF QueueInv, TerminalOnce
  <2> QED
    BY <1>1, <1>4, <1>6, <1>9, <2>1 DEF QueueInv, TerminalOnce
<1>11. /\ now' \in 0 .. MaxTime /\ fired' \in {None} \cup 0 .. MaxTime
      /\ setBack' \subseteq DOMAIN items
       /\ running' \subseteq DOMAIN items /\ failures' \subseteq Failure
  BY <1>1, <1>3 DEF QueueInv, TypeOK
<1>12. Buried' \subseteq LoggedItems' /\ LoggedItems \subseteq LoggedItems'
  BY <1>4, <1>9 DEF QueueInv, BuriedAreLogged
<1> QED
  BY <1>1, <1>7, <1>8, <1>9, <1>10, <1>11, <1>12, DeadUnmoved, QueueUnmoved, SameItems

\* A failure gets its terminal log, if it has none, and may become a letter.
LEMMA DeadLetterStep ==
  ASSUME QueueInv, NEW f \in failures, DeadLetter(f)
  PROVE  QueueInv'
<1> DEFINE i == f.item
           e == [item |-> i, attempt |-> attempt[CycleOf(i)]]
<1>1. /\ UNCHANGED <<items, buckets, running, attempt, now, fired, setBack>>
      /\ failures' = failures \ {f} /\ MarkFailed(f) /\ Bury(e)
  BY DEF DeadLetter, clockVars
<1>2. i \in DOMAIN items /\ i \in Failing /\ f.status \in {"running", "failed"}
  BY TypeFacts DEF QueueInv, TypeOK, Failing, Failure
<1>3. Apart /\ OneLiveItem /\ FailuresDiffer
  BY OneItemParts DEF QueueInv
<1>4. i \notin Queued /\ i \notin running /\ i \notin Buried
  BY <1>2, <1>3 DEF Apart
<1>5. e \in Entry /\ e.item = i /\ e.attempt = attempt[CycleOf(i)]
  <2>1. CycleOf(i) \in Cycles
    BY <1>2, TypeFacts DEF QueueInv
  <2>2. attempt[CycleOf(i)] \in 1 .. MaxAttempts
    <3>1. /\ attempt[CycleOf(i)] \in 0 .. MaxAttempts
          /\ attempt[CycleOf(i)] = RetriesOf(CycleOf(i)) + 1
      BY <1>2, <2>1 DEF QueueInv, TypeOK, Numbered
    <3>2. RetriesOf(CycleOf(i)) \in Nat
      BY RetriesFinite DEF QueueInv
    <3> QED
      BY <3>1, <3>2, Budget
  <2> QED
    BY <1>2, <2>2 DEF Entry
<1> HIDE DEF i, e
<1>6. /\ dead' \in Seq(Entry) /\ Len(dead') <= MaxDead
      /\ Buried' \subseteq Buried \cup {i} /\ Buried \subseteq Buried'
      /\ \A k \in DOMAIN dead' : dead'[k] = e \/ (k \in DOMAIN dead /\ dead'[k] = dead[k])
      /\ EntriesDiffer'
  BY <1>1, <1>4, <1>5, BuryFacts DEF QueueInv, WithinCapacity, EntriesDiffer
<1>7. \A k \in DOMAIN dead' : dead'[k].attempt = attempt[CycleOf(dead'[k].item)]
  BY <1>5, <1>6 DEF QueueInv, Numbered
<1>8. Queued' = Queued /\ Failing' = Failing \ {i}
  BY <1>1, <1>3, QueueUnmoved DEF Failing, FailuresDiffer, i
<1>9. Apart' /\ FailuresDiffer'
  BY <1>1, <1>2, <1>3, <1>4, <1>6, <1>8 DEF Apart, FailuresDiffer
<1>10. Live' \subseteq Live /\ Live \ Live' \subseteq {i}
  BY <1>1, <1>2, <1>6, <1>8 DEF Live, Active
<1>11. /\ log' \in [DOMAIN items -> Seq(Terminal)]
       /\ LoggedItems' = LoggedItems \cup {i} /\ Settled' = Settled
       /\ \A j \in DOMAIN items : Len(log'[j]) <= 1
  <2>1. CASE f.status = "running"
    <3>1. i \notin LoggedItems
      BY <2>1 DEF QueueInv, TerminalOnce, i
    <3>2. log[i] = <<>> /\ Logged(i, "failed") /\ "failed" \in Terminal
      BY <1>1, <1>2, <2>1, <3>1, NotYetLogged DEF QueueInv, MarkFailed, Terminal, i
    <3>3. \A j \in DOMAIN items : Len(log[j]) <= 1
      BY DEF QueueInv, TerminalOnce
    <3>4. /\ log' \in [DOMAIN items -> Seq(Terminal)]
          /\ LoggedItems' = LoggedItems \cup {i}
          /\ \A u : LoggedAs(u)' = IF u = "failed" THEN LoggedAs(u) \cup {i} ELSE LoggedAs(u)
          /\ \A j \in DOMAIN items : Len(log'[j]) <= 1
      BY <1>1, <1>2, <3>2, <3>3, LogGrows DEF QueueInv
    <3>5. Settled' = Settled
      BY <3>4 DEF Settled
    <3> QED
      BY <3>4, <3>5
  <2>2. CASE f.status = "failed"
    <3>1. i \in LoggedItems /\ log' = log
      BY <1>1, <2>2 DEF QueueInv, TerminalOnce, MarkFailed, i
    <3>2. LoggedItems' = LoggedItems /\ Settled' = Settled
      BY <1>1, <3>1, LogUnmoved DEF Settled
    <3>3. LoggedItems = LoggedItems \cup {i}
      BY <3>1
    <3>4. /\ log' \in [DOMAIN items -> Seq(Terminal)]
          /\ \A j \in DOMAIN items : Len(log'[j]) <= 1
      BY <3>1 DEF QueueInv, TypeOK, TerminalOnce
    <3>5. LoggedItems' = LoggedItems \cup {i}
      BY <3>2, <3>3
    <3>6. Settled' = Settled
      BY <3>2
    <3> QED
      BY <3>4, <3>5, <3>6
  <2> QED
    BY <1>2, <2>1, <2>2
<1>12. TerminalOnce'
  <2>1. \A g \in failures' : g \in failures /\ g.item # i
    BY <1>1, <1>3 DEF FailuresDiffer, i
  <2> QED
    BY <1>1, <1>4, <1>8, <1>11, <2>1 DEF QueueInv, TerminalOnce
<1>13. /\ now' \in 0 .. MaxTime /\ fired' \in {None} \cup 0 .. MaxTime
      /\ setBack' \subseteq DOMAIN items
       /\ running' \subseteq DOMAIN items /\ failures' \subseteq Failure
  BY <1>1 DEF QueueInv, TypeOK
<1>14. Buried' \subseteq LoggedItems'
  BY <1>6, <1>11 DEF QueueInv, BuriedAreLogged
<1> QED
  BY <1>1, <1>6, <1>7, <1>9, <1>10, <1>11, <1>12, <1>13, <1>14, QueueUnmoved, SameItems

\* The queue was full: the popped entry is gone, but it was logged.
LEMMA LostReplayStep ==
  ASSUME QueueInv, PopOldest,
         UNCHANGED <<items, buckets, log, attempt, running, failures, now, fired, setBack>>
  PROVE  QueueInv'
<1> DEFINE i == Head(dead).item
<1>1. /\ i \in Buried
      /\ dead' \in Seq(Entry) /\ Len(dead') <= Len(dead)
      /\ Buried' = Buried \ {i}
      /\ \A k \in DOMAIN dead' : k + 1 \in DOMAIN dead /\ dead'[k] = dead[k + 1]
      /\ EntriesDiffer'
  BY PopFacts DEF QueueInv, EntriesDiffer
<1> HIDE DEF i
<1>2. Len(dead') <= MaxDead
  <2>1. Len(dead) \in Nat /\ Len(dead') \in Nat /\ MaxDead \in Nat
    BY <1>1, ConfigurationIsValid DEF QueueInv, TypeOK
  <2> QED
    BY <1>1, <2>1, AtMost DEF QueueInv, WithinCapacity
<1>3. \A k \in DOMAIN dead' : dead'[k].attempt = attempt[CycleOf(dead'[k].item)]
  BY <1>1 DEF QueueInv, Numbered
<1>4. Queued' = Queued /\ Failing' = Failing
  BY QueueUnmoved DEF Failing
<1>5. Apart' /\ FailuresDiffer' /\ Live' \subseteq Live /\ Live \ Live' \subseteq {i}
  BY <1>1, <1>4, OneItemParts DEF QueueInv, Apart, FailuresDiffer, Live, Active
<1>6. LoggedItems' = LoggedItems /\ Settled' = Settled
  BY LogUnmoved DEF Settled
<1>7. TerminalOnce' /\ Buried' \subseteq LoggedItems' /\ i \in LoggedItems'
  BY <1>1, <1>4, <1>6 DEF QueueInv, TerminalOnce, BuriedAreLogged
<1>8. /\ now' \in 0 .. MaxTime /\ fired' \in {None} \cup 0 .. MaxTime
      /\ setBack' \subseteq DOMAIN items
      /\ log' \in [DOMAIN items -> Seq(Terminal)]
      /\ running' \subseteq DOMAIN items /\ failures' \subseteq Failure
  BY DEF QueueInv, TypeOK
<1> QED
  BY <1>1, <1>2, <1>3, <1>5, <1>6, <1>7, <1>8, QueueUnmoved, SameItems

-----------------------------------------------------------------------------
(* QueueInv after a step that adds an item. *)

LEMMA NumberedAdded ==
  ASSUME QueueInv, NEW c \in Cycles, NEW p, NEW t, NEW at, ItemAdded(c, p, t, at),
         attempt' = [attempt EXCEPT ![c] = RetriesOf(c)' + 1],
         RetriesOf(c)' \in Nat, RetriesOf(c)' <= AllowedRetries,
         \A k \in DOMAIN dead' :
           /\ dead'[k].item \in DOMAIN items
           /\ dead'[k].attempt = attempt[CycleOf(dead'[k].item)]
           /\ CycleOf(dead'[k].item) # c \/ attempt' = attempt
  PROVE  Numbered' /\ attempt' \in [Cycles -> 0 .. MaxAttempts]
<1> PICK n : n = NewItem
  OBVIOUS
<1>1. /\ DOMAIN items' = DOMAIN items \cup {n}
      /\ \A i \in DOMAIN items : CycleOf(i)' = CycleOf(i)
      /\ CycleOf(n)' = c
  BY DEF ItemAdded, CycleOf
<1>2. \A d \in Cycles \ {c} : RetriesOf(d)' = RetriesOf(d)
  BY RetriesAdded DEF QueueInv
<1> PICK r \in Nat : r = RetriesOf(c)'
  OBVIOUS
<1>3. /\ attempt'[c] = r + 1
      /\ \A d \in Cycles \ {c} : attempt'[d] = attempt[d]
  BY DEF QueueInv, TypeOK
<1>4. ASSUME NEW d \in Cycles
      PROVE  attempt'[d] = IF \E i \in DOMAIN items' : CycleOf(i)' = d
                           THEN RetriesOf(d)' + 1 ELSE 0
  <2>1. CASE d = c
    BY <1>1, <1>3, <2>1
  <2>2. CASE d # c
    <3>1. (\E i \in DOMAIN items' : CycleOf(i)' = d) <=> (\E i \in DOMAIN items : CycleOf(i) = d)
      BY <1>1, <2>2
    <3> QED
      BY <1>2, <1>3, <2>2, <3>1 DEF QueueInv, Numbered
  <2> QED
    BY <2>1, <2>2
<1>5. \A d \in Cycles : attempt'[d] <= AllowedRetries + 1
  <2>1. r + 1 <= AllowedRetries + 1
    BY Budget
  <2> QED
    BY <1>3, <2>1 DEF QueueInv, Numbered
<1>6. \A k \in DOMAIN dead' : dead'[k].attempt = attempt'[CycleOf(dead'[k].item)]
  <2>1. \A k \in DOMAIN dead' : CycleOf(dead'[k].item) \in Cycles
    BY TypeFacts DEF QueueInv
  <2> QED
    BY <1>3, <2>1
<1>7. \A k \in DOMAIN dead' : dead'[k].attempt = attempt'[items'[dead'[k].item].cycle]
  BY <1>6 DEF ItemAdded, CycleOf
<1>8. Numbered'
  BY <1>4, <1>5, <1>7 DEF Numbered, CycleOf
<1>9. r + 1 \in 0 .. MaxAttempts
  <2>1. \A a, x \in Nat : r <= a /\ a + 1 <= x => r + 1 \in 0 .. x
    OBVIOUS
  <2> QED
    BY <2>1, Budget
<1>10. attempt' \in [Cycles -> 0 .. MaxAttempts]
  BY <1>9 DEF QueueInv, TypeOK
<1> QED
  BY <1>8, <1>10

\* A new item takes the place of the live items gone, all of cycle c.
Replaced(c, gone) ==
  /\ Live' = (Live \ gone) \cup {NewItem}
  /\ \A i \in gone : CycleOf(i) = c
  /\ \A i \in Live \ gone : CycleOf(i) # c
  /\ \A i \in Settled : CycleOf(i) # c

LEMMA MoreItems ==
  ASSUME QueueInv, NEW c \in Cycles, NEW p \in Priorities, NEW t \in Triggers, NEW at,
         ItemAdded(c, p, t, at), now' \in 0 .. MaxTime,
         fired' \in {None} \cup 0 .. MaxTime, setBack' \subseteq DOMAIN items \cup {NewItem},
         running' = running, failures' \subseteq failures,
         dead' \in Seq(Entry), Len(dead') <= MaxDead, Buried' \subseteq Buried,
         EntriesDiffer', Numbered', attempt' \in [Cycles -> 0 .. MaxAttempts],
         NEW gone, Replaced(c, gone)
  PROVE  QueueInv'
<1> PICK n : n = NewItem
  OBVIOUS
<1>1. /\ items' \in Seq(Item) /\ buckets' \in [Priorities -> Seq(DOMAIN items')]
      /\ log' \in [DOMAIN items' -> Seq(Terminal)]
      /\ DOMAIN items' = DOMAIN items \cup {n} /\ n \notin DOMAIN items
      /\ \A i \in DOMAIN items : log'[i] = log[i]
      /\ log'[n] = <<>>
      /\ Queued' = Queued \cup {n} /\ InOrder'
  BY DEF ItemAdded
<1>2. /\ Queued \subseteq DOMAIN items /\ running \subseteq DOMAIN items
      /\ Failing \subseteq DOMAIN items /\ Buried \subseteq DOMAIN items
      /\ Live \subseteq DOMAIN items
  BY TypeFacts DEF QueueInv, TypeOK
<1>3. Failing' \subseteq Failing
  BY DEF Failing
<1>4. TypeOK'
  <2>1. failures' \subseteq Failure'
    BY <1>1 DEF QueueInv, TypeOK, Failure
  <2>2. dead' \in Seq(Entry')
    <3>1. Entry \subseteq Entry'
      BY <1>1 DEF Entry
    <3> QED
      BY <3>1, SeqMonotonic
  <2>3. Item' = Item
    BY DEF Item
  <2>4. setBack' \subseteq DOMAIN items'
    BY <1>1
  <2> QED
    BY <1>1, <1>2, <2>1, <2>2, <2>3, <2>4 DEF TypeOK
<1>5. WithinCapacity'
  <2>1. Size \in Nat /\ MaxSize \in Nat
    <3>1. \A q \in Priorities : Len(buckets[q]) \in Nat
      BY DEF QueueInv, TypeOK
    <3> QED
      BY <3>1, TotalIsNat, SizeIsTotal, ConfigurationIsValid
  <2>2. \A k, m \in Nat : k < m => k + 1 <= m
    OBVIOUS
  <2>3. Size + 1 <= MaxSize /\ Size' = Size + 1
    BY <2>1, <2>2 DEF ItemAdded
  <2> QED
    BY <2>3 DEF WithinCapacity
<1>6. Apart' /\ FailuresDiffer'
  BY <1>1, <1>2, <1>3, OneItemParts DEF QueueInv, Apart, FailuresDiffer
<1>7. OneLiveItem' /\ NoItemVanishes' /\ SettledIsFinal'
  BY <1>2, OneItemParts, OneAdded DEF QueueInv, Replaced
<1>8. OneItemPerCycle'
  BY <1>6, <1>7, OneItemParts, PTL
<1>9. LoggedItems' = LoggedItems /\ LoggedItems \subseteq DOMAIN items
  BY LogKeepsAdded DEF LoggedItems, LoggedAs
<1>10. TerminalOnce'
  <2>1. Len(<<>>) <= 1
    OBVIOUS
  <2>2. \A i \in DOMAIN items' : Len(log'[i]) <= 1
    BY <1>1, <2>1 DEF QueueInv, TerminalOnce
  <2>3. \A f \in failures' : f.item \in LoggedItems' <=> f.status = "failed"
    BY <1>9 DEF QueueInv, TerminalOnce
  <2> QED
    BY <1>1, <1>9, <2>2, <2>3 DEF QueueInv, TerminalOnce
<1>11. BuriedAreLogged'
  BY <1>9 DEF QueueInv, BuriedAreLogged
<1> QED
  BY <1>1, <1>4, <1>5, <1>7, <1>8, <1>10, <1>11 DEF QueueInv

LEMMA NewCycleStep ==
  ASSUME QueueInv, NEW p \in Priorities, NEW t \in Triggers, t # "retry",
         NEW at \in 0 .. MaxTime,
         NewCycle(p, t, at), now' \in 0 .. MaxTime, fired' \in {None} \cup 0 .. MaxTime,
         setBack' \subseteq DOMAIN items \cup {NewItem}
  PROVE  QueueInv'
<1>1. PICK c \in Cycles : /\ \A i \in DOMAIN items : CycleOf(i) # c
                         /\ Enqueue(c, p, t, at)
                         /\ attempt' = [attempt EXCEPT ![c] = 1]
  BY DEF NewCycle
<1>2. UNCHANGED <<running, failures, dead>>
  BY DEF NewCycle
<1>3. ItemAdded(c, p, t, at)
  BY <1>1, EnqueueAdds DEF QueueInv
<1>4. /\ dead' \in Seq(Entry) /\ Len(dead') <= MaxDead
      /\ \A k \in DOMAIN dead' : dead'[k].attempt = attempt[CycleOf(dead'[k].item)]
      /\ EntriesDiffer' /\ Buried' = Buried
  BY <1>2, DeadUnmoved
<1>5. Failing' = Failing /\ Queued' = Queued \cup {NewItem}
  BY <1>2, <1>3 DEF Failing, ItemAdded
<1>6. Live \subseteq DOMAIN items /\ Buried \subseteq DOMAIN items
  BY TypeFacts DEF QueueInv
<1>7. Numbered' /\ attempt' \in [Cycles -> 0 .. MaxAttempts]
  <2>1. RetriesOf(c)' = 0
    <3>1. RetriesOf(c) = 0
      BY <1>1, RetriesFinite DEF QueueInv
    <3> QED
      BY <1>3, <3>1, RetriesAdded DEF QueueInv
  <2>2. /\ attempt' = [attempt EXCEPT ![c] = RetriesOf(c)' + 1]
        /\ RetriesOf(c)' \in Nat /\ RetriesOf(c)' <= AllowedRetries
    <3>1. 0 + 1 = 1
      OBVIOUS
    <3> QED
      BY <1>1, <2>1, <3>1, Budget
  <2>3. \A k \in DOMAIN dead' : dead'[k].item \in DOMAIN items
    BY <1>2, <1>6 DEF Buried, ToSet
  <2>4. \A k \in DOMAIN dead' : CycleOf(dead'[k].item) # c
    BY <1>1, <2>3
  <2> QED
    BY <1>3, <1>4, <2>2, <2>3, <2>4, NumberedAdded
<1>8. Live' = (Live \ {}) \cup {NewItem}
  BY <1>2, <1>4, <1>5 DEF Live, Active
<1>9. /\ \A i \in Live \ {} : CycleOf(i) # c
      /\ \A i \in Settled : CycleOf(i) # c
      /\ \A i \in {} : CycleOf(i) = c
      /\ failures' \subseteq failures
  BY <1>1, <1>2, <1>6 DEF Settled, LoggedAs
<1>10. Replaced(c, {})
  BY <1>8, <1>9 DEF Replaced
<1> QED
  BY <1>2, <1>3, <1>4, <1>7, <1>9, <1>10, MoreItems

LEMMA RetryStep ==
  ASSUME QueueInv, NEW f \in failures, Retry(f)
  PROVE  QueueInv'
<1> PICK c : c = CycleOf(f.item)
  OBVIOUS
<1>1. PICK p \in RetryPriorities : Enqueue(c, p, "retry", now)
  BY DEF Retry
<1>2. /\ UNCHANGED <<running, dead, now, fired, setBack>>
      /\ Retries(f.error, attempt[c])
      /\ attempt' = [attempt EXCEPT ![c] = attempt[c] + 1]
      /\ failures' = failures \ {f}
  BY DEF Retry, clockVars
<1>3. /\ f.item \in DOMAIN items /\ f.item \in Failing /\ f.item \in Live
      /\ c \in Cycles /\ p \in Priorities /\ f.error \in BOOLEAN
  BY TypeFacts, ConfigurationIsValid DEF QueueInv, TypeOK, Failing, Failure, Live, Active
<1>4. ItemAdded(c, p, "retry", now)
  BY <1>1, <1>3, EnqueueAdds, NowInRange DEF QueueInv, Triggers
<1>5. /\ dead' \in Seq(Entry) /\ Len(dead') <= MaxDead
      /\ \A k \in DOMAIN dead' : dead'[k].attempt = attempt[CycleOf(dead'[k].item)]
      /\ EntriesDiffer' /\ Buried' = Buried
  BY <1>2, DeadUnmoved
<1>6. Apart /\ OneLiveItem /\ FailuresDiffer
  BY OneItemParts DEF QueueInv
<1>7. Failing' = Failing \ {f.item} /\ Queued' = Queued \cup {NewItem}
  BY <1>2, <1>4, <1>6 DEF Failing, ItemAdded, FailuresDiffer
<1>8. Buried \subseteq DOMAIN items /\ f.item \notin Buried
  BY <1>3, <1>6, TypeFacts DEF QueueInv, Apart
<1>9. \A i \in Live \ {f.item} : CycleOf(i) # c
  BY <1>3, <1>6 DEF OneLiveItem
<1>10. \A i \in Settled : CycleOf(i) # c
  BY <1>3 DEF QueueInv, SettledIsFinal, Settled
<1>11. Numbered' /\ attempt' \in [Cycles -> 0 .. MaxAttempts]
  <2>1. RetriesOf(c) \in Nat /\ RetriesOf(c)' = RetriesOf(c) + 1
    BY <1>4, RetriesFinite, RetriesAdded DEF QueueInv
  <2>2. attempt[c] = RetriesOf(c) + 1
    BY <1>3 DEF QueueInv, Numbered
  <2>3. attempt[c] < MaxAttempts /\ AllowedRetries = MaxAttempts - 1
    BY <1>2, <1>3, Budget
  <2>4. RetriesOf(c)' <= AllowedRetries
    BY <2>1, <2>2, <2>3, Budget
  <2>5. /\ attempt' = [attempt EXCEPT ![c] = RetriesOf(c)' + 1]
        /\ RetriesOf(c)' \in Nat
    BY <1>2, <2>1, <2>2
  <2>6. \A k \in DOMAIN dead' : dead'[k].item \in Buried
    BY <1>2 DEF Buried, ToSet
  <2>7. \A k \in DOMAIN dead' : /\ dead'[k].item \in DOMAIN items
                                /\ CycleOf(dead'[k].item) # c
    BY <1>8, <1>9, <2>6 DEF Live
  <2> QED
    BY <1>3, <1>4, <1>5, <2>4, <2>5, <2>7, NumberedAdded
<1>12. Live' = (Live \ {f.item}) \cup {NewItem}
  BY <1>2, <1>3, <1>5, <1>6, <1>7, <1>8 DEF Live, Active, Apart
<1>13. /\ now' \in 0 .. MaxTime /\ fired' \in {None} \cup 0 .. MaxTime
      /\ setBack' \subseteq DOMAIN items \cup {NewItem} /\ "retry" \in Triggers
  BY <1>2 DEF QueueInv, TypeOK, Triggers
<1>14. Replaced(c, {f.item})
  BY <1>9, <1>10, <1>12 DEF Replaced
<1>15. failures' \subseteq failures /\ Buried' \subseteq Buried
  BY <1>2, <1>5
<1> QED
  BY <1>2, <1>3, <1>4, <1>5, <1>11, <1>13, <1>14, <1>15, MoreItems

LEMMA RevivedStep ==
  ASSUME QueueInv, PopOldest, UNCHANGED <<running, failures, now, fired, setBack>>,
         Revived(CycleOf(Head(dead).item), Head(dead).attempt)
  PROVE  QueueInv'
<1> PICK x, c : x = Head(dead).item /\ c = CycleOf(x)
  OBVIOUS
<1>1. PICK p \in RetryPriorities : Enqueue(c, p, "replay", now)
  BY DEF Revived
<1>2. /\ x \in Buried /\ Head(dead) = dead[1] /\ 1 \in DOMAIN dead
      /\ dead' \in Seq(Entry) /\ Len(dead') <= Len(dead)
      /\ Buried' = Buried \ {x}
      /\ \A k \in DOMAIN dead' : k + 1 \in DOMAIN dead /\ dead'[k] = dead[k + 1]
      /\ EntriesDiffer'
  BY PopFacts DEF QueueInv, EntriesDiffer
<1>3. attempt' = [attempt EXCEPT ![c] = attempt[c]]
  <2>1. dead[1].attempt = attempt[CycleOf(dead[1].item)]
    BY <1>2 DEF QueueInv, Numbered
  <2> QED
    BY <1>2, <2>1 DEF Revived
<1>4. /\ Buried \subseteq DOMAIN items /\ x \in DOMAIN items /\ x \in Live
      /\ c \in Cycles /\ p \in Priorities
  BY <1>2, TypeFacts, ConfigurationIsValid DEF QueueInv, Live
<1>5. ItemAdded(c, p, "replay", now)
  BY <1>1, <1>4, EnqueueAdds, NowInRange DEF QueueInv, Triggers
<1>6. Apart /\ OneLiveItem
  BY OneItemParts DEF QueueInv
<1>7. \A i \in Live \ {x} : CycleOf(i) # c
  BY <1>4, <1>6 DEF OneLiveItem
<1>8. \A i \in Settled : CycleOf(i) # c
  BY <1>4 DEF QueueInv, SettledIsFinal, Settled
<1>9. \A i \in {x} : CycleOf(i) = c
  OBVIOUS
<1>10. Failing' = Failing /\ Queued' = Queued \cup {NewItem}
  BY <1>5 DEF Failing, ItemAdded
<1>11. \A k \in DOMAIN dead' : /\ dead'[k].item \in DOMAIN items
                               /\ dead'[k].attempt = attempt[CycleOf(dead'[k].item)]
  BY <1>2, <1>4 DEF QueueInv, Numbered, Buried, ToSet
<1>12. Numbered' /\ attempt' \in [Cycles -> 0 .. MaxAttempts]
  <2>1. RetriesOf(c) \in Nat /\ RetriesOf(c)' = RetriesOf(c)
    BY <1>5, RetriesFinite, RetriesAdded DEF QueueInv
  <2>2. attempt[c] = RetriesOf(c) + 1 /\ attempt[c] <= AllowedRetries + 1
    BY <1>4 DEF QueueInv, Numbered
  <2>3. RetriesOf(c)' \in Nat /\ RetriesOf(c)' <= AllowedRetries
    BY <2>1, <2>2, Budget
  <2>4. attempt' = [attempt EXCEPT ![c] = RetriesOf(c)' + 1]
    BY <1>3, <2>1, <2>2
  <2>5. attempt' = attempt
    BY <1>3, <1>4 DEF QueueInv, TypeOK
  <2> QED
    BY <1>4, <1>5, <1>11, <2>3, <2>4, <2>5, NumberedAdded
<1>13. Len(dead') <= MaxDead
  <2>1. Len(dead) \in Nat /\ Len(dead') \in Nat /\ MaxDead \in Nat
    BY <1>2, ConfigurationIsValid DEF QueueInv, TypeOK
  <2> QED
    BY <1>2, <2>1, AtMost DEF QueueInv, WithinCapacity
<1>14. Live' = (Live \ {x}) \cup {NewItem}
  BY <1>2, <1>6, <1>10 DEF Live, Active, Apart
<1>15. /\ now' \in 0 .. MaxTime /\ fired' \in {None} \cup 0 .. MaxTime
      /\ setBack' \subseteq DOMAIN items \cup {NewItem} /\ "replay" \in Triggers
  BY DEF QueueInv, TypeOK, Triggers
<1>16. Buried' \subseteq Buried /\ running' = running /\ failures' \subseteq failures
  BY <1>2
<1>17. Replaced(c, {x})
  BY <1>7, <1>8, <1>9, <1>14 DEF Replaced
<1> QED
  BY <1>2, <1>4, <1>5, <1>12, <1>13, <1>15, <1>16, <1>17, MoreItems

-----------------------------------------------------------------------------
(* QueueInv holds in every reachable state. *)

LEMMA QueueInvInit ==
  ASSUME Init
  PROVE  QueueInv
<1>1. /\ DOMAIN items = {} /\ log = <<>> /\ dead = <<>> /\ failures = {} /\ running = {}
      /\ \A p \in Priorities : buckets[p] = <<>>
  BY DEF Init
<1>2. /\ Queued = {} /\ Failing = {} /\ Buried = {} /\ LoggedItems = {}
      /\ \A s : LoggedAs(s) = {}
  BY <1>1 DEF Queued, Failing, Buried, LoggedItems, LoggedAs, ToSet
<1>3. Live = {}
  BY <1>1, <1>2 DEF Live, Active
<1>4. TypeOK
  <2>1. /\ <<>> \in Seq(Item) /\ <<>> \in Seq(Entry) /\ <<>> \in Seq(DOMAIN items)
        /\ log \in [DOMAIN items -> Seq(Terminal)]
    BY <1>1
  <2>2. now \in 0 .. MaxTime
    BY ConfigurationIsValid DEF Init
  <2>3. attempt \in [Cycles -> 0 .. MaxAttempts]
    BY Budget DEF Init
  <2> QED
    BY <1>1, <2>1, <2>2, <2>3 DEF TypeOK, Init
<1>5. WithinCapacity
  <2> DEFINE len(q) == Len(buckets[q])
  <2>1. /\ len(0) = 0 /\ len(10) = 0 /\ len(50) = 0 /\ len(90) = 0 /\ len(100) = 0
        /\ Len(dead) = 0
    BY <1>1, PriorityNames
  <2>2. Size = len(0) + len(10) + len(50) + len(90) + len(100)
    BY SizeIsTotal DEF Total
  <2> HIDE DEF len
  <2>3. Size = 0
    BY <2>1, <2>2
  <2> QED
    BY <2>1, <2>3, ConfigurationIsValid DEF WithinCapacity
<1>6. InOrder
  BY <1>1 DEF InOrder, Increasing, ToSet
<1>7. OneItemPerCycle
  BY <1>1, <1>2, <1>3 DEF OneItemPerCycle
<1>8. TerminalOnce /\ BuriedAreLogged /\ NoItemVanishes /\ SettledIsFinal
  BY <1>1, <1>2, <1>3 DEF TerminalOnce, BuriedAreLogged, NoItemVanishes, SettledIsFinal
<1>9. Numbered
  <2>1. \A c \in Cycles : attempt[c] = 0
    BY DEF Init
  <2>2. 0 <= AllowedRetries + 1
    BY Budget
  <2> QED
    BY <1>1, <2>1, <2>2 DEF Numbered
<1> QED
  BY <1>4, <1>5, <1>6, <1>7, <1>8, <1>9 DEF QueueInv

LEMMA QueueInvNext ==
  ASSUME QueueInv, [Next]_vars
  PROVE  QueueInv'
<1>1. /\ now \in 0 .. MaxTime /\ fired \in {None} \cup 0 .. MaxTime
      /\ setBack \subseteq DOMAIN items
  BY DEF QueueInv, TypeOK
<1>2. CASE Schedule
  <2>1. NORMAL \in Priorities /\ "manual" \in Triggers /\ "manual" # "retry"
    BY DEF Priorities, Triggers
  <2> QED
    BY <1>1, <1>2, <2>1, NewCycleStep DEF Schedule, clockVars
<1>3. CASE Notify
  <2>1. PICK s \in Severities :
          NewCycle(IF s \in DOMAIN SeverityPriority THEN SeverityPriority[s]
                   ELSE HIGH, "burst", now)
    BY <1>3 DEF Notify
  <2>2. (IF s \in DOMAIN SeverityPriority THEN SeverityPriority[s] ELSE HIGH) \in Priorities
    BY DEF SeverityPriority, Priorities
  <2>3. "burst" \in Triggers /\ "burst" # "retry" /\ UNCHANGED <<now, fired, setBack>>
    BY <1>3 DEF Triggers, Notify, clockVars
  <2> QED
    BY <1>1, <2>1, <2>2, <2>3, NewCycleStep
<1>4. CASE ScheduleInterval
  <2>1. NORMAL \in Priorities /\ "scheduled" \in Triggers /\ "scheduled" # "retry"
    BY DEF Priorities, Triggers
  <2>2. PICK made \in 0 .. MaxTime :
          /\ NewCycle(NORMAL, "scheduled", made)
          /\ now' \in 0 .. MaxTime /\ fired' \in 0 .. MaxTime
          /\ setBack' = setBack \/ setBack' = setBack \cup {NewItem}
    BY <1>4 DEF ScheduleInterval, NewItem
  <2> QED
    BY <1>1, <1>4, <2>1, <2>2, NewCycleStep
<1>5. CASE ClockMoves
  BY <1>5, IdleStep DEF ClockMoves, queueVars
<1>6. CASE Dequeue
  BY <1>6, DequeueStep
<1>7. CASE Replay
  BY <1>7, RevivedStep, LostReplayStep DEF Replay, queueVars, clockVars
<1>8. CASE \E i \in Queued : Cancel(i)
  BY <1>8, CancelStep
<1>9. ASSUME NEW i \in running, CycleSucceeds(i) PROVE QueueInv'
  BY <1>9, SucceedsStep
<1>10. ASSUME NEW i \in running, DispatchRaises(i) PROVE QueueInv'
  BY <1>10, EndsStep DEF DispatchRaises
<1>11. ASSUME NEW i \in running, ReportFails(i) PROVE QueueInv'
  BY <1>11, EndsStep DEF ReportFails
<1>12. CASE \E f \in failures : Retry(f) \/ DeadLetter(f)
  BY <1>12, RetryStep, DeadLetterStep
<1>13. CASE UNCHANGED vars
  BY <1>1, <1>13, IdleStep DEF vars, queueVars, clockVars
<1> QED
  BY <1>2, <1>3, <1>4, <1>5, <1>6, <1>7, <1>8, <1>9, <1>10, <1>11, <1>12, <1>13 DEF Next

\* The inductive invariant of the runtime queue, for every capacity, policy,
\* budget and set of cycles: see QueueInv.
THEOREM QueueInvariant == Spec => []QueueInv
<1>1. Init => QueueInv
  BY QueueInvInit
<1>2. QueueInv /\ [Next]_vars => QueueInv'
  BY QueueInvNext
<1> QED
  BY <1>1, <1>2, PTL DEF Spec

\* TypeOK: every variable keeps its shape.
THEOREM TypeCorrect == Spec => []TypeOK
<1>1. QueueInv => TypeOK
  BY DEF QueueInv
<1> QED
  BY <1>1, QueueInvariant, PTL

\* WithinCapacity: neither queue ever exceeds its max_size.
THEOREM CapacityKept == Spec => []WithinCapacity
<1>1. QueueInv => WithinCapacity
  BY DEF QueueInv
<1> QED
  BY <1>1, QueueInvariant, PTL

\* OneItemPerCycle: a cycle is never dealt with in two places at once.
THEOREM OnePlace == Spec => []OneItemPerCycle
<1>1. QueueInv => OneItemPerCycle
  BY DEF QueueInv
<1> QED
  BY <1>1, QueueInvariant, PTL

\* NoItemVanishes: an item nobody deals with any more is on record or superseded.
THEOREM EveryItemAccounted == Spec => []NoItemVanishes
<1>1. QueueInv => NoItemVanishes
  BY DEF QueueInv
<1> QED
  BY <1>1, QueueInvariant, PTL

\* TerminalOnce: an item enters the terminal logs at most once, and not while it
\* is queued or runs.
THEOREM LoggedOnce == Spec => []TerminalOnce
<1>1. QueueInv => TerminalOnce
  BY DEF QueueInv
<1> QED
  BY <1>1, QueueInvariant, PTL

\* SettledIsFinal: a completed or cancelled cycle is never taken up again.
THEOREM SettledForGood == Spec => []SettledIsFinal
<1>1. QueueInv => SettledIsFinal
  BY DEF QueueInv
<1> QED
  BY <1>1, QueueInvariant, PTL

\* RetriesWithinBudget: replays do not refill the retry budget of a cycle.
THEOREM BudgetKept == Spec => []RetriesWithinBudget
<1>1. QueueInv => RetriesWithinBudget
  <2> SUFFICES ASSUME QueueInv, NEW c \in Cycles
               PROVE  RetriesOf(c) <= AllowedRetries
    BY DEF RetriesWithinBudget
  <2>1. /\ RetriesOf(c) \in Nat /\ AllowedRetries \in Nat
        /\ (\A i \in DOMAIN items : CycleOf(i) # c) => RetriesOf(c) = 0
    BY RetriesFinite, Budget DEF QueueInv
  <2>2. CASE \E i \in DOMAIN items : CycleOf(i) = c
    <3>1. attempt[c] = RetriesOf(c) + 1 /\ attempt[c] <= AllowedRetries + 1
      BY <2>2 DEF QueueInv, Numbered
    <3> QED
      BY <2>1, <3>1
  <2>3. CASE \A i \in DOMAIN items : CycleOf(i) # c
    BY <2>1, <2>3
  <2> QED
    BY <2>2, <2>3
<1> QED
  BY <1>1, QueueInvariant, PTL

\* DispatchOrder: an item taken from the queue is the most urgent one, and
\* the oldest of its priority.
THEOREM TakenInOrder == Spec => DispatchOrder
<1> DEFINE Ordered ==
      \A i \in running' \ running : \A j \in Queued \ {i} :
        \/ items[i].priority < items[j].priority
        \/ items[i].priority = items[j].priority /\ i < j
<1>1. QueueInv /\ [Next]_vars => [Ordered]_vars
  <2> SUFFICES ASSUME QueueInv, Next PROVE Ordered
    OBVIOUS
  <2>1. CASE Dequeue
    <3>1. \E p \in Priorities : TakeNext(p) /\ items' = items
      BY <2>1 DEF Dequeue
    <3>2. PICK x \in Queued :
            /\ running' = running \cup {x}
            /\ \A j \in Queued \ {x} :
                 \/ items[x].priority < items[j].priority
                 \/ items[x].priority = items[j].priority /\ x < j
      BY <3>1, TakeRemoves DEF QueueInv
    <3> QED
      BY <3>2
  <2>2. CASE ~ Dequeue
    <3>1. running' \subseteq running
      BY <2>2 DEF Next, Schedule, Notify, ScheduleInterval, NewCycle, ClockMoves,
         Replay, Cancel, CycleSucceeds, DispatchRaises, ReportFails, Ends, Retry, DeadLetter
    <3> QED
      BY <3>1
  <2> QED
    BY <2>1, <2>2
<1> QED
  BY <1>1, QueueInvariant, PTL DEF Spec, DispatchOrder

-----------------------------------------------------------------------------
(* The interval trigger. *)

\* No scheduled item is younger than the tick the scheduler remembers, unless
\* the clock was set back during its tick or a later one.
Remembered ==
  \A i \in Ticks :
    (\A k \in setBack : k < i) => fired # None /\ items[i].at <= fired

TickInv == TicksSpaced /\ Remembered

LEMMA AppendedItem ==
  ASSUME TypeOK, NEW c \in Cycles, NEW p \in Priorities, NEW t \in Triggers, NEW at \in 0 .. MaxTime,
         Enqueue(c, p, t, at)
  PROVE  \E n : /\ DOMAIN items' = DOMAIN items \cup {n}
                /\ n \notin DOMAIN items
                /\ \A i \in DOMAIN items : items'[i] = items[i] /\ i < n /\ ~ (n < i)
                /\ items'[n].trigger = t /\ items'[n].at = at /\ ~ (n < n)
                /\ n = NewItem
<1> DEFINE item == [cycle |-> c, priority |-> p, trigger |-> t, at |-> at]
           n == Len(items) + 1
<1>1. items \in Seq(Item) /\ item \in Item /\ items' = Append(items, item)
  BY DEF TypeOK, Item, Enqueue
<1>2. item.trigger = t /\ item.at = at
  OBVIOUS
<1> HIDE DEF item
<1>3. /\ DOMAIN items' = DOMAIN items \cup {n} /\ n \notin DOMAIN items
      /\ \A i \in DOMAIN items : items'[i] = items[i] /\ i < n /\ ~ (n < i)
      /\ items'[n] = item /\ ~ (n < n)
  BY <1>1
<1>4. n = NewItem
  BY DEF NewItem
<1> QED
  BY <1>2, <1>3, <1>4

LEMMA TickNext ==
  ASSUME TypeOK, TickInv, [Next]_vars
  PROVE  TickInv'
<1> USE DEF Ticks
<1>1. ASSUME items' = items, fired' = fired, setBack' = setBack PROVE TickInv'
  BY <1>1 DEF TickInv, TicksSpaced, Remembered
<1>2. ASSUME NEW c \in Cycles, NEW p \in Priorities, NEW t \in Triggers,
             t # "scheduled", Enqueue(c, p, t, now), fired' = fired, setBack' = setBack
      PROVE  TickInv'
  <2>1. now \in 0 .. MaxTime
    BY DEF TypeOK
  <2>2. PICK n : /\ DOMAIN items' = DOMAIN items \cup {n}
                 /\ \A i \in DOMAIN items : items'[i] = items[i]
                 /\ items'[n].trigger = t
    BY <1>2, <2>1, AppendedItem
  <2> QED
    BY <1>2, <2>2 DEF TickInv, TicksSpaced, Remembered
<1>3. ASSUME NEW c \in Cycles, NEW p \in Priorities,
             NEW made \in 0 .. MaxTime, NEW stamped \in 0 .. MaxTime,
             Enqueue(c, p, "scheduled", made), Due, fired' = stamped,
             setBack' = IF ClockHeld(made, stamped) THEN setBack
                        ELSE setBack \cup {NewItem}
      PROVE  TickInv'
  <2>1. PICK n : /\ DOMAIN items' = DOMAIN items \cup {n} /\ n \notin DOMAIN items
                 /\ \A i \in DOMAIN items : items'[i] = items[i] /\ i < n /\ ~ (n < i)
                 /\ items'[n].at = made /\ ~ (n < n) /\ n = NewItem
    <3>1. "scheduled" \in Triggers
      BY DEF Triggers
    <3>2. PICK n : /\ DOMAIN items' = DOMAIN items \cup {n} /\ n \notin DOMAIN items
                   /\ \A i \in DOMAIN items : items'[i] = items[i] /\ i < n /\ ~ (n < i)
                   /\ items'[n].trigger = "scheduled" /\ items'[n].at = made
                   /\ ~ (n < n) /\ n = NewItem
      BY <1>3, <3>1, AppendedItem
    <3> QED
      BY <3>2
  <2>2. /\ now \in Nat /\ Interval \in Nat /\ None \notin Nat
        /\ made \in Nat /\ stamped \in Nat
    BY ConfigurationIsValid DEF TypeOK
  <2>3. setBack \subseteq DOMAIN items
    BY DEF TypeOK
  <2>4. CASE ~ ClockHeld(made, stamped)
    <3>1. n \in setBack' /\ setBack \subseteq setBack'
      BY <1>3, <2>1, <2>4
    <3>2. TicksSpaced'
      <4> SUFFICES ASSUME NEW i \in Ticks', NEW j \in Ticks', i < j,
                          \A k \in setBack' : k < i \/ j < k
                   PROVE  items'[j].at >= items'[i].at + Interval
        BY DEF TicksSpaced
      <4>1. i # n /\ j # n
        BY <2>1, <3>1
      <4> QED
        BY <2>1, <3>1, <4>1 DEF TickInv, TicksSpaced
    <3>3. Remembered'
      <4>1. \A i \in DOMAIN items' : ~ (n < i)
        BY <2>1
      <4> QED
        BY <3>1, <4>1 DEF Remembered
    <3> QED
      BY <3>2, <3>3 DEF TickInv
  <2>5. CASE ClockHeld(made, stamped)
    <3>1. setBack' = setBack
      BY <1>3, <2>5
    <3>2. \A i \in Ticks : (\A k \in setBack : k < i)
            => made >= items[i].at + Interval /\ items[i].at <= stamped
      <4> SUFFICES ASSUME NEW i \in Ticks, \A k \in setBack : k < i
                   PROVE  made >= items[i].at + Interval /\ items[i].at <= stamped
        OBVIOUS
      <4>1. items[i].at \in Nat
        BY TypeFacts, ConfigurationIsValid DEF Item
      <4>2. fired \in Nat /\ items[i].at <= fired /\ now >= fired + Interval
        BY <1>3, ConfigurationIsValid DEF TickInv, Remembered, Due, TypeOK
      <4>3. now <= made /\ made <= stamped
        BY <2>2, <2>5, <4>2 DEF ClockHeld
      <4> QED
        BY <2>2, <4>1, <4>2, <4>3
    <3>3. TicksSpaced'
      <4> SUFFICES ASSUME NEW i \in Ticks', NEW j \in Ticks', i < j,
                          \A k \in setBack : k < i \/ j < k
                   PROVE  items'[j].at >= items'[i].at + Interval
        BY <3>1 DEF TicksSpaced
      <4>1. i \in Ticks /\ items'[i] = items[i]
        BY <2>1
      <4>2. CASE j = n
        <5>1. \A k \in setBack : k < i
          BY <2>1, <2>3, <4>2
        <5> QED
          BY <2>1, <3>2, <4>1, <4>2, <5>1
      <4>3. CASE j # n
        BY <2>1, <4>1, <4>3 DEF TickInv, TicksSpaced
      <4> QED
        BY <4>2, <4>3
    <3>4. Remembered'
      <4>1. made <= stamped /\ stamped # None
        BY <2>2, <2>5 DEF ClockHeld
      <4> QED
        BY <1>3, <2>1, <3>1, <3>2, <4>1 DEF Remembered
    <3> QED
      BY <3>3, <3>4 DEF TickInv
  <2> QED
    BY <2>4, <2>5
<1>4. CASE Schedule
  BY <1>2, <1>4 DEF Schedule, NewCycle, Priorities, Triggers, clockVars
<1>5. CASE Notify
  <2>1. PICK s \in Severities :
          NewCycle(IF s \in DOMAIN SeverityPriority THEN SeverityPriority[s]
                   ELSE HIGH, "burst", now)
    BY <1>5 DEF Notify
  <2>2. (IF s \in DOMAIN SeverityPriority THEN SeverityPriority[s] ELSE HIGH) \in Priorities
    BY DEF SeverityPriority, Priorities
  <2> QED
    BY <1>2, <1>5, <2>1, <2>2 DEF Notify, NewCycle, Triggers, clockVars
<1>6. CASE ScheduleInterval
  BY <1>3, <1>6 DEF ScheduleInterval, NewCycle, Priorities, NewItem
<1>7. ASSUME NEW f \in failures, Retry(f) PROVE TickInv'
  <2>1. CycleOf(f.item) \in Cycles /\ RetryPriorities \subseteq Priorities
    BY TypeFacts, ConfigurationIsValid DEF TypeOK, Failure
  <2> QED
    BY <1>2, <1>7, <2>1 DEF Retry, Triggers, clockVars
<1>8. CASE Replay
  <2>1. CASE Revived(CycleOf(Head(dead).item), Head(dead).attempt)
    <3>1. Head(dead) \in Entry
      BY <1>8 DEF TypeOK, Replay, PopOldest
    <3>2. CycleOf(Head(dead).item) \in Cycles /\ RetryPriorities \subseteq Priorities
      BY <3>1, TypeFacts, ConfigurationIsValid DEF Entry
    <3> QED
      BY <1>2, <1>8, <2>1, <3>2 DEF Replay, Revived, Triggers, clockVars
  <2>2. CASE UNCHANGED <<queueVars, attempt>>
    BY <1>1, <1>8, <2>2 DEF Replay, queueVars, clockVars
  <2> QED
    BY <1>8, <2>1, <2>2 DEF Replay
<1>9. CASE ClockMoves
  BY <1>1, <1>9 DEF ClockMoves, queueVars
<1>10. CASE Dequeue
  BY <1>1, <1>10 DEF Dequeue, clockVars
<1>11. ASSUME NEW i \in Queued, Cancel(i) PROVE TickInv'
  BY <1>1, <1>11 DEF Cancel, clockVars
<1>12. ASSUME NEW i \in running, CycleSucceeds(i) PROVE TickInv'
  BY <1>1, <1>12 DEF CycleSucceeds, clockVars
<1>13. ASSUME NEW i \in running, DispatchRaises(i) PROVE TickInv'
  BY <1>1, <1>13 DEF DispatchRaises, Ends, clockVars
<1>14. ASSUME NEW i \in running, ReportFails(i) PROVE TickInv'
  BY <1>1, <1>14 DEF ReportFails, Ends, clockVars
<1>15. ASSUME NEW f \in failures, DeadLetter(f) PROVE TickInv'
  BY <1>1, <1>15 DEF DeadLetter, clockVars
<1>16. CASE UNCHANGED vars
  BY <1>1, <1>16 DEF vars, queueVars, clockVars
<1> QED
  BY <1>4, <1>5, <1>6, <1>7, <1>8, <1>9, <1>10, <1>11, <1>12, <1>13, <1>14, <1>15, <1>16
  DEF Next

\* TicksSpaced: however the wall clock is set between calls, and however far it
\* moves on during one, no two interval cycles are closer than Interval; only a
\* tick during whose own call the clock was set back is excused.
THEOREM TicksApart == Spec => []TicksSpaced
<1>1. Init => TickInv
  BY DEF Init, TickInv, TicksSpaced, Remembered, Ticks
<1>2. TypeOK /\ TickInv /\ [Next]_vars => TickInv'
  BY TickNext
<1>3. TickInv => TicksSpaced
  BY DEF TickInv
<1> QED
  BY <1>1, <1>2, <1>3, TypeCorrect, PTL DEF Spec

-----------------------------------------------------------------------------
(* RuntimeQueue implements CycleAccounts: the account of a cycle, read off   *)
(* its one live item.                                                        *)

In(S, c) == \E i \in S : CycleOf(i) = c

Gone(c) == \A i \in Live : CycleOf(i) # c

AccountOfLive ==
  \A i \in Live :
    Account[CycleOf(i)] = IF i \in Queued THEN "waiting"
                          ELSE IF i \in running THEN "running"
                          ELSE IF i \in Failing THEN "failed" ELSE "dead"

AccountOfGone ==
  \A c \in Cycles :
    Gone(c) => Account[c] = IF In(LoggedAs("completed"), c) THEN "completed"
                            ELSE IF In(DOMAIN items, c) THEN "dropped"
                            ELSE "unknown"

AccountByPlace ==
  \A c \in Cycles :
    Account[c] = IF In(Queued, c) THEN "waiting"
                 ELSE IF In(running, c) THEN "running"
                 ELSE IF In(Failing, c) THEN "failed"
                 ELSE IF In(Buried, c) THEN "dead"
                 ELSE IF In(LoggedAs("completed"), c) THEN "completed"
                 ELSE IF In(DOMAIN items, c) THEN "dropped"
                 ELSE "unknown"

LEMMA AccountCases == AccountByPlace
BY DEF AccountByPlace, Account, In

LEMMA AccountRead == QueueInv => AccountOfLive /\ AccountOfGone
<1> SUFFICES ASSUME QueueInv PROVE AccountOfLive /\ AccountOfGone
  OBVIOUS
<1>1. ASSUME NEW i \in Live
      PROVE  Account[CycleOf(i)] = IF i \in Queued THEN "waiting"
                                   ELSE IF i \in running THEN "running"
                                   ELSE IF i \in Failing THEN "failed" ELSE "dead"
  <2>1. CycleOf(i) \in Cycles
    BY TypeFacts DEF QueueInv
  <2>2. OneLiveItem
    BY OneItemParts DEF QueueInv
  <2>3. /\ In(Queued, CycleOf(i)) <=> i \in Queued
        /\ In(running, CycleOf(i)) <=> i \in running
        /\ In(Failing, CycleOf(i)) <=> i \in Failing
        /\ In(Buried, CycleOf(i)) <=> i \in Buried
    BY <2>2 DEF In, OneLiveItem, Live, Active
  <2>4. i \in Queued \/ i \in running \/ i \in Failing \/ i \in Buried
    BY DEF Live, Active
  <2> QED
    BY <2>1, <2>3, <2>4, AccountCases DEF AccountByPlace
<1>2. ASSUME NEW c \in Cycles, Gone(c)
      PROVE  Account[c] = IF In(LoggedAs("completed"), c) THEN "completed"
                          ELSE IF In(DOMAIN items, c) THEN "dropped"
                          ELSE "unknown"
  <2>1. ~ In(Queued, c) /\ ~ In(running, c) /\ ~ In(Failing, c) /\ ~ In(Buried, c)
    BY <1>2 DEF Gone, In, Live, Active
  <2> QED
    BY <2>1, AccountCases DEF AccountByPlace
<1> QED
  BY <1>1, <1>2 DEF AccountOfLive, AccountOfGone

\* T, after the step, and S, before it, hold the same items of all cycles but c.
SameBut(T, S, c) ==
  /\ \A i \in T \ S : items'[i].cycle = c
  /\ \A i \in S \ T : items[i].cycle = c

\* A step that concerns the items of cycle c only.
Concerns(c) ==
  /\ \A i \in DOMAIN items : items'[i].cycle = items[i].cycle
  /\ SameBut(DOMAIN items', DOMAIN items, c)
  /\ SameBut(Queued', Queued, c)
  /\ SameBut(running', running, c)
  /\ SameBut(Failing', Failing, c)
  /\ SameBut(Buried', Buried, c)
  /\ SameBut(LoggedAs("completed")', LoggedAs("completed"), c)

LEMMA OthersStay ==
  ASSUME QueueInv, NEW c \in Cycles, Concerns(c), NEW d \in Cycles \ {c}
  PROVE  Account'[d] = Account[d]
<1>1. ASSUME NEW T, NEW S, SameBut(T, S, c), S \subseteq DOMAIN items
      PROVE  (\E i \in T : items'[i].cycle = d) <=> (\E i \in S : items[i].cycle = d)
  BY <1>1 DEF SameBut, Concerns
<1>2. /\ Queued \subseteq DOMAIN items /\ running \subseteq DOMAIN items
      /\ Failing \subseteq DOMAIN items /\ Buried \subseteq DOMAIN items
      /\ LoggedAs("completed") \subseteq DOMAIN items
  BY TypeFacts DEF QueueInv, TypeOK, LoggedAs
<1>3. /\ In(Queued, d)' <=> In(Queued, d)
      /\ In(running, d)' <=> In(running, d)
      /\ In(Failing, d)' <=> In(Failing, d)
      /\ In(Buried, d)' <=> In(Buried, d)
      /\ In(LoggedAs("completed"), d)' <=> In(LoggedAs("completed"), d)
      /\ In(DOMAIN items, d)' <=> In(DOMAIN items, d)
  <2>1. In(Queued, d)' <=> In(Queued, d)
    BY <1>1, <1>2 DEF In, CycleOf, Concerns
  <2>2. In(running, d)' <=> In(running, d)
    BY <1>1, <1>2 DEF In, CycleOf, Concerns
  <2>3. In(Failing, d)' <=> In(Failing, d)
    BY <1>1, <1>2 DEF In, CycleOf, Concerns
  <2>4. In(Buried, d)' <=> In(Buried, d)
    BY <1>1, <1>2 DEF In, CycleOf, Concerns
  <2>5. In(LoggedAs("completed"), d)' <=> In(LoggedAs("completed"), d)
    BY <1>1, <1>2 DEF In, CycleOf, Concerns
  <2>6. In(DOMAIN items, d)' <=> In(DOMAIN items, d)
    BY <1>1, <1>2 DEF In, CycleOf, Concerns
  <2> QED
    BY <2>1, <2>2, <2>3, <2>4, <2>5, <2>6
<1>4. AccountByPlace /\ AccountByPlace'
  BY AccountCases, PTL
<1> QED
  BY <1>3, <1>4 DEF AccountByPlace

LEMMA OneMoves ==
  ASSUME QueueInv, NEW c \in Cycles, Concerns(c),
         NEW a, NEW b, Account[c] = a, Account'[c] = b
  PROVE  Accounts!Move(c, a, b)
<1>1. Account = [d \in Cycles |-> Account[d]] /\ Account' = [d \in Cycles |-> Account'[d]]
  BY DEF Account
<1>2. Account' = [Account EXCEPT ![c] = b]
  BY <1>1, OthersStay
<1> QED
  BY <1>2 DEF Accounts!Move

\* AccountRead in the state before a step and in the one after it.
LEMMA AccountReadTwice ==
  QueueInv /\ QueueInv' =>
    /\ AccountOfLive /\ AccountOfGone
    /\ AccountOfLive' /\ AccountOfGone'
BY AccountRead, PTL

-----------------------------------------------------------------------------
(* Each action moves one account along one edge. *)

LEMMA DequeueStarts ==
  ASSUME QueueInv, QueueInv', Dequeue
  PROVE  Accounts!AccountsNext
<1>1. /\ UNCHANGED <<items, log, failures, dead, attempt>>
      /\ \E p \in Priorities : TakeNext(p)
  BY DEF Dequeue
<1>2. PICK x \in Queued : running' = running \cup {x} /\ Queued' = Queued \ {x}
  BY <1>1, TakeRemoves DEF QueueInv, ItemRemoved
<1> PICK c : c = CycleOf(x)
  OBVIOUS
<1>3. /\ Failing' = Failing /\ Buried' = Buried
      /\ LoggedAs("completed")' = LoggedAs("completed")
  BY <1>1, LogUnmoved DEF Failing, Buried
<1>4. Concerns(c)
  BY <1>1, <1>2, <1>3 DEF Concerns, SameBut, CycleOf
<1>5. c \in Cycles /\ x \in Live /\ x \in Live' /\ CycleOf(x)' = c
  BY <1>1, <1>2, TypeFacts DEF QueueInv, Live, Active, CycleOf
<1>6. Account[c] = "waiting" /\ Account'[c] = "running"
  BY <1>2, <1>5, AccountReadTwice DEF AccountOfLive
<1>7. Accounts!Start(c)
  BY <1>1, <1>4, <1>5, <1>6, OneMoves DEF Accounts!Start
<1> QED
  BY <1>5, <1>7 DEF Accounts!AccountsNext

LEMMA CancelWithdraws ==
  ASSUME QueueInv, QueueInv', NEW x \in Queued, Cancel(x)
  PROVE  Accounts!AccountsNext
<1>1. /\ UNCHANGED <<items, running, failures, dead, attempt>>
      /\ Logged(x, "cancelled") /\ "cancelled" \in Terminal
  BY DEF Cancel, Terminal
<1>2. x \in DOMAIN items /\ log[x] = <<>>
  BY Unlogged
<1>3. Queued' = Queued \ {x}
  BY <1>2, CancelRemoves DEF QueueInv, ItemRemoved
<1> PICK c : c = CycleOf(x)
  OBVIOUS
<1>4. /\ Failing' = Failing /\ Buried' = Buried
      /\ LoggedAs("completed")' = LoggedAs("completed")
  <2>1. \A u : LoggedAs(u)' = IF u = "cancelled" THEN LoggedAs(u) \cup {x} ELSE LoggedAs(u)
    BY <1>1, <1>2, LogGrows DEF QueueInv
  <2>2. LoggedAs("completed")' = LoggedAs("completed")
    BY <2>1
  <2> QED
    BY <1>1, <2>2 DEF Failing, Buried
<1>5. Concerns(c)
  BY <1>1, <1>3, <1>4 DEF Concerns, SameBut, CycleOf
<1>6. c \in Cycles /\ x \in Live /\ In(DOMAIN items, c)' /\ ~ In(LoggedAs("completed"), c)'
  BY <1>1, <1>2, <1>4, TypeFacts
  DEF QueueInv, Live, Active, CycleOf, In, SettledIsFinal
<1>7. Gone(c)'
  BY <1>1, <1>3, <1>4, <1>6, OneItemParts
  DEF QueueInv, OneLiveItem, Apart, Gone, Live, Active, CycleOf
<1>8. Account[c] = "waiting" /\ Account'[c] = "dropped"
  BY <1>6, <1>7, AccountReadTwice DEF AccountOfLive, AccountOfGone
<1>9. Accounts!Withdraw(c)
  BY <1>1, <1>5, <1>6, <1>8, OneMoves DEF Accounts!Withdraw
<1> QED
  BY <1>6, <1>9 DEF Accounts!AccountsNext

LEMMA SuccessCompletes ==
  ASSUME QueueInv, QueueInv', NEW x \in running, CycleSucceeds(x)
  PROVE  Accounts!AccountsNext
<1>1. /\ UNCHANGED <<items, buckets, failures, dead, attempt>>
      /\ running' = running \ {x}
      /\ Logged(x, "completed") /\ "completed" \in Terminal
  BY DEF CycleSucceeds, Terminal
<1>2. x \in DOMAIN items /\ log[x] = <<>>
  BY Unlogged
<1> PICK c : c = CycleOf(x)
  OBVIOUS
<1>3. /\ Queued' = Queued /\ Failing' = Failing /\ Buried' = Buried
      /\ LoggedAs("completed")' = LoggedAs("completed") \cup {x}
  BY <1>1, <1>2, LogGrows, QueueUnmoved DEF Failing, Buried, QueueInv
<1>4. Concerns(c)
  BY <1>1, <1>3 DEF Concerns, SameBut, CycleOf
<1>5. c \in Cycles /\ x \in Live /\ x \notin Queued /\ In(LoggedAs("completed"), c)'
  BY <1>1, <1>2, <1>3, TypeFacts, OneItemParts
  DEF QueueInv, Apart, Live, Active, CycleOf, In
<1>6. Gone(c)'
  BY <1>1, <1>3, <1>5, OneItemParts
  DEF QueueInv, OneLiveItem, Apart, Gone, Live, Active, CycleOf
<1>7. Account[c] = "running" /\ Account'[c] = "completed"
  BY <1>5, <1>6, AccountReadTwice DEF AccountOfLive, AccountOfGone
<1>8. Accounts!Complete(c)
  BY <1>1, <1>4, <1>5, <1>7, OneMoves DEF Accounts!Complete
<1> QED
  BY <1>5, <1>8 DEF Accounts!AccountsNext

LEMMA EndFails ==
  ASSUME QueueInv, QueueInv', NEW x \in running,
         NEW s \in {"running", "failed"}, NEW e \in BOOLEAN, Ends(x, s, e),
         IF s = "failed" THEN Logged(x, "failed") ELSE log' = log
  PROVE  Accounts!AccountsNext
<1> DEFINE f == [item |-> x, status |-> s, error |-> e]
<1>1. /\ UNCHANGED <<items, buckets, dead, attempt>>
      /\ running' = running \ {x} /\ failures' = failures \cup {f} /\ f.item = x
  BY DEF Ends
<1> HIDE DEF f
<1>2. x \in DOMAIN items /\ log[x] = <<>>
  BY Unlogged
<1> PICK c : c = CycleOf(x)
  OBVIOUS
<1>3. /\ Queued' = Queued /\ Failing' = Failing \cup {x} /\ Buried' = Buried
      /\ LoggedAs("completed")' = LoggedAs("completed")
  <2>1. LoggedAs("completed")' = LoggedAs("completed")
    BY <1>1, <1>2, LogGrows, LogUnmoved DEF QueueInv, Terminal
  <2> QED
    BY <1>1, <2>1, QueueUnmoved DEF Failing, Buried
<1>4. Concerns(c)
  BY <1>1, <1>3 DEF Concerns, SameBut, CycleOf
<1>5. /\ c \in Cycles /\ x \in Live /\ x \notin Queued
      /\ x \in Live' /\ CycleOf(x)' = c
  BY <1>1, <1>2, <1>3, TypeFacts, OneItemParts
  DEF QueueInv, Apart, Live, Active, CycleOf
<1>6. Account[c] = "running" /\ Account'[c] = "failed"
  BY <1>1, <1>3, <1>5, AccountReadTwice DEF AccountOfLive
<1>7. Accounts!Fail(c)
  BY <1>1, <1>4, <1>5, <1>6, OneMoves DEF Accounts!Fail
<1> QED
  BY <1>5, <1>7 DEF Accounts!AccountsNext

LEMMA DeadLetterBuries ==
  ASSUME QueueInv, QueueInv', NEW f \in failures, DeadLetter(f)
  PROVE  Accounts!AccountsNext
<1> DEFINE n == attempt[CycleOf(f.item)]
           entry == [item |-> f.item, attempt |-> n]
<1> PICK x, c : x = f.item /\ c = CycleOf(x)
  OBVIOUS
<1>1. /\ UNCHANGED <<items, buckets, running, attempt>>
      /\ failures' = failures \ {f} /\ MarkFailed(f)
      /\ dead' = dead \/ dead' = Append(dead, entry)
  BY DEF DeadLetter, Bury
<1>2. /\ x \in DOMAIN items /\ x \in Failing /\ x \in Live /\ c \in Cycles
      /\ f.status \in {"running", "failed"}
  BY TypeFacts DEF QueueInv, TypeOK, Failing, Failure, Live, Active
<1>3. Apart /\ OneLiveItem /\ FailuresDiffer
  BY OneItemParts DEF QueueInv
<1>4. Queued' = Queued /\ Failing' = Failing \ {x}
  BY <1>1, <1>3, QueueUnmoved DEF Failing, FailuresDiffer
<1>5. Buried' = Buried \/ Buried' = Buried \cup {x}
  <2>1. dead \in Seq(Entry) /\ entry.item = x
    BY DEF QueueInv, TypeOK
  <2>2. CASE dead' = dead
    BY <2>2 DEF Buried
  <2>3. CASE dead' = Append(dead, entry)
    <3> HIDE DEF entry
    <3>1. /\ DOMAIN dead' = DOMAIN dead \cup {Len(dead) + 1}
          /\ \A k \in DOMAIN dead : dead'[k] = dead[k]
          /\ dead'[Len(dead) + 1] = entry
      BY <2>1, <2>3
    <3> QED
      BY <2>1, <3>1 DEF Buried, ToSet
  <2> QED
    BY <1>1, <2>2, <2>3
<1>6. LoggedAs("completed")' = LoggedAs("completed")
  <2>1. CASE f.status = "running"
    <3>1. x \notin LoggedItems
      BY <2>1 DEF QueueInv, TerminalOnce
    <3>2. log[x] = <<>> /\ Logged(x, "failed") /\ "failed" \in Terminal
      BY <1>1, <1>2, <2>1, <3>1, NotYetLogged DEF QueueInv, MarkFailed, Terminal
    <3>3. TypeOK /\ items' = items /\ x \in DOMAIN items
      BY <1>1, <1>2 DEF QueueInv
    <3>4. \A u : LoggedAs(u)' = IF u = "failed" THEN LoggedAs(u) \cup {x} ELSE LoggedAs(u)
      BY ONLY <3>2, <3>3, LogGrows
    <3> QED
      BY <3>4
  <2>2. CASE f.status = "failed"
    <3>1. log' = log
      BY <1>1, <2>2 DEF MarkFailed
    <3> QED
      BY <1>1, <3>1, LogUnmoved
  <2> QED
    BY <1>2, <2>1, <2>2
<1> HIDE DEF n, entry
<1>7. Concerns(c)
  BY <1>1, <1>4, <1>5, <1>6 DEF Concerns, SameBut, CycleOf
<1>8. Account[c] = "failed"
  BY <1>2, <1>3, AccountReadTwice DEF AccountOfLive, Apart
<1>9. CASE x \in Buried'
  <2>1. x \in Live' /\ CycleOf(x)' = c
    BY <1>1, <1>9 DEF Live, CycleOf
  <2>2. x \notin Queued' /\ x \notin running' /\ x \notin Failing'
    BY <1>1, <1>2, <1>3, <1>4 DEF Apart
  <2>3. Account'[c] = "dead"
    BY <2>1, <2>2, AccountReadTwice DEF AccountOfLive
  <2>4. Accounts!Bury(c)
    BY <1>1, <1>2, <1>7, <1>8, <2>3, OneMoves DEF Accounts!Bury
  <2> QED
    BY <1>2, <2>4 DEF Accounts!AccountsNext
<1>10. CASE x \notin Buried'
  <2>1. Gone(c)'
    BY <1>1, <1>2, <1>3, <1>4, <1>5, <1>10
    DEF OneLiveItem, Apart, Gone, Live, Active, CycleOf
  <2>2. In(DOMAIN items, c)' /\ ~ In(LoggedAs("completed"), c)'
    BY <1>1, <1>2, <1>6 DEF QueueInv, CycleOf, In, SettledIsFinal
  <2>3. Account'[c] = "dropped"
    BY <1>2, <2>1, <2>2, AccountReadTwice DEF AccountOfGone
  <2>4. Accounts!GiveUp(c)
    BY <1>1, <1>2, <1>7, <1>8, <2>3, OneMoves DEF Accounts!GiveUp
  <2> QED
    BY <1>2, <2>4 DEF Accounts!AccountsNext
<1> QED
  BY <1>9, <1>10

\* A new item of cycle c waits, and Concerns(c).
LEMMA NewItemWaits ==
  ASSUME QueueInv, QueueInv', NEW c \in Cycles, NEW p, NEW t, NEW at, ItemAdded(c, p, t, at)
  PROVE  /\ Account'[c] = "waiting"
         /\ \A i \in DOMAIN items : items'[i].cycle = items[i].cycle
         /\ SameBut(DOMAIN items', DOMAIN items, c)
         /\ SameBut(Queued', Queued, c)
         /\ SameBut(LoggedAs("completed")', LoggedAs("completed"), c)
<1> PICK n : n = NewItem
  OBVIOUS
<1>1. /\ \A i \in DOMAIN items : items'[i].cycle = items[i].cycle
      /\ DOMAIN items' = DOMAIN items \cup {n}
      /\ Queued' = Queued \cup {n} /\ items'[n].cycle = c
      /\ LoggedAs("completed")' = LoggedAs("completed")
  BY LogKeepsAdded DEF ItemAdded
<1>2. n \in Queued' /\ n \in Live' /\ CycleOf(n)' = c
  BY <1>1 DEF Live, Active, CycleOf
<1>3. Account'[c] = "waiting"
  BY <1>2, AccountReadTwice DEF AccountOfLive
<1> QED
  BY <1>1, <1>3 DEF SameBut

LEMMA NewCycleAccepted ==
  ASSUME QueueInv, QueueInv', NEW p \in Priorities, NEW t \in Triggers,
         NEW at \in 0 .. MaxTime, NewCycle(p, t, at)
  PROVE  Accounts!AccountsNext
<1>1. PICK c \in Cycles : /\ \A i \in DOMAIN items : CycleOf(i) # c
                         /\ Enqueue(c, p, t, at)
                         /\ attempt' = [attempt EXCEPT ![c] = 1]
  BY DEF NewCycle
<1>2. UNCHANGED <<running, failures, dead>>
  BY DEF NewCycle
<1>3. ItemAdded(c, p, t, at)
  BY <1>1, EnqueueAdds DEF QueueInv
<1>4. Failing' = Failing /\ Buried' = Buried
  BY <1>2 DEF Failing, Buried
<1>5. Account'[c] = "waiting" /\ Concerns(c)
  <2>1. /\ SameBut(running', running, c) /\ SameBut(Failing', Failing, c)
        /\ SameBut(Buried', Buried, c)
    BY <1>2, <1>4 DEF SameBut
  <2> QED
    BY <1>3, <2>1, NewItemWaits DEF Concerns
<1>6. Account[c] = "unknown"
  <2>1. Gone(c) /\ ~ In(LoggedAs("completed"), c) /\ ~ In(DOMAIN items, c)
    BY <1>1, TypeFacts DEF QueueInv, Gone, In, LoggedAs
  <2> QED
    BY <2>1, AccountReadTwice DEF AccountOfGone
<1>7. Accounts!Accept(c)
  BY <1>1, <1>5, <1>6, OneMoves DEF Accounts!Accept, Accounts!Counted
<1> QED
  BY <1>7 DEF Accounts!AccountsNext

LEMMA RetryGoesAgain ==
  ASSUME QueueInv, QueueInv', NEW f \in failures, Retry(f)
  PROVE  Accounts!AccountsNext
<1> PICK x, c : x = f.item /\ c = CycleOf(x)
  OBVIOUS
<1>1. PICK p \in RetryPriorities : Enqueue(c, p, "retry", now)
  BY DEF Retry
<1>2. /\ UNCHANGED <<running, dead>>
      /\ Retries(f.error, attempt[c])
      /\ attempt' = [attempt EXCEPT ![c] = attempt[c] + 1]
      /\ failures' = failures \ {f}
  BY DEF Retry
<1>3. /\ x \in DOMAIN items /\ x \in Failing /\ x \in Live
      /\ c \in Cycles /\ p \in Priorities /\ f.error \in BOOLEAN
  BY TypeFacts, ConfigurationIsValid DEF QueueInv, TypeOK, Failing, Failure, Live, Active
<1>4. ItemAdded(c, p, "retry", now)
  BY <1>1, <1>3, EnqueueAdds, NowInRange DEF QueueInv, Triggers
<1>5. Apart /\ OneLiveItem /\ FailuresDiffer
  BY OneItemParts DEF QueueInv
<1>6. Failing' = Failing \ {x} /\ Buried' = Buried
  BY <1>2, <1>5 DEF Failing, Buried, FailuresDiffer
<1>7. Account'[c] = "waiting" /\ Concerns(c)
  <2>1. /\ SameBut(running', running, c) /\ SameBut(Failing', Failing, c)
        /\ SameBut(Buried', Buried, c)
    BY <1>2, <1>6 DEF SameBut, CycleOf
  <2> QED
    BY <1>3, <1>4, <2>1, NewItemWaits DEF Concerns
<1>8. Account[c] = "failed"
  BY <1>3, <1>5, AccountReadTwice DEF AccountOfLive, Apart
<1>9. attempt[c] < MaxAttempts
  BY <1>2, <1>3, Budget
<1>10. Accounts!Again(c)
  BY <1>2, <1>3, <1>7, <1>8, <1>9, OneMoves DEF Accounts!Again, Accounts!Counted
<1> QED
  BY <1>3, <1>10 DEF Accounts!AccountsNext

LEMMA ReplayRevivesOrLoses ==
  ASSUME QueueInv, QueueInv', Replay
  PROVE  Accounts!AccountsNext
<1> PICK x, c : x = Head(dead).item /\ c = CycleOf(x)
  OBVIOUS
<1>1. PopOldest /\ UNCHANGED <<running, failures>>
  BY DEF Replay
<1>2. /\ x \in Buried /\ Head(dead) = dead[1] /\ 1 \in DOMAIN dead
      /\ Buried' = Buried \ {x}
  BY <1>1, PopFacts DEF QueueInv
<1>3. /\ x \in DOMAIN items /\ x \in Live /\ c \in Cycles
      /\ RetryPriorities \subseteq Priorities
  BY <1>2, TypeFacts, ConfigurationIsValid DEF QueueInv, Live
<1>4. Apart /\ OneLiveItem
  BY OneItemParts DEF QueueInv
<1>5. Account[c] = "dead"
  BY <1>2, <1>3, <1>4, AccountReadTwice DEF AccountOfLive, Apart
<1>6. Failing' = Failing
  BY <1>1 DEF Failing
<1>7. CASE Revived(c, Head(dead).attempt)
  <2>1. PICK p \in RetryPriorities : Enqueue(c, p, "replay", now)
    BY <1>7 DEF Revived
  <2>2. ItemAdded(c, p, "replay", now)
    BY <1>3, <2>1, EnqueueAdds, NowInRange DEF QueueInv, Triggers
  <2>3. attempt' = attempt
    <3>1. dead[1].attempt = attempt[CycleOf(dead[1].item)]
      BY <1>2 DEF QueueInv, Numbered
    <3> QED
      BY <1>2, <1>3, <1>7, <3>1 DEF Revived, QueueInv, TypeOK
  <2>4. Account'[c] = "waiting" /\ Concerns(c)
    <3>1. /\ SameBut(running', running, c) /\ SameBut(Failing', Failing, c)
          /\ SameBut(Buried', Buried, c)
      BY <1>1, <1>2, <1>6 DEF SameBut, CycleOf
    <3> QED
      BY <1>3, <2>2, <3>1, NewItemWaits DEF Concerns
  <2>5. Accounts!Revive(c)
    BY <1>3, <1>5, <2>3, <2>4, OneMoves DEF Accounts!Revive
  <2> QED
    BY <1>3, <2>5 DEF Accounts!AccountsNext
<1>8. CASE UNCHANGED <<items, buckets, log, attempt>>
  <2>1. Queued' = Queued /\ LoggedAs("completed")' = LoggedAs("completed")
    BY <1>8, QueueUnmoved, LogUnmoved
  <2>2. Concerns(c)
    BY <1>1, <1>2, <1>6, <1>8, <2>1 DEF Concerns, SameBut, CycleOf
  <2>3. Gone(c)'
    BY <1>1, <1>2, <1>3, <1>4, <1>6, <1>8, <2>1
    DEF OneLiveItem, Apart, Gone, Live, Active, CycleOf
  <2>4. In(DOMAIN items, c)' /\ ~ In(LoggedAs("completed"), c)'
    BY <1>3, <1>8, <2>1 DEF QueueInv, CycleOf, In, SettledIsFinal
  <2>5. Account'[c] = "dropped"
    BY <1>3, <2>3, <2>4, AccountReadTwice DEF AccountOfGone
  <2>6. Accounts!Lose(c)
    BY <1>3, <1>5, <1>8, <2>2, <2>5, OneMoves DEF Accounts!Lose
  <2> QED
    BY <1>3, <2>6 DEF Accounts!AccountsNext
<1> QED
  BY <1>7, <1>8 DEF Replay, queueVars

LEMMA StepsStay ==
  ASSUME UNCHANGED <<items, buckets, log, running, failures, dead>>
  PROVE  Account' = Account
BY DEF Account, CycleOf, Queued, Failing, Buried, LoggedAs

LEMMA StepsImplement ==
  ASSUME QueueInv, QueueInv', [Next]_vars
  PROVE  [Accounts!AccountsNext]_<<Account, attempt>>
<1>1. CASE Schedule
  BY <1>1, NewCycleAccepted DEF Schedule, Priorities, Triggers, QueueInv, TypeOK
<1>2. CASE Notify
  <2>1. PICK s \in Severities :
          NewCycle(IF s \in DOMAIN SeverityPriority THEN SeverityPriority[s]
                   ELSE HIGH, "burst", now)
    BY <1>2 DEF Notify
  <2>2. (IF s \in DOMAIN SeverityPriority THEN SeverityPriority[s] ELSE HIGH) \in Priorities
    BY DEF SeverityPriority, Priorities
  <2> QED
    BY <2>1, <2>2, NewCycleAccepted DEF Triggers, QueueInv, TypeOK
<1>3. CASE ScheduleInterval
  BY <1>3, NewCycleAccepted DEF ScheduleInterval, Priorities, Triggers
<1>4. CASE ClockMoves
  BY <1>4, StepsStay DEF ClockMoves, queueVars
<1>5. CASE Dequeue
  BY <1>5, DequeueStarts
<1>6. CASE Replay
  BY <1>6, ReplayRevivesOrLoses
<1>7. CASE \E i \in Queued : Cancel(i)
  BY <1>7, CancelWithdraws
<1>8. ASSUME NEW i \in running, CycleSucceeds(i) PROVE Accounts!AccountsNext
  BY <1>8, SuccessCompletes
<1>9. ASSUME NEW i \in running, DispatchRaises(i) PROVE Accounts!AccountsNext
  BY <1>9, EndFails DEF DispatchRaises
<1>10. ASSUME NEW i \in running, ReportFails(i) PROVE Accounts!AccountsNext
  BY <1>10, EndFails DEF ReportFails
<1>11. CASE \E f \in failures : Retry(f) \/ DeadLetter(f)
  BY <1>11, RetryGoesAgain, DeadLetterBuries
<1>12. CASE UNCHANGED vars
  BY <1>12, StepsStay DEF vars, queueVars
<1> QED
  BY <1>1, <1>2, <1>3, <1>4, <1>5, <1>6, <1>7, <1>8, <1>9, <1>10, <1>11, <1>12 DEF Next

\* ImplementsAccounts: every behaviour of queue, dispatcher, retry and dead
\* letters is a behaviour of CycleAccounts.
THEOREM AccountsRefined == Spec => ImplementsAccounts
<1>1. Init => Accounts!AccountsInit
  <2> SUFFICES ASSUME Init PROVE Accounts!AccountsInit
    OBVIOUS
  <2>1. QueueInv /\ attempt = [c \in Cycles |-> 0] /\ DOMAIN items = {}
    BY QueueInvInit DEF Init
  <2>2. AccountOfGone /\ Live = {}
    BY <2>1, AccountRead, TypeFacts DEF QueueInv
  <2>3. \A c \in Cycles : Account[c] = "unknown"
    BY <2>1, <2>2 DEF AccountOfGone, Gone, In, LoggedAs
  <2>4. Account = [c \in Cycles |-> Account[c]]
    BY DEF Account
  <2> QED
    BY <2>1, <2>3, <2>4 DEF Accounts!AccountsInit
<1>2. QueueInv /\ QueueInv' /\ [Next]_vars => [Accounts!AccountsNext]_<<Account, attempt>>
  BY StepsImplement
<1> QED
  BY <1>1, <1>2, QueueInvariant, PTL DEF Spec, ImplementsAccounts, Accounts!AccountsSpec
=============================================================================
