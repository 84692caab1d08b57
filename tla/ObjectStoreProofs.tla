-------------------------- MODULE ObjectStoreProofs --------------------------
(***************************************************************************)
(* ObjectStore, for any callers, stocks and snapshots.                     *)
(***************************************************************************)
EXTENDS ObjectStore, SequenceTheorems, FiniteSetTheorems, TLAPS

-----------------------------------------------------------------------------
(* Dicts and histories. *)

\* Putting an object under an id.
LEMMA PutAt ==
  ASSUME NEW i, NEW o, NEW store
  PROVE  /\ DOMAIN Put(i, o, store) = {i} \cup DOMAIN store
         /\ Put(i, o, store)[i] = o
         /\ \A j \in DOMAIN store : j # i => Put(i, o, store)[j] = store[j]
         /\ Put(i, o, store) = [j \in DOMAIN Put(i, o, store) |-> Put(i, o, store)[j]]
BY DEF Put

\* The first n entries of p are those of q.
Begins(p, n, q) == n <= Len(q) /\ \A k \in 1..n : p[k] = q[k]

\* IsPrefix, entry by entry.
LEMMA FirstEntries ==
  ASSUME NEW S, NEW p \in Seq(S), NEW q \in Seq(S), NEW n \in 0..Len(p)
  PROVE  IsPrefix(SubSeq(p, 1, n), q) <=> Begins(p, n, q)
<1> DEFINE s == SubSeq(p, 1, n)
<1>1. /\ s \in Seq(S) /\ Len(s) = n
      /\ \A i \in 1..n : s[i] = p[i]
  <2>1. \A i \in 1..n : p[i] \in S
    BY ElementOfSeq
  <2>2. /\ s \in Seq(S)
        /\ Len(s) = IF 1 <= n THEN n - 1 + 1 ELSE 0
        /\ \A i \in 1 .. n - 1 + 1 : s[i] = p[1 + i - 1]
    BY <2>1, SubSeqProperties
  <2> QED BY <2>2
<1>2. SubSeq(s, 1, n) = s
  BY <1>1, SubSeqFull
<1> HIDE DEF s
<1>3. CASE n <= Len(q)
  <2>1. /\ SubSeq(q, 1, n) \in Seq(S)
        /\ Len(SubSeq(q, 1, n)) = n
        /\ \A i \in 1..n : SubSeq(q, 1, n)[i] = q[i]
    BY <1>3
  <2>2. s = SubSeq(q, 1, n) <=> \A i \in 1..n : s[i] = q[i]
    <3>1. ASSUME \A i \in 1..n : s[i] = q[i] PROVE s = SubSeq(q, 1, n)
      BY <1>1, <2>1, <3>1, SeqEqual
    <3> QED BY <2>1, <3>1
  <2>3. IsPrefix(s, q) <=> s = SubSeq(q, 1, n)
    BY <1>1, <1>2, <1>3 DEF IsPrefix
  <2> QED BY <1>1, <1>3, <2>2, <2>3 DEF Begins, s
<1>4. CASE ~(n <= Len(q))
  <2>1. ~IsPrefix(s, q)
    BY <1>1, <1>4 DEF IsPrefix
  <2> QED BY <1>4, <2>1 DEF Begins, s
<1> QED BY <1>3, <1>4

\* A history is a beginning of another one.
LEMMA WholeHistory ==
  ASSUME NEW S, NEW p \in Seq(S), NEW q \in Seq(S)
  PROVE  IsPrefix(p, q) <=> Begins(p, Len(p), q)
<1>1. Len(p) \in 0..Len(p)
  OBVIOUS
<1>2. IsPrefix(SubSeq(p, 1, Len(p)), q) <=> Begins(p, Len(p), q)
  BY <1>1, FirstEntries, Zenon
<1> QED BY <1>2, SubSeqFull

\* An entry is added at the end.
LEMMA OneMoreEntry ==
  ASSUME NEW S, NEW p \in Seq(S), NEW e \in S
  PROVE  /\ Append(p, e) \in Seq(S) /\ Len(Append(p, e)) = Len(p) + 1
         /\ Begins(p, Len(p), Append(p, e))
         /\ \A n \in 1..Len(p) : Append(p, e)[n] = p[n]
         /\ Append(p, e)[Len(p) + 1] = e
BY DEF Begins

\* Lineage, entry by entry.
LEMMA LineageByEntry ==
  ASSUME NEW E, NEW store, \A i \in DOMAIN store : store[i].history \in Seq(E)
  PROVE  Lineage(store) <=>
           \A i \in DOMAIN store : \A n \in 1..Len(store[i].history) :
             store[i].history[n].of \in DOMAIN store =>
               Begins(store[i].history, n - 1, store[store[i].history[n].of].history)
<1>1. ASSUME NEW i \in DOMAIN store, NEW n \in 1..Len(store[i].history), NEW j \in DOMAIN store
      PROVE  IsPrefix(SubSeq(store[i].history, 1, n - 1), store[j].history) <=>
               Begins(store[i].history, n - 1, store[j].history)
  <2>1. n - 1 \in 0..Len(store[i].history)
    OBVIOUS
  <2> QED BY <2>1, FirstEntries, Zenon
<1>2. \A i \in DOMAIN store : DOMAIN store[i].history = 1..Len(store[i].history)
  OBVIOUS
<1> QED BY <1>1, <1>2 DEF Lineage

\* The lineage of a store survives a change that only lets histories grow and adds no
\* entry that names an object without its past.
LEMMA LineageStays ==
  ASSUME NEW E, NEW old, NEW new,
         \A i \in DOMAIN old : old[i].history \in Seq(E),
         \A i \in DOMAIN new : new[i].history \in Seq(E),
         Lineage(old),
         \A i \in DOMAIN old :
           i \in DOMAIN new /\ Begins(old[i].history, Len(old[i].history), new[i].history),
         \A i \in DOMAIN new : \A n \in 1..Len(new[i].history) :
           new[i].history[n].of \in DOMAIN new =>
             \/ Begins(new[i].history, n - 1, new[new[i].history[n].of].history)
             \/ /\ new[i].history[n].of \in DOMAIN old
                /\ \E j \in DOMAIN old :
                     n <= Len(old[j].history) /\ Begins(new[i].history, n, old[j].history)
  PROVE  Lineage(new)
<1>0. \A i \in DOMAIN old : \A n \in 1..Len(old[i].history) :
        old[i].history[n].of \in DOMAIN old =>
          Begins(old[i].history, n - 1, old[old[i].history[n].of].history)
  BY LineageByEntry
<1>1. ASSUME NEW i \in DOMAIN new, NEW n \in 1..Len(new[i].history),
             new[i].history[n].of \in DOMAIN old,
             NEW j \in DOMAIN old,
             n <= Len(old[j].history), Begins(new[i].history, n, old[j].history)
      PROVE  Begins(new[i].history, n - 1, new[new[i].history[n].of].history)
  <2> DEFINE past == new[i].history
             o == past[n].of
             was == old[j].history
  <2>1. /\ was[n] = past[n] /\ n \in 1..Len(was)
        /\ \A k \in 1..(n - 1) : past[k] = was[k]
        /\ Len(was) \in Nat
    BY <1>1 DEF Begins
  <2>2. Begins(was, n - 1, old[o].history)
    BY <1>0, <1>1, <2>1
  <2>3. Begins(old[o].history, Len(old[o].history), new[o].history)
    BY <1>1
  <2>4. Len(old[o].history) \in Nat /\ Len(new[o].history) \in Nat
    BY <1>1
  <2> HIDE DEF past, o, was
  <2>5. Begins(past, n - 1, new[o].history)
    BY <2>1, <2>2, <2>3, <2>4 DEF Begins
  <2> QED BY <2>5 DEF past, o
<1>2. \A i \in DOMAIN new : \A n \in 1..Len(new[i].history) :
        new[i].history[n].of \in DOMAIN new =>
          Begins(new[i].history, n - 1, new[new[i].history[n].of].history)
  BY <1>1
<1> QED BY <1>2, LineageByEntry
-----------------------------------------------------------------------------
(* What a put does to the lineage. *)

\* An object grows by entries that name nothing in the store.
LEMMA PutGrown ==
  ASSUME NEW E, NEW store, \A j \in DOMAIN store : store[j].history \in Seq(E),
         Lineage(store),
         NEW i \in DOMAIN store, NEW o, NEW e \in E, e.of \notin DOMAIN store,
         \/ o.history = store[i].history
         \/ o.history = Append(store[i].history, e)
  PROVE  Lineage(Put(i, o, store))
<1> DEFINE new == Put(i, o, store)
<1>1. /\ DOMAIN new = DOMAIN store /\ new[i] = o
      /\ \A j \in DOMAIN store : j # i => new[j] = store[j]
  BY DEF Put
<1> HIDE DEF new
<1>2. /\ o.history \in Seq(E)
      /\ Begins(store[i].history, Len(store[i].history), o.history)
      /\ \A n \in 1..Len(o.history) :
           \/ (n <= Len(store[i].history) /\ Begins(o.history, n, store[i].history))
           \/ o.history[n] = e
  <2>1. store[i].history \in Seq(E) /\ Len(store[i].history) \in Nat
    OBVIOUS
  <2>2. CASE o.history = store[i].history
    BY <2>1, <2>2 DEF Begins
  <2>3. CASE o.history = Append(store[i].history, e)
    <3> DEFINE h == store[i].history
    <3>1. /\ Append(h, e) \in Seq(E) /\ Len(Append(h, e)) = Len(h) + 1
          /\ Begins(h, Len(h), Append(h, e))
          /\ \A n \in 1..Len(h) : Append(h, e)[n] = h[n]
          /\ Append(h, e)[Len(h) + 1] = e
      BY <2>1, OneMoreEntry
    <3> HIDE DEF h
    <3>2. \A n \in 1..(Len(h) + 1) :
            (n <= Len(h) /\ Begins(Append(h, e), n, h)) \/ Append(h, e)[n] = e
      BY <2>1, <3>1 DEF Begins, h
    <3> QED BY <2>3, <3>1, <3>2 DEF h
  <2> QED BY <2>2, <2>3
<1>3. \A j \in DOMAIN new : new[j].history \in Seq(E)
  BY <1>1, <1>2
<1>4. \A j \in DOMAIN store :
        j \in DOMAIN new /\ Begins(store[j].history, Len(store[j].history), new[j].history)
  <2>1. \A j \in DOMAIN store : Len(store[j].history) \in Nat
    OBVIOUS
  <2> QED BY <1>1, <1>2, <2>1 DEF Begins
<1>5. ASSUME NEW j \in DOMAIN new, NEW n \in 1..Len(new[j].history),
             new[j].history[n].of \in DOMAIN new
      PROVE  /\ new[j].history[n].of \in DOMAIN store
             /\ \E k \in DOMAIN store :
                  n <= Len(store[k].history) /\ Begins(new[j].history, n, store[k].history)
  <2>1. CASE j # i
    <3>1. n <= Len(store[j].history) /\ Begins(new[j].history, n, store[j].history)
      BY <1>1, <1>5, <2>1 DEF Begins
    <3> QED BY <1>1, <1>5, <3>1
  <2>2. CASE j = i
    <3>1. n <= Len(store[i].history) /\ Begins(new[j].history, n, store[i].history)
      BY <1>1, <1>2, <1>5, <2>2
    <3> QED BY <1>1, <1>5, <3>1
  <2> QED BY <2>1, <2>2
<1>6. Lineage(new)
  BY <1>3, <1>4, <1>5, LineageStays
<1> QED BY <1>6 DEF new

\* An object under an id that no entry names: a first one, or a successor whose past is
\* that of an object in the store and whose last entry names that object.
LEMMA PutNew ==
  ASSUME NEW E, NEW store, \A j \in DOMAIN store : store[j].history \in Seq(E),
         Lineage(store),
         NEW i, i \notin DOMAIN store, \A e \in E : e.of # i,
         NEW o, o.history \in Seq(E),
         \/ o.history = <<>>
         \/ \E j \in DOMAIN store : \E h \in Seq(E), e \in E :
              /\ o.history = Append(h, e) /\ e.of = j
              /\ Begins(h, Len(h), store[j].history)
  PROVE  Lineage(Put(i, o, store))
<1> DEFINE new == Put(i, o, store)
<1>1. /\ DOMAIN new = {i} \cup DOMAIN store /\ new[i] = o
      /\ \A j \in DOMAIN store : new[j] = store[j]
  BY DEF Put
<1> HIDE DEF new
<1>2. \A j \in DOMAIN new : new[j].history \in Seq(E)
  BY <1>1
<1>3. \A j \in DOMAIN store :
        j \in DOMAIN new /\ Begins(store[j].history, Len(store[j].history), new[j].history)
  <2>1. \A j \in DOMAIN store : Len(store[j].history) \in Nat
    OBVIOUS
  <2> QED BY <1>1, <2>1 DEF Begins
<1>4. ASSUME NEW j \in DOMAIN new, NEW n \in 1..Len(new[j].history),
             new[j].history[n].of \in DOMAIN new
      PROVE  \/ Begins(new[j].history, n - 1, new[new[j].history[n].of].history)
             \/ /\ new[j].history[n].of \in DOMAIN store
                /\ \E k \in DOMAIN store :
                     n <= Len(store[k].history) /\ Begins(new[j].history, n, store[k].history)
  <2>1. new[j].history[n] \in E
    BY <1>2, ElementOfSeq
  <2>2. new[j].history[n].of \in DOMAIN store
    BY <1>1, <1>4, <2>1
  <2>3. CASE j \in DOMAIN store
    <3>1. n <= Len(store[j].history) /\ Begins(new[j].history, n, store[j].history)
      BY <1>1, <1>4, <2>3 DEF Begins
    <3> QED BY <2>2, <2>3, <3>1
  <2>4. CASE j = i
    <3>1. n \in 1..Len(o.history)
      BY <1>1, <1>4, <2>4
    <3>2. o.history # <<>>
      BY <3>1, EmptySeq
    <3>3. PICK k \in DOMAIN store, h \in Seq(E), e \in E :
            /\ o.history = Append(h, e) /\ e.of = k
            /\ Begins(h, Len(h), store[k].history)
      BY <3>2
    <3>4. /\ Len(o.history) = Len(h) + 1 /\ Len(h) \in Nat
          /\ \A m \in 1..Len(h) : o.history[m] = h[m]
          /\ o.history[Len(h) + 1] = e
      BY <3>3, OneMoreEntry, LenProperties
    <3>5. CASE n = Len(h) + 1
      <4>1. Begins(o.history, n - 1, store[k].history)
        BY <3>3, <3>4, <3>5 DEF Begins
      <4>2. o.history[n].of = k
        BY <3>3, <3>4, <3>5
      <4> QED BY <1>1, <2>4, <4>1, <4>2
    <3>6. CASE n <= Len(h)
      <4>1. Len(store[k].history) \in Nat
        OBVIOUS
      <4>2. n <= Len(store[k].history) /\ Begins(o.history, n, store[k].history)
        BY <3>1, <3>3, <3>4, <3>6, <4>1 DEF Begins
      <4> QED BY <1>1, <2>2, <2>4, <4>2
    <3> QED BY <3>1, <3>4, <3>5, <3>6
  <2> QED BY <1>1, <2>3, <2>4
<1>5. Lineage(new)
  BY <1>2, <1>3, <1>4, LineageStays
<1> QED BY <1>5 DEF new

\* Leaving objects out, and keeping the histories of the others.
LEMMA PartOfLineage ==
  ASSUME NEW store, Lineage(store), NEW part, DOMAIN part \subseteq DOMAIN store,
         \A i \in DOMAIN part : part[i].history = store[i].history
  PROVE  Lineage(part)
BY DEF Lineage

-----------------------------------------------------------------------------
(* Objects and their graphs. *)

\* Objects whose histories are made of the entries E.
ObjectsOf(E) == [kind : DOMAIN Section, status : Statuses, history : Seq(E)]

\* More entries, more objects.
LEMMA MoreObjects ==
  ASSUME NEW E, NEW F, E \subseteq F, NEW o \in ObjectsOf(E)
  PROVE  o \in ObjectsOf(F)
<1>1. o.history \in Seq(F)
  BY SeqMonotonic DEF ObjectsOf
<1> QED BY <1>1 DEF ObjectsOf

\* Evidence has no lifecycle, every other kind has one.
LEMMA Kinds ==
  /\ DOMAIN Methods = DOMAIN Graph /\ "thesis" \in DOMAIN Graph
  /\ "evidence" \notin DOMAIN Graph
  /\ DOMAIN Section = DOMAIN Graph \cup {"evidence"}
BY DEF Methods, Graph, Section

\* The edges a thesis takes when it evolves, and where its successor starts.
LEMMA ThesisEdges ==
  /\ <<"emerging", "evolving">> \in Graph["thesis"]
  /\ <<"mature", "evolving">> \in Graph["thesis"]
  /\ "emerging" \in StatusesOf("thesis")
<1>1. Graph["thesis"] = ThesisGraph
  BY DEF Graph
<1>2. <<"emerging", "evolving">> \in ThesisGraph /\ <<"mature", "evolving">> \in ThesisGraph
  BY DEF ThesisGraph
<1>3. <<"emerging", "evolving">>[1] \in {e[1] : e \in Graph["thesis"]}
  BY <1>1, <1>2
<1> QED BY <1>1, <1>2, <1>3 DEF StatusesOf

\* An edge leads to a status of the kind.
LEMMA EdgeStatus ==
  ASSUME NEW kind, NEW s, NEW t, <<s, t>> \in Graph[kind]
  PROVE  t \in StatusesOf(kind)
<1>1. <<s, t>>[2] \in {e[2] : e \in Graph[kind]}
  OBVIOUS
<1> QED BY <1>1 DEF StatusesOf

\* The object with another status and another history.
With(o, s, h) == [kind |-> o.kind, status |-> s, history |-> h]

\* An object is its fields.
LEMMA ObjectFields ==
  ASSUME NEW E, NEW o \in ObjectsOf(E)
  PROVE  /\ o = [kind |-> o.kind, status |-> o.status, history |-> o.history]
         /\ o.history \in Seq(E)
BY DEF ObjectsOf

\* That is what an assignment to both fields makes of it.
LEMMA Changed ==
  ASSUME NEW E, NEW o \in ObjectsOf(E), NEW s, NEW h
  PROVE  [o EXCEPT !.status = s, !.history = h] = With(o, s, h)
<1>1. PICK m : m = [o EXCEPT !.status = s, !.history = h]
  OBVIOUS
<1>2. m = [kind |-> o.kind, status |-> s, history |-> h]
  BY <1>1 DEF ObjectsOf
<1> QED BY <1>1, <1>2 DEF With

\* It is an object of the same kind, if that status is one of the kind, and not evidence.
LEMMA Restated ==
  ASSUME NEW E, NEW i, NEW o \in ObjectsOf(E), HasStatus(i, o),
         o.kind \in DOMAIN Graph,
         NEW s, NEW h \in Seq(E), s \in StatusesOf(o.kind)
  PROVE  /\ i \notin EvidenceIds
         /\ With(o, s, h) \in ObjectsOf(E) /\ HasStatus(i, With(o, s, h))
         /\ With(o, s, h).kind = o.kind /\ With(o, s, h).status = s
         /\ With(o, s, h).history = h
<1> DEFINE m == With(o, s, h)
<1>1. i \notin EvidenceIds
  BY Kinds DEF HasStatus
<1>2. m = [kind |-> o.kind, status |-> s, history |-> h]
  BY DEF With
<1>3. s \in Statuses
  BY DEF Statuses
<1> HIDE DEF m
<1>4. m \in ObjectsOf(E)
  BY <1>2, <1>3 DEF ObjectsOf
<1>5. HasStatus(i, m) /\ m.kind = o.kind /\ m.status = s /\ m.history = h
  BY <1>1, <1>2 DEF HasStatus
<1> QED BY <1>1, <1>4, <1>5 DEF m

\* A method returns an object one edge further, or the same one.
LEMMA MovedObject ==
  ASSUME NEW E, NEW i, NEW o \in ObjectsOf(E), HasStatus(i, o),
         o.kind \in DOMAIN Methods, NEW to, NEW m \in Moved(o, to)
  PROVE  /\ i \notin EvidenceIds
         /\ m \in ObjectsOf(E) /\ HasStatus(i, m)
         /\ m.kind = o.kind /\ m.history = o.history
         /\ m.status = o.status \/ <<o.status, m.status>> \in Graph[o.kind]
<1>1. o.kind \in DOMAIN Graph /\ i \notin EvidenceIds
  BY Kinds DEF HasStatus
<1>2. CASE m = o
  BY <1>1, <1>2
<1>3. CASE m = [o EXCEPT !.status = to] /\ <<o.status, to>> \in Graph[o.kind]
  <2>1. to \in StatusesOf(o.kind)
    BY <1>3, EdgeStatus
  <2>2. o.history \in Seq(E) /\ m = With(o, to, o.history)
    BY <1>3 DEF ObjectsOf, With
  <2>3. /\ m \in ObjectsOf(E) /\ HasStatus(i, m)
        /\ m.kind = o.kind /\ m.status = to /\ m.history = o.history
    BY <1>1, <2>1, <2>2, Restated
  <2> QED BY <1>1, <1>3, <2>3
<1>4. m = o \/ (m = [o EXCEPT !.status = to] /\ <<o.status, to>> \in Graph[o.kind])
  <2>1. CASE o.status = to /\ <<o.kind, to>> \in Repeatable
    BY <2>1 DEF Moved
  <2>2. CASE ~(o.status = to /\ <<o.kind, to>> \in Repeatable)
    BY <2>2 DEF Moved
  <2> QED BY <2>1, <2>2
<1> QED BY <1>2, <1>3, <1>4

\* An evolution adds its entry and takes an edge of the graph, or none.
LEMMA EvolvedObject ==
  ASSUME NEW E, NEW i, NEW o \in ObjectsOf(E), HasStatus(i, o), o.kind = "thesis",
         NEW e \in E
  PROVE  /\ i \notin EvidenceIds
         /\ Evolved(o, e) \in ObjectsOf(E) /\ HasStatus(i, Evolved(o, e))
         /\ Evolved(o, e).kind = o.kind /\ Evolved(o, e).history = Append(o.history, e)
         /\ \/ Evolved(o, e).status = o.status
            \/ <<o.status, Evolved(o, e).status>> \in Graph[o.kind]
<1> DEFINE s == IF o.status \in {"emerging", "mature"} THEN "evolving" ELSE o.status
           h == Append(o.history, e)
<1>1. o.kind \in DOMAIN Graph /\ i \notin EvidenceIds
  BY Kinds DEF HasStatus
<1>2. o.status \in StatusesOf(o.kind)
  BY <1>1 DEF HasStatus
<1>3. s = o.status \/ <<o.status, s>> \in Graph[o.kind]
  BY ThesisEdges
<1>4. s \in StatusesOf(o.kind)
  BY <1>2, <1>3, EdgeStatus
<1>5. h \in Seq(E)
  BY OneMoreEntry, ObjectFields
<1>6. Evolved(o, e) = [o EXCEPT !.status = s, !.history = h]
  BY DEF Evolved, ObjectsOf
<1> HIDE DEF s, h
<1>7. Evolved(o, e) = With(o, s, h)
  BY <1>6, Changed
<1>8. /\ With(o, s, h) \in ObjectsOf(E) /\ HasStatus(i, With(o, s, h))
      /\ With(o, s, h).kind = o.kind /\ With(o, s, h).status = s
      /\ With(o, s, h).history = h
  BY <1>1, <1>4, <1>5, Restated
<1> QED BY <1>1, <1>3, <1>7, <1>8 DEF h

\* A mark adds its entry, or nothing when the thesis is marked already.
LEMMA MarkedObject ==
  ASSUME NEW E, NEW i, NEW o \in ObjectsOf(E), HasStatus(i, o), o.kind = "thesis",
         NEW e \in E, NEW m \in Marked(o, e)
  PROVE  /\ i \notin EvidenceIds
         /\ m \in ObjectsOf(E) /\ HasStatus(i, m) /\ m.kind = o.kind
         /\ m.history \in {o.history, Append(o.history, e)}
         /\ m.status = o.status \/ <<o.status, m.status>> \in Graph[o.kind]
<1>1. PICK p \in Moved(o, "superseded") :
        m = IF p = o THEN p ELSE [p EXCEPT !.history = Append(@, e)]
  BY DEF Marked
<1>2. /\ i \notin EvidenceIds
      /\ p \in ObjectsOf(E) /\ HasStatus(i, p)
      /\ p.kind = o.kind /\ p.history = o.history
      /\ p.status = o.status \/ <<o.status, p.status>> \in Graph[o.kind]
  <2>1. o.kind \in DOMAIN Methods
    BY Kinds
  <2> QED BY <2>1, MovedObject
<1>3. CASE p = o
  BY <1>1, <1>2, <1>3
<1>4. CASE p # o
  <2> DEFINE s == p.status
             h == Append(o.history, e)
  <2>1. p.kind \in DOMAIN Graph
    BY <1>2, Kinds
  <2>2. s \in StatusesOf(p.kind)
    BY <1>2, <2>1 DEF HasStatus
  <2>3. h \in Seq(E)
    BY OneMoreEntry, ObjectFields
  <2>4. m = [p EXCEPT !.status = s, !.history = h]
    BY <1>1, <1>2, <1>4 DEF ObjectsOf
  <2> HIDE DEF s, h
  <2>5. m = With(p, s, h)
    BY <1>2, <2>4, Changed
  <2>6. /\ With(p, s, h) \in ObjectsOf(E) /\ HasStatus(i, With(p, s, h))
        /\ With(p, s, h).kind = p.kind /\ With(p, s, h).status = s
        /\ With(p, s, h).history = h
    BY <1>2, <2>1, <2>2, <2>3, Restated
  <2> QED BY <1>2, <2>5, <2>6 DEF h, s
<1> QED BY <1>3, <1>4

\* A successor is an emerging thesis with the past of the thesis and one entry more.
LEMMA SuccessorObject ==
  ASSUME NEW E, NEW i, NEW o \in ObjectsOf(E), HasStatus(i, o), o.kind = "thesis",
         NEW e \in E, NEW j, j \notin EvidenceIds
  PROVE  /\ Successor(o, e) \in ObjectsOf(E) /\ HasStatus(j, Successor(o, e))
         /\ Successor(o, e).history = Append(o.history, e)
<1> DEFINE next == Successor(o, e)
           h == Append(o.history, e)
           s == "emerging"
<1>1. o.kind \in DOMAIN Graph /\ s \in StatusesOf(o.kind)
  BY Kinds, ThesisEdges
<1>2. h \in Seq(E)
  BY OneMoreEntry, ObjectFields
<1>3. next = [o EXCEPT !.status = s, !.history = h]
  BY DEF Successor, ObjectsOf
<1> HIDE DEF next, s, h
<1>4. next = With(o, s, h)
  BY <1>3, Changed
<1>5. /\ With(o, s, h) \in ObjectsOf(E)
      /\ With(o, s, h).kind = o.kind /\ With(o, s, h).status = s
      /\ With(o, s, h).history = h
  BY <1>1, <1>2, Restated
<1>6. HasStatus(j, next)
  BY <1>1, <1>4, <1>5 DEF HasStatus
<1> QED BY <1>4, <1>5, <1>6 DEF next, h
-----------------------------------------------------------------------------
(* Steps. *)

\* The inductive invariant is what the run checks: one part needs the other.
IInv == StoreInv /\ LineagePreserved

\* What PastIsKept says of a step.
Kept ==
  \A i \in DOMAIN objects :
    /\ i \in DOMAIN objects'
    /\ objects[i].kind = "evidence" => objects'[i] = objects[i]
    /\ aged' \/ (FollowsGraph(i) /\ IsPrefix(objects[i].history, objects'[i].history))

\* A well-formed store, object by object.
LEMMA ByObject ==
  ASSUME NEW store, WellFormed(store)
  PROVE  /\ DOMAIN store \subseteq Ids
         /\ \A i \in DOMAIN store : /\ store[i] \in ObjectsOf(Entries) /\ HasStatus(i, store[i])
                                    /\ store[i].history \in Seq(Entries)
<1>1. Objects = ObjectsOf(Entries)
  BY DEF Objects, ObjectsOf
<1>2. \A i \in DOMAIN store : store[i] \in ObjectsOf(Entries)
  BY <1>1 DEF WellFormed
<1> QED BY <1>2, ObjectFields DEF WellFormed

\* Nothing is stored under None or under an id that was not given out.
LEMMA IdsGivenOut ==
  ASSUME TypeOK
  PROVE  /\ None \notin Ids /\ issued + 1 \notin 1..issued
         /\ issued < MaxId => issued + 1 \notin EvidenceIds
         /\ \A i \in EvidenceIds : i \notin 1..issued
         /\ issued \in Nat
BY StoreAssumption DEF TypeOK, Ids

\* An object that is put back as it was has kept its past.
LEMMA SameObjectKept ==
  ASSUME TypeOK,
         \A i \in DOMAIN objects : i \in DOMAIN objects' /\ objects'[i] = objects[i]
  PROVE  Kept
<1>1. ASSUME NEW i \in DOMAIN objects PROVE IsPrefix(objects[i].history, objects'[i].history)
  <2>1. objects[i].history \in Seq(Entries)
    BY ByObject DEF TypeOK
  <2>2. Begins(objects[i].history, Len(objects[i].history), objects[i].history)
    BY <2>1 DEF Begins
  <2> QED BY <2>1, <2>2, WholeHistory
<1> QED BY <1>1 DEF Kept, FollowsGraph

\* Reading changes no object.
LEMMA ReadStep ==
  ASSUME IInv, NEW c \in Clients, Read(c)
  PROVE  IInv' /\ Kept
<1>1. PICK i \in DOMAIN objects :
        copies' = [copies EXCEPT ![c] = [id |-> i, object |-> objects[i]]]
  BY DEF Read
<1>2. TypeOK
  BY DEF IInv, StoreInv
<1>3. i \in Ids /\ objects[i] \in Objects /\ HasStatus(i, objects[i])
  BY <1>2 DEF TypeOK, WellFormed
<1>4. /\ UNCHANGED <<Ids, Entries, Objects, Records>>
      /\ UNCHANGED <<objects, overrides, issued, captured, aged>> /\ outcome' = "done"
  BY DEF Read, Ids, Entries, Objects, Records
<1>5. copies' \in [Clients -> [id : Ids, object : Objects] \cup {None}]
  BY <1>1, <1>2, <1>3 DEF TypeOK
<1>6. \A d \in Clients : copies'[d] # None => HasStatus(copies'[d].id, copies'[d].object)
  BY <1>1, <1>2, <1>3 DEF TypeOK
<1>7. TypeOK'
  BY <1>2, <1>4, <1>5, <1>6 DEF TypeOK, WellFormed
<1>8. LineagePreserved' /\ RestoredIsCaptured'
  BY <1>4 DEF IInv, LineagePreserved, Lineage, RestoredIsCaptured
<1> QED BY <1>2, <1>4, <1>7, <1>8, SameObjectKept DEF IInv, StoreInv

\* Recording an override: only the log grows.
LEMMA OverrideStep ==
  ASSUME IInv, Override
  PROVE  IInv' /\ Kept
<1>1. PICK i \in Targets, payload \in Payloads :
        overrides' = Append(overrides, [target |-> i, payload |-> payload])
  BY DEF Override
<1>2. TypeOK
  BY DEF IInv, StoreInv
<1>3. [target |-> i, payload |-> payload] \in Records
  BY DEF Records
<1>4. /\ UNCHANGED <<Ids, Entries, Objects, Records>>
      /\ UNCHANGED <<objects, issued, copies, captured, aged>> /\ outcome' = "done"
  BY DEF Override, Ids, Entries, Objects, Records
<1>5. overrides' \in Seq(Records)
  <2>1. overrides \in Seq(Records)
    BY <1>2 DEF TypeOK
  <2> QED BY <1>1, <1>3, <2>1
<1>6. TypeOK'
  BY <1>2, <1>4, <1>5 DEF TypeOK, WellFormed
<1>7. LineagePreserved' /\ RestoredIsCaptured'
  BY <1>4 DEF IInv, LineagePreserved, Lineage, RestoredIsCaptured
<1> QED BY <1>2, <1>4, <1>6, <1>7, SameObjectKept DEF IInv, StoreInv

\* Capturing: the snapshot takes the lineage of the store.
LEMMA CheckpointStep ==
  ASSUME IInv, Checkpoint
  PROVE  IInv' /\ Kept
<1>1. TypeOK
  BY DEF IInv, StoreInv
<1>2. /\ UNCHANGED <<Ids, Entries, Objects, Records>>
      /\ UNCHANGED <<objects, overrides, issued, copies, aged>> /\ outcome' = "done"
      /\ captured'.objects = objects /\ captured'.overrides = overrides
  BY DEF Checkpoint, Ids, Entries, Objects, Records
<1>3. TypeOK'
  BY <1>1, <1>2 DEF TypeOK, WellFormed
<1>4. LineagePreserved' /\ RestoredIsCaptured'
  BY <1>2 DEF IInv, LineagePreserved, Lineage, RestoredIsCaptured
<1> QED BY <1>1, <1>2, <1>3, <1>4, SameObjectKept DEF IInv, StoreInv
\* The store after a put of an object under an id that was given out.
LEMMA PutWellFormed ==
  ASSUME NEW E, NEW I, NEW store, DOMAIN store \subseteq I,
         \A j \in DOMAIN store : store[j] \in ObjectsOf(E) /\ HasStatus(j, store[j]),
         NEW i \in I, NEW o \in ObjectsOf(E), HasStatus(i, o)
  PROVE  /\ DOMAIN Put(i, o, store) \subseteq I
         /\ Put(i, o, store) \in [DOMAIN Put(i, o, store) -> ObjectsOf(E)]
         /\ \A j \in DOMAIN Put(i, o, store) :
              /\ Put(i, o, store)[j] \in ObjectsOf(E)
              /\ HasStatus(j, Put(i, o, store)[j])
<1> DEFINE new == Put(i, o, store)
<1>1. /\ DOMAIN new = {i} \cup DOMAIN store /\ new[i] = o
      /\ \A j \in DOMAIN store : j # i => new[j] = store[j]
      /\ new = [j \in DOMAIN new |-> new[j]]
  BY DEF Put
<1> HIDE DEF new
<1>2. \A j \in DOMAIN new : new[j] \in ObjectsOf(E) /\ HasStatus(j, new[j])
  BY <1>1
<1>3. new \in [DOMAIN new -> ObjectsOf(E)]
  BY <1>1, <1>2
<1> QED BY <1>1, <1>2, <1>3 DEF new

\* What the store looks like to a caller about to write what it made of its copy.
LEMMA HeldCopy ==
  ASSUME TypeOK, NEW c \in Clients, Holds(c)
  PROVE  /\ copies[c] = [id |-> copies[c].id, object |-> copies[c].object]
         /\ copies[c].id \in Ids /\ copies[c].object \in ObjectsOf(Entries)
         /\ HasStatus(copies[c].id, copies[c].object)
         /\ copies[c].object.history \in Seq(Entries)
<1>1. Objects = ObjectsOf(Entries)
  BY DEF Objects, ObjectsOf
<1>2. copies[c] \in [id : Ids, object : Objects] /\ HasStatus(copies[c].id, copies[c].object)
  BY DEF TypeOK, Holds
<1> QED BY <1>1, <1>2, ObjectFields

\* A put of a changed object under the id of the copy it was made of.
LEMMA PutKept ==
  ASSUME TypeOK, NEW c \in Clients, Holds(c), copies[c].id \notin EvidenceIds,
         NEW o, o.history \in Seq(Entries), NEW e \in Entries,
         \/ o.history = copies[c].object.history
         \/ o.history = Append(copies[c].object.history, e),
         \/ o.status = copies[c].object.status
         \/ <<copies[c].object.status, o.status>> \in Graph[copies[c].object.kind],
         \A i \in DOMAIN objects : i \in DOMAIN objects',
         \A i \in DOMAIN objects : i # copies[c].id => objects'[i] = objects[i],
         copies[c].id \in DOMAIN objects => objects'[copies[c].id] = o,
         Ages(c)
  PROVE  Kept
<1> DEFINE i == copies[c].id
           was == copies[c].object
<1>1. ASSUME NEW j \in DOMAIN objects, j # i
      PROVE  FollowsGraph(j) /\ IsPrefix(objects[j].history, objects'[j].history)
  <2>1. objects[j].history \in Seq(Entries)
    BY ByObject DEF TypeOK
  <2>2. Begins(objects[j].history, Len(objects[j].history), objects[j].history)
    BY <2>1 DEF Begins
  <2> QED BY <1>1, <2>1, <2>2, WholeHistory DEF FollowsGraph
<1>2. ASSUME i \in DOMAIN objects
      PROVE  /\ objects[i].kind # "evidence"
             /\ aged' \/ (FollowsGraph(i) /\ IsPrefix(objects[i].history, objects'[i].history))
  <2>1. HasStatus(i, objects[i])
    BY <1>2 DEF TypeOK, WellFormed
  <2>2. objects[i].kind # "evidence"
    BY <2>1, Kinds DEF HasStatus
  <2>3. ASSUME ~aged'
        PROVE  FollowsGraph(i) /\ IsPrefix(objects[i].history, objects'[i].history)
    <3>1. objects[i] = was
      BY <2>3 DEF Ages, Current, TypeOK
    <3>2. was.history \in Seq(Entries)
      BY HeldCopy
    <3>3. Begins(was.history, Len(was.history), o.history)
      BY <3>2, OneMoreEntry DEF Begins
    <3>4. IsPrefix(was.history, o.history)
      BY <3>2, <3>3, WholeHistory
    <3> QED BY <1>2, <3>1, <3>4 DEF FollowsGraph
  <2> QED BY <2>2, <2>3
<1> QED BY <1>1, <1>2 DEF Kept

\* The lineage after such a put, unless the copy was an old one.
LEMMA PutLineage ==
  ASSUME IInv, NEW c \in Clients, Holds(c), ~aged, Current(c),
         NEW o, NEW e \in Entries, e.of = None,
         \/ o.history = copies[c].object.history
         \/ o.history = Append(copies[c].object.history, e)
  PROVE  Lineage(Put(copies[c].id, o, objects))
<1>1. TypeOK /\ Lineage(objects)
  BY DEF IInv, StoreInv, LineagePreserved
<1>2. /\ \A i \in DOMAIN objects : objects[i].history \in Seq(Entries)
      /\ e.of \notin DOMAIN objects
  BY <1>1, ByObject, IdsGivenOut DEF TypeOK
<1>3. /\ copies[c].id \in DOMAIN objects
      /\ objects[copies[c].id] = copies[c].object
  BY DEF Current
<1> QED BY <1>1, <1>2, <1>3, PutGrown

\* A write of what became of a copy.
LEMMA WriteStep ==
  ASSUME IInv, NEW c \in Clients, Holds(c), copies[c].id \notin EvidenceIds,
         NEW o \in ObjectsOf(Entries), HasStatus(copies[c].id, o),
         \/ o.status = copies[c].object.status
         \/ <<copies[c].object.status, o.status>> \in Graph[copies[c].object.kind],
         NEW e \in Entries, e.of = None,
         \/ o.history = copies[c].object.history
         \/ o.history = Append(copies[c].object.history, e),
         Writes(c, o)
  PROVE  IInv' /\ Kept
<1> DEFINE i == copies[c].id
<1>1. TypeOK
  BY DEF IInv, StoreInv
<1>2. /\ copies[c] = [id |-> i, object |-> copies[c].object]
      /\ i \in Ids /\ o.history \in Seq(Entries)
  BY <1>1, HeldCopy, ObjectFields
<1>3. /\ objects' = Put(i, o, objects) /\ Ages(c) /\ outcome' = "done"
      /\ copies' = [copies EXCEPT ![c].object = o]
      /\ UNCHANGED <<overrides, issued, captured>>
  BY DEF Writes
<1>4. /\ UNCHANGED <<Ids, Entries, Objects, Records>>
      /\ Objects = ObjectsOf(Entries)
  BY <1>3 DEF Ids, Entries, Objects, Records, ObjectsOf
<1>5. /\ DOMAIN objects' \subseteq Ids
      /\ objects' \in [DOMAIN objects' -> Objects]
      /\ \A j \in DOMAIN objects' : HasStatus(j, objects'[j])
  <2>1. /\ DOMAIN objects \subseteq Ids
        /\ \A j \in DOMAIN objects : objects[j] \in ObjectsOf(Entries) /\ HasStatus(j, objects[j])
    BY <1>1, ByObject DEF TypeOK
  <2> QED BY <1>2, <1>3, <1>4, <2>1, PutWellFormed
<1>6. /\ copies'[c] = [id |-> i, object |-> o]
      /\ \A d \in Clients \ {c} : copies'[d] = copies[d]
      /\ copies' \in [Clients -> [id : Ids, object : Objects] \cup {None}]
  <2>1. /\ copies'[c] = [id |-> i, object |-> o]
        /\ \A d \in Clients \ {c} : copies'[d] = copies[d]
        /\ copies' = [d \in Clients |-> copies'[d]]
    BY <1>1, <1>2, <1>3 DEF TypeOK
  <2>2. copies'[c] \in [id : Ids, object : Objects]
    BY <1>2, <1>4, <2>1
  <2> QED BY <1>1, <2>1, <2>2 DEF TypeOK
<1>7. TypeOK'
  <2>1. aged' \in BOOLEAN
    BY <1>3 DEF Ages
  <2>2. WellFormed(objects)'
    BY <1>4, <1>5 DEF WellFormed
  <2>3. captured # None => WellFormed(captured.objects)'
    BY <1>1, <1>3, <1>4 DEF TypeOK, WellFormed
  <2>4. \A d \in Clients : copies'[d] # None => HasStatus(copies'[d].id, copies'[d].object)
    BY <1>1, <1>6 DEF TypeOK
  <2> QED BY <1>1, <1>3, <1>4, <1>6, <2>1, <2>2, <2>3, <2>4 DEF TypeOK
<1>8. LineagePreserved'
  <2>1. SUFFICES ASSUME ~aged'
                 PROVE  Lineage(objects') /\ (captured # None => Lineage(captured.objects))
    BY <1>3 DEF LineagePreserved, Lineage
  <2>2. ~aged /\ Current(c)
    BY <1>1, <1>3, <2>1 DEF Ages, TypeOK
  <2>3. Lineage(objects')
    BY <1>3, <2>2, PutLineage
  <2> QED BY <2>2, <2>3 DEF IInv, LineagePreserved
<1>9. Kept
  <2>1. /\ \A j \in DOMAIN objects : j \in DOMAIN objects' /\ (j # i => objects'[j] = objects[j])
        /\ objects'[i] = o
    BY <1>3 DEF Put
  <2> QED BY <1>1, <1>2, <1>3, <2>1, PutKept
<1> QED BY <1>3, <1>7, <1>8, <1>9 DEF IInv, StoreInv, RestoredIsCaptured

\* A method of the lifecycles.
LEMMA MoveStep ==
  ASSUME IInv, NEW c \in Clients, Move(c)
  PROVE  IInv' /\ Kept
<1> DEFINE was == copies[c].object
<1>1. TypeOK /\ Holds(c) /\ was.kind \in DOMAIN Methods
  BY DEF IInv, StoreInv, Move
<1>2. PICK to \in Methods[was.kind] : \E moved \in Moved(was, to) : Writes(c, moved)
  BY DEF Move
<1>3. PICK moved \in Moved(was, to) : Writes(c, moved)
  BY <1>2
<1>4. /\ copies[c].id \notin EvidenceIds
      /\ moved \in ObjectsOf(Entries) /\ HasStatus(copies[c].id, moved)
      /\ moved.history = was.history
      /\ moved.status = was.status \/ <<was.status, moved.status>> \in Graph[was.kind]
  <2>1. was \in ObjectsOf(Entries) /\ HasStatus(copies[c].id, was)
    BY <1>1, HeldCopy
  <2> HIDE DEF was
  <2> QED BY <1>1, <2>1, MovedObject
<1>5. Entry("evolve", c, None) \in Entries /\ Entry("evolve", c, None).of = None
  BY DEF Entry, Entries
<1> QED BY <1>1, <1>3, <1>4, <1>5, WriteStep

\* An evolution.
LEMMA EvolveStep ==
  ASSUME IInv, NEW c \in Clients, Evolve(c)
  PROVE  IInv' /\ Kept
<1> DEFINE was == copies[c].object
           e == Entry("evolve", c, None)
<1>1. TypeOK /\ Holds(c) /\ was.kind = "thesis" /\ Writes(c, Evolved(was, e))
  BY DEF IInv, StoreInv, Evolve, IsThesis
<1>2. e \in Entries /\ e.of = None
  BY DEF Entry, Entries
<1> HIDE DEF e
<1>3. /\ copies[c].id \notin EvidenceIds
      /\ Evolved(was, e) \in ObjectsOf(Entries) /\ HasStatus(copies[c].id, Evolved(was, e))
      /\ Evolved(was, e).history = Append(was.history, e)
      /\ \/ Evolved(was, e).status = was.status
         \/ <<was.status, Evolved(was, e).status>> \in Graph[was.kind]
  <2>1. was \in ObjectsOf(Entries) /\ HasStatus(copies[c].id, was)
    BY <1>1, HeldCopy
  <2> HIDE DEF was
  <2> QED BY <1>1, <1>2, <2>1, EvolvedObject
<1> QED BY <1>1, <1>2, <1>3, WriteStep
\* A pair that may be cut in half: the mark is put, then the successor or nothing.
LEMMA SupersedeStep ==
  ASSUME IInv, NEW c \in Clients, Supersede(c)
  PROVE  IInv' /\ Kept
<1> DEFINE i == copies[c].id
           was == copies[c].object
           mark == Entry("supersede", c, None)
           link == Entry("supersede", c, i)
           next == Successor(was, link)
<1>1. /\ TypeOK /\ Holds(c) /\ was.kind = "thesis" /\ issued < MaxId
      /\ Ages(c) /\ outcome' = "done" /\ UNCHANGED <<overrides, captured>>
  BY DEF IInv, StoreInv, Supersede, IsThesis
<1>2. PICK marked \in Marked(was, mark) :
        LET half == Put(i, marked, objects)
        IN \/ /\ objects' = Put(issued + 1, next, half)
              /\ issued' = issued + 1
              /\ copies' = [copies EXCEPT ![c] = [id |-> issued + 1, object |-> next]]
           \/ objects' = half /\ UNCHANGED <<issued, copies>>
  BY DEF Supersede
<1> DEFINE half == Put(i, marked, objects)
<1>3. /\ i \in Ids /\ was \in ObjectsOf(Entries) /\ HasStatus(i, was)
      /\ was.history \in Seq(Entries)
  BY <1>1, HeldCopy
<1>4. mark \in Entries /\ mark.of = None
  BY DEF Entry, Entries
<1>5. /\ i \notin EvidenceIds
      /\ marked \in ObjectsOf(Entries) /\ HasStatus(i, marked)
      /\ marked.history = was.history \/ marked.history = Append(was.history, mark)
      /\ marked.status = was.status \/ <<was.status, marked.status>> \in Graph[was.kind]
  <2>1. was.kind = "thesis" /\ mark \in Entries /\ marked \in Marked(was, mark)
    BY <1>1, <1>4
  <2>2. was \in ObjectsOf(Entries) /\ HasStatus(i, was)
    BY <1>3
  <2> HIDE DEF was, i, mark, link, next, half
  <2>3. /\ i \notin EvidenceIds
        /\ marked \in ObjectsOf(Entries) /\ HasStatus(i, marked)
    BY <2>1, <2>2, MarkedObject
  <2>4. marked.history \in {was.history, Append(was.history, mark)}
    BY <2>1, <2>2, MarkedObject
  <2>5. marked.status = was.status \/ <<was.status, marked.status>> \in Graph[was.kind]
    BY <2>1, <2>2, MarkedObject
  <2> QED BY <2>3, <2>4, <2>5
<1>6. link \in Entries /\ link.of = i
  BY <1>3, <1>5 DEF Entry, Entries, Ids
<1>7. /\ issued + 1 \notin EvidenceIds /\ issued + 1 \notin Ids /\ issued \in Nat
      /\ issued + 1 \in 0..MaxId
  BY <1>1, IdsGivenOut, StoreAssumption DEF Ids, TypeOK
<1>8. /\ next \in ObjectsOf(Entries) /\ HasStatus(issued + 1, next)
      /\ next.history = Append(was.history, link)
  <2> HIDE DEF was, i, link
  <2> QED BY <1>1, <1>3, <1>6, <1>7, SuccessorObject DEF was, i, link
<1>9. /\ DOMAIN objects \subseteq Ids
      /\ \A j \in DOMAIN objects : objects[j] \in ObjectsOf(Entries) /\ HasStatus(j, objects[j])
  BY <1>1, ByObject DEF TypeOK
<1> HIDE DEF next, was, mark, link
<1>10. /\ DOMAIN half \subseteq Ids
       /\ half \in [DOMAIN half -> ObjectsOf(Entries)]
       /\ \A j \in DOMAIN half : half[j] \in ObjectsOf(Entries) /\ HasStatus(j, half[j])
  BY <1>3, <1>5, <1>9, PutWellFormed
<1>11. /\ i \in DOMAIN half /\ half[i] = marked
       /\ \A j \in DOMAIN objects : j \in DOMAIN half /\ (j # i => half[j] = objects[j])
  BY DEF Put
<1>12. ASSUME ~aged' PROVE ~aged /\ Current(c) /\ Lineage(half)
  <2>1. ~aged /\ Current(c)
    BY <1>1, <1>12 DEF Ages, TypeOK
  <2> QED BY <1>1, <1>4, <1>5, <2>1, PutLineage DEF was, mark
<1> HIDE DEF half
<1>13. CASE objects' = half /\ UNCHANGED <<issued, copies>>
  <2>1. /\ UNCHANGED <<Ids, Entries, Objects, Records>>
        /\ Objects = ObjectsOf(Entries)
    BY <1>13 DEF Ids, Entries, Objects, Records, ObjectsOf
  <2>2. TypeOK'
    <3>1. WellFormed(objects)'
      BY <1>10, <1>13, <2>1 DEF WellFormed
    <3>2. captured # None => WellFormed(captured.objects)'
      BY <1>1, <2>1 DEF TypeOK, WellFormed
    <3>3. aged' \in BOOLEAN
      BY <1>1 DEF Ages
    <3> QED BY <1>1, <1>13, <2>1, <3>1, <3>2, <3>3 DEF TypeOK
  <2>3. LineagePreserved'
    BY <1>1, <1>12, <1>13 DEF IInv, LineagePreserved, Lineage
  <2>4. Kept
    <3>1. marked.history \in Seq(Entries)
      BY <1>5, ObjectFields
    <3> QED BY <1>1, <1>4, <1>5, <1>11, <1>13, <3>1, PutKept DEF was
  <2> QED BY <1>1, <2>2, <2>3, <2>4 DEF IInv, StoreInv, RestoredIsCaptured
<1>14. CASE /\ objects' = Put(issued + 1, next, half)
            /\ issued' = issued + 1
            /\ copies' = [copies EXCEPT ![c] = [id |-> issued + 1, object |-> next]]
  <2>1. /\ Ids \subseteq Ids' /\ issued + 1 \in Ids'
        /\ Entries \subseteq Entries' /\ Records \subseteq Records'
    BY <1>7, <1>14 DEF Ids, Entries, Records
  <2>2. /\ Objects' = ObjectsOf(Entries') /\ Objects = ObjectsOf(Entries)
        /\ \A o \in ObjectsOf(Entries) : o \in ObjectsOf(Entries')
    BY <2>1, MoreObjects DEF Objects, ObjectsOf
  <2>3. /\ DOMAIN objects' \subseteq Ids'
        /\ objects' \in [DOMAIN objects' -> ObjectsOf(Entries')]
        /\ \A j \in DOMAIN objects' : HasStatus(j, objects'[j])
    <3>1. DOMAIN half \subseteq Ids'
      BY <1>10, <2>1
    <3> QED BY <1>8, <1>10, <1>14, <2>1, <2>2, <3>1, PutWellFormed
  <2>4. TypeOK'
    <3>1. WellFormed(objects)'
      BY <2>2, <2>3 DEF WellFormed
    <3>2. captured # None => WellFormed(captured.objects)' /\ captured.overrides \in Seq(Records')
      <4>1. SUFFICES ASSUME captured # None
                     PROVE  WellFormed(captured.objects)' /\ captured.overrides \in Seq(Records')
        OBVIOUS
      <4>2. WellFormed(captured.objects) /\ captured.overrides \in Seq(Records)
        BY <1>1, <4>1 DEF TypeOK
      <4>3. captured.objects \in [DOMAIN captured.objects -> Objects']
        BY <2>2, <4>2 DEF WellFormed
      <4>4. captured.overrides \in Seq(Records')
        BY <2>1, <4>2, SeqMonotonic
      <4> QED BY <1>1, <2>1, <4>2, <4>3, <4>4 DEF WellFormed
    <3>3. /\ copies' \in [Clients -> [id : Ids', object : Objects'] \cup {None}]
          /\ \A d \in Clients : copies'[d] # None => HasStatus(copies'[d].id, copies'[d].object)
      <4>1. /\ copies'[c] = [id |-> issued + 1, object |-> next]
            /\ \A d \in Clients \ {c} : copies'[d] = copies[d]
            /\ copies' = [d \in Clients |-> copies'[d]]
        BY <1>1, <1>14 DEF TypeOK
      <4>2. copies'[c] \in [id : Ids', object : Objects'] /\ HasStatus(copies'[c].id, copies'[c].object)
        BY <1>8, <2>1, <2>2, <4>1
      <4>3. \A d \in Clients \ {c} :
              /\ copies'[d] \in [id : Ids', object : Objects'] \cup {None}
              /\ copies'[d] # None => HasStatus(copies'[d].id, copies'[d].object)
        BY <1>1, <2>1, <2>2, <4>1 DEF TypeOK
      <4> QED BY <4>1, <4>2, <4>3
    <3>4. aged' \in BOOLEAN /\ overrides' \in Seq(Records')
      BY <1>1, <2>1, SeqMonotonic DEF Ages, TypeOK
    <3> QED BY <1>1, <1>7, <1>14, <3>1, <3>2, <3>3, <3>4 DEF TypeOK
  <2>5. LineagePreserved'
    <3>1. SUFFICES ASSUME ~aged'
                   PROVE  Lineage(objects') /\ (captured # None => Lineage(captured.objects))
      BY <1>1 DEF LineagePreserved, Lineage
    <3>2. ~aged /\ Current(c) /\ Lineage(half)
      BY <1>12, <3>1
    <3>3. /\ \A j \in DOMAIN half : half[j].history \in Seq(Entries)
          /\ issued + 1 \notin DOMAIN half
          /\ \A e \in Entries : e.of # issued + 1
      <4>1. \A j \in DOMAIN half : half[j].history \in Seq(Entries)
        BY <1>10, ObjectFields
      <4>2. \A e \in Entries : e.of \in (1..issued) \cup {None}
        BY DEF Entries
      <4>3. None # issued + 1
        BY <1>7, StoreAssumption
      <4> QED BY <1>7, <1>10, <4>1, <4>2, <4>3
    <3>4. Begins(was.history, Len(was.history), half[i].history)
      BY <1>3, <1>4, <1>5, <1>11, OneMoreEntry DEF Begins
    <3>5. next.history \in Seq(Entries)
      BY <1>8, ObjectFields
    <3>6. Lineage(Put(issued + 1, next, half))
      BY <1>3, <1>6, <1>8, <1>11, <3>2, <3>3, <3>4, <3>5, PutNew
    <3> QED BY <1>14, <3>2, <3>6 DEF IInv, LineagePreserved
  <2>6. Kept
    <3>1. marked.history \in Seq(Entries)
      BY <1>5, ObjectFields
    <3>2. \A j \in DOMAIN half : j \in DOMAIN objects' /\ objects'[j] = half[j]
      BY <1>7, <1>10, <1>14 DEF Put
    <3> QED BY <1>1, <1>4, <1>5, <1>11, <3>1, <3>2, PutKept DEF was
  <2> QED BY <1>1, <2>4, <2>5, <2>6 DEF IInv, StoreInv, RestoredIsCaptured
<1> QED BY <1>2, <1>13, <1>14 DEF half

\* Evidence is put under an id of its own that nothing names.
LEMMA EvidenceStep ==
  ASSUME IInv, PutEvidence
  PROVE  IInv' /\ Kept
<1>1. PICK i \in EvidenceIds \ DOMAIN objects, content \in Contents :
        objects' = Put(i, [kind |-> "evidence", status |-> content, history |-> <<>>], objects)
  BY DEF PutEvidence
<1> DEFINE o == [kind |-> "evidence", status |-> content, history |-> <<>>]
<1>2. /\ TypeOK /\ outcome' = "done" /\ UNCHANGED <<overrides, issued, copies, captured, aged>>
  BY DEF IInv, StoreInv, PutEvidence
<1>3. /\ UNCHANGED <<Ids, Entries, Objects, Records>>
      /\ Objects = ObjectsOf(Entries)
  BY <1>2 DEF Ids, Entries, Objects, Records, ObjectsOf
<1>4. /\ i \in Ids /\ o \in ObjectsOf(Entries) /\ HasStatus(i, o) /\ o.history = <<>>
  BY Kinds DEF Ids, ObjectsOf, HasStatus, Statuses
<1>5. /\ DOMAIN objects \subseteq Ids
      /\ \A j \in DOMAIN objects : /\ objects[j] \in ObjectsOf(Entries) /\ HasStatus(j, objects[j])
                                   /\ objects[j].history \in Seq(Entries)
  BY <1>2, ByObject DEF TypeOK
<1> HIDE DEF o
<1>6. /\ DOMAIN objects' \subseteq Ids
      /\ objects' \in [DOMAIN objects' -> Objects]
      /\ \A j \in DOMAIN objects' : HasStatus(j, objects'[j])
  <2>1. objects' = Put(i, o, objects)
    BY <1>1 DEF o
  <2> QED BY <1>3, <1>4, <1>5, <2>1, PutWellFormed
<1>7. TypeOK'
  <2>1. WellFormed(objects)'
    BY <1>3, <1>6 DEF WellFormed
  <2>2. captured # None => WellFormed(captured.objects)'
    BY <1>2, <1>3 DEF TypeOK, WellFormed
  <2> QED BY <1>2, <1>3, <2>1, <2>2 DEF TypeOK
<1>8. LineagePreserved'
  <2>1. SUFFICES ASSUME ~aged
                 PROVE  Lineage(objects') /\ (captured # None => Lineage(captured.objects))
    BY <1>2 DEF LineagePreserved, Lineage
  <2>2. Lineage(objects) /\ (captured # None => Lineage(captured.objects))
    BY <2>1 DEF IInv, LineagePreserved
  <2>3. \A e \in Entries : e.of # i
    <3>1. \A e \in Entries : e.of \in (1..issued) \cup {None}
      BY DEF Entries
    <3>2. i # None /\ i \notin 1..issued
      BY <1>2, <1>4, IdsGivenOut
    <3> QED BY <3>1, <3>2
  <2>4. Lineage(Put(i, o, objects))
    <3>1. o.history \in Seq(Entries)
      BY <1>4
    <3> QED BY <1>1, <1>4, <1>5, <2>2, <2>3, <3>1, PutNew
  <2> QED BY <1>1, <2>2, <2>4 DEF o
<1>9. \A j \in DOMAIN objects : j \in DOMAIN objects' /\ objects'[j] = objects[j]
  BY <1>1 DEF Put
<1> QED BY <1>2, <1>7, <1>8, <1>9, SameObjectKept DEF IInv, StoreInv, RestoredIsCaptured
\* What every restore does: some objects of the snapshot, and the first overrides.
LEMMA RestoreStep ==
  ASSUME IInv, captured # None,
         NEW ids \in SUBSET DOMAIN captured.objects,
         NEW length \in 0..Len(captured.overrides),
         NEW how \in {"restored", "malformed", "refused"},
         RestoresTo(ids, length, how)
  PROVE  /\ TypeOK' /\ LineagePreserved' /\ outcome' = how
         /\ DOMAIN objects' = ids
         /\ \A i \in ids : AsCaptured(i)'
         /\ Len(overrides') = length /\ Len(captured.overrides) \in Nat
         /\ length = 0 => overrides' = <<>>
         /\ \A n \in DOMAIN overrides' : overrides'[n].target = captured.overrides[n].target
<1>1. TypeOK
  BY DEF IInv, StoreInv
<1>2. /\ WellFormed(captured.objects) /\ captured.overrides \in Seq(Records)
      /\ ids \subseteq DOMAIN captured.objects
  BY <1>1 DEF TypeOK
<1>3. PICK damaged \in SUBSET Sources(ids) :
        /\ objects' = Loaded(ids, damaged)
        /\ overrides' = [n \in 1..length |-> Reloaded(captured.overrides[n])]
        /\ outcome' = how /\ UNCHANGED <<issued, copies, captured, aged>>
  BY DEF RestoresTo
<1>4. DOMAIN objects' = ids /\ objects' = [i \in ids |-> objects'[i]]
  BY <1>3 DEF Loaded
<1>5. ASSUME NEW i \in ids
      PROVE  /\ AsCaptured(i)' /\ objects'[i].history = captured.objects[i].history
             /\ objects'[i] \in Objects /\ HasStatus(i, objects'[i])
  <2> DEFINE o == captured.objects[i]
  <2>1. o \in ObjectsOf(Entries) /\ HasStatus(i, o) /\ o.history \in Seq(Entries)
    BY <1>2, ByObject
  <2>2. Objects = ObjectsOf(Entries)
    BY DEF Objects, ObjectsOf
  <2>3. CASE i \notin damaged
    BY <1>3, <2>1, <2>2, <2>3 DEF Loaded, AsCaptured
  <2>4. CASE i \in damaged
    <3>1. o.kind = "source" /\ objects'[i] = [o EXCEPT !.status = "unknown"]
      BY <1>3, <2>4 DEF Loaded, Sources
    <3>2. o.kind \in DOMAIN Graph /\ "unknown" \in StatusesOf(o.kind)
      BY <3>1 DEF Graph, StatusesOf, Unchecked
    <3>3. objects'[i] = With(o, "unknown", o.history)
      BY <2>1, <3>1 DEF ObjectsOf, With
    <3>4. /\ objects'[i] \in ObjectsOf(Entries) /\ HasStatus(i, objects'[i])
          /\ objects'[i].history = o.history
      BY <2>1, <3>2, <3>3, Restated
    <3> QED BY <1>3, <2>2, <3>1, <3>4 DEF AsCaptured
  <2> QED BY <2>3, <2>4
<1>6. /\ overrides' \in Seq(Records) /\ Len(overrides') = length
      /\ \A n \in 1..length : overrides'[n].target = captured.overrides[n].target
  <2>1. Len(captured.overrides) \in Nat /\ length \in Nat
    BY <1>2
  <2>2. ASSUME NEW n \in 1..length
        PROVE  /\ Reloaded(captured.overrides[n]) \in Records
               /\ Reloaded(captured.overrides[n]).target = captured.overrides[n].target
    <3>1. captured.overrides[n] \in Records
      BY <1>2, <2>1, ElementOfSeq
    <3> QED BY <3>1 DEF Reloaded, Records
  <2> QED BY <1>3, <2>1, <2>2
<1>7. length = 0 => overrides' = <<>>
  BY <1>6, EmptySeq
<1>8. /\ UNCHANGED <<Ids, Entries, Objects, Records>>
      /\ UNCHANGED <<issued, copies, captured, aged>>
  BY <1>3 DEF Ids, Entries, Objects, Records
<1>9. TypeOK'
  <2>1. WellFormed(objects)'
    BY <1>2, <1>4, <1>5, <1>8 DEF WellFormed
  <2>2. WellFormed(captured.objects)'
    BY <1>2, <1>8 DEF WellFormed
  <2> QED BY <1>1, <1>3, <1>6, <1>8, <2>1, <2>2 DEF TypeOK
<1>10. LineagePreserved'
  <2>1. SUFFICES ASSUME ~aged PROVE Lineage(objects') /\ Lineage(captured.objects)
    BY <1>8 DEF LineagePreserved, Lineage
  <2>2. Lineage(captured.objects)
    BY <2>1 DEF IInv, LineagePreserved
  <2> QED BY <1>2, <1>4, <1>5, <2>2, PartOfLineage
<1>11. DOMAIN overrides' = 1..length
  BY <1>3
<1> QED BY <1>2, <1>3, <1>4, <1>5, <1>6, <1>7, <1>9, <1>10, <1>11

\* The sections are numbered.
LEMMA RankIsNumber ==
  ASSUME TypeOK, captured # None, NEW i \in DOMAIN captured.objects
  PROVE  Rank(i) \in 1..6
<1>1. captured.objects[i].kind \in DOMAIN Section
  BY DEF TypeOK, WellFormed, Objects
<1> QED BY <1>1 DEF Rank, Section

\* A restore of part of the snapshot: whole sections, one of them begun, no overrides.
LEMMA PartStep ==
  ASSUME IInv, captured # None, NEW ids \in SUBSET DOMAIN captured.objects,
         \A i \in ids : {j \in DOMAIN captured.objects : Rank(j) < Rank(i)} \subseteq ids,
         NEW how \in {"malformed", "refused"}, RestoresTo(ids, 0, how)
  PROVE  IInv'
<1>1. TypeOK /\ captured.overrides \in Seq(Records) /\ captured' = captured
  BY DEF IInv, StoreInv, TypeOK, RestoresTo
<1>2. 0 \in 0..Len(captured.overrides)
  BY <1>1
<1>3. /\ TypeOK' /\ LineagePreserved' /\ outcome' = how
      /\ DOMAIN objects' = ids
      /\ \A i \in ids : AsCaptured(i)'
      /\ overrides' = <<>>
  BY <1>2, RestoreStep
<1>4. RestoredIsCaptured'
  BY <1>1, <1>3 DEF RestoredIsCaptured, Rank
<1> QED BY <1>3, <1>4 DEF IInv, StoreInv

\* A restore of all objects and of the first overrides.
LEMMA WholeStep ==
  ASSUME IInv, captured # None, NEW length \in 0..Len(captured.overrides),
         NEW how \in {"restored", "malformed"},
         how = "restored" => length = Len(captured.overrides),
         RestoresTo(DOMAIN captured.objects, length, how)
  PROVE  IInv'
<1>1. captured' = captured
  BY DEF RestoresTo
<1>2. /\ TypeOK' /\ LineagePreserved' /\ outcome' = how
      /\ DOMAIN objects' = DOMAIN captured.objects
      /\ \A i \in DOMAIN captured.objects : AsCaptured(i)'
      /\ Len(overrides') = length
      /\ \A n \in DOMAIN overrides' : overrides'[n].target = captured.overrides[n].target
  BY RestoreStep
<1>3. RestoredIsCaptured'
  BY <1>1, <1>2 DEF RestoredIsCaptured, Rank
<1> QED BY <1>2, <1>3 DEF IInv, StoreInv

\* The three ways a restore may end.
LEMMA RestoresStep ==
  ASSUME IInv, Restore \/ RestoreMalformed \/ RestoreRefused
  PROVE  IInv' /\ outcome' # "done"
<1>1. captured # None /\ TypeOK
  BY DEF Restore, RestoreMalformed, RestoreRefused, IInv, StoreInv
<1>2. Len(captured.overrides) \in Nat
  BY <1>1 DEF TypeOK
<1>3. outcome' # "done"
  BY DEF Restore, RestoreMalformed, RestoreRefused, RestoresTo
<1>4. CASE Restore
  BY <1>1, <1>2, <1>3, <1>4, WholeStep DEF Restore
<1>5. CASE RestoreRefused
  BY <1>1, <1>3, <1>5, PartStep DEF RestoreRefused
<1>6. ASSUME NEW bad \in DOMAIN captured.objects,
             NEW alongside \in SUBSET {i \in DOMAIN captured.objects : Rank(i) = Rank(bad) /\ i # bad},
             RestoresTo({i \in DOMAIN captured.objects : Rank(i) < Rank(bad)} \cup alongside,
                        0, "malformed")
      PROVE  IInv'
  <2> DEFINE ids == {i \in DOMAIN captured.objects : Rank(i) < Rank(bad)} \cup alongside
  <2>1. \A i \in DOMAIN captured.objects : Rank(i) \in Nat
    BY <1>1, RankIsNumber
  <2>2. /\ ids \in SUBSET DOMAIN captured.objects
        /\ \A i \in ids : {j \in DOMAIN captured.objects : Rank(j) < Rank(i)} \subseteq ids
    BY <2>1
  <2>3. RestoresTo(ids, 0, "malformed")
    BY <1>6
  <2> HIDE DEF ids
  <2> QED BY <1>1, <2>2, <2>3, PartStep
<1>7. ASSUME NEW length \in 0..(Len(captured.overrides) - 1),
             RestoresTo(DOMAIN captured.objects, length, "malformed")
      PROVE  IInv'
  BY <1>1, <1>2, <1>7, WholeStep
<1> QED BY <1>3, <1>4, <1>5, <1>6, <1>7 DEF RestoreMalformed

-----------------------------------------------------------------------------
(* The theorems. *)

\* At first nothing has a past and nothing was captured.
LEMMA Initially == Init => IInv
<1> SUFFICES ASSUME Init PROVE IInv
  OBVIOUS
<1>1. PICK n \in 0..MaxId : DOMAIN objects \ EvidenceIds = 1..n
  BY StocksAreNew DEF Init
<1>2. /\ objects = [i \in DOMAIN objects |->
                      [kind |-> objects[i].kind, status |-> objects[i].status, history |-> <<>>]]
      /\ \A i \in DOMAIN objects : HasStatus(i, objects[i])
  BY StocksAreNew DEF Init
<1>3. issued = n /\ n \in Nat
  <2>1. n \in Nat
    BY StoreAssumption
  <2>2. Cardinality(1..n) = n
    BY <2>1, FS_Interval
  <2> QED BY <1>1, <2>1, <2>2 DEF Init
<1>4. DOMAIN objects \subseteq Ids
  BY <1>1, <1>3 DEF Ids
<1>5. \A i \in DOMAIN objects : objects[i].history = <<>> /\ objects[i] \in Objects
  <2>1. ASSUME NEW i \in DOMAIN objects
        PROVE  objects[i].history = <<>> /\ objects[i] \in Objects
    <3>1. objects[i] = [kind |-> objects[i].kind, status |-> objects[i].status, history |-> <<>>]
      BY <1>2
    <3>2. objects[i].kind \in DOMAIN Section
      BY <1>2, Kinds DEF HasStatus
    <3>3. objects[i].status \in Statuses
      BY <1>2 DEF HasStatus, Statuses
    <3>4. objects[i].history = <<>> /\ <<>> \in Seq(Entries)
      BY <3>1
    <3>5. \A k, s, h : k \in DOMAIN Section /\ s \in Statuses /\ h \in Seq(Entries) =>
                         [kind |-> k, status |-> s, history |-> h] \in Objects
      BY DEF Objects
    <3> QED BY <3>1, <3>2, <3>3, <3>4, <3>5
  <2> QED BY <2>1
<1>6. WellFormed(objects)
  BY <1>2, <1>4, <1>5 DEF WellFormed
<1>7. TypeOK
  <2>1. copies \in [Clients -> [id : Ids, object : Objects] \cup {None}]
    BY DEF Init
  <2>2. \A c \in Clients : copies[c] = None
    BY DEF Init
  <2>3. overrides \in Seq(Records)
    BY DEF Init
  <2> QED BY <1>3, <1>6, <2>1, <2>2, <2>3 DEF Init, TypeOK
<1>8. Lineage(objects)
  BY <1>5 DEF Lineage
<1> QED BY <1>7, <1>8 DEF Init, IInv, StoreInv, RestoredIsCaptured, LineagePreserved

\* Every step keeps the invariant and, unless it is a restore, the past.
LEMMA EveryStep ==
  ASSUME IInv, [Next]_vars
  PROVE  IInv' /\ [outcome' = "done" => Kept]_vars
<1>1. CASE UNCHANGED vars
  BY <1>1 DEF vars, IInv, StoreInv, LineagePreserved, RestoredIsCaptured, TypeOK, WellFormed,
       Lineage, Ids, Entries, Objects, Records, Rank, AsCaptured
<1>2. CASE \E c \in Clients : Read(c) \/ Move(c) \/ Evolve(c) \/ Supersede(c)
  BY <1>2, ReadStep, MoveStep, EvolveStep, SupersedeStep
<1>3. CASE PutEvidence \/ Override \/ Checkpoint
  BY <1>3, EvidenceStep, OverrideStep, CheckpointStep
<1>4. CASE Restore \/ RestoreMalformed \/ RestoreRefused
  BY <1>4, RestoresStep
<1> QED BY <1>1, <1>2, <1>3, <1>4 DEF Next

\* The inductive invariant holds throughout.
LEMMA IInvHolds == Spec => []IInv
<1>1. IInv /\ [Next]_vars => IInv'
  BY EveryStep
<1> QED BY <1>1, Initially, PTL DEF Spec

\* The store holds what the constructors can make under ids that were given out, and
\* what a restore leaves in it is a first part of the snapshot (in_memory.py:182-189).
THEOREM StoreIsSound == Spec => []StoreInv
<1>1. IInv => StoreInv
  BY DEF IInv
<1> QED BY <1>1, IInvHolds, PTL

\* A successor has, entry for entry, what the thesis it supersedes still says of itself,
\* as long as nobody wrote from an overwritten copy (core/theses/__init__.py:127-173).
THEOREM LineageIsPreserved == Spec => []LineagePreserved
<1>1. IInv => LineagePreserved
  BY DEF IInv
<1> QED BY <1>1, IInvHolds, PTL

\* Between restores no object goes, evidence stays, histories only grow and statuses
\* follow their graph (in_memory.py:78-155, core/lifecycle.py:54-62).
THEOREM NothingIsForgotten == Spec => PastIsKept
<1>1. IInv /\ [Next]_vars => [outcome' = "done" => Kept]_vars
  BY EveryStep
<1> QED BY <1>1, IInvHolds, PTL DEF Spec, PastIsKept, Kept
=============================================================================
