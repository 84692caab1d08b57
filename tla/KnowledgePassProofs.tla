------------------------- MODULE KnowledgePassProofs -------------------------
(***************************************************************************)
(* KnowledgePass, for any thresholds in order, any signals and scores.     *)
(***************************************************************************)
EXTENDS KnowledgePass, Integers, TLAPS

Settled(s) == Decide(s) = s.status

\* A signal the promoter has moved is where its rules leave it, and if it was held it
\* scores enough to stay published when a curator publishes it.
JudgedInv ==
  \A i \in Signals :
    \/ moves[i] = 0
    \/ /\ moves[i] = 1
       /\ i \in Stored
       /\ Settled(signals[i])
       /\ signals[i].status = "held" => signals[i].score >= Low

\* What a pass has still to write is what is not settled; it was begun within the bound.
PendingInv == pass # None => pass = Transitions /\ passes < MaxPasses

KnowledgeInv == TypeOK /\ JudgedInv /\ PendingInv /\ PassSettles

Judged(s) == [s EXCEPT !.status = Decide(s)]

\* The bands compose: a decision, once taken, is not revised (promotion.py:99-191).
LEMMA DecisionsStand ==
  ASSUME NEW s \in SignalRecords
  PROVE  /\ Decide(s) \in Statuses
         /\ Judged(s) \in SignalRecords
         /\ Settled(Judged(s))
         /\ ~Settled(s) /\ Decide(s) = "held" => s.score >= Low
         /\ Judged(s).status = Decide(s)
         /\ Judged(s).score = s.score
<1>1. s.score \in Nat /\ Low \in Nat /\ High \in Nat /\ Low <= High
  BY PolicyIsOrdered DEF SignalRecords
<1>2. s.status \in {"verified", "active", "held", "rejected", "decayed"}
  BY DEF SignalRecords, Statuses, Arriving
<1>3. Decide(s) \in Statuses
  BY <1>1, <1>2 DEF Decide, Statuses, Arriving
<1>4. /\ Judged(s) \in SignalRecords
      /\ Judged(s).status = Decide(s)
      /\ Judged(s).score = s.score
  BY <1>3 DEF Judged, SignalRecords
<1>5. CASE s.status = "verified" /\ s.score >= High
  BY <1>1, <1>4, <1>5, <1>3 DEF Decide, Settled
<1>6. CASE s.status = "verified" /\ s.score >= Low /\ s.score < High
  BY <1>1, <1>4, <1>6, <1>3 DEF Decide, Settled
<1>7. CASE s.status = "verified" /\ s.score < Low
  BY <1>1, <1>4, <1>7, <1>3 DEF Decide, Settled
<1>8. CASE s.status = "active" /\ s.score < Low
  BY <1>1, <1>4, <1>8, <1>3 DEF Decide, Settled
<1>9. CASE s.status # "verified" /\ ~(s.status = "active" /\ s.score < Low)
  <2>1. Decide(s) = s.status
    BY <1>9 DEF Decide
  <2>2. Judged(s) = s
    BY <2>1 DEF Judged, SignalRecords
  <2> QED BY <1>3, <1>4, <2>1, <2>2 DEF Settled
<1> QED BY <1>1, <1>2, <1>5, <1>6, <1>7, <1>8, <1>9

LEMMA KnowledgeInit == Init => KnowledgeInv
<1> SUFFICES ASSUME Init PROVE KnowledgeInv
  OBVIOUS
<1>1. TypeOK
  BY PolicyIsOrdered DEF Init, TypeOK
<1>2. JudgedInv /\ PendingInv /\ PassSettles
  BY DEF Init, JudgedInv, PendingInv, PassSettles
<1> QED BY <1>1, <1>2 DEF KnowledgeInv

LEMMA ArriveKeeps ==
  ASSUME KnowledgeInv, NEW i \in Signals, Arrive(i)
  PROVE  KnowledgeInv'
<1>1. PICK s \in SignalRecords : signals' = [signals EXCEPT ![i] = s]
  BY DEF Arrive, SignalRecords, Statuses
<1>2. /\ pass = None /\ pass' = None /\ report' = None /\ signals[i] = None
      /\ UNCHANGED <<passes, moves>>
  BY DEF Arrive
<1>3. TypeOK'
  BY <1>1, <1>2 DEF KnowledgeInv, TypeOK
<1>4. ASSUME NEW j \in Signals, moves[j] # 0 PROVE j # i /\ signals'[j] = signals[j]
  BY <1>1, <1>2, <1>4 DEF KnowledgeInv, TypeOK, JudgedInv, Stored
<1>5. JudgedInv'
  BY <1>2, <1>4 DEF KnowledgeInv, JudgedInv, Stored
<1> QED BY <1>2, <1>3, <1>5 DEF KnowledgeInv, PendingInv, PassSettles

LEMMA CurateKeeps ==
  ASSUME KnowledgeInv, NEW i \in Signals, Curate(i)
  PROVE  KnowledgeInv'
<1>1. PICK status \in {"active", "rejected"} :
         signals' = [signals EXCEPT ![i].status = status]
  BY DEF Curate
<1>2. /\ pass = None /\ pass' = None /\ report' = None
      /\ i \in Stored /\ signals[i].status = "held"
      /\ UNCHANGED <<passes, moves>>
  BY DEF Curate
<1> DEFINE s == [signals[i] EXCEPT !.status = status]
<1>3. signals[i] \in SignalRecords
  BY <1>2 DEF KnowledgeInv, TypeOK, Stored
<1>4. /\ s \in SignalRecords /\ s.status = status
      /\ s.score = signals[i].score
  BY <1>1, <1>3 DEF SignalRecords, Statuses, Arriving
<1>5. signals' = [signals EXCEPT ![i] = s]
  BY <1>1
<1>6. TypeOK'
  BY <1>2, <1>4, <1>5 DEF KnowledgeInv, TypeOK
<1>7. ASSUME moves[i] # 0 PROVE Settled(s) /\ s.status # "held"
  <2>1. signals[i].score >= Low
    BY <1>2, <1>7 DEF KnowledgeInv, JudgedInv
  <2>2. s.score \in Nat /\ Low \in Nat
    BY <1>4, PolicyIsOrdered DEF SignalRecords
  <2> HIDE DEF s
  <2> QED BY <1>4, <2>1, <2>2, PolicyIsOrdered DEF Settled, Decide
<1>8. i \in Stored'
  BY <1>4, <1>5, NoneIsNothing DEF KnowledgeInv, TypeOK, Stored
<1>9. signals'[i] = s /\ \A j \in Signals \ {i} : signals'[j] = signals[j]
  BY <1>5 DEF KnowledgeInv, TypeOK
<1> HIDE DEF s
<1>10. JudgedInv'
  BY <1>2, <1>4, <1>7, <1>8, <1>9 DEF KnowledgeInv, TypeOK, JudgedInv, Stored
<1> QED BY <1>2, <1>6, <1>10 DEF KnowledgeInv, PendingInv, PassSettles

LEMMA BeginKeeps ==
  ASSUME KnowledgeInv, Begin
  PROVE  KnowledgeInv'
<1>1. /\ pass' = Transitions
      /\ report' = None
      /\ passes < MaxPasses
      /\ UNCHANGED <<signals, passes, moves>>
  BY DEF Begin
<1>2. Transitions' = Transitions /\ Transitions \subseteq Stored /\ Stored' = Stored
  BY <1>1 DEF Transitions, Stored
<1>3. TypeOK'
  BY <1>1, <1>2 DEF KnowledgeInv, TypeOK
<1>4. JudgedInv'
  BY <1>1, <1>2 DEF KnowledgeInv, JudgedInv
<1> QED BY <1>1, <1>2, <1>3, <1>4 DEF KnowledgeInv, PendingInv, PassSettles

LEMMA PersistKeeps ==
  ASSUME KnowledgeInv, NEW i \in Signals, Persist(i)
  PROVE  KnowledgeInv'
<1> DEFINE s == Judged(signals[i])
<1>1. /\ pass # None /\ i \in pass
      /\ signals' = [signals EXCEPT ![i].status = Decide(signals[i])]
      /\ moves' = [moves EXCEPT ![i] = @ + 1]
      /\ pass' = pass \ {i}
      /\ UNCHANGED <<passes, report>>
  BY DEF Persist
<1>2. /\ i \in Stored /\ ~Settled(signals[i])
      /\ pass = Transitions /\ passes < MaxPasses
  BY <1>1 DEF KnowledgeInv, PendingInv, Transitions, Settled
<1>3. signals[i] \in SignalRecords
  BY <1>2 DEF KnowledgeInv, TypeOK, Stored
<1>4. /\ s \in SignalRecords
      /\ Settled(s)
      /\ s.status = "held" => s.score >= Low
  BY <1>2, <1>3, DecisionsStand
<1>5. signals' = [signals EXCEPT ![i] = s]
  BY <1>1 DEF Judged
<1> HIDE DEF s
<1>6. signals'[i] = s /\ \A j \in Signals \ {i} : signals'[j] = signals[j]
  BY <1>5 DEF KnowledgeInv, TypeOK
<1>7. Stored' = Stored
  BY <1>2, <1>4, <1>6, NoneIsNothing DEF Stored
<1>8. moves[i] = 0
  BY <1>2 DEF KnowledgeInv, JudgedInv
<1>9. moves'[i] = 1 /\ \A j \in Signals \ {i} : moves'[j] = moves[j]
  BY <1>1, <1>8 DEF KnowledgeInv, TypeOK
<1>10. TypeOK'
  <2>1. signals' \in [Signals -> SignalRecords \cup {None}]
    BY <1>4, <1>5 DEF KnowledgeInv, TypeOK
  <2>2. moves' \in [Signals -> Nat]
    BY <1>1 DEF KnowledgeInv, TypeOK
  <2> QED BY <1>1, <1>7, <2>1, <2>2 DEF KnowledgeInv, TypeOK
<1>11. JudgedInv'
  BY <1>2, <1>4, <1>6, <1>7, <1>9 DEF KnowledgeInv, JudgedInv
<1>12. Transitions' = Transitions \ {i}
  BY <1>4, <1>6, <1>7 DEF Transitions, Settled, Stored
<1>13. PendingInv'
  BY <1>1, <1>2, <1>12 DEF PendingInv
<1>14. PassSettles'
  <2>1. report = None
    BY <1>2 DEF KnowledgeInv, PassSettles, Settled
  <2> QED BY <1>1, <2>1 DEF PassSettles
<1> QED BY <1>10, <1>11, <1>13, <1>14 DEF KnowledgeInv

LEMMA FailureKeeps ==
  ASSUME KnowledgeInv, BeginFails \/ PersistFails
  PROVE  KnowledgeInv'
<1>1. /\ pass' = None /\ report' = None
      /\ UNCHANGED <<signals, passes, moves>>
  BY DEF BeginFails, PersistFails
<1> QED BY <1>1 DEF KnowledgeInv, TypeOK, JudgedInv, PendingInv, PassSettles, Stored

LEMMA AbsorbKeeps ==
  ASSUME KnowledgeInv, Absorb
  PROVE  KnowledgeInv'
<1>1. /\ pass # None /\ pass = {} /\ pass' = None /\ passes' = passes + 1
      /\ passes < MaxPasses
      /\ UNCHANGED <<signals, moves>>
  BY NoneIsNothing DEF Absorb, KnowledgeInv, PendingInv
<1>2. Stored' = Stored
  BY <1>1 DEF Stored
<1>3. PassSettles'
  <2>1. Transitions = {}
    BY <1>1 DEF KnowledgeInv, PendingInv
  <2> QED BY <1>1, <1>2, <2>1 DEF PassSettles, Transitions
<1>4. TypeOK'
  <2>1. passes' \in 0..MaxPasses
    BY <1>1, PolicyIsOrdered DEF KnowledgeInv, TypeOK
  <2>2. report' = "made"
    BY DEF Absorb
  <2> QED BY <1>1, <2>1, <2>2 DEF KnowledgeInv, TypeOK
<1> QED BY <1>1, <1>2, <1>3, <1>4 DEF KnowledgeInv, JudgedInv, PendingInv

LEMMA StutterKeeps ==
  ASSUME KnowledgeInv, UNCHANGED vars
  PROVE  KnowledgeInv'
BY DEF vars, KnowledgeInv, TypeOK, JudgedInv, PendingInv, PassSettles, Transitions, Stored

\* The invariant of a store that passes, cycles and curators write in turn.
THEOREM KnowledgeIsInvariant == Spec => []KnowledgeInv
<1>1. KnowledgeInv /\ [Next]_vars => KnowledgeInv'
  <2> SUFFICES ASSUME KnowledgeInv, [Next]_vars PROVE KnowledgeInv'
    OBVIOUS
  <2>1. ASSUME NEW i \in Signals, Arrive(i) PROVE KnowledgeInv'
    BY <2>1, ArriveKeeps
  <2>2. ASSUME NEW i \in Signals, Curate(i) PROVE KnowledgeInv'
    BY <2>2, CurateKeeps
  <2>3. ASSUME NEW i \in Signals, Persist(i) PROVE KnowledgeInv'
    BY <2>3, PersistKeeps
  <2>4. CASE Begin
    BY <2>4, BeginKeeps
  <2>5. CASE BeginFails \/ PersistFails
    BY <2>5, FailureKeeps
  <2>6. CASE Absorb
    BY <2>6, AbsorbKeeps
  <2>7. CASE UNCHANGED vars
    BY <2>7, StutterKeeps
  <2> QED BY <2>1, <2>2, <2>3, <2>4, <2>5, <2>6, <2>7 DEF Next
<1> QED BY KnowledgeInit, <1>1, PTL DEF Spec

\* Types, for any signals, scores and thresholds in order (knowledge.py:110-202).
THEOREM TypesAreKept == Spec => []TypeOK
BY KnowledgeIsInvariant, PTL DEF KnowledgeInv

\* The promoter moves a signal at most once in its life, whatever passes fail and
\* curators decide, because high_confidence_threshold is at least borderline_low
\* (promotion.py:57-62, 99-191).
THEOREM EachSignalMovesOnce == Spec => []MovedOnce
<1>1. ASSUME KnowledgeInv, NEW i \in Signals PROVE moves[i] <= 1
  <2>1. moves[i] = 0 \/ moves[i] = 1
    BY <1>1 DEF KnowledgeInv, JudgedInv
  <2> QED BY <2>1
<1>2. KnowledgeInv => MovedOnce
  BY <1>1 DEF MovedOnce
<1> QED BY <1>2, KnowledgeIsInvariant, PTL

\* A pass that returns leaves nothing to move, also after failed ones
\* (knowledge.py:162-183).
THEOREM CompletedPassSettles == Spec => []PassSettles
BY KnowledgeIsInvariant, PTL DEF KnowledgeInv
=============================================================================
