--------------------------- MODULE KnowledgePass ---------------------------
(***************************************************************************)
(* KnowledgeUpdater.update (research/knowledge.py) over a store that       *)
(* cycles and curators write to between passes.  Synthesis and theme       *)
(* evolution write nothing: what is left of them is that they may raise.   *)
(* The decisions of the promoter are written one by one.                   *)
(***************************************************************************)
EXTENDS Naturals

CONSTANTS
  Signals,       \* ids of the signals that may come to be stored
  Scores,        \* composite scores
  High, Low,     \* high_confidence_threshold and borderline_low
  Faulty,        \* whether theme evolution and writes may raise
  None,
  MaxPasses      \* bound: passes that return

\* PromotionPolicy checks the order of its thresholds.
ASSUME PolicyIsOrdered ==
  /\ Scores \subseteq Nat
  /\ High \in Nat /\ Low \in Nat /\ Low <= High
  /\ MaxPasses \in Nat

VARIABLES
  signals,   \* each stored signal; None while it is not stored
  passes,    \* passes that returned
  pass,      \* the decisions a running pass has still to write, or None
  report,    \* "made" when the last call of update() returned and nobody has written since
  moves      \* history: how often the promoter moved each signal

vars == <<signals, passes, pass, report, moves>>

\* Signals come from cycles, which write them verified, active or held.
Arriving == {"verified", "active", "held"}

Statuses == Arriving \cup {"rejected", "decayed"}

SignalRecords == [status : Statuses, score : Scores]

ASSUME NoneIsNothing ==
  /\ None \notin SignalRecords
  /\ \A todo \in SUBSET Signals : todo # None

Stored == {i \in Signals : signals[i] # None}

-----------------------------------------------------------------------------
(* Promotion: SignalPromoter.evaluate and KnowledgeUpdater._apply_decision. *)

\* Mutant: off by one, a signal just below the borderline is held back no more.
PublishesLow(s) ==
  CASE s.status = "verified" /\ s.score + 1 >= Low -> "active"
    [] s.status = "verified" /\ s.score + 1 < Low  -> "rejected"
    [] s.status = "active" /\ s.score < Low        -> "decayed"
    [] OTHER                                       -> s.status

Decide(s) ==
  CASE s.status = "verified" /\ s.score >= High              -> "active"
    [] s.status = "verified" /\ s.score >= Low /\ s.score < High -> "held"
    [] s.status = "verified" /\ s.score < Low                -> "rejected"
    [] s.status = "active" /\ s.score < Low                  -> "decayed"
    [] OTHER                                                 -> s.status

\* Mutant: verified signals are left to the next pass.
OnlyActive ==
  {i \in Stored : signals[i].status # "verified" /\ Decide(signals[i]) # signals[i].status}

Transitions == {i \in Stored : Decide(signals[i]) # signals[i].status}

-----------------------------------------------------------------------------
Init ==
  /\ signals = [i \in Signals |-> None]
  /\ passes = 0
  /\ pass = None
  /\ report = None
  /\ moves = [i \in Signals |-> 0]

\* A cycle stores a signal.
Arrive(i) ==
  /\ pass = None
  /\ signals[i] = None
  /\ \E status \in Arriving, score \in Scores :
       signals' = [signals EXCEPT ![i] = [status |-> status, score |-> score]]
  /\ report' = None
  /\ UNCHANGED <<passes, pass, moves>>

\* A curator settles a held signal: promote_from_held or reject.
Curate(i) ==
  /\ pass = None
  /\ i \in Stored
  /\ signals[i].status = "held"
  /\ \E status \in {"active", "rejected"} : signals' = [signals EXCEPT ![i].status = status]
  /\ report' = None
  /\ UNCHANGED <<passes, pass, moves>>

\* Steps 1 to 5: everything is read and decided before anything is written.
Begin ==
  /\ pass = None
  /\ passes < MaxPasses
  /\ pass' = Transitions
  /\ report' = None
  /\ UNCHANGED <<signals, passes, moves>>

\* A theme that cannot evolve raises out of update() before anything is written.
BeginFails ==
  /\ Faulty
  /\ pass = None
  /\ passes < MaxPasses
  /\ report' = None
  /\ UNCHANGED <<signals, passes, pass, moves>>

Persist(i) ==
  /\ pass # None
  /\ i \in pass
  /\ signals' = [signals EXCEPT ![i].status = Decide(signals[i])]
  /\ moves' = [moves EXCEPT ![i] = @ + 1]
  /\ pass' = pass \ {i}
  /\ UNCHANGED <<passes, report>>

\* put_signal raises out of update(): no report, and the rest is not written.
PersistFails ==
  /\ Faulty
  /\ pass # None
  /\ pass # {}
  /\ pass' = None
  /\ report' = None
  /\ UNCHANGED <<signals, passes, moves>>

\* Step 7: the accumulator reads the store once more, then the report is made.
Absorb ==
  /\ pass = {}
  /\ report' = "made"
  /\ pass' = None
  /\ passes' = passes + 1
  /\ UNCHANGED <<signals, moves>>

Next ==
  \/ \E i \in Signals : Arrive(i) \/ Curate(i) \/ Persist(i)
  \/ Begin \/ BeginFails \/ PersistFails \/ Absorb

Spec == Init /\ [][Next]_vars

-----------------------------------------------------------------------------
(* Properties                                                              *)

\* Types; the decisions to write are about stored signals (knowledge.py:159-175).
TypeOK ==
  /\ signals \in [Signals -> SignalRecords \cup {None}]
  /\ passes \in 0..MaxPasses
  /\ report \in {None, "made"}
  /\ moves \in [Signals -> Nat]
  /\ pass # None => pass \subseteq Stored

\* A verdict of the promoter is final: whatever passes, failures and curators do, it moves
\* a signal at most once in its life (promotion.py:99-191).  So what it publishes it does
\* not withdraw, and what it held and a curator then published it does not decay.  It does
\* decay a signal below the borderline that was stored held, without a verdict of its own,
\* and published by a curator: that is its first move.
MovedOnce == \A i \in Signals : moves[i] <= 1

\* A pass that returns a report leaves no signal it would still move, also after a pass
\* that failed half-way (knowledge.py:162-179).
PassSettles == report # None => \A i \in Stored : Decide(signals[i]) = signals[i].status
=============================================================================
