------------------------------- MODULE Gates -------------------------------
(***************************************************************************)
(* The workflow gates as predicates on the context of a cycle, and their   *)
(* evaluation by a stage.  A context is a record of sets: the lists of     *)
(* PipelineContext without their order.                                    *)
(***************************************************************************)
EXTENDS Naturals, Sequences

S1G1(c) == DOMAIN c.sources = {} \/ c.candidates # {} \/ c.degraded # {}

S1G2(c) == \A o \in c.candidates : o.text # "blank"

S1G3(c) == \A o \in c.candidates : o.timely

S2G1(c) == \A e \in c.evidences : e.source # {}

S2G2(c) == \A e \in c.evidences : e.text # "blank"

\* Quality refuses a value outside [0, 1] when it is built.
S2G3(c) == TRUE

\* Its verdict is always pass: what it does is done by MovedOut.
S2G4(c) == TRUE

S3G1(c) == \A s \in c.signals : s.entity \in c.entities

S3G2(c) == \A s \in c.signals : s.grounds # {}

S3G3(c) == \A s \in c.signals : s.claim # "short"

S3G4(c) == \A s \in c.signals : s.claim # "vague"

S4G1(c) == \A r \in c.research : r.question # "blank"

S4G2(c) == \A r \in c.research : r.signals # {}

S4G3(c) == \A r \in c.research : r.entity \in c.entities

\* A gap in the trace is recorded on the research, never refused.
S4G4(c) == TRUE

S5G1(c) == \A t \in c.theses : t.text # "blank"

S5G2(c) == \A t \in c.theses : t.text # "short"

S5G3(c) == \A t \in c.theses : t.entity \in c.entities

S5G4(c) == \A t \in c.theses : t.supports # {}

S6G1(c) == \A t \in c.theses : t.status # "emerging"

\* The loop over the evolution history checks nothing.
S6G2(c) == TRUE

S6G3(c) ==
  \A t \in c.theses :
    \A i, j \in DOMAIN t.stamps : t.stamps[i] = t.stamps[j] => i = j

\* The verdicts of a stage's gates, in the order they are evaluated.
Verdicts(stage, c) ==
  CASE stage = 1 -> <<S1G1(c), S1G2(c), S1G3(c)>>
    [] stage = 2 -> <<S2G1(c), S2G2(c), S2G3(c), S2G4(c)>>
    [] stage = 3 -> <<S3G1(c), S3G2(c), S3G3(c), S3G4(c)>>
    [] stage = 4 -> <<S4G1(c), S4G2(c), S4G3(c), S4G4(c)>>
    [] stage = 5 -> <<S5G1(c), S5G2(c), S5G3(c), S5G4(c)>>
    [] stage = 6 -> <<S6G1(c), S6G2(c), S6G3(c)>>

Failures(stage, c) ==
  LET verdicts == Verdicts(stage, c)
  IN {i \in DOMAIN verdicts : ~verdicts[i]}

\* first_failure: the gate whose path decides how the stage failed.
FirstFailure(stage, c) ==
  CHOOSE i \in Failures(stage, c) : \A j \in Failures(stage, c) : i <= j

Judgement(stage, c, failed) ==
  IF Failures(stage, c) = {} THEN "advance" ELSE failed

S1Status(c) ==
  Judgement(1, c, IF FirstFailure(1, c) = 3 THEN "fail_flag" ELSE "fail_degraded")

S2Status(c) == Judgement(2, c, "fail_reject")

S3Status(c) == Judgement(3, c, "fail_reject")

\* Of S4 and S5 the third gate, on the entity, holds; the others reject.
S4Status(c) ==
  Judgement(4, c, IF FirstFailure(4, c) = 3 THEN "fail_hold" ELSE "fail_reject")

S5Status(c) ==
  Judgement(5, c, IF FirstFailure(5, c) = 3 THEN "fail_hold" ELSE "fail_reject")

S6Status(c) == Judgement(6, c, "fail_pending")

Status(stage, c) ==
  <<S1Status(c), S2Status(c), S3Status(c), S4Status(c), S5Status(c), S6Status(c)>>[stage]

\* Mutant: the evidence is taken out when S3 is through with it.
MovedTooLate(stage, c) ==
  LET lost == {e \in c.evidences : ~e.retrievable}
  IN IF stage = 3
       THEN [c EXCEPT !.evidences = @ \ lost, !.nonRetrievable = @ \cup lost]
       ELSE c

\* S2-G4 takes the evidence that cannot be retrieved out of the context.
MovedOut(stage, c) ==
  LET lost == {e \in c.evidences : ~e.retrievable}
  IN IF stage = 2
       THEN [c EXCEPT !.evidences = @ \ lost, !.nonRetrievable = @ \cup lost]
       ELSE c
=============================================================================
