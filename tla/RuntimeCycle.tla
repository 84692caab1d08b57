---------------------------- MODULE RuntimeCycle ----------------------------
(***************************************************************************)
(* RuntimeCycle.run on one store: load, six stages (work, then gates), the *)
(* gates once more by the Validator, the writes, the report.  A stage that *)
(* raises is skipped.  Cycles follow one another, never overlap.           *)
(***************************************************************************)
EXTENDS PipelineStages

CONSTANTS
  Entities,
  Store0,     \* the stores a first cycle may find, per set of interfaces
  Cycles      \* bound: how many cycles follow one another, per set

Stages == 1 .. 6

\* A store as cycles leave it: a thesis they have not touched has no stamps.
FirstTheses ==
  [id : {0} \X Entities, entity : Entities, text : {"clear"}, status : ThesisStatuses,
   stamps : {<<>>}, supports : SUBSET ({0} \X Entities)]

\* Signals and research are written by cycles alone; the store keys theses by id; a
\* crystallizer answers with a Thesis, whose status is one of the enumeration.
ASSUME CycleAssumption ==
  \A i \in DOMAIN Interfaces :
    /\ Cycles[i] \in Nat
    /\ Interfaces[i].proposed \subseteq ThesisStatuses
    /\ \A s \in Store0[i] :
         /\ DOMAIN s = {"sources", "entities", "evidence", "signals", "research", "theses"}
         /\ s.signals = {} /\ s.research = {}
         /\ s.theses \subseteq FirstTheses
         /\ \A t, u \in s.theses : t.id = u.id => t = u

VARIABLES
  store,      \* sources, entities, evidence, signals, research, theses
  knowledge,  \* theses the integrator took
  cycle,      \* number of the current or the last cycle
  now,        \* the clock: two cycles may fall into one reading of it
  at,         \* where run() is
  stage,
  ctx,        \* the context, kept until the next cycle for the properties
  outcome,    \* of each stage: its StageStatus, "raised", or None
  counts,     \* emitted by the pipeline and written by the runtime
  report,     \* the CycleReport of the last cycle, or None
  audit       \* workflow events copied to the audit log

vars == <<store, knowledge, cycle, now, at, stage, ctx, outcome, counts, report, audit>>

MaxCycles == Cycles[installed]

Places == {"idle", "work", "gates", "validate", "signals", "research",
           "theses", "evidence", "report"}

NoCounts == [signals |-> 0, research |-> 0, theses |-> 0]

TypeOK ==
  /\ cycle \in 0 .. MaxCycles /\ now \in 0 .. MaxCycles
  /\ at \in Places /\ stage \in Stages
  /\ outcome \in [Stages -> {None, "raised", "advance", "fail_reject", "fail_hold",
                             "fail_pending", "fail_degraded", "fail_flag"}]
  /\ \A s \in store.signals : s.status = "verified" /\ s.cycle \in 1 .. cycle
  /\ \A t, u \in store.theses : t.id = u.id => t = u
  /\ \A t \in store.theses : t.status \in ThesisStatuses

Init ==
  /\ installed \in DOMAIN Interfaces
  /\ store \in Store0[installed]
  /\ knowledge = {} /\ cycle = 0 /\ now = 0
  /\ at = "idle" /\ stage = 1
  /\ ctx = NewContext(store.sources, store.entities)
  /\ outcome = [s \in Stages |-> None]
  /\ counts = [emitted |-> NoCounts, written |-> NoCounts]
  /\ report = None
  /\ audit = {}

Event(kind, s, gate, result) ==
  [kind |-> kind, stage |-> s, gate |-> gate, result |-> result]

Start ==
  /\ at = "idle" /\ cycle < MaxCycles
  /\ cycle' = cycle + 1
  /\ now' \in {now, now + 1}
  /\ at' = "work" /\ stage' = 1
  /\ ctx' = NewContext(store.sources, store.entities)
  /\ outcome' = [s \in Stages |-> None]
  /\ counts' = [emitted |-> NoCounts, written |-> NoCounts]
  /\ report' = None
  /\ UNCHANGED <<store, knowledge, audit>>

\* What the stage may leave: pairs of a context and whether it raised.
Work(s, c) ==
  CASE s = 1 -> Observe(c)
    [] s = 2 -> Produce(c, cycle)
    [] s = 3 -> Extract(c)
    [] s = 4 -> Synthesize(c, cycle)
    [] s = 5 -> Crystallize(c, store.theses, Entities, now)

\* The sizes the PipelineResult reports when the last stage is through.
Sizes(c) ==
  [signals |-> Cardinality(c.signals), research |-> Cardinality(c.research),
   theses |-> Cardinality(c.theses)]

\* Mutant: an exception of a stage ends the pipeline.
AbandonsCycle(c) ==
  IF stage < 6 /\ outcome'[stage] # "raised"
    THEN /\ stage' = stage + 1 /\ at' = "work"
         /\ UNCHANGED <<counts, audit>>
    ELSE /\ at' = "validate" /\ stage' = 1
         /\ counts' = [counts EXCEPT !.emitted = Sizes(c)]
         /\ audit' = audit \cup {[cycle |-> cycle, event |-> e] : e \in c.events}

\* Pipeline.run goes on after a stage, whether it returned or raised; at
\* the end the executor copies the events to the audit log.
NextStage(c) ==
  IF stage < 6
    THEN /\ stage' = stage + 1 /\ at' = "work"
         /\ UNCHANGED <<counts, audit>>
    ELSE /\ at' = "validate" /\ stage' = 1
         /\ counts' = [counts EXCEPT !.emitted = Sizes(c)]
         /\ audit' = audit \cup {[cycle |-> cycle, event |-> e] : e \in c.events}

Begun(c) == [c EXCEPT !.events = @ \cup {Event("stage_start", stage, 0, "ok")}]

Execute ==
  /\ at = "work" /\ stage < 6
  /\ \E left \in Work(stage, ctx) :
       /\ ctx' = Begun(left[1])
       /\ IF left[2]
            THEN /\ outcome' = [outcome EXCEPT ![stage] = "raised"]
                 /\ NextStage(ctx')
            ELSE at' = "gates" /\ UNCHANGED <<stage, outcome, counts, audit>>
  /\ UNCHANGED <<store, knowledge, cycle, now, report>>

Integrate ==
  /\ at = "work" /\ stage = 6
  /\ \E left \in Integrations(ctx) :
       /\ ctx' = Begun(left[1])
       /\ knowledge' = knowledge \cup left[2]
  /\ at' = "gates"
  /\ UNCHANGED <<store, cycle, now, stage, outcome, counts, report, audit>>

\* run_gates: a verdict of each gate is an event; then StageCompleted.
Judged(c) ==
  LET verdicts == Verdicts(stage, c)
  IN [MovedOut(stage, c) EXCEPT !.events =
        @ \cup {Event("gate", stage, i, IF verdicts[i] THEN "pass" ELSE "fail") :
                 i \in DOMAIN verdicts}
          \cup {Event("stage_complete", stage, 0, Status(stage, c))}]

Judge ==
  /\ at = "gates"
  /\ outcome' = [outcome EXCEPT ![stage] = Status(stage, ctx)]
  /\ ctx' = IF stage = 6 /\ Failures(6, ctx) # {}
              THEN AllPending(Judged(ctx))
              ELSE Judged(ctx)
  /\ NextStage(ctx')
  /\ UNCHANGED <<store, knowledge, cycle, now, report>>

\* A pipeline that itself raises: run() of the executor passes it on, the
\* events are not copied, and the cycle goes to its validation.
Abort ==
  /\ at = "work" /\ "pipeline" \in Faults
  /\ outcome' = [outcome EXCEPT ![stage] = "raised"]
  /\ ctx' = [ctx EXCEPT !.events = @ \cup {Event("aborted", stage, 0, "error")}]
  /\ at' = "validate" /\ stage' = 1
  /\ UNCHANGED <<store, knowledge, cycle, now, counts, report, audit>>

Aborted == \E e \in ctx.events : e.kind = "aborted"

\* The gates the Validator finds failing when it runs them all once more.
FailedGates(c) == UNION {{<<s, i>> : i \in Failures(s, c)} : s \in Stages}

Findings(c) == [failed |-> FailedGates(c), error |-> Aborted]

Validate ==
  /\ at = "validate"
  /\ ctx' = MovedOut(2, ctx)
  /\ report' = Findings(ctx)
  /\ at' = IF Aborted THEN "report" ELSE "signals"
  /\ UNCHANGED <<store, knowledge, cycle, now, stage, outcome, counts, audit>>

\* The write of a list: all of it, or the part before the store raised.
Written(items) == IF "store" \in Faults THEN SUBSET items ELSE {items}

\* A store error in put_signal, put_research or put_thesis leaves run().
Continue(place, items, written) ==
  at' = IF written = items THEN place ELSE "idle"

Settled == <<knowledge, cycle, now, stage, ctx, outcome, audit>>

\* Mutant: a verified signal waits for its activation.
ActiveOrHeld(s) == s.status \in {"active", "held"}

Persistable(s) == s.status \in {"verified", "active", "held"}

PersistSignals ==
  /\ at = "signals"
  /\ LET items == {s \in ctx.signals : Persistable(s)}
     IN \E written \in Written(items) :
          /\ store' = [store EXCEPT !.signals = @ \cup written]
          /\ counts' = [counts EXCEPT !.written.signals = Cardinality(written)]
          /\ Continue("research", items, written)
          /\ report' = IF written = items THEN report ELSE None
  /\ UNCHANGED Settled

PersistResearch ==
  /\ at = "research"
  /\ \E written \in Written(ctx.research) :
       /\ store' = [store EXCEPT !.research = @ \cup written]
       /\ counts' = [counts EXCEPT !.written.research = Cardinality(written)]
       /\ Continue("theses", ctx.research, written)
       /\ report' = IF written = ctx.research THEN report ELSE None
  /\ UNCHANGED Settled

\* put_thesis replaces the version stored under the id.
Overwrite(stored, new) == {t \in stored : \A u \in new : u.id # t.id} \cup new

PersistTheses ==
  /\ at = "theses"
  /\ \E written \in Written(ctx.theses) :
       /\ store' = [store EXCEPT !.theses = Overwrite(@, written)]
       /\ counts' = [counts EXCEPT !.written.theses = Cardinality(written)]
       /\ Continue("evidence", ctx.theses, written)
       /\ report' = IF written = ctx.theses THEN report ELSE None
  /\ UNCHANGED Settled

\* An error of put_evidence is swallowed, piece by piece.
PersistEvidence ==
  /\ at = "evidence"
  /\ \E written \in Written(ctx.evidences) :
       store' = [store EXCEPT !.evidence = @ \cup written]
  /\ at' = "report"
  /\ UNCHANGED <<Settled, counts, report>>

Conclude ==
  /\ at = "report"
  /\ at' = "idle"
  /\ report' = [failed |-> report.failed, error |-> report.error,
                emitted |-> counts.emitted, written |-> counts.written]
  /\ UNCHANGED <<store, Settled, counts>>

Run ==
  \/ Execute \/ Integrate \/ Judge \/ Abort \/ Validate
  \/ PersistSignals \/ PersistResearch \/ PersistTheses \/ PersistEvidence
  \/ Conclude

Next == Start \/ Run

Spec == Init /\ [][Next /\ UNCHANGED installed]_<<vars, installed>>
---------------------------------------------------------------------------
(* What the cycle promises.                                                *)

\* The store when run() has returned or raised.
Resting == at = "idle" /\ cycle > 0

Reported == Resting /\ report # None /\ ~report.error

\* A stage that a producer broke with a malformed answer is left before its gates: what
\* cannot be retrieved is not taken out until the Validator runs them (gates.py:231-241).
Mislaid(e) == "producer" \in Nonsense /\ ~e.retrievable

\* Every stored signal can be traced: its evidence, taken in S2, filtered by S2-G4, is
\* written as the last step of the cycle that wrote the signal.  Not so when the store
\* raises errors, not the evidence that S2 mislays, and not an id the extractor made up.
SignalsKeepTheirEvidence ==
  Resting /\ "store" \notin Faults =>
    \A s \in store.signals : \A e \in s.grounds \ {None} :
      e \in store.evidence \/ Mislaid(e)

\* A thesis the cycle writes is past emerging and went through the integrator, in the
\* version that is stored: S6 and the write three steps later agree on the list.  Where
\* no integrator is installed S6 keeps the ripe ones all the same and nobody took them.
ThesesWereIntegrated ==
  \A t \in store.theses :
    \/ t.id[1] = 0 /\ t.stamps = <<>>
    \/ t.status # "emerging" /\ (t \in knowledge \/ "integrator" \in Absent)

\* Types, one version of a thesis in the store, and that version integrated.
CycleInv == TypeOK /\ ThesesWereIntegrated

\* The report counts what the pipeline emitted, the runtime wrote and the
\* store holds of this cycle, and the three are the same.
ReportIsExact ==
  Reported =>
    /\ report.emitted = report.written
    /\ report.written.signals = Cardinality({s \in store.signals : s.cycle = cycle})
    /\ report.written.research = Cardinality({r \in store.research : r.cycle = cycle})
    /\ report.written.theses = Cardinality(ctx.theses \cap store.theses)

\* The audit log has the end of every stage, with its status; of a stage
\* that raised it has the start alone, and that of each later stage too.
AuditCoversEveryStage ==
  Reported =>
    \A s \in Stages :
      LET logged == {a.event : a \in {b \in audit : b.cycle = cycle}}
          ends == {e.result : e \in {x \in logged : x.kind = "stage_complete" /\ x.stage = s}}
      IN /\ Event("stage_start", s, 0, "ok") \in logged
         /\ ends = {outcome[s]} \ {"raised"}
=============================================================================
