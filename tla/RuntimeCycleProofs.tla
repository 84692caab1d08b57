--------------------------- MODULE RuntimeCycleProofs ---------------------------
(***************************************************************************)
(* RuntimeCycle, for any interfaces, any stores a first cycle may find and *)
(* any number of cycles.                                                   *)
(***************************************************************************)
EXTENDS RuntimeCycle, Integers, TLAPS

-----------------------------------------------------------------------------
(* The inductive invariant.                                                  *)

Shaped(c) ==
  {"sources", "entities", "candidates", "flagged", "degraded", "evidences", "rejected",
   "nonRetrievable", "signals", "rejectedDrafts", "research", "theses", "heldTheses",
   "pending", "events"} = DOMAIN c

\* The theses of a cycle are keyed by id, and an id names the cycle that made the thesis.
Keyed(T) == \A t, u \in T : t.id = u.id => t = u

Theses(T, n) ==
  \A t \in T :
    /\ {"id", "entity", "text", "status", "stamps", "supports"} = DOMAIN t
    /\ t.id[1] \in 0 .. n
    /\ t.status \in ThesisStatuses

Piping == at \in {"work", "gates"}

BeforeSignals == {"work", "gates", "validate", "signals"}
BeforeResearch == BeforeSignals \cup {"research"}
BeforeTheses == BeforeResearch \cup {"theses"}

\* Where run() stands, and what a store record has.
PlaceInv ==
  /\ TypeOK
  /\ installed \in DOMAIN Interfaces
  /\ now <= cycle
  /\ cycle = 0 => at = "idle"
  /\ {"sources", "entities", "evidence", "signals", "research", "theses"} = DOMAIN store

\* What is in the context is of this cycle.
CtxInv ==
  /\ Shaped(ctx)
  /\ \A e \in ctx.evidences : e.cycle = cycle
  /\ \A s \in ctx.signals : s.status = "verified" /\ s.cycle = cycle
  /\ \A r \in ctx.research :
       /\ r.cycle = cycle
       /\ \A q \in ctx.research : q.entity = r.entity => q = r
  /\ Keyed(ctx.theses) /\ Theses(ctx.theses, cycle)

\* What a signal cites is among the evidence, mislaid, or made up.
Grounded(s, E) == \A e \in s.grounds \ {None} : e \in E \/ Mislaid(e)

\* Evidence that cannot be retrieved leaves the context before signals are drawn from it,
\* or the producer broke its stage; what a stored signal lacks is about to be written.
GroundInv ==
  /\ (at = "work" /\ stage <= 3) \/ (at = "gates" /\ stage <= 2) => ctx.signals = {}
  /\ \A e \in ctx.evidences :
       e.retrievable \/ "producer" \in Nonsense \/ (at = "gates" /\ stage = 2)
  /\ \A s \in ctx.signals : Grounded(s, ctx.evidences)
  /\ "store" \notin Faults =>
       \A s \in store.signals : \A e \in s.grounds \ {None} :
         \/ e \in store.evidence \/ Mislaid(e)
         \/ at \in {"research", "theses", "evidence"} /\ e \in ctx.evidences

\* The theses S6 leaves were integrated and stay so until they are written; a stored
\* thesis is of an earlier cycle until then.
ThesisInv ==
  /\ (at = "gates" /\ stage = 6) \/ (~Piping /\ ~Aborted) =>
       \A t \in ctx.theses :
         t.status # "emerging" /\ (t \in knowledge \/ "integrator" \in Absent)
  /\ ThesesWereIntegrated
  /\ Keyed(store.theses)
  /\ Theses(store.theses, IF at \in BeforeTheses THEN cycle - 1 ELSE cycle)

\* The report of a cycle that went through, or is about to be made.
Concluded == at = "idle" /\ report # None /\ ~report.error

Concluding == at = "report" /\ ~Aborted

Tally(w) == w = [signals |-> w.signals, research |-> w.research, theses |-> w.theses]

\* What is counted is what is stored of this cycle.
CountInv ==
  /\ {"emitted", "written"} = DOMAIN counts
  /\ Tally(counts.written)
  /\ cycle > 0 /\ ~Piping /\ ~Aborted => counts.emitted = Sizes(ctx)
  /\ at \in BeforeSignals => \A s \in store.signals : s.cycle # cycle
  /\ \A r \in store.research : r.cycle \in 1 .. cycle
  /\ at \in BeforeResearch => \A r \in store.research : r.cycle # cycle
  /\ at \in {"research", "theses", "evidence"} \/ Concluding \/ Concluded =>
       /\ counts.written.signals = Cardinality(ctx.signals)
       /\ {s \in store.signals : s.cycle = cycle} = ctx.signals
  /\ at \in {"theses", "evidence"} \/ Concluding \/ Concluded =>
       /\ counts.written.research = Cardinality(ctx.research)
       /\ {r \in store.research : r.cycle = cycle} = ctx.research
  /\ at = "evidence" \/ Concluding \/ Concluded =>
       /\ counts.written.theses = Cardinality(ctx.theses)
       /\ ctx.theses \subseteq store.theses

\* The report tells an aborted cycle, and has the counts once it is made.
ReportInv ==
  /\ at \in {"signals", "research", "theses", "evidence"} => ~Aborted
  /\ at \in {"signals", "research", "theses", "evidence", "report"} =>
       report.error = Aborted
  /\ cycle = 0 => report = None
  /\ at = "idle" /\ report # None =>
       /\ report.error = Aborted
       /\ report.emitted = counts.emitted /\ report.written = counts.written

\* A stage that is over, of the pipeline or with it.
Over(s) == ~Piping \/ s < stage

Ends(events, s) ==
  {e.result : e \in {x \in events : x.kind = "stage_complete" /\ x.stage = s}}

Logged == {a.event : a \in {b \in audit : b.cycle = cycle}}

\* The log has the events of this cycle when its pipeline is through, and they tell how
\* every stage that is over ended.
AuditInv ==
  /\ Piping => ~Aborted
  /\ \A a \in audit : a.cycle \in 0 .. cycle /\ (Piping => a.cycle # cycle)
  /\ ~Piping /\ ~Aborted => Logged = ctx.events
  /\ cycle > 0 /\ ~Aborted =>
       \A s \in Stages :
         /\ Over(s) \/ (at = "gates" /\ s = stage) =>
              Event("stage_start", s, 0, "ok") \in ctx.events
         /\ Ends(ctx.events, s) = IF Over(s) THEN {outcome[s]} \ {"raised"} ELSE {}

RunInv ==
  PlaceInv /\ CtxInv /\ GroundInv /\ ThesisInv /\ CountInv /\ ReportInv /\ AuditInv

-----------------------------------------------------------------------------
(* What the stages leave of the context they were given.                     *)

\* What a loop has taken is among the items, and all of them if nothing breaks it.
LEMMA TakenItems ==
  ASSUME NEW items, NEW breaking \in SUBSET items, NEW D \in Taken(items, breaking)
  PROVE  D \subseteq items
BY DEF Taken

LEMMA ObserveLeaves ==
  ASSUME NEW c, Shaped(c), NEW left \in Observe(c)
  PROVE  /\ Shaped(left[1]) /\ left[2] \in BOOLEAN
         /\ left[1].evidences = c.evidences /\ left[1].signals = c.signals
         /\ left[1].research = c.research /\ left[1].theses = c.theses
         /\ left[1].events = c.events
<1> DEFINE active == {s \in DOMAIN c.sources : c.sources[s] = "active"}
           Seen(answer, taken) == UNION {Candidates(s, answer[s].items) :
                                           s \in {a \in taken : answer[a] # Raised}}
           Leaves(answer, taken) ==
             [c EXCEPT !.candidates = {o \in Seen(answer, taken) : Plausible(o)},
                       !.flagged = {o \in Seen(answer, taken) : ~Plausible(o)},
                       !.degraded = {s \in taken : answer[s] = Raised}]
           Broken(answer) == {s \in active : answer[s] # Raised /\ answer[s].broken}
<1>1. CASE "observer" \in Absent
  <2>1. left = <<c, FALSE>>
    BY <1>1 DEF Observe, Done
  <2> QED BY <2>1
<1>2. CASE "observer" \notin Absent
  <2>1. PICK answer \in [active -> Lists(Feeds, "observer")] :
          left \in {<<Leaves(answer, taken), Broken(answer) # {}>> :
                      taken \in Taken(active, Broken(answer))}
    BY <1>2 DEF Observe
  <2>2. PICK taken \in Taken(active, Broken(answer)) :
          left = <<Leaves(answer, taken), Broken(answer) # {}>>
    BY <2>1
  <2> QED BY <2>2 DEF Shaped
<1> QED BY <1>1, <1>2

\* S2: evidence of this cycle, and a break only if a producer may answer nonsense.
LEMMA ProduceLeaves ==
  ASSUME NEW c, Shaped(c), NEW n, \A e \in c.evidences : e.cycle = n,
         NEW left \in Produce(c, n)
  PROVE  /\ Shaped(left[1]) /\ (left[2] => "producer" \in Nonsense)
         /\ left[2] \in BOOLEAN
         /\ \A e \in left[1].evidences : e.cycle = n
         /\ left[1].signals = c.signals
         /\ left[1].research = c.research /\ left[1].theses = c.theses
         /\ left[1].events = c.events
<1> DEFINE known == {o \in c.candidates : o.source \in DOMAIN c.sources}
           Answers(o) == EvidenceOf(o, n) \cup Raises("producer") \cup Malforms("producer")
           Broken(answer) == {o \in known : answer[o] \in Malforms("producer")}
           Made(answer, taken) ==
             {answer[o] : o \in taken \cap known} \ {Raised, Malformed}
           Leaves(answer, taken) ==
             [c EXCEPT !.candidates = @ \ taken,
                       !.evidences = {e \in Made(answer, taken) : e.text # "blank"},
                       !.rejected = {e \in Made(answer, taken) : e.text = "blank"}]
<1>1. CASE "producer" \in Absent
  <2>1. left = <<c, FALSE>>
    BY <1>1 DEF Produce, Done
  <2> QED BY <2>1
<1>2. CASE "producer" \notin Absent
  <2>1. PICK answer \in {f \in [known -> UNION {Answers(o) : o \in known}] :
                            \A o \in known : f[o] \in Answers(o)} :
          left \in {<<Leaves(answer, taken), Broken(answer) # {}>> :
                      taken \in Taken(c.candidates, Broken(answer))}
    BY <1>2 DEF Produce
  <2>2. PICK taken \in Taken(c.candidates, Broken(answer)) :
          left = <<Leaves(answer, taken), Broken(answer) # {}>>
    BY <2>1
  <2>3. left[1] = Leaves(answer, taken) /\ left[2] = (Broken(answer) # {})
    BY <2>2
  <2>4. Broken(answer) # {} => "producer" \in Nonsense
    BY DEF Malforms
  <2>5. ASSUME NEW e \in Made(answer, taken) PROVE e.cycle = n
    <3>1. PICK o \in known : e = answer[o] /\ e # Raised /\ e # Malformed
      BY <2>5
    <3>2. e \in EvidenceOf(o, n)
      BY <2>1, <3>1 DEF Raises, Malforms
    <3> QED BY <3>2 DEF EvidenceOf
  <2>6. /\ Leaves(answer, taken).evidences = {e \in Made(answer, taken) : e.text # "blank"}
        /\ Shaped(Leaves(answer, taken))
        /\ Leaves(answer, taken).signals = c.signals
        /\ Leaves(answer, taken).research = c.research
        /\ Leaves(answer, taken).theses = c.theses
        /\ Leaves(answer, taken).events = c.events
    BY DEF Shaped
  <2> QED BY <2>3, <2>4, <2>5, <2>6
<1> QED BY <1>1, <1>2

\* S3: signals are verified and cite evidence of their cycle, or what is made up.
LEMMA ExtractLeaves ==
  ASSUME NEW c, Shaped(c), NEW left \in Extract(c),
         c.signals = {}
  PROVE  /\ Shaped(left[1]) /\ left[2] \in BOOLEAN
         /\ \A s \in left[1].signals :
              /\ s.status = "verified" /\ s.grounds \subseteq c.evidences \cup {None}
              /\ \E e \in c.evidences : s.cycle = e.cycle
         /\ left[1].evidences = c.evidences
         /\ left[1].research = c.research /\ left[1].theses = c.theses
         /\ left[1].events = c.events
<1> DEFINE Answers == [entity : Resolved \cup Raises("resolver"),
                       drafts : Lists(DraftSets, "extractor")]
           Asked(a) == a.entity \notin {None, Raised} /\ a.drafts # Raised
           Asking(answer, taken) == {e \in taken : Asked(answer[e])}
           Of(answer, e, fit) ==
             {SignalOf(d, e, answer[e].entity, c) :
                d \in {x \in answer[e].drafts.items : Verifiable(x) = fit}}
           Leaves(answer, taken) ==
             [c EXCEPT
                !.signals = UNION {Of(answer, e, TRUE) : e \in Asking(answer, taken)},
                !.rejectedDrafts =
                   UNION {Of(answer, e, FALSE) : e \in Asking(answer, taken)}]
           Broken(answer) ==
             {e \in c.evidences : \/ answer[e].entity = Raised
                                  \/ Asked(answer[e]) /\ answer[e].drafts.broken}
           Idle == "extractor" \in Absent \/ Inferred(c) = None
<1>1. CASE Idle
  <2>1. left = <<[c EXCEPT !.rejectedDrafts =
                     IF "extractor" \in Absent THEN @ ELSE c.evidences], FALSE>>
    BY <1>1 DEF Extract, Done
  <2> QED BY <2>1 DEF Shaped
<1>2. CASE ~Idle
  <2>1. PICK answer \in [c.evidences -> Answers] :
          left \in {<<Leaves(answer, taken), Broken(answer) # {}>> :
                      taken \in Taken(c.evidences, Broken(answer))}
    BY <1>2 DEF Extract
  <2>2. PICK taken \in Taken(c.evidences, Broken(answer)) :
          left = <<Leaves(answer, taken), Broken(answer) # {}>>
    BY <2>1
  <2>3. taken \subseteq c.evidences
    BY TakenItems
  <2>4. ASSUME NEW s \in UNION {Of(answer, e, TRUE) : e \in Asking(answer, taken)}
        PROVE  /\ s.status = "verified" /\ s.grounds \subseteq c.evidences \cup {None}
               /\ \E e \in c.evidences : s.cycle = e.cycle
    <3>1. PICK e \in taken : s \in Of(answer, e, TRUE)
      BY <2>4
    <3>2. PICK d \in answer[e].drafts.items :
            Verifiable(d) /\ s = SignalOf(d, e, answer[e].entity, c)
      BY <3>1 DEF Verifiable
    <3>3. e \in c.evidences
      BY <2>3
    <3>4. Grounds(d, e, c) \subseteq c.evidences \cup {None}
      BY <3>3 DEF Grounds
    <3> QED BY <3>2, <3>3, <3>4 DEF SignalOf
  <2>5. /\ Leaves(answer, taken).signals
             = UNION {Of(answer, e, TRUE) : e \in Asking(answer, taken)}
        /\ Shaped(Leaves(answer, taken))
        /\ Leaves(answer, taken).evidences = c.evidences
        /\ Leaves(answer, taken).research = c.research
        /\ Leaves(answer, taken).theses = c.theses
        /\ Leaves(answer, taken).events = c.events
    BY DEF Shaped
  <2> QED BY <2>2, <2>4, <2>5
<1> QED BY <1>1, <1>2

\* S4: one research of this cycle for each entity.
LEMMA SynthesizeLeaves ==
  ASSUME NEW c, Shaped(c), NEW n,
         \A r \in c.research :
           /\ r.cycle = n
           /\ \A q \in c.research : q.entity = r.entity => q = r,
         NEW left \in Synthesize(c, n)
  PROVE  /\ Shaped(left[1]) /\ left[2] \in BOOLEAN
         /\ \A r \in left[1].research :
              /\ r.cycle = n
              /\ \A q \in left[1].research : q.entity = r.entity => q = r
         /\ left[1].evidences = c.evidences /\ left[1].signals = c.signals
         /\ left[1].theses = c.theses
         /\ left[1].events = c.events
<1> DEFINE entities == {s.entity : s \in c.signals} \cap c.entities
           About(x) == {s \in c.signals : s.entity = x}
           Research(answer, x) ==
             [entity |-> x, question |-> answer[x], signals |-> About(x), cycle |-> n]
           All(answer, taken) ==
             {Research(answer, x) : x \in {y \in taken : answer[y] \notin {Raised, Malformed}}}
           Leaves(answer, taken) == [c EXCEPT !.research = All(answer, taken)]
           Broken(answer) == {x \in entities : answer[x] = Malformed}
<1>1. CASE "synthesizer" \in Absent
  <2>1. left = <<c, FALSE>>
    BY <1>1 DEF Synthesize, Done
  <2> QED BY <2>1
<1>2. CASE "synthesizer" \notin Absent
  <2>1. PICK answer \in [entities -> Questions \cup Raises("synthesizer")
                                       \cup Malforms("synthesizer")] :
          left \in {<<Leaves(answer, taken), Broken(answer) # {}>> :
                      taken \in Taken(entities, Broken(answer))}
    BY <1>2 DEF Synthesize
  <2>2. PICK taken \in Taken(entities, Broken(answer)) :
          left = <<Leaves(answer, taken), Broken(answer) # {}>>
    BY <2>1
  <2>3. /\ Leaves(answer, taken).research = All(answer, taken)
        /\ Shaped(Leaves(answer, taken))
        /\ Leaves(answer, taken).evidences = c.evidences
        /\ Leaves(answer, taken).signals = c.signals
        /\ Leaves(answer, taken).theses = c.theses
        /\ Leaves(answer, taken).events = c.events
    BY DEF Shaped
  <2>4. ASSUME NEW r \in All(answer, taken)
        PROVE  r.cycle = n /\ r = Research(answer, r.entity)
    OBVIOUS
  <2>5. left[1] = Leaves(answer, taken) /\ left[2] \in BOOLEAN
    BY <2>2
  <2> HIDE DEF Leaves, Broken
  <2>6. ASSUME NEW r \in left[1].research
        PROVE  /\ r.cycle = n
               /\ \A q \in left[1].research : q.entity = r.entity => q = r
    <3>1. left[1].research = All(answer, taken)
      BY <2>3, <2>5
    <3> HIDE DEF All, Research
    <3>2. \A q \in left[1].research : q.cycle = n /\ q = Research(answer, q.entity)
      BY <2>4, <3>1
    <3>3. ASSUME NEW q \in left[1].research, q.entity = r.entity PROVE q = r
      BY <2>6, <3>2, <3>3
    <3> QED BY <2>6, <3>2, <3>3
  <2> QED BY <2>3, <2>5, <2>6
<1> QED BY <1>1, <1>2

\* S5: the research of a cycle makes theses of distinct ids, as it has distinct entities
\* and a stored thesis is of an earlier cycle.
LEMMA CrystallizeLeaves ==
  ASSUME NEW c, Shaped(c), NEW stored, NEW registry, NEW t0, NEW n \in Nat \ {0},
         Keyed(stored), Theses(stored, n - 1), Proposed \subseteq ThesisStatuses,
         \A r \in c.research :
           /\ r.cycle = n
           /\ \A q \in c.research : q.entity = r.entity => q = r,
         NEW left \in Crystallize(c, stored, registry, t0)
  PROVE  /\ Shaped(left[1]) /\ left[2] \in BOOLEAN
         /\ Keyed(left[1].theses) /\ Theses(left[1].theses, n)
         /\ left[1].evidences = c.evidences /\ left[1].signals = c.signals
         /\ left[1].research = c.research
         /\ left[1].events = c.events
<1> DEFINE Existing(r) == {t \in stored : t.entity = r.entity}
           Provided(r) ==
             IF "provider" \in Absent
               THEN {None}
               ELSE (IF Existing(r) = {} THEN {None} ELSE Existing(r))
                      \cup Raises("provider") \cup Malforms("provider")
           Proposal(r) ==
             IF "crystallizer" \in Absent
               THEN {None}
               ELSE Proposals(r, registry) \cup Raises("crystallizer")
                      \cup Malforms("crystallizer")
           Answers(r) == [existing : Provided(r), proposal : Proposal(r)]
           Breaks(a) == a.existing = Raised \/ a.proposal = Malformed
           Clear(a) == a.existing # Raised /\ a.proposal \notin {None, Raised, Malformed}
                         /\ a.proposal.text = "clear"
           Made(r, a) == IF a.existing \in {None, Malformed}
                           THEN ThesisOf(r, a.proposal)
                           ELSE Evolved(a.existing, a.proposal.text, t0)
           AllClear(answer, taken) == {r \in taken : Clear(answer[r])}
           Held(answer, taken) ==
             {r \in AllClear(answer, taken) : answer[r].proposal.entity \notin c.entities}
           All(answer, taken) ==
             {Made(r, answer[r]) : r \in AllClear(answer, taken) \ Held(answer, taken)}
           Leaves(answer, taken) ==
             [c EXCEPT !.theses = All(answer, taken),
                       !.heldTheses =
                          {ThesisOf(r, answer[r].proposal) : r \in Held(answer, taken)}]
           Broken(answer) == {r \in c.research : Breaks(answer[r])}
<1>1. PICK answer \in {f \in [c.research -> UNION {Answers(r) : r \in c.research}] :
                          \A r \in c.research : f[r] \in Answers(r)} :
        left \in {<<Leaves(answer, taken), Broken(answer) # {}>> :
                    taken \in Taken(c.research, Broken(answer))}
  BY DEF Crystallize
<1>2. PICK taken \in Taken(c.research, Broken(answer)) :
        left = <<Leaves(answer, taken), Broken(answer) # {}>>
  BY <1>1
<1>3. taken \subseteq c.research
  BY TakenItems
<1> DEFINE made == All(answer, taken)
<1>4. ASSUME NEW t \in made
      PROVE  \E r \in c.research :
               t = Made(r, answer[r]) /\ Clear(answer[r]) /\ answer[r] \in Answers(r)
  BY <1>1, <1>3
<1>5. ASSUME NEW r \in c.research, NEW a \in Answers(r), Clear(a)
      PROVE  LET t == Made(r, a)
             IN /\ {"id", "entity", "text", "status", "stamps", "supports"} = DOMAIN t
                /\ t.status \in ThesisStatuses
                /\ \/ t.id = <<n, r.entity>>
                   \/ \E u \in stored : u.entity = r.entity /\ t.id = u.id
  <2>1. a.proposal \in Proposals(r, registry)
    BY <1>5 DEF Raises, Malforms
  <2>2. a.proposal.status \in ThesisStatuses
    BY <2>1 DEF Proposals
  <2>3. CASE a.existing \in {None, Malformed}
    BY <1>5, <2>2, <2>3 DEF ThesisOf
  <2>4. CASE a.existing \notin {None, Malformed}
    <3> DEFINE u == a.existing
    <3>1. u \in stored /\ u.entity = r.entity
      BY <1>5, <2>4 DEF Raises, Malforms
    <3>2. /\ {"id", "entity", "text", "status", "stamps", "supports"} = DOMAIN u
          /\ u.status \in ThesisStatuses
      BY <3>1 DEF Theses
    <3>3. Made(r, a) = Evolved(u, a.proposal.text, t0)
      BY <2>4
    <3> HIDE DEF u
    <3>4. \A text : LET t == Evolved(u, text, t0)
                    IN /\ DOMAIN t = DOMAIN u /\ t.id = u.id
                       /\ t.status \in {u.status, "evolving"}
      BY <3>2 DEF Evolved
    <3>5. "evolving" \in ThesisStatuses
      BY DEF ThesisStatuses
    <3> QED BY <3>1, <3>2, <3>3, <3>4, <3>5
  <2> QED BY <2>3, <2>4
<1>6. \A t \in made :
        \E r \in c.research :
          /\ t = Made(r, answer[r])
          /\ {"id", "entity", "text", "status", "stamps", "supports"} = DOMAIN t
          /\ t.status \in ThesisStatuses
          /\ \/ t.id = <<n, r.entity>>
             \/ \E u \in stored : u.entity = r.entity /\ t.id = u.id
  <2> HIDE DEF Made, Answers, Clear, made
  <2> QED BY <1>4, <1>5
<1> HIDE DEF made, Made
<1>7. ASSUME NEW t \in made, NEW u \in made, t.id = u.id PROVE t = u
  <2>1. PICK r \in c.research :
          /\ t = Made(r, answer[r])
          /\ \/ t.id = <<n, r.entity>>
             \/ \E v \in stored : v.entity = r.entity /\ t.id = v.id
    BY <1>6
  <2>2. PICK q \in c.research :
          /\ u = Made(q, answer[q])
          /\ \/ u.id = <<n, q.entity>>
             \/ \E v \in stored : v.entity = q.entity /\ u.id = v.id
    BY <1>6
  <2>3. \A v \in stored : v.id[1] # n
    BY DEF Theses
  <2>4. r.entity = q.entity
    <3>1. CASE t.id = <<n, r.entity>>
      BY <1>7, <2>2, <2>3, <3>1
    <3>2. CASE t.id # <<n, r.entity>>
      <4>1. PICK v \in stored : v.entity = r.entity /\ t.id = v.id
        BY <2>1, <3>2
      <4>2. PICK w \in stored : w.entity = q.entity /\ u.id = w.id
        BY <1>7, <2>2, <2>3, <4>1
      <4> QED BY <1>7, <4>1, <4>2 DEF Keyed
    <3> QED BY <3>1, <3>2
  <2> QED BY <2>1, <2>2, <2>4
<1>8. ASSUME NEW t \in made
      PROVE  /\ {"id", "entity", "text", "status", "stamps", "supports"} = DOMAIN t
             /\ t.id[1] \in 0 .. n
             /\ t.status \in ThesisStatuses
  <2>1. PICK r \in c.research :
          /\ {"id", "entity", "text", "status", "stamps", "supports"} = DOMAIN t
          /\ t.status \in ThesisStatuses
          /\ \/ t.id = <<n, r.entity>>
             \/ \E v \in stored : v.entity = r.entity /\ t.id = v.id
    BY <1>6
  <2>2. \A v \in stored : v.id[1] \in 0 .. n
    BY DEF Theses
  <2> QED BY <2>1, <2>2
<1>9. LET d == Leaves(answer, taken)
      IN /\ d.theses = made /\ Shaped(d)
         /\ d.evidences = c.evidences
         /\ d.signals = c.signals
         /\ d.research = c.research
         /\ d.events = c.events
  BY DEF Shaped, made
<1>10. Keyed(made) /\ Theses(made, n)
  BY <1>7, <1>8 DEF Keyed, Theses
<1> HIDE DEF Leaves, Broken
<1> QED BY <1>2, <1>9, <1>10

\* S6: no thesis that stays is emerging, and all were integrated if anyone can do it.
LEMMA IntegrationLeaves ==
  ASSUME NEW c, Shaped(c), NEW left \in Integrations(c)
  PROVE  /\ Shaped(left[1]) /\ left[1].theses \subseteq c.theses
         /\ \A t \in left[1].theses :
              t.status # "emerging" /\ (t \in left[2] \/ "integrator" \in Absent)
         /\ left[1].evidences = c.evidences /\ left[1].signals = c.signals
         /\ left[1].research = c.research
         /\ left[1].events = c.events
<1> DEFINE Accepted == IF "integrator" \in Faults THEN SUBSET Ripe(c) ELSE {Ripe(c)}
           Leaves(taken) == [c EXCEPT !.theses = taken, !.pending = c.theses \ taken]
<1>1. PICK taken \in SUBSET Ripe(c) :
        left[1] = Leaves(taken) /\ (left[2] = taken \/ "integrator" \in Absent)
  <2>1. CASE "integrator" \in Absent
    <3>1. left = <<Leaves(Ripe(c)), {}>>
      BY <2>1 DEF Integrations
    <3> QED BY <2>1, <3>1
  <2>2. CASE "integrator" \notin Absent
    <3>1. PICK taken \in Accepted : left = <<Leaves(taken), taken>>
      BY <2>2 DEF Integrations
    <3> QED BY <3>1
  <2> QED BY <2>1, <2>2
<1>2. /\ Shaped(Leaves(taken)) /\ Leaves(taken).theses = taken
      /\ Leaves(taken).evidences = c.evidences /\ Leaves(taken).signals = c.signals
      /\ Leaves(taken).research = c.research /\ Leaves(taken).events = c.events
  BY DEF Shaped
<1> HIDE DEF Leaves
<1> QED BY <1>1, <1>2 DEF Ripe

LEMMA NewContextLeaves ==
  ASSUME NEW S, NEW E
  PROVE  LET c == NewContext(S, E)
         IN /\ Shaped(c)
            /\ c.evidences = {} /\ c.signals = {} /\ c.research = {} /\ c.theses = {}
            /\ c.events = {}
BY DEF NewContext, Shaped

\* S2-G4 alone touches the context, and only the evidence.
LEMMA MovedOutLeaves ==
  ASSUME NEW c, Shaped(c), NEW s
  PROVE  LET d == MovedOut(s, c)
         IN /\ Shaped(d)
            /\ d.evidences = IF s = 2 THEN {e \in c.evidences : e.retrievable}
                             ELSE c.evidences
            /\ d.signals = c.signals /\ d.research = c.research
            /\ d.theses = c.theses /\ d.events = c.events
BY DEF MovedOut, Shaped

Results == {"advance", "fail_reject", "fail_hold", "fail_pending", "fail_degraded",
            "fail_flag"}

LEMMA StatusRange ==
  ASSUME NEW s \in Stages, NEW c
  PROVE  Status(s, c) \in Results
<1>1. S1Status(c) \in Results
  BY DEF S1Status, Judgement, Results
<1>2. S2Status(c) \in Results /\ S3Status(c) \in Results
  BY DEF S2Status, S3Status, Judgement, Results
<1>3. S4Status(c) \in Results
  BY DEF S4Status, Judgement, Results
<1>4. S5Status(c) \in Results
  BY DEF S5Status, Judgement, Results
<1>5. S6Status(c) \in Results
  BY DEF S6Status, Judgement, Results
<1> QED BY <1>1, <1>2, <1>3, <1>4, <1>5 DEF Status, Stages

-----------------------------------------------------------------------------
(* What Execute and Judge do to a state of the invariant.                    *)

LEMMA ExecuteEffect ==
  ASSUME RunInv, Execute
  PROVE  /\ at = "work" /\ stage \in 1 .. 5 /\ Shaped(ctx')
         /\ ctx'.events = ctx.events \cup {Event("stage_start", stage, 0, "ok")}
         /\ UNCHANGED <<store, knowledge, cycle, now, report, counts, audit>>
         /\ \/ at' = "gates" /\ UNCHANGED <<stage, outcome>>
            \/ /\ at' = "work" /\ stage' = stage + 1
               /\ outcome' = [outcome EXCEPT ![stage] = "raised"]
               /\ stage = 2 => "producer" \in Nonsense
         /\ \A e \in ctx'.evidences : e.cycle = cycle
         /\ stage # 2 => ctx'.evidences = ctx.evidences
         /\ stage <= 2 => ctx'.signals = {}
         /\ \A s \in ctx'.signals :
              /\ s.status = "verified" /\ s.cycle = cycle
              /\ Grounded(s, ctx'.evidences)
         /\ \A r \in ctx'.research :
              /\ r.cycle = cycle
              /\ \A q \in ctx'.research : q.entity = r.entity => q = r
         /\ Keyed(ctx'.theses) /\ Theses(ctx'.theses, cycle)
<1>1. /\ Shaped(ctx) /\ at = "work" /\ stage \in 1 .. 5 /\ cycle \in Nat \ {0}
      /\ UNCHANGED <<store, knowledge, cycle, now, report>>
  BY CycleAssumption DEF RunInv, PlaceInv, CtxInv, TypeOK, Execute, Stages, MaxCycles
<1>2. PICK left \in Work(stage, ctx) :
        /\ ctx' = Begun(left[1])
        /\ IF left[2]
             THEN /\ outcome' = [outcome EXCEPT ![stage] = "raised"]
                  /\ NextStage(ctx')
             ELSE at' = "gates" /\ UNCHANGED <<stage, outcome, counts, audit>>
  BY DEF Execute
<1> DEFINE c == left[1]
<1>3. /\ \A e \in ctx.evidences : e.cycle = cycle
      /\ \A s \in ctx.signals :
           /\ s.status = "verified" /\ s.cycle = cycle
           /\ Grounded(s, ctx.evidences)
      /\ \A r \in ctx.research :
           /\ r.cycle = cycle
           /\ \A q \in ctx.research : q.entity = r.entity => q = r
      /\ Keyed(ctx.theses) /\ Theses(ctx.theses, cycle)
      /\ stage <= 3 => ctx.signals = {}
      /\ Keyed(store.theses) /\ Theses(store.theses, cycle - 1)
      /\ Proposed \subseteq ThesisStatuses
  BY <1>1, CycleAssumption
  DEF RunInv, PlaceInv, CtxInv, GroundInv, ThesisInv, Proposed, BeforeTheses,
      BeforeResearch, BeforeSignals
<1>4. /\ Shaped(c) /\ c.events = ctx.events
      /\ stage = 2 /\ left[2] => "producer" \in Nonsense
      /\ \A e \in c.evidences : e.cycle = cycle
      /\ stage # 2 => c.evidences = ctx.evidences
      /\ stage <= 2 => c.signals = {}
      /\ \A s \in c.signals :
           /\ s.status = "verified" /\ s.cycle = cycle
           /\ Grounded(s, c.evidences)
      /\ \A r \in c.research :
           /\ r.cycle = cycle
           /\ \A q \in c.research : q.entity = r.entity => q = r
      /\ Keyed(c.theses) /\ Theses(c.theses, cycle)
  <2>1. CASE stage = 1
    <3>1. left \in Observe(ctx)
      BY <2>1 DEF Work
    <3> HIDE DEF c
    <3>2. /\ Shaped(c)
          /\ c.evidences = ctx.evidences /\ c.signals = ctx.signals
          /\ c.research = ctx.research /\ c.theses = ctx.theses
          /\ c.events = ctx.events
      BY <1>1, <3>1, ObserveLeaves DEF c
    <3> QED BY <1>3, <2>1, <3>2
  <2>2. CASE stage = 2
    <3>1. left \in Produce(ctx, cycle)
      BY <2>2 DEF Work
    <3> HIDE DEF c
    <3>2. /\ Shaped(c) /\ (left[2] => "producer" \in Nonsense)
          /\ \A e \in c.evidences : e.cycle = cycle
          /\ c.signals = ctx.signals
          /\ c.research = ctx.research /\ c.theses = ctx.theses
          /\ c.events = ctx.events
      BY <1>1, <1>3, <3>1, ProduceLeaves DEF c
    <3> QED BY <1>3, <2>2, <3>2
  <2>3. CASE stage = 3
    <3>1. left \in Extract(ctx)
      BY <2>3 DEF Work
    <3> HIDE DEF c
    <3>2. /\ Shaped(c)
          /\ \A s \in c.signals :
               /\ s.status = "verified" /\ s.grounds \subseteq ctx.evidences \cup {None}
               /\ \E e \in ctx.evidences : s.cycle = e.cycle
          /\ c.evidences = ctx.evidences
          /\ c.research = ctx.research /\ c.theses = ctx.theses
          /\ c.events = ctx.events
      BY <1>1, <1>3, <2>3, <3>1, ExtractLeaves DEF c
    <3> QED BY <1>3, <2>3, <3>2 DEF Grounded
  <2>4. CASE stage = 4
    <3>1. left \in Synthesize(ctx, cycle)
      BY <2>4 DEF Work
    <3> HIDE DEF c
    <3>2. /\ Shaped(c)
          /\ \A r \in c.research :
               /\ r.cycle = cycle
               /\ \A q \in c.research : q.entity = r.entity => q = r
          /\ c.evidences = ctx.evidences /\ c.signals = ctx.signals
          /\ c.theses = ctx.theses
          /\ c.events = ctx.events
      BY <1>1, <1>3, <3>1, SynthesizeLeaves DEF c
    <3> QED BY <1>3, <2>4, <3>2
  <2>5. CASE stage = 5
    <3>1. left \in Crystallize(ctx, store.theses, Entities, now)
      BY <2>5 DEF Work
    <3> HIDE DEF c
    <3>2. /\ Shaped(c) /\ Keyed(c.theses) /\ Theses(c.theses, cycle)
          /\ c.evidences = ctx.evidences /\ c.signals = ctx.signals
          /\ c.research = ctx.research
          /\ c.events = ctx.events
      BY <1>1, <1>3, <3>1, CrystallizeLeaves DEF c
    <3> QED BY <1>3, <2>5, <3>2
  <2> QED BY <1>1, <2>1, <2>2, <2>3, <2>4, <2>5
<1>5. /\ Shaped(Begun(c)) /\ Begun(c).evidences = c.evidences
      /\ Begun(c).signals = c.signals /\ Begun(c).research = c.research
      /\ Begun(c).theses = c.theses
      /\ Begun(c).events = c.events \cup {Event("stage_start", stage, 0, "ok")}
  BY <1>4 DEF Begun, Shaped
<1>6. UNCHANGED <<counts, audit>>
  BY <1>1, <1>2 DEF NextStage
<1>7. \/ at' = "gates" /\ UNCHANGED <<stage, outcome>>
      \/ /\ at' = "work" /\ stage' = stage + 1
         /\ outcome' = [outcome EXCEPT ![stage] = "raised"]
         /\ stage = 2 => "producer" \in Nonsense
  BY <1>1, <1>2, <1>4 DEF NextStage
<1> HIDE DEF c
<1>8. ctx' = Begun(c)
  BY <1>2 DEF c
<1> QED BY <1>1, <1>4, <1>5, <1>6, <1>7, <1>8

LEMMA JudgeEffect ==
  ASSUME RunInv, Judge
  PROVE  LET status == Status(stage, ctx)
             complete == Event("stage_complete", stage, 0, status)
         IN /\ at = "gates" /\ stage \in Stages /\ Shaped(ctx')
            /\ status \in Results
            /\ outcome' = [outcome EXCEPT ![stage] = status]
            /\ UNCHANGED <<store, knowledge, cycle, now, report>>
            /\ ctx'.evidences = IF stage = 2 THEN {e \in ctx.evidences : e.retrievable}
                                ELSE ctx.evidences
            /\ ctx'.signals = ctx.signals /\ ctx'.research = ctx.research
            /\ ctx'.theses \subseteq ctx.theses
            /\ complete \in ctx'.events /\ ctx.events \subseteq ctx'.events
            /\ \A x \in ctx'.events : x \in ctx.events \/ x.kind = "gate" \/ x = complete
            /\ \/ /\ stage < 6 /\ at' = "work" /\ stage' = stage + 1
                  /\ UNCHANGED <<counts, audit>>
               \/ /\ stage = 6 /\ at' = "validate" /\ stage' = 1
                  /\ counts' = [counts EXCEPT !.emitted = Sizes(ctx')]
                  /\ audit' = audit \cup {[cycle |-> cycle, event |-> e] : e \in ctx'.events}
<1> DEFINE status == Status(stage, ctx)
           complete == Event("stage_complete", stage, 0, status)
           verdicts == Verdicts(stage, ctx)
           judged == {Event("gate", stage, i, IF verdicts[i] THEN "pass" ELSE "fail") :
                        i \in DOMAIN verdicts}
           d == MovedOut(stage, ctx)
           j == Judged(ctx)
<1>1. /\ Shaped(ctx) /\ at = "gates" /\ stage \in Stages
      /\ outcome' = [outcome EXCEPT ![stage] = status]
      /\ NextStage(ctx')
      /\ ctx' = IF stage = 6 /\ Failures(6, ctx) # {} THEN AllPending(j) ELSE j
      /\ UNCHANGED <<store, knowledge, cycle, now, report>>
  BY DEF RunInv, PlaceInv, CtxInv, TypeOK, Judge
<1>2. status \in Results
  BY <1>1, StatusRange
<1>3. /\ Shaped(d)
      /\ d.evidences = IF stage = 2 THEN {e \in ctx.evidences : e.retrievable}
                       ELSE ctx.evidences
      /\ d.signals = ctx.signals /\ d.research = ctx.research
      /\ d.theses = ctx.theses /\ d.events = ctx.events
  BY <1>1, MovedOutLeaves
<1>4. j = [d EXCEPT !.events = @ \cup (judged \cup {complete})]
  BY DEF Judged
<1>5. \A x \in judged : x.kind = "gate"
  BY DEF Event
<1> HIDE DEF d, judged, complete, status
<1>6. /\ Shaped(j) /\ j.evidences = d.evidences /\ j.signals = d.signals
      /\ j.research = d.research /\ j.theses = d.theses
      /\ j.events = d.events \cup (judged \cup {complete})
  BY <1>3, <1>4 DEF Shaped
<1> HIDE DEF j
<1>7. /\ Shaped(ctx') /\ ctx'.evidences = j.evidences /\ ctx'.signals = j.signals
      /\ ctx'.research = j.research /\ ctx'.theses \subseteq j.theses
      /\ ctx'.events = j.events
  BY <1>1, <1>6 DEF AllPending, Shaped
<1>8. \/ /\ stage < 6 /\ at' = "work" /\ stage' = stage + 1
         /\ UNCHANGED <<counts, audit>>
      \/ /\ stage = 6 /\ at' = "validate" /\ stage' = 1
         /\ counts' = [counts EXCEPT !.emitted = Sizes(ctx')]
         /\ audit' = audit \cup {[cycle |-> cycle, event |-> e] : e \in ctx'.events}
  BY <1>1 DEF NextStage, Stages
<1> QED BY <1>1, <1>2, <1>3, <1>5, <1>6, <1>7, <1>8 DEF complete, status

LEMMA IntegrateEffect ==
  ASSUME RunInv, Integrate
  PROVE  /\ at = "work" /\ stage = 6 /\ at' = "gates" /\ Shaped(ctx')
         /\ UNCHANGED <<store, cycle, now, stage, outcome, counts, report, audit>>
         /\ ctx'.events = ctx.events \cup {Event("stage_start", stage, 0, "ok")}
         /\ ctx'.evidences = ctx.evidences /\ ctx'.signals = ctx.signals
         /\ ctx'.research = ctx.research /\ ctx'.theses \subseteq ctx.theses
         /\ knowledge \subseteq knowledge'
         /\ \A t \in ctx'.theses :
              t.status # "emerging" /\ (t \in knowledge' \/ "integrator" \in Absent)
<1>1. /\ Shaped(ctx) /\ at = "work" /\ stage = 6 /\ at' = "gates"
      /\ UNCHANGED <<store, cycle, now, stage, outcome, counts, report, audit>>
  BY DEF RunInv, CtxInv, Integrate
<1>2. PICK left \in Integrations(ctx) :
        ctx' = Begun(left[1]) /\ knowledge' = knowledge \cup left[2]
  BY DEF Integrate
<1> DEFINE c == left[1]
           T == left[2]
<1> HIDE DEF c, T
<1>3. /\ Shaped(c) /\ c.theses \subseteq ctx.theses
      /\ \A t \in c.theses : t.status # "emerging" /\ (t \in T \/ "integrator" \in Absent)
      /\ c.evidences = ctx.evidences /\ c.signals = ctx.signals
      /\ c.research = ctx.research
      /\ c.events = ctx.events
  BY <1>1, <1>2, IntegrationLeaves DEF c, T
<1>4. ctx' = Begun(c) /\ knowledge' = knowledge \cup T
  BY <1>2 DEF c, T
<1>5. /\ Shaped(Begun(c)) /\ Begun(c).evidences = c.evidences
      /\ Begun(c).signals = c.signals /\ Begun(c).research = c.research
      /\ Begun(c).theses = c.theses
      /\ Begun(c).events = c.events \cup {Event("stage_start", stage, 0, "ok")}
  BY <1>3 DEF Begun, Shaped
<1> QED BY <1>1, <1>3, <1>4, <1>5

LEMMA AbortEffect ==
  ASSUME RunInv, Abort
  PROVE  /\ at = "work" /\ at' = "validate" /\ stage' = 1 /\ Shaped(ctx')
         /\ outcome' = [outcome EXCEPT ![stage] = "raised"]
         /\ UNCHANGED <<store, knowledge, cycle, now, counts, report, audit>>
         /\ Aborted'
         /\ ctx'.evidences = ctx.evidences /\ ctx'.signals = ctx.signals
         /\ ctx'.research = ctx.research /\ ctx'.theses = ctx.theses
<1> DEFINE mark == Event("aborted", stage, 0, "error")
<1>1. mark.kind = "aborted"
  BY DEF Event
<1>2. Shaped(ctx) /\ ctx' = [ctx EXCEPT !.events = @ \cup {mark}]
  BY DEF RunInv, CtxInv, Abort
<1> HIDE DEF mark
<1>3. /\ Shaped(ctx') /\ mark \in ctx'.events
      /\ ctx'.evidences = ctx.evidences /\ ctx'.signals = ctx.signals
      /\ ctx'.research = ctx.research /\ ctx'.theses = ctx.theses
  BY <1>2 DEF Shaped
<1> QED BY <1>1, <1>3 DEF Abort, Aborted

LEMMA ValidateEffect ==
  ASSUME RunInv, Validate
  PROVE  /\ at = "validate" /\ Shaped(ctx')
         /\ at' = IF Aborted THEN "report" ELSE "signals"
         /\ report'.error = Aborted /\ (Aborted' <=> Aborted)
         /\ UNCHANGED <<store, knowledge, cycle, now, stage, outcome, counts, audit>>
         /\ ctx'.evidences = {e \in ctx.evidences : e.retrievable}
         /\ ctx'.signals = ctx.signals /\ ctx'.research = ctx.research
         /\ ctx'.theses = ctx.theses /\ ctx'.events = ctx.events
<1>1. Shaped(ctx) /\ ctx' = MovedOut(2, ctx)
  BY DEF RunInv, CtxInv, Validate
<1>2. /\ Shaped(ctx')
      /\ ctx'.evidences = {e \in ctx.evidences : e.retrievable}
      /\ ctx'.signals = ctx.signals /\ ctx'.research = ctx.research
      /\ ctx'.theses = ctx.theses /\ ctx'.events = ctx.events
  BY <1>1, MovedOutLeaves
<1>3. Aborted' <=> Aborted
  BY <1>2 DEF Aborted
<1>4. report'.error = Aborted
  BY DEF Validate, Findings
<1> QED BY <1>2, <1>3, <1>4 DEF Validate

\* The aborted mark is the one event of its kind.
LEMMA AbortedSteps ==
  ASSUME RunInv
  PROVE  /\ Start \/ Execute \/ Integrate \/ Judge => ~Aborted'
         /\ ctx' = ctx => (Aborted' <=> Aborted)
<1>1. Start => ~Aborted'
  <2> SUFFICES ASSUME Start PROVE ~Aborted'
    OBVIOUS
  <2>1. ctx'.events = {}
    BY NewContextLeaves DEF Start
  <2> QED BY <2>1 DEF Aborted
<1>2. Execute => ~Aborted'
  <2> SUFFICES ASSUME Execute PROVE ~Aborted'
    OBVIOUS
  <2>1. ~Aborted /\ ctx'.events = ctx.events \cup {Event("stage_start", stage, 0, "ok")}
    BY ExecuteEffect DEF RunInv, AuditInv, Piping
  <2> QED BY <2>1 DEF Aborted, Event
<1>3. Integrate => ~Aborted'
  <2> SUFFICES ASSUME Integrate PROVE ~Aborted'
    OBVIOUS
  <2>1. ~Aborted /\ ctx'.events = ctx.events \cup {Event("stage_start", stage, 0, "ok")}
    BY IntegrateEffect DEF RunInv, AuditInv, Piping
  <2> QED BY <2>1 DEF Aborted, Event
<1>4. Judge => ~Aborted'
  <2> SUFFICES ASSUME Judge PROVE ~Aborted'
    OBVIOUS
  <2> DEFINE complete == Event("stage_complete", stage, 0, Status(stage, ctx))
  <2>1. complete.kind = "stage_complete"
    BY DEF Event
  <2> HIDE DEF complete
  <2>2. /\ ~Aborted
        /\ \A x \in ctx'.events : x \in ctx.events \/ x.kind = "gate" \/ x = complete
    BY JudgeEffect DEF RunInv, AuditInv, Piping, complete
  <2> QED BY <2>1, <2>2 DEF Aborted
<1>5. ctx' = ctx => (Aborted' <=> Aborted)
  BY DEF Aborted
<1> QED BY <1>1, <1>2, <1>3, <1>4, <1>5


LEMMA PersistSignalsEffect ==
  ASSUME RunInv, PersistSignals
  PROVE  \E written \in SUBSET ctx.signals :
           /\ at = "signals" /\ UNCHANGED Settled
           /\ DOMAIN store' = DOMAIN store
           /\ store'.signals = store.signals \cup written
           /\ store'.evidence = store.evidence /\ store'.research = store.research
           /\ store'.theses = store.theses
           /\ counts' = [counts EXCEPT !.written.signals = Cardinality(written)]
           /\ \/ at' = "research" /\ report' = report /\ written = ctx.signals
              \/ at' = "idle" /\ report' = None /\ "store" \in Faults
<1> DEFINE items == {s \in ctx.signals : Persistable(s)}
<1>1. items = ctx.signals
  BY DEF RunInv, CtxInv, Persistable
<1>2. PICK written \in Written(items) :
        /\ store' = [store EXCEPT !.signals = @ \cup written]
        /\ counts' = [counts EXCEPT !.written.signals = Cardinality(written)]
        /\ Continue("research", items, written)
        /\ report' = IF written = items THEN report ELSE None
  BY DEF PersistSignals
<1>3. written \in SUBSET ctx.signals /\ (written # ctx.signals => "store" \in Faults)
  BY <1>1, <1>2 DEF Written
<1>4. /\ DOMAIN store' = DOMAIN store
      /\ store'.signals = store.signals \cup written
      /\ store'.evidence = store.evidence /\ store'.research = store.research
      /\ store'.theses = store.theses
  BY <1>2 DEF RunInv, PlaceInv
<1> HIDE DEF items
<1>5. \/ at' = "research" /\ report' = report /\ written = ctx.signals
      \/ at' = "idle" /\ report' = None /\ "store" \in Faults
  BY <1>1, <1>2, <1>3 DEF Continue
<1> QED BY <1>2, <1>3, <1>4, <1>5 DEF PersistSignals

LEMMA PersistResearchEffect ==
  ASSUME RunInv, PersistResearch
  PROVE  \E written \in SUBSET ctx.research :
           /\ at = "research" /\ UNCHANGED Settled
           /\ DOMAIN store' = DOMAIN store
           /\ store'.research = store.research \cup written
           /\ store'.evidence = store.evidence /\ store'.signals = store.signals
           /\ store'.theses = store.theses
           /\ counts' = [counts EXCEPT !.written.research = Cardinality(written)]
           /\ \/ at' = "theses" /\ report' = report /\ written = ctx.research
              \/ at' = "idle" /\ report' = None /\ "store" \in Faults
<1>1. PICK written \in Written(ctx.research) :
        /\ store' = [store EXCEPT !.research = @ \cup written]
        /\ counts' = [counts EXCEPT !.written.research = Cardinality(written)]
        /\ Continue("theses", ctx.research, written)
        /\ report' = IF written = ctx.research THEN report ELSE None
  BY DEF PersistResearch
<1>2. written \in SUBSET ctx.research /\ (written # ctx.research => "store" \in Faults)
  BY <1>1 DEF Written
<1>3. /\ DOMAIN store' = DOMAIN store
      /\ store'.research = store.research \cup written
      /\ store'.evidence = store.evidence /\ store'.signals = store.signals
      /\ store'.theses = store.theses
  BY <1>1 DEF RunInv, PlaceInv
<1>4. \/ at' = "theses" /\ report' = report /\ written = ctx.research
      \/ at' = "idle" /\ report' = None /\ "store" \in Faults
  BY <1>1, <1>2 DEF Continue
<1> QED BY <1>1, <1>2, <1>3, <1>4 DEF PersistResearch

LEMMA PersistThesesEffect ==
  ASSUME RunInv, PersistTheses
  PROVE  \E written \in SUBSET ctx.theses :
           /\ at = "theses" /\ UNCHANGED Settled
           /\ DOMAIN store' = DOMAIN store
           /\ store'.theses = Overwrite(store.theses, written)
           /\ store'.evidence = store.evidence /\ store'.signals = store.signals
           /\ store'.research = store.research
           /\ counts' = [counts EXCEPT !.written.theses = Cardinality(written)]
           /\ \/ at' = "evidence" /\ report' = report /\ written = ctx.theses
              \/ at' = "idle" /\ report' = None /\ "store" \in Faults
<1>1. PICK written \in Written(ctx.theses) :
        /\ store' = [store EXCEPT !.theses = Overwrite(@, written)]
        /\ counts' = [counts EXCEPT !.written.theses = Cardinality(written)]
        /\ Continue("evidence", ctx.theses, written)
        /\ report' = IF written = ctx.theses THEN report ELSE None
  BY DEF PersistTheses
<1>2. written \in SUBSET ctx.theses /\ (written # ctx.theses => "store" \in Faults)
  BY <1>1 DEF Written
<1>3. /\ DOMAIN store' = DOMAIN store
      /\ store'.theses = Overwrite(store.theses, written)
      /\ store'.evidence = store.evidence /\ store'.signals = store.signals
      /\ store'.research = store.research
  BY <1>1 DEF RunInv, PlaceInv
<1>4. \/ at' = "evidence" /\ report' = report /\ written = ctx.theses
      \/ at' = "idle" /\ report' = None /\ "store" \in Faults
  BY <1>1, <1>2 DEF Continue
<1> QED BY <1>1, <1>2, <1>3, <1>4 DEF PersistTheses

LEMMA PersistEvidenceEffect ==
  ASSUME RunInv, PersistEvidence
  PROVE  \E written \in SUBSET ctx.evidences :
           /\ at = "evidence" /\ at' = "report" /\ UNCHANGED <<Settled, counts, report>>
           /\ DOMAIN store' = DOMAIN store
           /\ store'.evidence = store.evidence \cup written
           /\ store'.signals = store.signals /\ store'.research = store.research
           /\ store'.theses = store.theses
           /\ written = ctx.evidences \/ "store" \in Faults
<1>1. PICK written \in Written(ctx.evidences) :
        store' = [store EXCEPT !.evidence = @ \cup written]
  BY DEF PersistEvidence
<1>2. written \in SUBSET ctx.evidences /\ (written = ctx.evidences \/ "store" \in Faults)
  BY <1>1 DEF Written
<1>3. /\ DOMAIN store' = DOMAIN store
      /\ store'.evidence = store.evidence \cup written
      /\ store'.signals = store.signals /\ store'.research = store.research
      /\ store'.theses = store.theses
  BY <1>1 DEF RunInv, PlaceInv
<1> QED BY <1>2, <1>3 DEF PersistEvidence

-----------------------------------------------------------------------------
(* Every step keeps the invariant, part by part.                             *)

LEMMA FieldsStay ==
  ASSUME installed' = installed
  PROVE  /\ Faults' = Faults /\ MaxCycles' = MaxCycles
         /\ Nonsense' = Nonsense /\ Absent' = Absent
         /\ \A e : Mislaid(e)' <=> Mislaid(e)
BY DEF Faults, MaxCycles, Nonsense, Absent, Mislaid

LEMMA PlaceNext ==
  ASSUME RunInv, Next, installed' = installed
  PROVE  PlaceInv'
<1>1. /\ TypeOK /\ installed \in DOMAIN Interfaces /\ now <= cycle
      /\ cycle = 0 => at = "idle"
      /\ {"sources", "entities", "evidence", "signals", "research", "theses"} = DOMAIN store
      /\ MaxCycles' = MaxCycles /\ MaxCycles \in Nat /\ cycle \in Nat /\ now \in Nat
      /\ cycle <= MaxCycles
      /\ \A s \in ctx.signals : s.status = "verified" /\ s.cycle = cycle
      /\ Keyed(ctx.theses) /\ Theses(ctx.theses, cycle)
  BY CycleAssumption, FieldsStay DEF RunInv, PlaceInv, CtxInv, TypeOK, MaxCycles
<1> DEFINE Kinds == {None, "raised", "advance", "fail_reject", "fail_hold",
                     "fail_pending", "fail_degraded", "fail_flag"}
<1>2. outcome \in [Stages -> Kinds] /\ stage \in Stages /\ at \in Places
  BY <1>1 DEF TypeOK
<1>3. CASE Start
  <2>1. cycle' = cycle + 1 /\ now' \in {now, now + 1} /\ cycle < MaxCycles /\ at' = "work"
        /\ stage' = 1 /\ UNCHANGED <<store, knowledge, audit>>
        /\ outcome' = [s \in Stages |-> None]
    BY <1>3 DEF Start
  <2>2. outcome' \in [Stages -> Kinds]
    BY <2>1
  <2>3. /\ cycle' \in 0 .. MaxCycles /\ now' \in 0 .. MaxCycles /\ now' <= cycle'
        /\ at' \in Places /\ stage' \in Stages /\ cycle' # 0
        /\ \A s \in store.signals : s.cycle \in 1 .. cycle'
    BY <1>1, <2>1 DEF Places, Stages, TypeOK
  <2> QED BY <1>1, <2>1, <2>2, <2>3 DEF PlaceInv, TypeOK
<1>4. ASSUME UNCHANGED <<store, cycle, now>>, stage' \in Stages, at' \in Places,
             outcome' \in [Stages -> Kinds], cycle = 0 => at' = "idle"
      PROVE  PlaceInv'
  BY <1>1, <1>4 DEF PlaceInv, TypeOK
<1>5. CASE Execute
  <2>1. stage \in 1 .. 5 /\ at = "work"
    BY <1>5, ExecuteEffect
  <2>2. outcome' \in [Stages -> Kinds]
    BY <1>2, <1>5, ExecuteEffect
  <2>3. stage' \in Stages /\ at' \in Places /\ UNCHANGED <<store, cycle, now>>
    BY <1>2, <1>5, <2>1, ExecuteEffect DEF Stages, Places
  <2> QED BY <1>1, <1>4, <2>1, <2>2, <2>3
<1>6. CASE Integrate
  BY <1>1, <1>2, <1>4, <1>6, IntegrateEffect DEF Places
<1>7. CASE Judge
  <2>1. outcome' \in [Stages -> Kinds]
    BY <1>2, <1>7, JudgeEffect DEF Results
  <2>2. /\ stage' \in Stages /\ at' \in Places /\ UNCHANGED <<store, cycle, now>>
        /\ at = "gates"
    BY <1>2, <1>7, JudgeEffect DEF Stages, Places
  <2> QED BY <1>1, <1>4, <2>1, <2>2
<1>8. CASE Abort
  <2>1. outcome' \in [Stages -> Kinds]
    BY <1>2, <1>8, AbortEffect
  <2> QED BY <1>1, <1>4, <1>8, <2>1, AbortEffect DEF Stages, Places
<1>9. CASE Validate
  BY <1>1, <1>2, <1>4, <1>9, ValidateEffect DEF Places
<1>10. CASE Conclude
  BY <1>1, <1>2, <1>4, <1>10 DEF Conclude, Settled, Places
<1>11. ASSUME at # "idle", UNCHANGED Settled, DOMAIN store' = DOMAIN store, at' \in Places,
              store'.signals \subseteq store.signals \cup ctx.signals,
              \E written \in SUBSET ctx.theses :
                store'.theses \in {store.theses, Overwrite(store.theses, written)}
       PROVE  PlaceInv'
  <2>1. UNCHANGED <<cycle, now, stage, outcome>> /\ cycle \in Nat \ {0}
    BY <1>1, <1>11 DEF Settled
  <2>2. \A s \in store'.signals : s.status = "verified" /\ s.cycle \in 1 .. cycle
    BY <1>1, <1>11, <2>1 DEF TypeOK
  <2>3. PICK written \in SUBSET ctx.theses :
          store'.theses \in {store.theses, Overwrite(store.theses, written)}
    BY <1>11
  <2>4. \A t, u \in store'.theses : t.id = u.id => t = u
    BY <1>1, <2>3 DEF Overwrite, Keyed, TypeOK
  <2>5. \A t \in store'.theses : t.status \in ThesisStatuses
    BY <1>1, <2>3 DEF Overwrite, Theses, TypeOK
  <2> QED BY <1>1, <1>2, <1>11, <2>1, <2>2, <2>4, <2>5 DEF PlaceInv, TypeOK
<1>12. CASE PersistSignals
  BY <1>11, <1>12, PersistSignalsEffect DEF Places
<1>13. CASE PersistResearch
  BY <1>11, <1>13, PersistResearchEffect DEF Places
<1>14. CASE PersistTheses
  BY <1>11, <1>14, PersistThesesEffect DEF Places
<1>15. CASE PersistEvidence
  BY <1>11, <1>15, PersistEvidenceEffect DEF Places
<1> QED
  BY <1>3, <1>5, <1>6, <1>7, <1>8, <1>9, <1>10, <1>12, <1>13, <1>14, <1>15 DEF Next, Run

\* A step that leaves the cycle alone may take items out of the lists of the context.
LEMMA CtxShrinks ==
  ASSUME RunInv, cycle' = cycle, Shaped(ctx'),
         ctx'.evidences \subseteq ctx.evidences, ctx'.signals = ctx.signals,
         ctx'.research = ctx.research, ctx'.theses \subseteq ctx.theses
  PROVE  CtxInv'
<1>1. Keyed(ctx.theses) /\ Theses(ctx.theses, cycle)
  BY DEF RunInv, CtxInv
<1>2. Keyed(ctx'.theses) /\ Theses(ctx'.theses, cycle)
  BY <1>1 DEF Keyed, Theses
<1> QED BY <1>2 DEF RunInv, CtxInv

LEMMA CtxNext ==
  ASSUME RunInv, Next, installed' = installed
  PROVE  CtxInv'
<1>1. CASE Start
  <2>1. ctx' = NewContext(store.sources, store.entities)
    BY <1>1 DEF Start
  <2>2. /\ Shaped(ctx') /\ ctx'.evidences = {} /\ ctx'.signals = {}
        /\ ctx'.research = {} /\ ctx'.theses = {}
    BY <2>1, NewContextLeaves
  <2> QED BY <2>2 DEF CtxInv, Keyed, Theses
<1>2. CASE Execute
  BY <1>2, ExecuteEffect DEF CtxInv
<1>3. CASE Integrate
  BY <1>3, IntegrateEffect, CtxShrinks
<1>4. CASE Judge
  BY <1>4, JudgeEffect, CtxShrinks
<1>5. CASE Abort
  BY <1>5, AbortEffect, CtxShrinks
<1>6. CASE Validate
  BY <1>6, ValidateEffect, CtxShrinks
<1>7. CASE PersistSignals \/ PersistResearch \/ PersistTheses \/ PersistEvidence \/ Conclude
  <2>1. UNCHANGED <<ctx, cycle>>
    BY <1>7 DEF PersistSignals, PersistResearch, PersistTheses, PersistEvidence, Conclude,
                Settled
  <2> QED BY <2>1 DEF RunInv, CtxInv
<1> QED BY <1>1, <1>2, <1>3, <1>4, <1>5, <1>6, <1>7 DEF Next, Run

\* S2-G4 and the writes, in the order of the cycle: what a signal rests on is in the store,
\* in the context until the last write, or mislaid.
LEMMA GroundNext ==
  ASSUME RunInv, Next, installed' = installed
  PROVE  GroundInv'
<1>1. /\ (at = "work" /\ stage <= 3) \/ (at = "gates" /\ stage <= 2) => ctx.signals = {}
      /\ \A e \in ctx.evidences :
           e.retrievable \/ "producer" \in Nonsense \/ (at = "gates" /\ stage = 2)
      /\ \A s \in ctx.signals : Grounded(s, ctx.evidences)
      /\ "store" \notin Faults =>
           \A s \in store.signals : \A e \in s.grounds \ {None} :
             \/ e \in store.evidence \/ Mislaid(e)
             \/ at \in {"research", "theses", "evidence"} /\ e \in ctx.evidences
      /\ stage \in 1 .. 6
  BY DEF RunInv, GroundInv, PlaceInv, TypeOK, Stages
<1>2. /\ Faults' = Faults /\ Nonsense' = Nonsense
      /\ \A e : Mislaid(e)' <=> Mislaid(e)
  BY FieldsStay
\* Before the writes nothing is stored, so what is stored is grounded in the store.
<1>3. ASSUME at \notin {"research", "theses", "evidence"}, store' = store,
             (at' = "work" /\ stage' <= 3) \/ (at' = "gates" /\ stage' <= 2)
               => ctx'.signals = {},
             \A e \in ctx'.evidences :
               e.retrievable \/ "producer" \in Nonsense \/ (at' = "gates" /\ stage' = 2),
             \A s \in ctx'.signals : Grounded(s, ctx'.evidences)
      PROVE  GroundInv'
  BY <1>1, <1>2, <1>3 DEF GroundInv, Grounded
<1>4. CASE Start
  <2>1. ctx' = NewContext(store.sources, store.entities)
    BY <1>4 DEF Start
  <2>2. ctx'.evidences = {} /\ ctx'.signals = {}
    BY <2>1, NewContextLeaves
  <2> QED BY <1>3, <1>4, <2>2 DEF Start
<1>5. CASE Execute
  <2>1. /\ at = "work" /\ stage \in 1 .. 5 /\ store' = store
        /\ \/ at' = "gates" /\ stage' = stage
           \/ /\ at' = "work" /\ stage' = stage + 1
              /\ stage = 2 => "producer" \in Nonsense
        /\ stage # 2 => ctx'.evidences = ctx.evidences
        /\ stage <= 2 => ctx'.signals = {}
        /\ \A s \in ctx'.signals : Grounded(s, ctx'.evidences)
    BY <1>5, ExecuteEffect
  <2>2. (at' = "work" /\ stage' <= 3) \/ (at' = "gates" /\ stage' <= 2)
          => ctx'.signals = {}
    BY <2>1
  <2>3. \A e \in ctx'.evidences :
          e.retrievable \/ "producer" \in Nonsense \/ (at' = "gates" /\ stage' = 2)
    BY <1>1, <2>1
  <2> QED BY <1>3, <2>1, <2>2, <2>3
<1>6. CASE Integrate
  <2>1. /\ at = "work" /\ stage = 6 /\ at' = "gates" /\ UNCHANGED <<store, stage>>
        /\ ctx'.evidences = ctx.evidences /\ ctx'.signals = ctx.signals
    BY <1>6, IntegrateEffect
  <2> QED BY <1>1, <1>3, <2>1
<1>7. CASE Judge
  <2>1. /\ at = "gates" /\ store' = store
        /\ ctx'.evidences = IF stage = 2 THEN {e \in ctx.evidences : e.retrievable}
                            ELSE ctx.evidences
        /\ ctx'.signals = ctx.signals
        /\ \/ stage < 6 /\ at' = "work" /\ stage' = stage + 1
           \/ stage = 6 /\ at' = "validate" /\ stage' = 1
    BY <1>7, JudgeEffect
  <2>2. (at' = "work" /\ stage' <= 3) \/ (at' = "gates" /\ stage' <= 2)
          => ctx'.signals = {}
    BY <1>1, <2>1
  <2>3. \A e \in ctx'.evidences :
          e.retrievable \/ "producer" \in Nonsense \/ (at' = "gates" /\ stage' = 2)
    BY <1>1, <2>1
  <2>4. \A s \in ctx'.signals : Grounded(s, ctx'.evidences)
    BY <1>1, <2>1 DEF Grounded, Mislaid
  <2> QED BY <1>3, <2>1, <2>2, <2>3, <2>4
<1>8. CASE Abort
  <2>1. /\ at = "work" /\ at' = "validate" /\ store' = store
        /\ ctx'.evidences = ctx.evidences /\ ctx'.signals = ctx.signals
    BY <1>8, AbortEffect
  <2> QED BY <1>1, <1>3, <2>1
<1>9. CASE Validate
  <2>1. /\ at = "validate" /\ at' \in {"report", "signals"} /\ store' = store
        /\ ctx'.evidences = {e \in ctx.evidences : e.retrievable}
        /\ ctx'.signals = ctx.signals
    BY <1>9, ValidateEffect
  <2>2. \A s \in ctx'.signals : Grounded(s, ctx'.evidences)
    BY <1>1, <2>1 DEF Grounded, Mislaid
  <2> QED BY <1>1, <1>3, <2>1, <2>2
<1>10. CASE PersistSignals
  <2>1. PICK written \in SUBSET ctx.signals :
          /\ at = "signals" /\ ctx' = ctx
          /\ store'.signals = store.signals \cup written
          /\ store'.evidence = store.evidence
          /\ \/ at' = "research"
             \/ at' = "idle" /\ "store" \in Faults
    BY <1>10, PersistSignalsEffect DEF Settled
  <2>2. "store" \notin Faults =>
           \A s \in store'.signals : \A e \in s.grounds \ {None} :
             e \in store'.evidence \/ Mislaid(e) \/ (at' = "research" /\ e \in ctx'.evidences)
    BY <1>1, <2>1 DEF Grounded
  <2> QED BY <1>1, <1>2, <2>1, <2>2 DEF GroundInv, Grounded
<1>11. CASE PersistResearch
  <2>1. /\ at = "research" /\ ctx' = ctx
        /\ store'.signals = store.signals /\ store'.evidence = store.evidence
        /\ at' = "theses" \/ (at' = "idle" /\ "store" \in Faults)
    BY <1>11, PersistResearchEffect DEF Settled
  <2> QED BY <1>1, <1>2, <2>1 DEF GroundInv, Grounded
<1>12. CASE PersistTheses
  <2>1. /\ at = "theses" /\ ctx' = ctx
        /\ store'.signals = store.signals /\ store'.evidence = store.evidence
        /\ at' = "evidence" \/ (at' = "idle" /\ "store" \in Faults)
    BY <1>12, PersistThesesEffect DEF Settled
  <2> QED BY <1>1, <1>2, <2>1 DEF GroundInv, Grounded
<1>13. CASE PersistEvidence
  <2>1. PICK written \in SUBSET ctx.evidences :
          /\ at = "evidence" /\ at' = "report" /\ ctx' = ctx
          /\ store'.signals = store.signals
          /\ store'.evidence = store.evidence \cup written
          /\ written = ctx.evidences \/ "store" \in Faults
    BY <1>13, PersistEvidenceEffect DEF Settled
  <2>2. "store" \notin Faults =>
           \A s \in store'.signals : \A e \in s.grounds \ {None} :
             e \in store'.evidence \/ Mislaid(e)
    BY <1>1, <2>1
  <2> QED BY <1>1, <1>2, <2>1, <2>2 DEF GroundInv, Grounded
<1>14. CASE Conclude
  <2>1. at = "report" /\ at' = "idle" /\ UNCHANGED <<store, ctx>>
    BY <1>14 DEF Conclude, Settled
  <2> QED BY <1>1, <1>3, <2>1
<1> QED
  BY <1>4, <1>5, <1>6, <1>7, <1>8, <1>9, <1>10, <1>11, <1>12, <1>13, <1>14 DEF Next, Run

\* Bounds on the cycle a thesis was made in may be loosened.
LEMMA ThesesLoosen ==
  ASSUME NEW T, NEW n \in Int, NEW m \in Int, n <= m, Theses(T, n)
  PROVE  Theses(T, m)
BY DEF Theses

LEMMA ThesisNext ==
  ASSUME RunInv, Next, installed' = installed
  PROVE  ThesisInv'
<1> DEFINE Ready == (at = "gates" /\ stage = 6) \/ (~Piping /\ ~Aborted)
           Bound == IF at \in BeforeTheses THEN cycle - 1 ELSE cycle
           Integrated(T, K) ==
             \A t \in T : t.status # "emerging" /\ (t \in K \/ "integrator" \in Absent)
<1>1. /\ Ready => Integrated(ctx.theses, knowledge)
      /\ ThesesWereIntegrated /\ Keyed(store.theses) /\ Theses(store.theses, Bound)
      /\ Keyed(ctx.theses) /\ Theses(ctx.theses, cycle) /\ cycle \in Nat
  BY DEF RunInv, ThesisInv, CtxInv, PlaceInv, TypeOK
<1>0. Absent' = Absent
  BY FieldsStay
<1>2. ASSUME UNCHANGED <<store, cycle>>, knowledge \subseteq knowledge',
             (at \in BeforeTheses /\ at' \in BeforeTheses) \/ at' \notin BeforeTheses,
             Ready' => Integrated(ctx'.theses, knowledge')
      PROVE  ThesisInv'
  <2>1. Bound <= Bound' /\ Bound \in Int /\ Bound' \in Int
    BY <1>1, <1>2
  <2>2. Theses(store'.theses, Bound')
    BY <1>1, <1>2, <2>1, ThesesLoosen
  <2>3. ThesesWereIntegrated'
    BY <1>0, <1>1, <1>2 DEF ThesesWereIntegrated
  <2> QED BY <1>0, <1>1, <1>2, <2>2, <2>3 DEF ThesisInv
<1>3. CASE Start
  <2>1. /\ cycle' = cycle + 1 /\ at = "idle" /\ at' = "work" /\ stage' = 1
        /\ UNCHANGED <<store, knowledge>>
    BY <1>3 DEF Start
  <2>2. Theses(store.theses, cycle' - 1) /\ at' \in BeforeTheses /\ ~Ready'
    BY <1>1, <2>1 DEF BeforeTheses, BeforeResearch, BeforeSignals, Piping
  <2> QED BY <1>0, <1>1, <2>1, <2>2 DEF ThesisInv, ThesesWereIntegrated
<1>4. CASE Execute
  <2>1. /\ at = "work" /\ at' \in {"gates", "work"} /\ UNCHANGED <<store, cycle, knowledge>>
        /\ at' = "gates" => stage' # 6
    BY <1>4, ExecuteEffect
  <2> QED BY <1>2, <2>1 DEF BeforeTheses, BeforeResearch, BeforeSignals, Piping
<1>5. CASE Integrate
  <2>1. /\ at = "work" /\ at' = "gates" /\ UNCHANGED <<store, cycle>>
        /\ knowledge \subseteq knowledge'
        /\ \A t \in ctx'.theses :
             t.status # "emerging" /\ (t \in knowledge' \/ "integrator" \in Absent)
    BY <1>5, IntegrateEffect
  <2> QED BY <1>2, <2>1 DEF BeforeTheses, BeforeResearch, BeforeSignals
<1>6. CASE Judge
  <2>1. /\ at = "gates" /\ UNCHANGED <<store, cycle, knowledge>>
        /\ ctx'.theses \subseteq ctx.theses
        /\ at' = "work" \/ (stage = 6 /\ at' = "validate")
    BY <1>6, JudgeEffect
  <2>2. Ready' => Integrated(ctx'.theses, knowledge')
    BY <1>1, <2>1 DEF Piping
  <2> QED BY <1>2, <2>1, <2>2 DEF BeforeTheses, BeforeResearch, BeforeSignals
<1>7. CASE Abort
  <2>1. at = "work" /\ at' = "validate" /\ UNCHANGED <<store, cycle, knowledge>> /\ Aborted'
    BY <1>7, AbortEffect
  <2> QED BY <1>2, <2>1 DEF BeforeTheses, BeforeResearch, BeforeSignals, Piping
<1>8. CASE Validate
  <2>1. /\ at = "validate" /\ at' \in {"report", "signals"} /\ (Aborted' <=> Aborted)
        /\ UNCHANGED <<store, cycle, knowledge>> /\ ctx'.theses = ctx.theses
    BY <1>8, ValidateEffect
  <2> QED BY <1>1, <1>2, <2>1 DEF BeforeTheses, BeforeResearch, BeforeSignals, Piping
<1>9. ASSUME UNCHANGED Settled, store'.theses = store.theses,
             at \notin {"work", "gates"}, at' \notin {"work", "gates"},
             (at \in BeforeTheses /\ at' \in BeforeTheses) \/ at' \notin BeforeTheses
      PROVE  ThesisInv'
  <2>1. UNCHANGED <<ctx, cycle, knowledge>> /\ (Aborted' <=> Aborted)
    BY <1>9, AbortedSteps DEF Settled
  <2>2. Bound <= Bound' /\ Bound \in Int /\ Bound' \in Int
    BY <1>1, <1>9, <2>1
  <2>3. Theses(store'.theses, Bound')
    BY <1>1, <1>9, <2>2, ThesesLoosen
  <2>4. ThesesWereIntegrated'
    BY <1>0, <1>1, <1>9, <2>1 DEF ThesesWereIntegrated
  <2>5. Ready' => Integrated(ctx'.theses, knowledge')
    BY <1>1, <1>9, <2>1 DEF Piping
  <2> QED BY <1>0, <1>1, <1>9, <2>3, <2>4, <2>5 DEF ThesisInv
<1>10. CASE PersistSignals
  <2>1. /\ at = "signals" /\ at' \in {"research", "idle"} /\ UNCHANGED Settled
        /\ store'.theses = store.theses
    BY <1>10, PersistSignalsEffect
  <2> QED BY <1>9, <2>1 DEF BeforeTheses, BeforeResearch, BeforeSignals
<1>11. CASE PersistResearch
  <2>1. /\ at = "research" /\ at' \in {"theses", "idle"} /\ UNCHANGED Settled
        /\ store'.theses = store.theses
    BY <1>11, PersistResearchEffect
  <2> QED BY <1>9, <2>1 DEF BeforeTheses, BeforeResearch, BeforeSignals
<1>12. CASE PersistTheses
  <2>1. PICK written \in SUBSET ctx.theses :
          /\ at = "theses" /\ at' \in {"evidence", "idle"} /\ UNCHANGED Settled
          /\ store'.theses = Overwrite(store.theses, written)
    BY <1>12, PersistThesesEffect
  <2>2. /\ UNCHANGED <<ctx, cycle, knowledge>> /\ (Aborted' <=> Aborted) /\ ~Aborted
        /\ Bound \in Int /\ Bound <= cycle /\ Bound' = cycle
    BY <1>1, <2>1, AbortedSteps
    DEF Settled, RunInv, ReportInv, BeforeTheses, BeforeResearch, BeforeSignals
  <2>3. Theses(store.theses, cycle)
    BY <1>1, <2>2, ThesesLoosen
  <2>4. Theses(store'.theses, cycle) /\ Keyed(store'.theses)
    BY <1>1, <2>1, <2>3 DEF Theses, Keyed, Overwrite
  <2>5. Integrated(ctx.theses, knowledge)
    BY <1>1, <2>1, <2>2 DEF Piping
  <2>6. ThesesWereIntegrated'
    BY <1>0, <1>1, <2>1, <2>2, <2>5 DEF ThesesWereIntegrated, Overwrite
  <2> QED BY <1>0, <2>2, <2>4, <2>5, <2>6 DEF ThesisInv
<1>13. CASE PersistEvidence
  <2>1. /\ at = "evidence" /\ at' = "report" /\ UNCHANGED Settled
        /\ store'.theses = store.theses
    BY <1>13, PersistEvidenceEffect
  <2> QED BY <1>9, <2>1 DEF BeforeTheses, BeforeResearch, BeforeSignals
<1>14. CASE Conclude
  <2>1. at = "report" /\ at' = "idle" /\ UNCHANGED Settled /\ store' = store
    BY <1>14 DEF Conclude
  <2> QED BY <1>9, <2>1 DEF BeforeTheses, BeforeResearch, BeforeSignals
<1> QED
  BY <1>3, <1>4, <1>5, <1>6, <1>7, <1>8, <1>10, <1>11, <1>12, <1>13, <1>14 DEF Next, Run

LEMMA TallyChanges ==
  ASSUME NEW w, Tally(w), NEW n, NEW v
  PROVE  /\ v = [w EXCEPT !.signals = n] =>
              Tally(v) /\ v.signals = n /\ v.research = w.research /\ v.theses = w.theses
         /\ v = [w EXCEPT !.research = n] =>
              Tally(v) /\ v.research = n /\ v.signals = w.signals /\ v.theses = w.theses
         /\ v = [w EXCEPT !.theses = n] =>
              Tally(v) /\ v.theses = n /\ v.signals = w.signals /\ v.research = w.research
BY DEF Tally

LEMMA CountNext ==
  ASSUME RunInv, Next, installed' = installed
  PROVE  CountInv'
<1> DEFINE Of(things, n) == {x \in things : x.cycle = n}
<1>1. /\ {"emitted", "written"} = DOMAIN counts
      /\ Tally(counts.written)
      /\ cycle > 0 /\ ~Piping /\ ~Aborted => counts.emitted = Sizes(ctx)
      /\ at \in BeforeSignals => \A s \in store.signals : s.cycle # cycle
      /\ \A r \in store.research : r.cycle \in 1 .. cycle
      /\ at \in BeforeResearch => \A r \in store.research : r.cycle # cycle
      /\ at \in {"research", "theses", "evidence"} \/ Concluding =>
           /\ counts.written.signals = Cardinality(ctx.signals)
           /\ Of(store.signals, cycle) = ctx.signals
      /\ at \in {"theses", "evidence"} \/ Concluding =>
           /\ counts.written.research = Cardinality(ctx.research)
           /\ Of(store.research, cycle) = ctx.research
      /\ at = "evidence" \/ Concluding =>
           /\ counts.written.theses = Cardinality(ctx.theses)
           /\ ctx.theses \subseteq store.theses
      /\ \A s \in store.signals : s.cycle \in 1 .. cycle
      /\ \A s \in ctx.signals : s.cycle = cycle
      /\ \A r \in ctx.research : r.cycle = cycle
      /\ cycle \in Nat
      /\ at \in {"signals", "research", "theses", "evidence"} => ~Aborted /\ cycle > 0
  BY DEF RunInv, CountInv, CtxInv, PlaceInv, TypeOK, ReportInv
<1>2. ASSUME at' \in BeforeSignals, at \in BeforeSignals, UNCHANGED <<store, cycle>>,
             {"emitted", "written"} = DOMAIN counts',
             counts'.written = counts.written,
             ~Piping' /\ ~Aborted' => counts'.emitted = Sizes(ctx)'
      PROVE  CountInv'
  <2>1. /\ at' \in BeforeResearch /\ at \in BeforeResearch
        /\ at' \notin {"research", "theses", "evidence"}
        /\ ~Concluding' /\ ~Concluded'
    BY <1>2 DEF BeforeResearch, BeforeSignals, Concluding, Concluded
  <2> QED BY <1>1, <1>2, <2>1 DEF CountInv
<1>3. CASE Start
  <2>1. /\ cycle' = cycle + 1 /\ at' = "work" /\ store' = store
        /\ counts' = [emitted |-> NoCounts, written |-> NoCounts]
    BY <1>3 DEF Start
  <2>2. /\ {"emitted", "written"} = DOMAIN counts'
        /\ Tally(counts'.written)
    BY <2>1 DEF NoCounts, Tally
  <2>3. /\ \A s \in store'.signals : s.cycle # cycle'
        /\ \A r \in store'.research : r.cycle # cycle' /\ r.cycle \in 1 .. cycle'
    BY <1>1, <2>1
  <2> QED BY <2>1, <2>2, <2>3 DEF CountInv, Piping, Concluding, Concluded
<1>4. CASE Execute
  <2>1. /\ at = "work" /\ at' \in {"gates", "work"} /\ UNCHANGED <<store, cycle, counts>>
    BY <1>4, ExecuteEffect
  <2> QED BY <1>1, <1>2, <2>1 DEF BeforeSignals, Piping
<1>5. CASE Integrate
  <2>1. at = "work" /\ at' = "gates" /\ UNCHANGED <<store, cycle, counts>>
    BY <1>5, IntegrateEffect
  <2> QED BY <1>1, <1>2, <2>1 DEF BeforeSignals, Piping
<1>6. CASE Judge
  <2>1. /\ at = "gates" /\ UNCHANGED <<store, cycle>>
        /\ \/ at' = "work" /\ counts' = counts
           \/ /\ at' = "validate"
              /\ counts' = [counts EXCEPT !.emitted = Sizes(ctx')]
    BY <1>6, JudgeEffect
  <2>2. /\ {"emitted", "written"} = DOMAIN counts' /\ counts'.written = counts.written
        /\ at' = "validate" => counts'.emitted = Sizes(ctx')
    BY <1>1, <2>1
  <2>3. Sizes(ctx') = Sizes(ctx)'
    BY DEF Sizes
  <2> QED BY <1>2, <2>1, <2>2, <2>3 DEF BeforeSignals, Piping
<1>7. CASE Abort
  <2>1. at = "work" /\ at' = "validate" /\ UNCHANGED <<store, cycle, counts>> /\ Aborted'
    BY <1>7, AbortEffect
  <2> QED BY <1>1, <1>2, <2>1 DEF BeforeSignals
<1>8. CASE Validate
  <2>1. /\ at = "validate" /\ at' = (IF Aborted THEN "report" ELSE "signals")
        /\ UNCHANGED <<store, cycle, counts>> /\ (Aborted' <=> Aborted)
        /\ ctx'.signals = ctx.signals /\ ctx'.research = ctx.research
        /\ ctx'.theses = ctx.theses
    BY <1>8, ValidateEffect
  <2>2. Sizes(ctx)' = Sizes(ctx)
    BY <2>1 DEF Sizes
  <2>3. ~Aborted => counts.emitted = Sizes(ctx) /\ cycle > 0
    BY <1>1, <2>1 DEF Piping, RunInv, PlaceInv
  <2>4. CASE Aborted
    BY <1>1, <2>1, <2>4
    DEF CountInv, Concluding, Concluded, Piping, BeforeSignals, BeforeResearch
  <2>5. CASE ~Aborted
    BY <1>1, <1>2, <2>1, <2>2, <2>3, <2>5 DEF BeforeSignals
  <2> QED BY <2>4, <2>5
<1>9. CASE PersistSignals
  <2>1. PICK written \in SUBSET ctx.signals :
          /\ at = "signals" /\ UNCHANGED <<ctx, cycle>>
          /\ store'.signals = store.signals \cup written
          /\ store'.research = store.research /\ store'.theses = store.theses
          /\ counts' = [counts EXCEPT !.written.signals = Cardinality(written)]
          /\ \/ at' = "research" /\ written = ctx.signals
             \/ at' = "idle" /\ report' = None
    BY <1>9, PersistSignalsEffect DEF Settled
  <2> DEFINE w == counts.written
             n == Cardinality(written)
             v == counts'.written
  <2>2. /\ {"emitted", "written"} = DOMAIN counts' /\ counts'.emitted = counts.emitted
         /\ v = [w EXCEPT !.signals = n] /\ Tally(w)
    BY <1>1, <2>1
  <2>3. /\ {"emitted", "written"} = DOMAIN counts'
        /\ Tally(counts'.written)
        /\ counts'.emitted = counts.emitted
        /\ counts'.written.signals = Cardinality(written)
    <3> HIDE DEF w, n, v
    <3>1. /\ Tally(v) /\ v.signals = n
          /\ v.research = w.research
          /\ v.theses = w.theses
      BY <2>2, TallyChanges
    <3> QED BY <2>2, <3>1 DEF w, n, v
  <2>4. counts'.emitted = Sizes(ctx)'
    BY <1>1, <2>1, <2>3 DEF Piping, Sizes
  <2>5. \A s \in store.signals : s.cycle # cycle
    BY <1>1, <2>1 DEF BeforeSignals
  <2>6. at' = "research" => Of(store'.signals, cycle) = ctx.signals
    BY <1>1, <2>1, <2>5
  <2>7. \A r \in store.research : r.cycle # cycle
    BY <1>1, <2>1 DEF BeforeSignals, BeforeResearch
  <2> QED BY <1>1, <2>1, <2>3, <2>4, <2>6, <2>7
          DEF CountInv, Concluding, Concluded, BeforeSignals, BeforeResearch
<1>10. CASE PersistResearch
  <2>1. PICK written \in SUBSET ctx.research :
          /\ at = "research" /\ UNCHANGED <<ctx, cycle>>
          /\ store'.research = store.research \cup written
          /\ store'.signals = store.signals /\ store'.theses = store.theses
          /\ counts' = [counts EXCEPT !.written.research = Cardinality(written)]
          /\ \/ at' = "theses" /\ written = ctx.research
             \/ at' = "idle" /\ report' = None
    BY <1>10, PersistResearchEffect DEF Settled
  <2> DEFINE w == counts.written
             n == Cardinality(written)
             v == counts'.written
  <2>2. /\ {"emitted", "written"} = DOMAIN counts' /\ counts'.emitted = counts.emitted
         /\ v = [w EXCEPT !.research = n] /\ Tally(w)
    BY <1>1, <2>1
  <2>3. /\ {"emitted", "written"} = DOMAIN counts'
        /\ Tally(counts'.written)
        /\ counts'.emitted = counts.emitted
        /\ counts'.written.signals = counts.written.signals
        /\ counts'.written.research = Cardinality(written)
    <3> HIDE DEF w, n, v
    <3>1. /\ Tally(v) /\ v.research = n
          /\ v.signals = w.signals
          /\ v.theses = w.theses
      BY <2>2, TallyChanges
    <3> QED BY <2>2, <3>1 DEF w, n, v
  <2>4. counts'.emitted = Sizes(ctx)'
    BY <1>1, <2>1, <2>3 DEF Piping, Sizes
  <2>5. \A r \in store.research : r.cycle # cycle
    BY <1>1, <2>1 DEF BeforeResearch
  <2>6. at' = "theses" => Of(store'.research, cycle) = ctx.research
    BY <1>1, <2>1, <2>5
  <2>7. \A r \in store'.research : r.cycle \in 1 .. cycle
    BY <1>1, <2>1
  <2> QED BY <1>1, <2>1, <2>3, <2>4, <2>6, <2>7
          DEF CountInv, Concluding, Concluded, BeforeSignals, BeforeResearch
<1>11. CASE PersistTheses
  <2>1. PICK written \in SUBSET ctx.theses :
          /\ at = "theses" /\ UNCHANGED <<ctx, cycle>>
          /\ store'.theses = Overwrite(store.theses, written)
          /\ store'.signals = store.signals /\ store'.research = store.research
          /\ counts' = [counts EXCEPT !.written.theses = Cardinality(written)]
          /\ \/ at' = "evidence" /\ written = ctx.theses
             \/ at' = "idle" /\ report' = None
    BY <1>11, PersistThesesEffect DEF Settled
  <2> DEFINE w == counts.written
             n == Cardinality(written)
             v == counts'.written
  <2>2. /\ {"emitted", "written"} = DOMAIN counts' /\ counts'.emitted = counts.emitted
         /\ v = [w EXCEPT !.theses = n] /\ Tally(w)
    BY <1>1, <2>1
  <2>3. /\ {"emitted", "written"} = DOMAIN counts'
        /\ Tally(counts'.written)
        /\ counts'.emitted = counts.emitted
        /\ counts'.written.signals = counts.written.signals
        /\ counts'.written.research = counts.written.research
        /\ counts'.written.theses = Cardinality(written)
    <3> HIDE DEF w, n, v
    <3>1. /\ Tally(v) /\ v.theses = n
          /\ v.signals = w.signals
          /\ v.research = w.research
      BY <2>2, TallyChanges
    <3> QED BY <2>2, <3>1 DEF w, n, v
  <2>4. counts'.emitted = Sizes(ctx)'
    BY <1>1, <2>1, <2>3 DEF Piping, Sizes
  <2>5. at' = "evidence" => ctx.theses \subseteq store'.theses
    BY <2>1 DEF Overwrite
  <2> QED BY <1>1, <2>1, <2>3, <2>4, <2>5
          DEF CountInv, Concluding, Concluded, BeforeSignals, BeforeResearch
<1>12. CASE PersistEvidence
  <2>1. /\ at = "evidence" /\ at' = "report" /\ UNCHANGED <<ctx, cycle, counts>>
        /\ store'.signals = store.signals /\ store'.research = store.research
        /\ store'.theses = store.theses
    BY <1>12, PersistEvidenceEffect DEF Settled
  <2>2. counts'.emitted = Sizes(ctx)'
    BY <1>1, <2>1 DEF Piping, Sizes
  <2> QED BY <1>1, <2>1, <2>2
          DEF CountInv, Concluding, Concluded, BeforeSignals, BeforeResearch
<1>13. CASE Conclude
  <2>1. /\ at = "report" /\ at' = "idle" /\ UNCHANGED <<ctx, cycle, counts, store>>
        /\ report'.error = report.error
    BY <1>13 DEF Conclude, Settled
  <2>2. report.error = Aborted /\ (Aborted' <=> Aborted)
    BY <2>1, AbortedSteps DEF RunInv, ReportInv
  <2>3. Sizes(ctx)' = Sizes(ctx)
    BY <2>1 DEF Sizes
  <2>4. Concluded' => Concluding
    BY <2>1, <2>2 DEF Concluded, Concluding
  <2>5. ~Concluding' /\ ~Piping /\ ~Piping'
    BY <2>1 DEF Concluding, Piping
  <2>6. at' \notin BeforeSignals /\ at' \notin BeforeResearch
    BY <2>1 DEF BeforeSignals, BeforeResearch
  <2> QED BY <1>1, <2>1, <2>2, <2>3, <2>4, <2>5, <2>6 DEF CountInv
<1> QED
  BY <1>3, <1>4, <1>5, <1>6, <1>7, <1>8, <1>9, <1>10, <1>11, <1>12, <1>13 DEF Next, Run

LEMMA ReportNext ==
  ASSUME RunInv, Next, installed' = installed
  PROVE  ReportInv'
<1> DEFINE Writing == {"signals", "research", "theses", "evidence"}
<1>1. /\ at \in Writing => ~Aborted
      /\ at \in Writing \cup {"report"} => report.error = Aborted
      /\ at = "idle" /\ report # None =>
           /\ report.error = Aborted
           /\ report.emitted = counts.emitted /\ report.written = counts.written
      /\ cycle \in Nat /\ (cycle = 0 => at = "idle")
  BY DEF RunInv, ReportInv, PlaceInv, TypeOK
<1>2. CASE Start
  BY <1>1, <1>2 DEF Start, ReportInv
<1>3. CASE Execute
  <2>1. at = "work" /\ at' \in {"gates", "work"} /\ cycle' = cycle
    BY <1>3, ExecuteEffect
  <2> QED BY <1>1, <2>1 DEF ReportInv
<1>4. CASE Integrate
  <2>1. at = "work" /\ at' = "gates" /\ cycle' = cycle
    BY <1>4, IntegrateEffect
  <2> QED BY <1>1, <2>1 DEF ReportInv
<1>5. CASE Judge
  <2>1. at = "gates" /\ at' \in {"work", "validate"} /\ cycle' = cycle
    BY <1>5, JudgeEffect
  <2> QED BY <1>1, <2>1 DEF ReportInv
<1>6. CASE Abort
  <2>1. at = "work" /\ at' = "validate" /\ cycle' = cycle
    BY <1>6, AbortEffect
  <2> QED BY <1>1, <2>1 DEF ReportInv
<1>7. CASE Validate
  <2>1. /\ at = "validate" /\ at' = (IF Aborted THEN "report" ELSE "signals")
        /\ report'.error = Aborted /\ (Aborted' <=> Aborted) /\ cycle' = cycle
    BY <1>7, ValidateEffect
  <2>2. report'.error = Aborted'
    BY <2>1
  <2> QED BY <1>1, <2>1, <2>2 DEF ReportInv
<1>8. CASE PersistSignals \/ PersistResearch \/ PersistTheses \/ PersistEvidence
  <2>1. /\ at \in Writing /\ UNCHANGED <<ctx, cycle>>
        /\ \/ at' \in Writing \cup {"report"} /\ report' = report
           \/ at' = "idle" /\ report' = None
    BY <1>8, PersistSignalsEffect, PersistResearchEffect, PersistThesesEffect,
       PersistEvidenceEffect DEF Settled
  <2>2. Aborted' <=> Aborted
    BY <2>1, AbortedSteps
  <2> QED BY <1>1, <2>1, <2>2 DEF ReportInv
<1>9. CASE Conclude
  <2>1. /\ at = "report" /\ at' = "idle" /\ UNCHANGED <<ctx, cycle, counts>>
        /\ report'.error = report.error
        /\ report'.emitted = counts.emitted /\ report'.written = counts.written
    BY <1>9 DEF Conclude, Settled
  <2>2. Aborted' <=> Aborted
    BY <2>1, AbortedSteps
  <2>3. report'.error = Aborted'
    BY <1>1, <2>1, <2>2
  <2> QED BY <1>1, <2>1, <2>2, <2>3 DEF ReportInv
<1> QED
  BY <1>2, <1>3, <1>4, <1>5, <1>6, <1>7, <1>8, <1>9 DEF Next, Run

\* An event that ends no stage, and one that ends this stage.
LEMMA EndsGrow ==
  ASSUME NEW old, NEW new, NEW s, NEW x, old \subseteq new,
         \A y \in new : y \in old \/ y.kind = "gate" \/ y = x
  PROVE  /\ x.kind # "stage_complete" \/ x.stage # s => Ends(new, s) = Ends(old, s)
         /\ x \in new /\ x.kind = "stage_complete" /\ x.stage = s
              => Ends(new, s) = Ends(old, s) \cup {x.result}
BY DEF Ends

LEMMA AuditNext ==
  ASSUME RunInv, Next, installed' = installed
  PROVE  AuditInv'
<1> DEFINE Begins(s) == Event("stage_start", s, 0, "ok")
<1>1. /\ Piping => ~Aborted
      /\ \A a \in audit : a.cycle \in 0 .. cycle /\ (Piping => a.cycle # cycle)
      /\ ~Piping /\ ~Aborted => Logged = ctx.events
      /\ cycle > 0 /\ ~Aborted =>
           \A s \in Stages :
             /\ Over(s) \/ (at = "gates" /\ s = stage) => Begins(s) \in ctx.events
             /\ Ends(ctx.events, s) = IF Over(s) THEN {outcome[s]} \ {"raised"} ELSE {}
      /\ cycle \in Nat /\ (cycle = 0 => at = "idle") /\ stage \in Stages
      /\ DOMAIN outcome = Stages
  BY DEF RunInv, AuditInv, PlaceInv, TypeOK
<1>2. Stages = 1 .. 6
  BY DEF Stages
<1>3. CASE Start
  <2>1. /\ cycle' = cycle + 1 /\ at' = "work" /\ stage' = 1 /\ audit' = audit
        /\ ctx' = NewContext(store.sources, store.entities)
    BY <1>3 DEF Start
  <2>2. ctx'.events = {}
    BY <2>1, NewContextLeaves
  <2>3. \A s : Ends(ctx'.events, s) = {}
    BY <2>2 DEF Ends
  <2>4. ~Aborted' /\ Piping' /\ \A s \in Stages : ~Over(s)'
    BY <1>2, <1>3, <2>1, AbortedSteps DEF Piping, Over
  <2> QED BY <1>1, <2>1, <2>3, <2>4 DEF AuditInv
<1>4. CASE Execute
  <2> DEFINE b == Begins(stage)
  <2>1. /\ at = "work" /\ stage \in 1 .. 5
        /\ ctx'.events = ctx.events \cup {b}
        /\ UNCHANGED <<cycle, audit>>
        /\ \/ at' = "gates" /\ UNCHANGED <<stage, outcome>>
           \/ /\ at' = "work" /\ stage' = stage + 1
              /\ outcome' = [outcome EXCEPT ![stage] = "raised"]
    BY <1>4, ExecuteEffect
  <2>2. ~Aborted' /\ ~Aborted /\ Piping /\ Piping' /\ cycle > 0
    BY <1>1, <1>4, <2>1, AbortedSteps DEF Piping
  <2>3. b.kind # "stage_complete"
    BY DEF Event
  <2>4. \A s : Ends(ctx'.events, s) = Ends(ctx.events, s)
    <3> HIDE DEF b
    <3> QED BY <2>1, <2>3, EndsGrow
  <2>5. \A s \in Stages : Over(s)' => Over(s) \/ s = stage
    BY <1>1, <1>2, <2>1, <2>2 DEF Over
  <2>6. \A s \in Stages : Over(s) => Over(s)' /\ outcome'[s] = outcome[s] /\ s # stage
    BY <1>1, <1>2, <2>1, <2>2 DEF Over
  <2>7. \A s \in Stages : s = stage /\ Over(s)' => outcome'[s] = "raised"
    BY <1>1, <1>2, <2>1, <2>2 DEF Over
  <2>8. ASSUME NEW s \in Stages
        PROVE  /\ Over(s)' \/ (at' = "gates" /\ s = stage') => Begins(s) \in ctx'.events
               /\ Ends(ctx'.events, s)
                    = IF Over(s)' THEN {outcome'[s]} \ {"raised"} ELSE {}
    <3>1. CASE s = stage
      <4>1. ~Over(s) /\ Begins(s) \in ctx'.events
        BY <2>1, <2>6, <3>1
      <4>2. Over(s)' => outcome'[s] = "raised"
        BY <2>7, <3>1
      <4> HIDE DEF Begins, b
      <4>3. Ends(ctx'.events, s) = {}
        BY <1>1, <2>2, <2>4, <4>1
      <4> QED BY <4>1, <4>2, <4>3
    <3>2. CASE s # stage
      <4> HIDE DEF Begins, b
      <4>1. at' = "gates" => stage' = stage
        BY <2>1
      <4> QED BY <1>1, <2>1, <2>2, <2>4, <2>5, <2>6, <3>2, <4>1
    <3> QED BY <3>1, <3>2
  <2> QED BY <1>1, <2>1, <2>2, <2>8 DEF AuditInv
<1>5. CASE Integrate
  <2> DEFINE b == Begins(stage)
  <2>1. /\ at = "work" /\ stage = 6 /\ at' = "gates"
        /\ ctx'.events = ctx.events \cup {b}
        /\ UNCHANGED <<cycle, audit, stage, outcome>>
    BY <1>5, IntegrateEffect
  <2>2. ~Aborted' /\ ~Aborted /\ Piping /\ Piping' /\ cycle > 0
    BY <1>1, <1>5, <2>1, AbortedSteps DEF Piping
  <2>3. b.kind # "stage_complete"
    BY DEF Event
  <2>4. \A s : Ends(ctx'.events, s) = Ends(ctx.events, s)
    <3> HIDE DEF b
    <3> QED BY <2>1, <2>3, EndsGrow
  <2>5. \A s \in Stages : Over(s)' <=> Over(s)
    BY <2>1, <2>2 DEF Over
  <2>6. ASSUME NEW s \in Stages
        PROVE  /\ Over(s)' \/ (at' = "gates" /\ s = stage') => Begins(s) \in ctx'.events
               /\ Ends(ctx'.events, s)
                    = IF Over(s)' THEN {outcome'[s]} \ {"raised"} ELSE {}
    <3>1. s = stage => Begins(s) \in ctx'.events
      BY <2>1
    <3> HIDE DEF Begins, b
    <3> QED BY <1>1, <2>1, <2>2, <2>4, <2>5, <3>1
  <2> QED BY <1>1, <2>1, <2>2, <2>6 DEF AuditInv
<1>6. CASE Judge
  <2> DEFINE status == Status(stage, ctx)
             end == Event("stage_complete", stage, 0, status)
  <2>1. /\ at = "gates" /\ status \in Results
        /\ outcome' = [outcome EXCEPT ![stage] = status]
        /\ cycle' = cycle
        /\ end \in ctx'.events /\ ctx.events \subseteq ctx'.events
        /\ \A x \in ctx'.events : x \in ctx.events \/ x.kind = "gate" \/ x = end
        /\ \/ stage < 6 /\ at' = "work" /\ stage' = stage + 1 /\ audit' = audit
           \/ /\ stage = 6 /\ at' = "validate" /\ stage' = 1
              /\ audit' = audit \cup {[cycle |-> cycle, event |-> e] : e \in ctx'.events}
    BY <1>6, JudgeEffect
  <2>2. end.kind = "stage_complete" /\ end.stage = stage /\ end.result = status
    BY DEF Event
  <2> HIDE DEF end, status
  <2>3. ~Aborted' /\ ~Aborted /\ Piping /\ cycle > 0
    BY <1>1, <1>6, <2>1, AbortedSteps DEF Piping
  <2>4. status # "raised"
    BY <2>1 DEF Results
  <2>5. \A s \in Stages : Over(s)' <=> (Over(s) \/ s = stage)
    BY <1>1, <1>2, <2>1, <2>3 DEF Over, Piping
  <2>6. \A s \in Stages : Over(s) => s # stage
    BY <1>1, <1>2, <2>3 DEF Over
  <2>7. ASSUME NEW s \in Stages
        PROVE  /\ Over(s)' \/ (at' = "gates" /\ s = stage') => Begins(s) \in ctx'.events
               /\ Ends(ctx'.events, s)
                    = IF Over(s)' THEN {outcome'[s]} \ {"raised"} ELSE {}
    <3> HIDE DEF Begins
    <3>1. CASE s = stage
      <4>1. Ends(ctx'.events, s) = Ends(ctx.events, s) \cup {end.result}
        BY <2>1, <2>2, <3>1, EndsGrow
      <4>2. Ends(ctx.events, s) = {} /\ Begins(s) \in ctx.events
        BY <1>1, <2>1, <2>3, <2>6, <3>1
      <4>3. outcome'[s] = status /\ Over(s)'
        BY <1>1, <2>1, <2>5, <3>1
      <4> QED BY <2>1, <2>2, <2>4, <4>1, <4>2, <4>3
    <3>2. CASE s # stage
      <4>1. Ends(ctx'.events, s) = Ends(ctx.events, s)
        BY <2>1, <2>2, <3>2, EndsGrow
      <4>2. outcome'[s] = outcome[s] /\ (Over(s)' <=> Over(s)) /\ at' # "gates"
        BY <1>1, <2>1, <2>5, <3>2
      <4> QED BY <1>1, <2>1, <2>3, <3>2, <4>1, <4>2
    <3> QED BY <3>1, <3>2
  <2>8. CASE stage < 6
    <3>1. Piping' /\ audit' = audit
      BY <2>1, <2>8 DEF Piping
    <3> HIDE DEF Begins
    <3>2. \A a \in audit' : a.cycle \in 0 .. cycle' /\ (Piping' => a.cycle # cycle')
      BY <1>1, <2>1, <2>3, <3>1
    <3> QED BY <2>3, <2>7, <3>1, <3>2 DEF AuditInv, Begins
  <2>9. CASE stage = 6
    <3> DEFINE copies == {[cycle |-> cycle, event |-> e] : e \in ctx'.events}
    <3>1. ~Piping' /\ audit' = audit \cup copies
      BY <2>1, <2>9 DEF Piping
    <3>2. \A a \in copies : a.cycle = cycle /\ a.event \in ctx'.events
      OBVIOUS
    <3>3. ASSUME NEW e \in ctx'.events PROVE \E a \in copies : a.event = e
      <4>1. [cycle |-> cycle, event |-> e] \in copies
        OBVIOUS
      <4>2. [cycle |-> cycle, event |-> e].event = e
        OBVIOUS
      <4> QED BY <4>1, <4>2
    <3> HIDE DEF copies, Begins
    <3>4. \A a \in audit' : a.cycle \in 0 .. cycle'
      BY <1>1, <2>1, <3>1, <3>2
    <3>5. {b \in audit' : b.cycle = cycle'} = copies
      BY <1>1, <2>1, <2>3, <3>1, <3>2
    <3>6. {a.event : a \in copies} = ctx'.events
      BY <3>2, <3>3
    <3>7. Logged' = ctx'.events
      BY <3>5, <3>6 DEF Logged
    <3> QED BY <2>3, <2>7, <3>1, <3>4, <3>7 DEF AuditInv, Begins
  <2> QED BY <1>1, <1>2, <2>8, <2>9
<1>7. CASE Abort
  <2>1. /\ at = "work" /\ at' = "validate" /\ UNCHANGED <<cycle, audit>> /\ Aborted'
    BY <1>7, AbortEffect
  <2> QED BY <1>1, <2>1 DEF AuditInv, Piping
<1>8. ASSUME ~Piping, ~Piping', UNCHANGED <<cycle, audit, outcome>>,
             ctx'.events = ctx.events, Aborted' <=> Aborted
      PROVE  AuditInv'
  <2>1. \A s : Over(s) /\ Over(s)'
    BY <1>8 DEF Over
  <2>2. at # "gates" /\ at' # "gates"
    BY <1>8 DEF Piping
  <2>3. Logged' = Logged
    BY <1>8 DEF Logged
  <2> QED BY <1>1, <1>8, <2>1, <2>2, <2>3 DEF AuditInv
<1>9. CASE Validate
  <2>1. /\ at = "validate" /\ at' \in {"report", "signals"}
        /\ UNCHANGED <<cycle, audit, outcome>>
        /\ ctx'.events = ctx.events /\ (Aborted' <=> Aborted)
    BY <1>9, ValidateEffect
  <2> QED BY <1>8, <2>1 DEF Piping
<1>10. CASE PersistSignals \/ PersistResearch \/ PersistTheses \/ PersistEvidence \/ Conclude
  <2>1. UNCHANGED Settled
    BY <1>10 DEF PersistSignals, PersistResearch, PersistTheses, PersistEvidence, Conclude
  <2>2. /\ at \in {"signals", "research", "theses", "evidence", "report"}
        /\ at' \in {"research", "theses", "evidence", "report", "idle"}
    BY <1>10
    DEF PersistSignals, PersistResearch, PersistTheses, PersistEvidence, Conclude, Continue
  <2>3. UNCHANGED <<cycle, audit, outcome, ctx>> /\ (Aborted' <=> Aborted)
    BY <2>1, AbortedSteps DEF Settled
  <2> QED BY <1>8, <2>2, <2>3 DEF Piping
<1> QED
  BY <1>3, <1>4, <1>5, <1>6, <1>7, <1>9, <1>10 DEF Next, Run

-----------------------------------------------------------------------------
(* The theorems.                                                             *)

LEMMA RunInit == Init => RunInv
<1> SUFFICES ASSUME Init PROVE RunInv
  OBVIOUS
<1>1. /\ installed \in DOMAIN Interfaces /\ store \in Store0[installed]
      /\ knowledge = {} /\ cycle = 0 /\ now = 0 /\ at = "idle" /\ stage = 1
      /\ ctx = NewContext(store.sources, store.entities)
      /\ outcome = [s \in Stages |-> None]
      /\ counts = [emitted |-> NoCounts, written |-> NoCounts]
      /\ report = None /\ audit = {}
  BY DEF Init
<1>2. /\ Shaped(ctx) /\ ctx.evidences = {} /\ ctx.signals = {} /\ ctx.research = {}
      /\ ctx.theses = {} /\ ctx.events = {}
  BY <1>1, NewContextLeaves
<1>3. /\ MaxCycles \in Nat
      /\ {"sources", "entities", "evidence", "signals", "research", "theses"} = DOMAIN store
      /\ store.signals = {} /\ store.research = {} /\ store.theses \subseteq FirstTheses
      /\ \A t, u \in store.theses : t.id = u.id => t = u
  BY <1>1, CycleAssumption DEF MaxCycles
<1>4. ASSUME NEW t \in FirstTheses
      PROVE  /\ {"id", "entity", "text", "status", "stamps", "supports"} = DOMAIN t
             /\ t.id[1] = 0 /\ t.stamps = <<>> /\ t.status \in ThesisStatuses
  BY DEF FirstTheses
<1>5. ~Piping /\ ~Aborted /\ at \notin BeforeSignals /\ at \notin BeforeResearch
      /\ at \notin BeforeTheses /\ ~Concluding /\ ~Concluded
  BY <1>1, <1>2
  DEF Piping, Aborted, BeforeSignals, BeforeResearch, BeforeTheses, Concluding, Concluded
<1>6. PlaceInv
  <2>1. outcome \in [Stages -> {None, "raised", "advance", "fail_reject", "fail_hold",
                                "fail_pending", "fail_degraded", "fail_flag"}]
    BY <1>1
  <2> QED BY <1>1, <1>3, <1>4, <2>1 DEF PlaceInv, TypeOK, Places, Stages
<1>7. CtxInv
  BY <1>2 DEF CtxInv, Keyed, Theses
<1>8. GroundInv
  BY <1>2, <1>3 DEF GroundInv
<1>9. ThesisInv
  BY <1>1, <1>2, <1>3, <1>4, <1>5 DEF ThesisInv, ThesesWereIntegrated, Keyed, Theses
<1>10. CountInv
  BY <1>1, <1>3, <1>5 DEF CountInv, NoCounts, Tally
<1>11. ReportInv
  BY <1>1 DEF ReportInv
<1>12. AuditInv
  BY <1>1, <1>2, <1>5 DEF AuditInv, Logged
<1> QED BY <1>6, <1>7, <1>8, <1>9, <1>10, <1>11, <1>12 DEF RunInv

LEMMA RunStutters == RunInv /\ UNCHANGED <<vars, installed>> => RunInv'
<1> SUFFICES ASSUME RunInv, UNCHANGED <<vars, installed>> PROVE RunInv'
  OBVIOUS
<1>1. /\ UNCHANGED <<store, knowledge, cycle, now, at, stage, ctx, outcome, counts, report,
                     audit, installed>>
  BY DEF vars
<1>2. /\ MaxCycles' = MaxCycles /\ Faults' = Faults
      /\ Nonsense' = Nonsense /\ Absent' = Absent
      /\ \A e : Mislaid(e)' <=> Mislaid(e)
  BY <1>1, FieldsStay
<1>3. (Aborted' <=> Aborted) /\ (Piping' <=> Piping) /\ Sizes(ctx)' = Sizes(ctx)
      /\ Logged' = Logged
  BY <1>1 DEF Aborted, Piping, Sizes, Logged
<1>4. PlaceInv' /\ CtxInv'
  BY <1>1, <1>2 DEF RunInv, PlaceInv, CtxInv, TypeOK
<1>5. GroundInv'
  BY <1>1, <1>2 DEF RunInv, GroundInv, Grounded
<1>6. ThesisInv'
  BY <1>1, <1>2, <1>3 DEF RunInv, ThesisInv, ThesesWereIntegrated
<1>7. CountInv'
  BY <1>1, <1>3 DEF RunInv, CountInv, Concluding, Concluded
<1>8. ReportInv'
  <2>1. report.error = Aborted => report'.error = Aborted'
    BY <1>1 DEF Aborted
  <2> QED BY <1>1, <1>3, <2>1 DEF RunInv, ReportInv
<1>9. AuditInv'
  <2>1. \A s : Over(s)' <=> Over(s)
    BY <1>1, <1>3 DEF Over
  <2> QED BY <1>1, <1>3, <2>1 DEF RunInv, AuditInv
<1> QED BY <1>4, <1>5, <1>6, <1>7, <1>8, <1>9 DEF RunInv

LEMMA RunNext ==
  RunInv /\ [Next /\ UNCHANGED installed]_<<vars, installed>> => RunInv'
<1>1. RunInv /\ Next /\ installed' = installed => RunInv'
  BY PlaceNext, CtxNext, GroundNext, ThesisNext, CountNext, ReportNext, AuditNext
  DEF RunInv
<1> QED BY <1>1, RunStutters

LEMMA RunCorrect == Spec => []RunInv
BY RunInit, RunNext, PTL DEF Spec

\* One version of each thesis is stored, of a status it can have, and a thesis a cycle
\* wrote is not emerging and, wherever an integrator is installed, was taken by it
\* (stages.py:784, 796-838, in_memory.py:116-118).
THEOREM ThesesAreIntegrated == Spec => []CycleInv
<1>1. RunInv => CycleInv
  BY DEF RunInv, PlaceInv, ThesisInv, CycleInv
<1> QED BY <1>1, RunCorrect, PTL

\* Evidence outlives the signals drawn from it: every signal in the store has its evidence
\* there once a cycle is over (stages.py:437-487, gates.py:231-241, cycle.py:205-219).
THEOREM SignalsAreGrounded == Spec => []SignalsKeepTheirEvidence
<1>1. RunInv => SignalsKeepTheirEvidence
  BY DEF RunInv, GroundInv, SignalsKeepTheirEvidence, Resting
<1> QED BY <1>1, RunCorrect, PTL

\* The counts of a report are those of the pipeline, of the writes and of the store
\* (cycle.py:205-282).
THEOREM ReportsAreExact == Spec => []ReportIsExact
<1>1. RunInv => ReportIsExact
  <2> SUFFICES ASSUME RunInv, Reported PROVE ReportIsExact
    BY DEF ReportIsExact
  <2>1. /\ at = "idle" /\ cycle > 0 /\ report # None /\ ~report.error /\ Concluded
    BY DEF Reported, Resting, Concluded
  <2>2. /\ ~Aborted /\ ~Piping
        /\ report.emitted = counts.emitted /\ report.written = counts.written
    BY <2>1 DEF RunInv, ReportInv, Piping
  <2>3. /\ counts.emitted = Sizes(ctx)
        /\ Tally(counts.written)
        /\ counts.written.signals = Cardinality(ctx.signals)
        /\ {s \in store.signals : s.cycle = cycle} = ctx.signals
        /\ counts.written.research = Cardinality(ctx.research)
        /\ {r \in store.research : r.cycle = cycle} = ctx.research
        /\ counts.written.theses = Cardinality(ctx.theses)
        /\ ctx.theses \subseteq store.theses
    BY <2>1, <2>2 DEF RunInv, CountInv
  <2>4. ctx.theses \cap store.theses = ctx.theses
    BY <2>3
  <2>5. counts.written
          = [signals |-> Cardinality(ctx.signals), research |-> Cardinality(ctx.research),
             theses |-> Cardinality(ctx.theses)]
    BY <2>3 DEF Tally
  <2>6. report.emitted = report.written
    BY <2>2, <2>3, <2>5 DEF Sizes
  <2> QED BY <2>2, <2>3, <2>4, <2>6 DEF ReportIsExact
<1> QED BY <1>1, RunCorrect, PTL

\* The audit log of a cycle begins every stage and ends those that returned, with their
\* status (pipeline.py:63-106, executor.py:116-137).
THEOREM AuditIsComplete == Spec => []AuditCoversEveryStage
<1>1. RunInv => AuditCoversEveryStage
  <2> SUFFICES ASSUME RunInv, Reported PROVE AuditCoversEveryStage
    BY DEF AuditCoversEveryStage
  <2>1. at = "idle" /\ cycle > 0 /\ ~Aborted /\ ~Piping
    BY DEF RunInv, ReportInv, Reported, Resting, Piping
  <2>2. Logged = ctx.events
    BY <2>1 DEF RunInv, AuditInv
  <2>3. ASSUME NEW s \in Stages
        PROVE  /\ Event("stage_start", s, 0, "ok") \in Logged
               /\ Ends(Logged, s) = {outcome[s]} \ {"raised"}
    BY <2>1, <2>2 DEF RunInv, AuditInv, Over
  <2> QED BY <2>3 DEF AuditCoversEveryStage, Logged, Ends
<1> QED BY <1>1, RunCorrect, PTL
===============================================================================
