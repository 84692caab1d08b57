--------------------------- MODULE PipelineStages ---------------------------
(***************************************************************************)
(* What execute() of each stage does to the context before its gates run.  *)
(* A stage calls injected interfaces (observer, producer, ...): what they  *)
(* may answer is given for each set of interfaces a runtime can be built   *)
(* with, and each stage is the set of its possible outcomes, pairs of the  *)
(* context it leaves and whether it raised.                                *)
(***************************************************************************)
EXTENDS Gates, FiniteSets

CONSTANTS
  None, Raised, Malformed,
  Interfaces       \* name -> what a set of interfaces may answer

VARIABLE installed \* the name of the set this runtime was built with

Faults == Interfaces[installed].faults          \* those that raise
Nonsense == Interfaces[installed].nonsense      \* those that answer what breaks their stage
Absent == Interfaces[installed].absent          \* those left None, the default
Feeds == Interfaces[installed].feeds            \* sets of items of an observer
Texts == Interfaces[installed].texts            \* content of evidence: "full", "blank"
Retrievable == Interfaces[installed].retrievable
DraftSets == Interfaces[installed].drafts       \* sets of [claim, status, cites]
Resolved == Interfaces[installed].resolved      \* entities of a reference, or None
Questions == Interfaces[installed].questions    \* "asked", "blank"
Interpretations == Interfaces[installed].interpretations  \* "clear", "short", "blank"
Proposed == Interfaces[installed].proposed      \* statuses of a crystallized thesis
Supported == Interfaces[installed].supported    \* whether a thesis names its research

ThesisStatuses == {"emerging", "evolving", "mature", "superseded", "retired"}

NewContext(sources, entities) ==
  [sources |-> sources, entities |-> entities,
   candidates |-> {}, flagged |-> {}, degraded |-> {},
   evidences |-> {}, rejected |-> {}, nonRetrievable |-> {},
   signals |-> {}, rejectedDrafts |-> {}, research |-> {},
   theses |-> {}, heldTheses |-> {}, pending |-> {}, events |-> {}]

Raises(interface) == IF interface \in Faults THEN {Raised} ELSE {}

Done(c) == <<c, FALSE>>

\* What a loop has taken when it ends: every item, or an item that breaks
\* it and the ones that happened to come before.
Taken(items, breaking) ==
  IF breaking = {}
    THEN {items}
    ELSE {D \cup {b} : D \in SUBSET (items \ breaking), b \in breaking}

\* An interface asked for a list raises or gives one; what is no list, or has an item of
\* the wrong make, breaks the loop over it, outside the try block, after a part of it.
Lists(choices, interface) ==
  [items : choices, broken : {FALSE}] \cup Raises(interface) \cup
    IF interface \in Nonsense
      THEN [items : UNION {SUBSET list : list \in choices}, broken : {TRUE}]
      ELSE {}

Malforms(interface) == IF interface \in Nonsense THEN {Malformed} ELSE {}

---------------------------------------------------------------------------
(* S1: the observer of each active source. *)

Plausible(o) == o.text # "blank" /\ o.timely

Candidates(s, feed) ==
  {[name |-> i.name, text |-> i.text, timely |-> i.timely,
    source |-> IF i.known THEN s ELSE None] : i \in feed}

\* A timestamp of the wrong type raises what only ValueError is caught for.
Observe(c) ==
  LET active == {s \in DOMAIN c.sources : c.sources[s] = "active"}
      Leaves(answer, taken) ==
        LET seen == UNION {Candidates(s, answer[s].items) :
                             s \in {a \in taken : answer[a] # Raised}}
        IN [c EXCEPT !.candidates = {o \in seen : Plausible(o)},
                     !.flagged = {o \in seen : ~Plausible(o)},
                     !.degraded = {s \in taken : answer[s] = Raised}]
  IN IF "observer" \in Absent
       THEN {Done(c)}
       ELSE UNION {LET broken == {s \in active : answer[s] # Raised /\ answer[s].broken}
                   IN {<<Leaves(answer, taken), broken # {}>> :
                         taken \in Taken(active, broken)} :
                     answer \in [active -> Lists(Feeds, "observer")]}

---------------------------------------------------------------------------
(* S2: a candidate is consumed whatever becomes of it. *)

EvidenceOf(o, cycle) ==
  {[name |-> o.name, source |-> {o.source}, cycle |-> cycle,
    text |-> text, retrievable |-> retrievable] :
      text \in Texts, retrievable \in Retrievable}

\* An answer that is no Evidence breaks the loop, outside the try block.
Produce(c, cycle) ==
  LET known == {o \in c.candidates : o.source \in DOMAIN c.sources}
      Answers(o) == EvidenceOf(o, cycle) \cup Raises("producer") \cup Malforms("producer")
      Leaves(answer, taken) ==
        LET made == {answer[o] : o \in taken \cap known} \ {Raised, Malformed}
        IN [c EXCEPT !.candidates = @ \ taken,
                     !.evidences = {e \in made : e.text # "blank"},
                     !.rejected = {e \in made : e.text = "blank"}]
  IN IF "producer" \in Absent
       THEN {Done(c)}
       ELSE UNION {LET broken == {o \in known : answer[o] \in Malforms("producer")}
                   IN {<<Leaves(answer, taken), broken # {}>> :
                         taken \in Taken(c.candidates, broken)} :
                     answer \in {f \in [known -> UNION {Answers(o) : o \in known}] :
                                 \A o \in known : f[o] \in Answers(o)}}

---------------------------------------------------------------------------
(* S3: the entity of an evidence is the first one of the context. *)

Inferred(c) == IF c.entities = {} THEN None ELSE CHOOSE e \in c.entities : TRUE

Verifiable(d) == d.claim = "specific" /\ d.status = "draft"

\* A draft has at least one evidence id, which is all S3-G2 asks: the extractor may cite
\* the evidence it was given, all of the cycle, or an id of nothing.
Grounds(d, e, c) ==
  CASE d.cites = "own" -> {e}
    [] d.cites = "all" -> c.evidences
    [] OTHER -> {e, None}

\* A draft of another status is refused by verify() and rejected too.
SignalOf(d, e, entity, c) ==
  [claim |-> d.claim, entity |-> entity, from |-> e, grounds |-> Grounds(d, e, c),
   cycle |-> e.cycle, status |-> IF Verifiable(d) THEN "verified" ELSE d.status]

\* The resolver is called outside the try block: its error breaks the loop.
Extract(c) ==
  LET Answers == [entity : Resolved \cup Raises("resolver"),
                  drafts : Lists(DraftSets, "extractor")]
      Asked(a) == a.entity \notin {None, Raised} /\ a.drafts # Raised
      Leaves(answer, taken) ==
        LET grounded == {e \in taken : Asked(answer[e])}
            Of(e, fit) == {SignalOf(d, e, answer[e].entity, c) :
                             d \in {x \in answer[e].drafts.items : Verifiable(x) = fit}}
        IN [c EXCEPT !.signals = UNION {Of(e, TRUE) : e \in grounded},
                     !.rejectedDrafts = UNION {Of(e, FALSE) : e \in grounded}]
  IN IF "extractor" \in Absent \/ Inferred(c) = None
       THEN {Done([c EXCEPT !.rejectedDrafts =
                     IF "extractor" \in Absent THEN @ ELSE c.evidences])}
       ELSE UNION {LET broken == {e \in c.evidences :
                                    \/ answer[e].entity = Raised
                                    \/ Asked(answer[e]) /\ answer[e].drafts.broken}
                   IN {<<Leaves(answer, taken), broken # {}>> :
                         taken \in Taken(c.evidences, broken)} :
                     answer \in [c.evidences -> Answers]}

---------------------------------------------------------------------------
(* S4: one research for the signals of each entity of the context.  The     *)
(* constructor of Research refuses an empty question and no signals.        *)

Synthesize(c, cycle) ==
  LET entities == {s.entity : s \in c.signals} \cap c.entities
      About(x) == {s \in c.signals : s.entity = x}
      Leaves(answer, taken) ==
        [c EXCEPT !.research =
           {[entity |-> x, question |-> answer[x], signals |-> About(x),
             cycle |-> cycle] : x \in {y \in taken : answer[y] \notin {Raised, Malformed}}}]
  IN IF "synthesizer" \in Absent
       THEN {Done(c)}
       ELSE UNION {LET broken == {x \in entities : answer[x] = Malformed}
                   IN {<<Leaves(answer, taken), broken # {}>> :
                         taken \in Taken(entities, broken)} :
                     answer \in [entities -> Questions \cup Raises("synthesizer")
                                               \cup Malforms("synthesizer")]}

---------------------------------------------------------------------------
(* S5: a research makes a thesis of its entity, or evolves the one stored. *)

\* Path A: evolve() keeps the id and leaves a terminal status as it is.
Evolved(t, text, now) ==
  [t EXCEPT !.text = text,
            !.status = IF @ \in {"emerging", "mature"} THEN "evolving" ELSE @,
            !.stamps = Append(@, now)]

ThesisOf(r, p) ==
  [id |-> <<r.cycle, r.entity>>, entity |-> p.entity, text |-> p.text,
   status |-> p.status, stamps |-> <<>>,
   supports |-> IF p.supported THEN {<<r.cycle, r.entity>>} ELSE {}]

Proposals(r, entities) ==
  {[entity |-> x, text |-> text, status |-> status, supported |-> supported] :
     x \in {r.entity} \cup (IF "stranger" \in Faults THEN entities ELSE {}),
     text \in Interpretations, status \in Proposed, supported \in Supported}

\* The provider of the stored thesis is called outside the try block, crystallizer or not.
\* What it gives instead of a thesis cannot evolve: the proposal is taken as it is.
Crystallize(c, stored, registry, now) ==
  LET Existing(r) == {t \in stored : t.entity = r.entity}
      Provided(r) ==
        IF "provider" \in Absent
          THEN {None}
          ELSE (IF Existing(r) = {} THEN {None} ELSE Existing(r))
                 \cup Raises("provider") \cup Malforms("provider")
      Proposal(r) ==
        IF "crystallizer" \in Absent
          THEN {None}
          ELSE Proposals(r, registry) \cup Raises("crystallizer")
                 \cup Malforms("crystallizer")
      Answers(r) == [existing : Provided(r), proposal : Proposal(r)]
      Breaks(a) == a.existing = Raised \/ a.proposal = Malformed
      Clear(a) == a.existing # Raised /\ a.proposal \notin {None, Raised, Malformed}
                    /\ a.proposal.text = "clear"
      Made(r, a) == IF a.existing \in {None, Malformed}
                      THEN ThesisOf(r, a.proposal)
                      ELSE Evolved(a.existing, a.proposal.text, now)
      Leaves(answer, taken) ==
        LET clear == {r \in taken : Clear(answer[r])}
            held == {r \in clear : answer[r].proposal.entity \notin c.entities}
        IN [c EXCEPT !.theses = {Made(r, answer[r]) : r \in clear \ held},
                     !.heldTheses = {ThesisOf(r, answer[r].proposal) : r \in held}]
  IN UNION {LET broken == {r \in c.research : Breaks(answer[r])}
            IN {<<Leaves(answer, taken), broken # {}>> :
                  taken \in Taken(c.research, broken)} :
              answer \in {f \in [c.research -> UNION {Answers(r) : r \in c.research}] :
                          \A r \in c.research : f[r] \in Answers(r)}}

---------------------------------------------------------------------------
(* S6: what is still emerging, or is not accepted, waits; the rest has been *)
(* integrated by the time the gates run, if there is an integrator.  The    *)
(* second operand of each pair is what the integrator took.                *)

Ripe(c) == {t \in c.theses : t.status # "emerging"}

\* Mutant: a thesis the integrator refuses stays among the theses.
KeepsRefused(c) ==
  LET Accepted == IF "integrator" \in Faults THEN SUBSET Ripe(c) ELSE {Ripe(c)}
      Leaves(taken) == [c EXCEPT !.theses = Ripe(c), !.pending = c.theses \ Ripe(c)]
  IN IF "integrator" \in Absent
       THEN {<<Leaves(Ripe(c)), {}>>}
       ELSE {<<Leaves(taken), taken>> : taken \in Accepted}

Integrations(c) ==
  LET Accepted == IF "integrator" \in Faults THEN SUBSET Ripe(c) ELSE {Ripe(c)}
      Leaves(taken) == [c EXCEPT !.theses = taken, !.pending = c.theses \ taken]
  IN IF "integrator" \in Absent
       THEN {<<Leaves(Ripe(c)), {}>>}
       ELSE {<<Leaves(taken), taken>> : taken \in Accepted}

\* A failing gate of S6 sends every thesis to the pending ones.
AllPending(c) == [c EXCEPT !.theses = {}, !.pending = @ \cup c.theses]
=============================================================================
