----------------------------- MODULE Lifecycles -----------------------------
(***************************************************************************)
(* The transition graphs of the domain objects (core/lifecycle.py) and the *)
(* methods that follow them.  An object is frozen: a method returns another *)
(* one or raises, so each is the set of what it may return, empty when it  *)
(* raises.                                                                 *)
(***************************************************************************)
EXTENDS Naturals, Sequences

SignalGraph ==
  {<<"draft", "verified">>, <<"draft", "rejected">>, <<"verified", "active">>,
   <<"verified", "held">>, <<"verified", "rejected">>, <<"active", "decayed">>,
   <<"active", "superseded">>, <<"held", "active">>, <<"held", "rejected">>}

ThesisGraph ==
  {<<"emerging", "evolving">>, <<"emerging", "superseded">>} \cup
  {<<"evolving", "mature">>, <<"mature", "evolving">>} \cup
  ({"evolving", "mature"} \X {"superseded", "retired"})

ResearchGraph ==
  {<<"open", "ongoing">>, <<"ongoing", "paused">>, <<"open", "paused">>,
   <<"paused", "ongoing">>} \cup ({"open", "ongoing", "paused"} \X {"concluded"})

SourceGraph ==
  {<<"active", "deactivated">>, <<"deactivated", "active">>} \cup
  ({"active", "deactivated"} \X {"retired"})

EntityStatuses == {"active", "renamed", "inactive", "delisted", "acquired"}

\* Entities have no graph: rename and retire ignore the status they start from, and
\* reclassify replaces any field, the status too.
EntityGraph == EntityStatuses \X EntityStatuses

Graph ==
  [signal |-> SignalGraph, thesis |-> ThesisGraph, research |-> ResearchGraph,
   source |-> SourceGraph, entity |-> EntityGraph]

\* A source is built with any string: "unknown" stands for those outside the graph.
Unchecked(kind) == IF kind = "source" THEN {"unknown"} ELSE {}

StatusesOf(kind) ==
  {e[1] : e \in Graph[kind]} \cup {e[2] : e \in Graph[kind]} \cup Unchecked(kind)

\* What the plain methods of each class may be asked to become.
Methods ==
  [signal |-> {"verified", "active", "held", "rejected", "decayed", "superseded"},
   thesis |-> {"mature", "retired"},
   research |-> {"ongoing", "paused", "concluded"},
   source |-> {"active", "deactivated", "retired"},
   entity |-> EntityStatuses]

\* Terminal methods that return the object itself when it is already there.
Repeatable ==
  {<<"source", "retired">>, <<"research", "concluded">>, <<"thesis", "retired">>,
   <<"thesis", "superseded">>}

Moved(o, to) ==
  IF o.status = to /\ <<o.kind, to>> \in Repeatable THEN {o}
  ELSE {[o EXCEPT !.status = s] : s \in {t \in {to} : <<o.status, t>> \in Graph[o.kind]}}

\* Mutant: an evolution puts every thesis to work again, the settled ones too.
EvolvedReopens(thesis, entry) ==
  [thesis EXCEPT !.status = "evolving", !.history = Append(@, entry)]

Evolved(thesis, entry) ==
  [thesis EXCEPT !.status = IF @ \in {"emerging", "mature"} THEN "evolving" ELSE @,
                 !.history = Append(@, entry)]

\* Mutant: the mark replaces the history instead of joining it.
MarkForgets(thesis, entry) ==
  {[o EXCEPT !.history = <<entry>>] : o \in Moved(thesis, "superseded")}

\* Marking a thesis superseded twice returns the marked thesis as it is.
Marked(thesis, entry) ==
  {IF o = thesis THEN o ELSE [o EXCEPT !.history = Append(@, entry)] :
     o \in Moved(thesis, "superseded")}

\* The successor starts with the whole history of the thesis it supersedes.
Successor(thesis, entry) ==
  [thesis EXCEPT !.status = "emerging", !.history = Append(@, entry)]
=============================================================================
