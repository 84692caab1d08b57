--------------------------- MODULE MCObjectStore ---------------------------
(***************************************************************************)
(* A small instance of ObjectStore, in two scenarios that do not change in *)
(* a behaviour: two callers and what they write ("theses"), and snapshots  *)
(* with something in every section they may fail in ("sections").          *)
(***************************************************************************)
EXTENDS ObjectStore, TLC

VARIABLE scenario

mcVars == <<vars, scenario>>

CONSTANTS c1, c2

Object(kind, status) == [kind |-> kind, status |-> status, history |-> <<>>]

Theses == {1 :> Object("thesis", s) : s \in {"emerging", "mature"}}

\* One object of every other kind, at the start of its life.
Singles ==
  {1 :> Object("source", "active"), 1 :> Object("signal", "draft"),
   1 :> Object("research", "open"), 1 :> Object("entity", "active")}

\* Sections before and after the evidence.
Sections == {1 :> Object("source", "deactivated") @@ 2 :> Object("thesis", "mature")}

AllStocks == Theses \cup Singles \cup Sections

MCInit ==
  /\ Init
  /\ scenario = IF objects \in Sections THEN "sections" ELSE "theses"

Histories(stock) == {stock[i].history : i \in DOMAIN stock}

\* Bounds.  Nothing is followed past a write from an overwritten copy; overrides are
\* of an object that is there and of one that is not.
Within ==
  /\ ~aged
  /\ \A n \in DOMAIN overrides' : overrides'[n].target \in {1, 3}
  /\ scenario = "theses" => overrides' = <<>> /\ DOMAIN objects' \cap EvidenceIds = {}
  /\ scenario = "sections" => copies'[c2] = None /\ Histories(objects') = {<<>>}

MCSpec == MCInit /\ [][Next /\ Within /\ UNCHANGED scenario]_mcVars
=============================================================================
