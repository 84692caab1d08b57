--------------------------- MODULE MCRuntimeCycle ---------------------------
(***************************************************************************)
(* Small instances of RuntimeCycle.                                        *)
(***************************************************************************)
EXTENDS RuntimeCycle, TLC

CONSTANTS acme, rival,      \* entities
          wire, blog        \* sources

Item(name, text, timely, known) ==
  [name |-> name, text |-> text, timely |-> timely, known |-> known]

\* Nothing, one good item, or a good one beside one of each defect.
MixedFeeds ==
  {{}, {Item("a", "full", TRUE, TRUE)},
   {Item("a", "full", TRUE, TRUE), Item("b", "full", TRUE, FALSE)},
   {Item("a", "full", TRUE, TRUE), Item("c", "blank", TRUE, TRUE),
    Item("d", "full", FALSE, TRUE)}}

\* Two good items: a loop can break between them.
PairedFeeds == {{Item("a", "full", TRUE, TRUE), Item("b", "full", TRUE, TRUE)}}

AllFeeds == MixedFeeds \cup PairedFeeds

OneFeed == {{Item("a", "full", TRUE, TRUE)}}

Draft(claim, status, cites) == [claim |-> claim, status |-> status, cites |-> cites]

MixedDrafts ==
  {{}, {Draft("specific", "draft", "own")},
   {Draft("specific", "draft", "own"), Draft("short", "draft", "own"),
    Draft("vague", "draft", "own"), Draft("specific", "active", "own")}}

GoodDrafts == {{Draft("specific", "draft", "own")}}

\* Two drafts of one evidence that cite what the extractor was not given.
CitingDrafts == {{Draft("specific", "draft", "all"), Draft("specific", "draft", "made up")}}

StoredThesis(e, status) ==
  [id |-> <<0, e>>, entity |-> e, text |-> "clear", status |-> status,
   stamps |-> <<>>, supports |-> {<<0, e>>}]

StoreWith(sources, entities, theses) ==
  [sources |-> sources, entities |-> entities, evidence |-> {}, signals |-> {},
   research |-> {}, theses |-> theses]

\* One source, one entity, with a thesis of each status or none.
SingleStores ==
  {StoreWith(wire :> "active", {acme}, theses) :
     theses \in {{}} \cup {{StoredThesis(acme, s)} : s \in {"emerging", "mature", "retired"}}}
    \cup {StoreWith(wire :> "active", {}, {})}

\* Two sources, one of them deactivated.
PairStores == {StoreWith(wire :> "active" @@ blog :> "deactivated", {acme}, {})}

\* Two entities: a stage works on two groups, two theses go on together.
TwoEntityStores ==
  {StoreWith(wire :> "active", {acme, rival}, theses) :
     theses \in {{}, {StoredThesis(acme, "mature"), StoredThesis(rival, "evolving")}}}

EntityStores == SingleStores \cup TwoEntityStores

\* Every answer of interfaces that fail one by one; interfaces, integrator and store that
\* fail in more ways, over a narrower choice of answers; interfaces that answer nonsense,
\* and an extractor that cites freely; no integrator and no provider; nothing at all.
MCInterfaces ==
  [varied |->
     [faults |-> {"observer", "producer", "resolver", "extractor", "synthesizer",
                  "provider", "crystallizer", "pipeline"},
      nonsense |-> {}, absent |-> {},
      feeds |-> AllFeeds, texts |-> {"full", "blank"}, retrievable |-> BOOLEAN,
      drafts |-> MixedDrafts, resolved |-> {acme, rival, None},
      questions |-> {"asked", "blank"}, interpretations |-> {"clear"},
      proposed |-> {"emerging", "evolving"}, supported |-> {TRUE}],
   faulty |->
     [faults |-> {"observer", "provider", "crystallizer", "stranger", "integrator", "store"},
      nonsense |-> {"producer"}, absent |-> {},
      feeds |-> OneFeed, texts |-> {"full"}, retrievable |-> BOOLEAN,
      drafts |-> GoodDrafts, resolved |-> {acme, rival},
      questions |-> {"asked"}, interpretations |-> {"clear", "short", "blank"},
      proposed |-> {"emerging", "evolving"}, supported |-> {TRUE}],
   broken |->
     [faults |-> {},
      nonsense |-> {"producer"}, absent |-> {},
      feeds |-> PairedFeeds, texts |-> {"full", "blank"}, retrievable |-> BOOLEAN,
      drafts |-> GoodDrafts, resolved |-> {acme},
      questions |-> {"asked"}, interpretations |-> {"clear"},
      proposed |-> {"evolving"}, supported |-> {TRUE}],
   nonsense |->
     [faults |-> {},
      nonsense |-> {"observer", "producer", "extractor", "synthesizer", "provider",
                    "crystallizer"}, absent |-> {},
      feeds |-> PairedFeeds, texts |-> {"full"}, retrievable |-> BOOLEAN,
      drafts |-> CitingDrafts, resolved |-> {acme, rival},
      questions |-> {"asked"}, interpretations |-> {"clear"},
      proposed |-> {"emerging", "evolving"}, supported |-> {TRUE}],
   bare |->
     [faults |-> {"store"},
      nonsense |-> {}, absent |-> {"provider", "integrator"},
      feeds |-> OneFeed, texts |-> {"full"}, retrievable |-> BOOLEAN,
      drafts |-> GoodDrafts, resolved |-> {acme, rival},
      questions |-> {"asked"}, interpretations |-> {"clear"},
      proposed |-> {"emerging", "evolving"}, supported |-> BOOLEAN],
   default |->
     [faults |-> {},
      nonsense |-> {}, absent |-> {"observer", "producer", "extractor", "synthesizer",
                                   "provider", "crystallizer", "integrator"},
      feeds |-> OneFeed, texts |-> {"full"}, retrievable |-> BOOLEAN,
      drafts |-> GoodDrafts, resolved |-> {None},
      questions |-> {"asked"}, interpretations |-> {"clear"},
      proposed |-> {"evolving"}, supported |-> {TRUE}]]

MCStores ==
  [varied |-> EntityStores, faulty |-> EntityStores \cup PairStores,
   broken |-> EntityStores, nonsense |-> EntityStores, bare |-> EntityStores,
   default |-> EntityStores]

\* Bound: what a second cycle finds is explored with the narrower choice.
MCCycles ==
  [varied |-> 1, faulty |-> 2, broken |-> 2, nonsense |-> 1, bare |-> 2, default |-> 1]

\* After the last cycle nothing is left to do; anywhere else run() goes on.
Rested == at = "idle" /\ cycle = MaxCycles /\ UNCHANGED vars

MCSpec == Init /\ [][(Next \/ Rested) /\ UNCHANGED installed]_<<vars, installed>>
=============================================================================
