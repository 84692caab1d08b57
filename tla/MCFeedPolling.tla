--------------------------- MODULE MCFeedPolling ---------------------------
(***************************************************************************)
(* Small feeds.  A behaviour follows one scenario: two pollers of a feed   *)
(* that is revised, two pollers of a manifest, or one poller that has an   *)
(* unrevised feed to itself.                                               *)
(***************************************************************************)
EXTENDS FeedPolling, TLC

CONSTANTS p1, p2

Item(name, date, text, fault) ==
  [name |-> name, date |-> date, text |-> text, fault |-> fault]

\* Two entries of one date, a revision that moves an entry ahead, and an entry
\* without content.
RevisedFeed ==
  {Item(1, 1, 0, "none"), Item(2, 1, 0, "none"), Item(1, 2, 0, "none"),
   Item(3, 2, 0, "no_content")}

\* Every entry is published once, two of them with the same date and one
\* without a name.
StableFeed ==
  {Item(1, 2, 0, "none"), Item(2, 1, 0, "none"), Item(3, 1, 0, "none"),
   Item(NoName, 2, 1, "none")}

\* Filings come in the order of their ids or not; one has a bad date, one no id,
\* and one id appears twice.
Filings ==
  {Item(1, 1, 0, "none"), Item(2, 1, 0, "none"), Item(2, 1, 1, "none"),
   Item(4, 1, 0, "bad_date"), Item(NoName, 1, 0, "none")}

VARIABLE scenario

FeedOf == [rss |-> RevisedFeed, filing |-> Filings, alone |-> StableFeed]

AllEntries == UNION {FeedOf[s] : s \in DOMAIN FeedOf}

MCInit ==
  /\ Init
  /\ scenario \in DOMAIN FeedOf
  /\ connector = IF scenario = "filing" THEN "filing" ELSE "rss"
  /\ watermark = None \/ scenario = "alone"

Alone == scenario = "alone"

\* Bound: every scenario has entries of its own; only a poller alone meets the
\* answers that leave nothing but the failure behind.
Within ==
  /\ feed' \subseteq FeedOf[scenario]
  /\ IF Alone THEN feed \subseteq feed' /\ held'[p2] = Nothing
     ELSE failure' \notin RssFailures \ {Malformed}

MCNext == Next /\ Within /\ UNCHANGED <<connector, scenario>>

\* A poller is scheduled again and again; the provider answers with the feed now
\* and then, and not every batch it answered with is lost in a crash.
Fairness ==
  /\ WF_vars(Alone /\ Conclude(p1)) /\ SF_vars(Alone /\ Fetch(p1))
  /\ SF_vars(Alone /\ held[p1] # Nothing /\ held[p1].records # {} /\ Conclude(p1))

MCSpec == MCInit /\ [][MCNext]_<<vars, connector, scenario>> /\ Fairness

\* Alone with a feed that only grows, a poller stores every entry in the end,
\* through failures, crashes, empty answers and batches of limited size.
AloneCollectsAll ==
  \A e \in StableFeed : (Alone /\ e \in prompt) ~> (ExternalId(e) \in Stored)
=============================================================================
