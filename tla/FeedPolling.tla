---------------------------- MODULE FeedPolling ----------------------------
(***************************************************************************)
(* A source polled through the coordinator: the provider publishes, revises*)
(* and withdraws entries while pollers read the checkpoint, fetch a batch  *)
(* and commit it.  A commit is atomic here (SQLiteCollection shows that it *)
(* is) and refuses a batch whose checkpoint moved since it was read, or    *)
(* with a document whose id is stored: every fetch stamps its documents    *)
(* with a new retrieved_at, so a document fetched again is never           *)
(* equivalent to the stored one.  Revisions are compared by the set of     *)
(* pollers that hold an outdated one, which keeps the model finite without *)
(* a bound on the number of polls.                                         *)
(***************************************************************************)
EXTENDS Connectors

CONSTANTS
  Pollers,
  Watermarks,      \* watermarks a checkpoint can start with
  Published        \* the entries the provider can publish

\* What makes an entry unreadable is part of what it says.
ASSUME EntriesArePublished ==
  /\ Published \subseteq Entries
  /\ \A d, e \in Published : d.name = e.name /\ d.date = e.date /\ d.text = e.text => d = e
ASSUME WatermarksAreDates == Watermarks \subseteq Nat

VARIABLES
  connector,   \* "rss" or "filing"; a source keeps its connector
  feed,        \* what the provider shows
  store,       \* [id, entry] of the committed documents
  cursor,      \* cursor of the stored checkpoint, None when there is none
  watermark,   \* its watermark
  held,        \* batch a poller fetched and did not commit
  stale,       \* pollers whose checkpoint revision is outdated
  failure,     \* how the last fetch or commit failed, None if it did not
  prompt,      \* history: entries published ahead of every cursor in use
  shaken       \* history: the manifest changed at or before a cursor in use

vars == <<feed, store, cursor, watermark, held, stale, failure, prompt, shaken>>

\* A poller without a batch: no records, no cursor on its way.
Nothing == [next |-> None]

Stored == {d.id : d \in store}

Documents(records) ==
  {[id |-> ExternalId(e), entry |-> e] : e \in records}

Cursors == IF connector = "rss" THEN [date : Nat, id : Nat] ELSE Nat

Batches == [records : SUBSET Published, next : Cursors \cup {None}]

TypeOK ==
  /\ connector \in {"rss", "filing"}
  /\ feed \subseteq Published /\ IsFiniteSet(feed) /\ prompt \subseteq feed
  /\ store \subseteq Documents(Published)
  /\ cursor \in Cursors \cup {None} /\ watermark \in Watermarks \cup {None}
  /\ held \in [Pollers -> Batches \cup {Nothing}]
  /\ \A p \in Pollers : held[p] # Nothing =>
       IsFiniteSet(held[p].records) /\ Cardinality(held[p].records) <= Limit
  /\ stale \subseteq Pollers /\ shaken \in BOOLEAN

Init ==
  /\ connector \in {"rss", "filing"}
  /\ feed = {} /\ store = {} /\ cursor = None
  /\ watermark \in Watermarks \cup {None}
  /\ held = [p \in Pollers |-> Nothing]
  /\ stale = {} /\ failure = None
  /\ prompt = {} /\ shaken = FALSE

-----------------------------------------------------------------------------
(* The provider. *)

\* Cursors that are stored or on their way into the checkpoint.
CursorsInUse == {cursor} \cup {held[p].next : p \in Pollers}

Ahead(e) ==
  /\ watermark # None => e.date > watermark
  /\ \A c \in CursorsInUse : c # None => Before(c, Position(e))

\* Some cursor in use counts a record that e moves, or e itself; a record
\* appended at the end moves none.
Shifts(e) ==
  /\ e \in feed \/ Rank(feed, e) < Cardinality(feed)
  /\ \E c \in CursorsInUse : c # None /\ Rank(feed, e) < c

Publish(e) ==
  /\ e \notin feed
  /\ feed' = feed \cup {e}
  /\ prompt' = IF connector = "rss" /\ Ahead(e) THEN prompt \cup {e} ELSE prompt
  /\ shaken' = (shaken \/ (connector = "filing" /\ Shifts(e)))
  /\ UNCHANGED <<store, cursor, watermark, held, stale, failure>>

Withdraw(e) ==
  /\ e \in feed
  /\ feed' = feed \ {e}
  /\ prompt' = prompt \ {e}
  /\ shaken' = (shaken \/ (connector = "filing" /\ Shifts(e)))
  /\ UNCHANGED <<store, cursor, watermark, held, stale, failure>>

-----------------------------------------------------------------------------
(* A poller. *)

Connect ==
  IF connector = "rss" THEN RssBatch(feed, cursor, watermark) ELSE FilingBatch(feed, cursor)

\* RSS parses the whole feed, the manifest only the selected records.
Unreadable(batch) ==
  IF connector = "rss" THEN Unparsed(feed) # {} ELSE Unmapped(batch.records) # {}

Complaints(batch) ==
  IF connector = "rss" THEN {Malformed} ELSE {Complaint(e) : e \in Unmapped(batch.records)}

Fetch(p) ==
  /\ held[p] = Nothing
  /\ LET batch == Connect IN
       IF Unreadable(batch) THEN failure' \in Complaints(batch) /\ UNCHANGED held
       ELSE IF Repeats(batch.records) THEN failure' = Invalid /\ UNCHANGED held
       ELSE held' = [held EXCEPT ![p] = batch] /\ failure' = None
  /\ UNCHANGED <<feed, store, cursor, watermark, stale, prompt, shaken>>

FetchNothing(p) ==
  /\ connector = "rss" /\ held[p] = Nothing
  /\ held' = [held EXCEPT ![p] = NotModified]
  /\ failure' = None
  /\ UNCHANGED <<feed, store, cursor, watermark, stale, prompt, shaken>>

FetchFails(p) ==
  /\ held[p] = Nothing
  /\ failure' \in IF connector = "rss" THEN RssFailures ELSE FilingFailures
  /\ UNCHANGED <<feed, store, cursor, watermark, held, stale, prompt, shaken>>

\* Mutant: an id that is stored already is no obstacle.
NeverClashes(p) == {}

Clashes(p) == {d \in Documents(held[p].records) : d.id \in Stored}

NextCursor(p) == IF held[p].next # None THEN held[p].next ELSE cursor

\* Mutant: the revision read with the checkpoint is not compared.
AcceptsAll(p) == Clashes(p) = {}

Accepted(p) == Clashes(p) = {} /\ p \notin stale

Commit(p) ==
  /\ held[p] # Nothing /\ Accepted(p)
  /\ store' = store \cup Documents(held[p].records)
  /\ cursor' = NextCursor(p)
  /\ stale' = {q \in Pollers \ {p} : held[q] # Nothing}
  /\ held' = [held EXCEPT ![p] = Nothing]
  /\ failure' = None
  /\ UNCHANGED <<feed, watermark, prompt, shaken>>

Refuse(p) ==
  /\ held[p] # Nothing /\ ~Accepted(p)
  /\ held' = [held EXCEPT ![p] = Nothing]
  /\ failure' = Failure(IF Clashes(p) # {} THEN "document_conflict" ELSE "checkpoint_conflict",
                        FALSE)
  /\ stale' = stale \ {p}
  /\ UNCHANGED <<feed, store, cursor, watermark, prompt, shaken>>

Crash(p) ==
  /\ held[p] # Nothing
  /\ held' = [held EXCEPT ![p] = Nothing]
  /\ stale' = stale \ {p}
  /\ UNCHANGED <<feed, store, cursor, watermark, failure, prompt, shaken>>

Conclude(p) == Commit(p) \/ Refuse(p)

Next ==
  \/ \E e \in Published : Publish(e) \/ Withdraw(e)
  \/ \E p \in Pollers :
       Fetch(p) \/ FetchNothing(p) \/ FetchFails(p) \/ Conclude(p) \/ Crash(p)

Spec == Init /\ [][Next /\ UNCHANGED connector]_<<vars, connector>>

-----------------------------------------------------------------------------
(* Properties. *)

\* An RSS entry that was published ahead of every cursor in use is stored by
\* the time the cursor has passed it: neither the limit, nor a refused commit,
\* nor equal dates make a poll step over it.
NothingSkipped ==
  \A e \in prompt :
    cursor # None /\ ~Before(cursor, Position(e)) => ExternalId(e) \in Stored

\* A poll that builds on the current checkpoint never fetches the same RSS
\* entry again; only a revised entry can clash with the stored documents.
NothingTwice ==
  \A p \in Pollers :
    connector = "rss" /\ held[p] # Nothing /\ p \notin stale
      => Documents(held[p].records) \cap store = {}

\* No commit moves the cursor back, whichever poller it belongs to.
CursorNeverGoesBack ==
  [][cursor # None /\ cursor' # cursor
       => IF connector = "rss" THEN Before(cursor, cursor') ELSE cursor < cursor']_vars

\* As long as the manifest grows only behind the cursors in use, the filing
\* cursor counts a prefix of the sorted manifest that is stored completely.
PrefixCollected ==
  connector = "filing" /\ ~shaken =>
    \A e \in feed : Rank(feed, e) < StartOf(cursor) => ExternalId(e) \in Stored

\* Behind the cursor is what is stored: no RSS document lies ahead of it, and
\* an unshaken filing cursor, stored or on its way, stays inside the manifest.
CursorInv ==
  IF connector = "rss"
  THEN /\ \A d \in store : cursor # None /\ ~Before(cursor, Position(d.entry))
       /\ \A e \in prompt : watermark # None => e.date > watermark
  ELSE /\ prompt = {}
       /\ ~shaken => \A c \in CursorsInUse : c # None => c <= Cardinality(feed)

\* Storing the records of a batch that is built on the current checkpoint leaves
\* nothing behind its next cursor.
RssBatchInv(batch) ==
  /\ batch.records = {} => batch.next \in {None, cursor}
  /\ batch.records # {} => batch.next # None /\ (cursor # None => Before(cursor, batch.next))
  /\ \A e \in batch.records : /\ cursor # None => Before(cursor, Position(e))
                              /\ ~Before(batch.next, Position(e))
  /\ batch.next # None => \A e \in prompt : ~Before(batch.next, Position(e)) =>
       ExternalId(e) \in Stored \cup Ids(batch.records)

FilingBatchInv(batch) ==
  /\ batch.next = StartOf(cursor) + Cardinality(batch.records)
  /\ ~shaken => \A e \in feed : Rank(feed, e) < batch.next =>
       ExternalId(e) \in Stored \cup Ids(batch.records)

BatchInv ==
  \A p \in Pollers : held[p] # Nothing /\ p \notin stale =>
    IF connector = "rss" THEN RssBatchInv(held[p]) ELSE FilingBatchInv(held[p])

\* Types, what a fetch returns and a cursor counts, and what a batch on its way
\* promises about both.
FeedInv == TypeOK /\ NothingTwice /\ PrefixCollected /\ CursorInv /\ BatchInv

\* The next fetch cannot be committed, and nothing on its way can.
Jammed ==
  /\ \A p \in Pollers :
       held[p] # Nothing => p \in stale \/ held[p].records = {} \/ Clashes(p) # {}
  /\ LET next == Connect IN
       \/ Unreadable(next)
       \/ Repeats(next.records)
       \/ Ids(next.records) \cap Stored # {}

\* A source whose next batch holds an unreadable entry, two entries of one id
\* or an id that is stored stays stuck until the provider changes the feed: no
\* poll, retry or restart stores a document or frees it.
JamIsStable ==
  [][feed' = feed /\ Jammed => store' = store /\ Jammed']_vars
=============================================================================
