----------------------------- MODULE Connectors -----------------------------
(***************************************************************************)
(* What the two connectors return.  A connector is a function of what the  *)
(* provider shows, of the checkpoint it is handed and of the limit: it     *)
(* keeps no state.  The RSS cursor is a position (date, external id), the  *)
(* filing cursor an index into the manifest sorted by external id.         *)
(*                                                                         *)
(* An entry is what _parse_entry sees of a feed item: the name the         *)
(* provider gives it (guid, id or link; NoName when it has none), its      *)
(* date, its text, and the fault that makes it unreadable, if any.  Names  *)
(* and generated ids are numbers in the order of the strings.              *)
(***************************************************************************)
EXTENDS Integers, FiniteSets

CONSTANTS
  Names,      \* external ids providers give, positive and below Generated
  Dates,      \* normalized publication timestamps
  Texts,      \* title and content of an entry
  Limit,      \* limit of every collection
  None        \* Python's None

NoName == 0

Faults == {"none", "no_content", "no_date", "bad_date"}

Entries == [name : Names \cup {NoName}, date : Dates, text : Texts, fault : Faults]

ASSUME ConnectorNumbers ==
  /\ Names \subseteq 1 .. 99
  /\ Dates \subseteq Nat
  /\ Texts \subseteq 0 .. 9
  /\ Limit \in Nat \ {0}
  /\ None \notin Nat /\ None \notin [date : Nat, id : Nat]

-----------------------------------------------------------------------------
(* Failures: ConnectorErrorKind and whether the error is retryable. *)

Failure(kind, retryable) == [kind |-> kind, retryable |-> retryable]

Malformed == Failure("malformed_response", FALSE)

\* What a checked record refuses is a ValueError, of no kind.
Invalid == Failure("value_error", FALSE)

\* The transport, the status line, or a body that is no feed.
RssFailures ==
  {Failure("timeout", TRUE), Failure("unavailable", TRUE),
   Failure("content_too_large", FALSE), Failure("rate_limited", TRUE),
   Failure("authentication", FALSE), Failure("permanent", FALSE), Malformed}

\* No manifest, or one that is no list of records.
FilingFailures == {Failure("configuration", FALSE), Malformed}

-----------------------------------------------------------------------------
(* The RSS connector. *)

\* The name, or a hash of title, date and content; every record the filing
\* connector returns has a name.
ExternalId(e) == IF e.name # NoName THEN e.name ELSE 100 + 10 * e.date + e.text

Position(e) == [date |-> e.date, id |-> ExternalId(e)]

Before(p, q) == p.date < q.date \/ (p.date = q.date /\ p.id < q.id)

\* The order of the sort; the order of equal positions is the feed's.
Earlier(d, e) ==
  Before(Position(d), Position(e)) \/ (Position(d) = Position(e) /\ d.text < e.text)

\* Mutant: the cursor compares dates only.
UnreadByDate(feed, cursor, watermark) ==
  {e \in feed : cursor # None => e.date > cursor.date}

Unread(feed, cursor, watermark) ==
  {e \in feed : /\ watermark # None => e.date > watermark
                /\ cursor # None => Before(cursor, Position(e))}

Unparsed(entries) == {e \in entries : e.fault # "none"}

\* entries[: Limit] of the unread entries, sorted.
Earliest(unread) ==
  {e \in unread : Cardinality({d \in unread : Earlier(d, e)}) < Limit}

LastPosition(entries) ==
  Position(CHOOSE e \in entries : \A d \in entries : ~Earlier(e, d))

Batch(records, next) == [records |-> records, next |-> next]

\* Mutant: the cursor moves past everything that was read, not selected.
RssJumps(feed, cursor, watermark) ==
  LET unread == Unread(feed, cursor, watermark)
  IN  Batch(Earliest(unread),
            IF unread = {} THEN cursor ELSE LastPosition(unread))

RssBatch(feed, cursor, watermark) ==
  LET selected == Earliest(Unread(feed, cursor, watermark))
  IN  Batch(selected, IF selected = {} THEN cursor ELSE LastPosition(selected))

NotModified == Batch({}, None)

-----------------------------------------------------------------------------
(* The filing fixture connector: every read sorts the whole manifest. *)

ByExternalId(d, e) ==
  d.name < e.name \/ (d.name = e.name /\ (d.date < e.date \/ (d.date = e.date /\ d.text < e.text)))

Rank(manifest, e) == Cardinality({d \in manifest : ByExternalId(d, e)})

StartOf(cursor) == IF cursor = None THEN 0 ELSE cursor

\* manifest[start : start + Limit], sorted.
Window(manifest, start) ==
  {e \in manifest : Rank(manifest, e) \in start .. start + Limit - 1}

\* Mutant: the cursor advances by the limit, not by what was selected.
FilingOvershoots(feed, cursor) ==
  Batch(Window(feed, StartOf(cursor)), StartOf(cursor) + Limit)

FilingBatch(feed, cursor) ==
  LET selected == Window(feed, StartOf(cursor))
  IN  Batch(selected, StartOf(cursor) + Cardinality(selected))

\* A date is checked by RawDocument, what must be there by the connector.
Unmapped(records) == {e \in records : e.name = NoName \/ e.fault # "none"}

Complaint(e) == IF e.name # NoName /\ e.fault = "bad_date" THEN Invalid ELSE Malformed

-----------------------------------------------------------------------------
Ids(records) == {ExternalId(e) : e \in records}

Repeats(records) == Cardinality(Ids(records)) < Cardinality(records)
=============================================================================
