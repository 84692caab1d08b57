--------------------------- MODULE IngestionTables ---------------------------
(***************************************************************************)
(* The four ingestion tables of migration v0001 and the insert-or-resolve  *)
(* rule of each, as operators on committed or staged tables.  A table is a *)
(* set of rows; the checkpoint table, whose key is the source, is a        *)
(* function.  Rows hold what the rules compare: `payload' stands for every *)
(* field of a document that takes part in equivalence and is not named     *)
(* here (uri, timestamps, content, title, metadata), retrieved_at included.*)
(***************************************************************************)
EXTENDS Naturals

CONSTANTS
  Sources,               \* source ids
  ExternalIds,           \* external ids as a provider spells them
  Payloads,              \* the remaining canonical fields of a document
  Connectors,            \* connector bindings, records with a name and a version
  Cursors,               \* opaque continuation cursors
  Stripped,              \* external_id.strip()
  ContentHash,           \* content_hash of the normalized content
  CollectionVersion,     \* IDENTITY_VERSION
  NormalizationVersion,  \* NORMALIZATION_VERSION
  None                   \* Python's None

ASSUME StrippedIsIdempotent ==
  /\ Stripped \in [ExternalIds -> ExternalIds]
  /\ \A e \in ExternalIds : Stripped[Stripped[e]] = Stripped[e]

Checkpoints ==
  [cursor : Cursors \cup {None}, connector : Connectors, revision : Nat]

ASSUME NoneIsNoValue ==
  /\ None \notin Nat
  /\ None \notin Cursors
  /\ None \notin Checkpoints

-----------------------------------------------------------------------------
(* Identities and documents. *)

CollectionIdentity(source, externalId) == <<source, Stripped[externalId]>>

RawDocumentId(source, externalId) == CollectionIdentity(source, externalId)

DocumentIds == {RawDocumentId(s, e) : s \in Sources, e \in ExternalIds}

\* The documents connectors build: both take the id from raw_document_id.
RawDocument(source, externalId, payload, connector) ==
  [id         |-> RawDocumentId(source, externalId),
   source     |-> source,
   externalId |-> externalId,
   payload    |-> payload,
   connector  |-> connector]

RawDocuments ==
  {RawDocument(s, e, p, k) :
     s \in Sources, e \in ExternalIds, p \in Payloads, k \in Connectors}

\* Every canonical field except the id.
Equivalent(existing, proposed) == [existing EXCEPT !.id = proposed.id] = proposed

\* Rows that PRIMARY KEY (id) or UNIQUE (source_id, external_id) reject d for.
DocumentClashes(documents, d) ==
  {e \in documents :
     e.id = d.id \/ (e.source = d.source /\ e.externalId = d.externalId)}

\* Mutant: a clash is an error, never resolved.
NeverResolves(documents, d) == DocumentClashes(documents, d) = {}

DocumentResolves(documents, d) ==
  \A e \in DocumentClashes(documents, d) : Equivalent(e, d)

\* The row _insert_or_resolve_document returns.
StoredDocument(documents, d) ==
  IF DocumentClashes(documents, d) = {}
  THEN d
  ELSE CHOOSE e \in DocumentClashes(documents, d) : TRUE

-----------------------------------------------------------------------------
(* Deduplication claims. *)

CollectionClaim(d) ==
  [kind     |-> "collection",
   key      |-> CollectionIdentity(d.source, d.externalId),
   version  |-> CollectionVersion,
   document |-> d.id]

ContentClaim(d) ==
  [kind     |-> "content",
   key      |-> ContentHash[d.payload],
   version  |-> NormalizationVersion,
   document |-> d.id]

ClaimsOf(d) == {CollectionClaim(d), ContentClaim(d)}

\* A collection key belongs to one document, a content key to any number.
ClaimClashes(identities, i) ==
  {j \in identities :
     /\ j.kind = i.kind
     /\ j.key = i.key
     /\ j.document = i.document \/ i.kind = "collection"}

ClaimResolves(documents, identities, i) ==
  /\ \A j \in ClaimClashes(identities, i) :
       j.document = i.document /\ j.version = i.version
  /\ ClaimClashes(identities, i) = {} => \E d \in documents : d.id = i.document

-----------------------------------------------------------------------------
(* Work items: `key' is (kind, idempotency_key). *)

DocumentWork(documentId) ==
  [id |-> documentId, key |-> documentId, document |-> documentId]

WorkClashes(work, w) == {v \in work : v.id = w.id \/ v.key = w.key}

WorkResolves(work, w) ==
  \A v \in WorkClashes(work, w) : v.key = w.key /\ v.document = w.document

WithWork(work, w) == IF WorkClashes(work, w) = {} THEN work \cup {w} ELSE work

-----------------------------------------------------------------------------
(* Checkpoints: absent, or bound to a connector at a revision. *)

ExpectedRevision(checkpoint) ==
  IF checkpoint = None THEN None ELSE checkpoint.revision

CursorOf(checkpoint) == IF checkpoint = None THEN None ELSE checkpoint.cursor

\* Mutant: creation replaces a checkpoint that is already there.
ReplacesCheckpoint(stored, expected, connector) ==
  \/ expected = None
  \/ stored # None /\ stored.revision = expected /\ stored.connector = connector

\* INSERT when no revision is expected, else UPDATE ... WHERE.
CheckpointAccepts(stored, expected, connector) ==
  IF expected = None
  THEN stored = None
  ELSE /\ stored # None
       /\ stored.revision = expected
       /\ stored.connector = connector

NextRevision(expected) == IF expected = None THEN 0 ELSE expected + 1

AdvancedCheckpoint(expected, connector, cursor) ==
  [cursor |-> cursor, connector |-> connector, revision |-> NextRevision(expected)]

-----------------------------------------------------------------------------
EmptyTables ==
  [documents   |-> {},
   identities  |-> {},
   work        |-> {},
   checkpoints |-> [s \in Sources |-> None]]
=============================================================================
