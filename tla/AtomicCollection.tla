--------------------------- MODULE AtomicCollection ---------------------------
(***************************************************************************)
(* What the durable ingestion boundary promises, with no transaction, no   *)
(* client and no failure in sight: the committed tables change only by one *)
(* whole applicable collection command, or by one row through a repository *)
(* port.  SQLiteCollection is shown to implement this specification.       *)
(***************************************************************************)
EXTENDS IngestionTables

CONSTANTS
  MaxRevision,     \* bound: highest checkpoint revision explored
  PortDocuments,   \* documents inserted through DocumentRepository.insert
  PortClaims,      \* claims inserted through DeduplicationRepository
  PortWork,        \* work inserted through WorkItemRepository.insert
  PortSources      \* sources whose checkpoint is moved through its repository

ASSUME PortsAreTyped ==
  /\ MaxRevision \in Nat
  /\ PortDocuments \subseteq RawDocuments
  /\ PortSources \subseteq Sources

VARIABLE db  \* the committed tables

Revisions == {None} \cup 0 .. MaxRevision

\* Batches: documents of one source and binding with distinct ids.
Batches(source, connector) ==
  {batch \in SUBSET {RawDocument(source, e, p, connector) :
                       e \in ExternalIds, p \in Payloads} :
     \A d, e \in batch : d.id = e.id => d = e}

\* Every row the command writes is new to the tables t or already there.
Applicable(t, command) ==
  /\ CheckpointAccepts(t.checkpoints[command.source], command.expected,
                       command.connector)
  /\ \A d \in command.documents :
       /\ DocumentResolves(t.documents, d)
       /\ \A i \in ClaimsOf(d) :
            ClaimResolves(t.documents \cup {d}, t.identities, i)
       /\ WorkResolves(t.work, DocumentWork(d.id))

NewWork(t, documents) ==
  {w \in {DocumentWork(d.id) : d \in documents} : WorkClashes(t.work, w) = {}}

Applied(t, command) ==
  [documents   |-> t.documents \cup command.documents,
   identities  |-> t.identities \cup UNION {ClaimsOf(d) : d \in command.documents},
   work        |-> t.work \cup NewWork(t, command.documents),
   checkpoints |-> [t.checkpoints EXCEPT ![command.source] =
                      AdvancedCheckpoint(command.expected, command.connector,
                                         command.cursor)]]

-----------------------------------------------------------------------------
CommitBatch(command) ==
  /\ Applicable(db, command)
  /\ db' = Applied(db, command)

CommitCollection ==
  \E s \in Sources, k \in Connectors, r \in Revisions, q \in Cursors \cup {None} :
    /\ CheckpointAccepts(db.checkpoints[s], r, k)
    /\ \E batch \in Batches(s, k) :
         CommitBatch([source |-> s, connector |-> k, expected |-> r,
                      cursor |-> q, documents |-> batch])

InsertDocument(d) ==
  /\ DocumentClashes(db.documents, d) = {}
  /\ db' = [db EXCEPT !.documents = @ \cup {d}]

InsertClaim(i) ==
  /\ ClaimResolves(db.documents, db.identities, i)
  /\ db' = [db EXCEPT !.identities = @ \cup {i}]

InsertWork(w) ==
  /\ WorkClashes(db.work, w) = {}
  /\ db' = [db EXCEPT !.work = @ \cup {w}]

CompareAndSet(s, k, r, q) ==
  /\ CheckpointAccepts(db.checkpoints[s], r, k)
  /\ NextRevision(r) <= MaxRevision
  /\ db' = [db EXCEPT !.checkpoints[s] = AdvancedCheckpoint(r, k, q)]

PortInsert ==
  \/ \E d \in PortDocuments : InsertDocument(d)
  \/ \E i \in PortClaims : InsertClaim(i)
  \/ \E w \in PortWork : InsertWork(w)

Init == db = EmptyTables

Next ==
  \/ CommitCollection
  \/ PortInsert
  \/ \E s \in PortSources, k \in Connectors, r \in Revisions,
        q \in Cursors \cup {None} : CompareAndSet(s, k, r, q)

Spec == Init /\ [][Next]_db
=============================================================================
