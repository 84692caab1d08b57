--------------------------- MODULE SQLiteCollection ---------------------------
(***************************************************************************)
(* Collection coordinators sharing one SQLite file.  Each coordinator      *)
(* reads the checkpoint, collects outside any transaction, and commits one *)
(* batch statement by statement inside BEGIN IMMEDIATE; competing writers  *)
(* use the repository ports.  A process can die between any two steps.     *)
(***************************************************************************)
EXTENDS AtomicCollection

CONSTANT Clients  \* processes running a CollectionCoordinator

VARIABLES
  phase,       \* where collect() of each client is
  checkpoint,  \* its local: the checkpoint read first
  command,     \* its local: the command being built, then committed
  outcome,     \* what its last collect() returned or raised
  writer,      \* the client inside BEGIN IMMEDIATE, or None
  staged,      \* the writer's uncommitted tables
  todo,        \* the writer's loops: documents and work not yet written
  lineage      \* history: every checkpoint write that was committed

clientVars == <<phase, checkpoint, command, outcome>>
txVars == <<writer, staged, todo>>
vars == <<db, clientVars, txVars, lineage>>

ASSUME NoneIsNoClient == None \notin Clients

Phases == {"idle", "collecting", "prepared", "writing", "committing", "ended"}

Errors ==
  {"ValueError", "ConnectorError", "DocumentConflict", "IdentityConflict",
   "WorkItemConflict", "CheckpointConflict", "Operational"}

NoCommand == [source |-> None, connector |-> None, expected |-> None,
              cursor |-> None, documents |-> {}]

NothingToDo == [documents |-> {}, work |-> {}]

-----------------------------------------------------------------------------
(* The coordinator, outside the transaction. *)

\* collect() ends: the transaction, if open, is over and its tables are gone.
End(c, result) ==
  /\ phase' = [phase EXCEPT ![c] = "ended"]
  /\ outcome' = [outcome EXCEPT ![c] = result]
  /\ UNCHANGED <<checkpoint, command>>

\* The locals of collect() are gone.
Forget(c) ==
  /\ phase' = [phase EXCEPT ![c] = "idle"]
  /\ checkpoint' = [checkpoint EXCEPT ![c] = None]
  /\ command' = [command EXCEPT ![c] = NoCommand]
  /\ outcome' = [outcome EXCEPT ![c] = "none"]

NoTransaction == UNCHANGED txVars

\* checkpoints.get, then prepare_collection_work: a CollectionWorkItem rejects
\* a checkpoint of another connector version (get does not return the name).
Start(c, s, k) ==
  LET read == db.checkpoints[s] IN
  /\ phase[c] = "idle"
  /\ checkpoint' = [checkpoint EXCEPT ![c] = read]
  /\ command' = [command EXCEPT ![c] =
       [NoCommand EXCEPT !.source = s, !.connector = k,
                         !.expected = ExpectedRevision(read)]]
  /\ IF read = None \/ read.connector.version = k.version
     THEN /\ phase' = [phase EXCEPT ![c] = "collecting"]
          /\ UNCHANGED outcome
     ELSE /\ phase' = [phase EXCEPT ![c] = "ended"]
          /\ outcome' = [outcome EXCEPT ![c] = "ValueError"]
  /\ UNCHANGED <<db, lineage>> /\ NoTransaction

\* A batch without a cursor keeps the one that was read (_next_checkpoint).
NextCursor(c, returned) ==
  IF returned # None THEN returned ELSE CursorOf(checkpoint[c])

Collect(c, batch, returned) ==
  /\ phase[c] = "collecting"
  /\ NextRevision(command[c].expected) <= MaxRevision
  /\ command' = [command EXCEPT ![c].documents = batch,
                                ![c].cursor = NextCursor(c, returned)]
  /\ phase' = [phase EXCEPT ![c] = "prepared"]
  /\ UNCHANGED <<db, checkpoint, outcome, lineage>> /\ NoTransaction

\* The connector raises, or the batch is partial and collect() refuses it.
CollectFails(c) ==
  /\ phase[c] = "collecting"
  /\ \E error \in {"ConnectorError", "ValueError"} : End(c, error)
  /\ UNCHANGED <<db, lineage>> /\ NoTransaction

\* The caller takes the result or the exception and may collect again.
Return(c) ==
  /\ phase[c] = "ended"
  /\ Forget(c)
  /\ UNCHANGED <<db, lineage>> /\ NoTransaction

-----------------------------------------------------------------------------
(* commit_collection, inside the transaction. *)

\* BEGIN IMMEDIATE takes the only write lock and sees the committed tables.
Begin(c) ==
  /\ phase[c] = "prepared"
  /\ writer = None
  /\ writer' = c
  /\ staged' = db
  /\ todo' = [documents |-> command[c].documents,
              work |-> {DocumentWork(d.id) : d \in command[c].documents}]
  /\ phase' = [phase EXCEPT ![c] = "writing"]
  /\ UNCHANGED <<db, checkpoint, command, outcome, lineage>>

\* Mutant: a writer waits for the lock for ever.
BusyNever(c) == FALSE /\ UNCHANGED vars

\* Another writer outlasts busy_timeout_ms.
BusyTimeout(c) ==
  /\ phase[c] = "prepared"
  /\ writer # None
  /\ End(c, "Operational")
  /\ UNCHANGED <<db, lineage>> /\ NoTransaction

Released ==
  /\ writer' = None
  /\ staged' = EmptyTables
  /\ todo' = NothingToDo

Rollback(c, error) == Released /\ End(c, error) /\ UNCHANGED <<db, lineage>>

\* One turn of the loop over batch.records: the document, then the two claims
\* of the row it resolved to.
WriteDocument(c) ==
  /\ phase[c] = "writing"
  /\ \E d \in todo.documents :
       LET row  == StoredDocument(staged.documents, d)
           docs == staged.documents \cup {row}
           ids  == staged.identities \cup {CollectionClaim(row)}
       IN IF ~ DocumentResolves(staged.documents, d)
          THEN Rollback(c, "DocumentConflict")
          ELSE IF ~ /\ ClaimResolves(docs, staged.identities, CollectionClaim(row))
                    /\ ClaimResolves(docs, ids, ContentClaim(row))
          THEN Rollback(c, "IdentityConflict")
          ELSE /\ staged' = [staged EXCEPT !.documents = docs,
                                           !.identities = @ \cup ClaimsOf(row)]
               /\ todo' = [todo EXCEPT !.documents = @ \ {d}]
               /\ UNCHANGED <<db, clientVars, writer, lineage>>

\* One turn of the loop over document_work_items.
WriteWork(c) ==
  /\ phase[c] = "writing"
  /\ todo.documents = {}
  /\ \E w \in todo.work :
       IF ~ WorkResolves(staged.work, w)
       THEN Rollback(c, "WorkItemConflict")
       ELSE /\ staged' = [staged EXCEPT !.work = WithWork(@, w)]
            /\ todo' = [todo EXCEPT !.work = @ \ {w}]
            /\ UNCHANGED <<db, clientVars, writer, lineage>>

\* Mutant: the checkpoint is committed before the loops are done.
AdvanceEarly(c) ==
  /\ phase[c] = "writing"
  /\ staged' = [staged EXCEPT !.checkpoints[command[c].source] =
                  AdvancedCheckpoint(command[c].expected, command[c].connector,
                                     command[c].cursor)]
  /\ phase' = [phase EXCEPT ![c] = "committing"]
  /\ UNCHANGED <<db, checkpoint, command, outcome, writer, todo, lineage>>

\* The compare-and-set is the last statement.
AdvanceCheckpoint(c) ==
  LET cmd == command[c] IN
  /\ phase[c] = "writing"
  /\ todo = NothingToDo
  /\ IF ~ CheckpointAccepts(staged.checkpoints[cmd.source], cmd.expected, cmd.connector)
     THEN Rollback(c, "CheckpointConflict")
     ELSE /\ staged' = [staged EXCEPT !.checkpoints[cmd.source] =
                          AdvancedCheckpoint(cmd.expected, cmd.connector, cmd.cursor)]
          /\ phase' = [phase EXCEPT ![c] = "committing"]
          /\ UNCHANGED <<db, checkpoint, command, outcome, writer, todo, lineage>>

Commit(c) ==
  /\ phase[c] = "committing"
  /\ db' = staged
  /\ lineage' = lineage \cup
                {[command |-> command[c], from |-> CursorOf(checkpoint[c])]}
  /\ Released
  /\ End(c, "committed")

\* sqlite3.Error from a statement or from COMMIT.
StorageFails(c) ==
  /\ phase[c] \in {"writing", "committing"}
  /\ Rollback(c, "Operational")

-----------------------------------------------------------------------------
(* The process dies; SQLite drops an uncommitted transaction on recovery.  A
   crash in phase "ended" loses the result of a commit that happened. *)
Crash(c) ==
  /\ phase[c] # "idle"
  /\ Forget(c)
  /\ IF writer = c THEN Released ELSE NoTransaction
  /\ UNCHANGED <<db, lineage>>

(* A port call is a transaction of one statement: it needs the write lock. *)
PortWrite ==
  /\ writer = None
  /\ PortInsert
  /\ UNCHANGED <<clientVars, txVars, lineage>>

PortCheckpoint(s, k, r, q) ==
  /\ writer = None
  /\ CompareAndSet(s, k, r, q)
  /\ lineage' = lineage \cup
                {[command |-> [source |-> s, connector |-> k, expected |-> r,
                               cursor |-> q, documents |-> {}],
                  from |-> CursorOf(db.checkpoints[s])]}
  /\ UNCHANGED <<clientVars, txVars>>

-----------------------------------------------------------------------------
SystemInit ==
  /\ Init
  /\ phase = [c \in Clients |-> "idle"]
  /\ checkpoint = [c \in Clients |-> None]
  /\ command = [c \in Clients |-> NoCommand]
  /\ outcome = [c \in Clients |-> "none"]
  /\ writer = None
  /\ staged = EmptyTables
  /\ todo = NothingToDo
  /\ lineage = {}

CollectBatch(c) ==
  \E batch \in Batches(command[c].source, command[c].connector),
     returned \in Cursors \cup {None} : Collect(c, batch, returned)

\* What a client that is collecting does next, unless storage fails or it dies.
ClientStep(c) ==
  \/ phase[c] = "collecting" /\ CollectBatch(c)
  \/ CollectFails(c)
  \/ Begin(c)
  \/ BusyTimeout(c)
  \/ WriteDocument(c)
  \/ WriteWork(c)
  \/ AdvanceCheckpoint(c)
  \/ Commit(c)
  \/ Return(c)

SystemNext ==
  \/ \E c \in Clients :
       \/ \E s \in Sources, k \in Connectors : Start(c, s, k)
       \/ ClientStep(c)
       \/ StorageFails(c)
       \/ Crash(c)
  \/ PortWrite
  \/ \E s \in PortSources, k \in Connectors, r \in Revisions,
        q \in Cursors \cup {None} : PortCheckpoint(s, k, r, q)

SystemSpec == SystemInit /\ [][SystemNext]_vars

\* A live process takes its next step: connector I/O and the wait for the write
\* lock are bounded by timeouts.  Nothing is assumed of new collections.
Fairness == \A c \in Clients : WF_vars(ClientStep(c))

FairSpec == SystemSpec /\ Fairness

-----------------------------------------------------------------------------
(* Properties. *)

Claims ==
  (UNION {ClaimsOf(d) : d \in RawDocuments}) \cup PortClaims

WorkRows == {DocumentWork(i) : i \in DocumentIds} \cup PortWork

Tables ==
  [documents   : SUBSET RawDocuments,
   identities  : SUBSET Claims,
   work        : SUBSET WorkRows,
   checkpoints : [Sources -> Checkpoints \cup {None}]]

Commands ==
  [source : Sources, connector : Connectors, expected : Nat \cup {None},
   cursor : Cursors \cup {None}, documents : SUBSET RawDocuments]

\* Every variable keeps its type, and whoever is collecting has a command.
TypeOK ==
  /\ db \in Tables
  /\ phase \in [Clients -> Phases]
  /\ checkpoint \in [Clients -> Checkpoints \cup {None}]
  /\ command \in [Clients -> Commands \cup {NoCommand}]
  /\ \A c \in Clients : phase[c] # "idle" => command[c] \in Commands
  /\ outcome \in [Clients -> Errors \cup {"none", "committed"}]
  /\ writer \in Clients \cup {None}
  /\ staged \in Tables
  /\ todo \in [documents : SUBSET RawDocuments, work : SUBSET WorkRows]
  /\ lineage \subseteq [command : Commands, from : Cursors \cup {None}]

-----------------------------------------------------------------------------
(* The inductive invariant behind the safety properties. *)

\* Whoever is between BEGIN and COMMIT is the one writer.
LockInv ==
  \A c \in Clients : phase[c] \in {"writing", "committing"} <=> writer = c

\* What was read is a past of what is stored: same row, or one left behind.
ReadInv ==
  \A c \in Clients : phase[c] # "idle" =>
    LET read == checkpoint[c]  stored == db.checkpoints[command[c].source] IN
    /\ command[c].expected = ExpectedRevision(read)
    /\ read # None =>
         /\ stored # None
         /\ read.revision <= stored.revision
         /\ read.revision = stored.revision => read = stored

\* A client past its connector holds an admissible batch.
BatchInv ==
  \A c \in Clients : phase[c] \in {"prepared", "writing", "committing"} =>
    /\ command[c].documents \in Batches(command[c].source, command[c].connector)
    /\ NextRevision(command[c].expected) <= MaxRevision

\* The staged tables are the committed ones, which nobody else can change, plus
\* exactly what the loops have done, all of it resolvable against them.
StagedInv ==
  \A c \in Clients : phase[c] \in {"writing", "committing"} =>
    LET cmd  == command[c]
        docs == cmd.documents \ todo.documents
        all  == {DocumentWork(d.id) : d \in cmd.documents}
        work == all \ todo.work
    IN /\ todo.documents \subseteq cmd.documents
       /\ todo.work \subseteq all
       /\ staged.documents = db.documents \cup docs
       /\ staged.identities = db.identities \cup UNION {ClaimsOf(d) : d \in docs}
       /\ \A d \in docs :
            /\ DocumentResolves(db.documents, d)
            /\ \A i \in ClaimsOf(d) :
                 ClaimResolves(db.documents \cup {d}, db.identities, i)
       /\ staged.work = db.work \cup {w \in work : WorkClashes(db.work, w) = {}}
       /\ \A w \in work : WorkResolves(db.work, w)

\* The checkpoint is staged last, and only if it may be.
CheckpointInv ==
  \A c \in Clients :
    LET cmd == command[c] IN
    /\ phase[c] = "writing" => staged.checkpoints = db.checkpoints
    /\ phase[c] = "committing" =>
         /\ todo = NothingToDo
         /\ CheckpointAccepts(db.checkpoints[cmd.source], cmd.expected, cmd.connector)
         /\ staged.checkpoints = [db.checkpoints EXCEPT ![cmd.source] =
              AdvancedCheckpoint(cmd.expected, cmd.connector, cmd.cursor)]

\* The stored checkpoint is the youngest write of its source's lineage.
HeadInv ==
  \A s \in Sources :
    LET stored == db.checkpoints[s] IN
    /\ stored = None => \A l \in lineage : l.command.source # s
    /\ stored # None =>
         /\ \A l \in lineage : l.command.source = s =>
              NextRevision(l.command.expected) <= stored.revision
         /\ \E l \in lineage :
              /\ l.command.source = s
              /\ l.command.connector = stored.connector
              /\ l.command.cursor = stored.cursor
              /\ NextRevision(l.command.expected) = stored.revision

ProtocolInv ==
  TypeOK /\ LockInv /\ ReadInv /\ BatchInv /\ StagedInv /\ CheckpointInv /\ HeadInv

-----------------------------------------------------------------------------
\* A committed batch is in the tables whole, and stays there: every document,
\* its two claims, its pending work, and a checkpoint past the revision it was
\* built on (commit_collection is one transaction; no port removes a row).
BatchesStayWhole ==
  \A l \in lineage :
    LET cmd == l.command IN
    /\ \A d \in cmd.documents :
         /\ d \in db.documents
         /\ ClaimsOf(d) \subseteq db.identities
         /\ \E w \in db.work : w.key = d.id /\ w.document = d.id
    /\ db.checkpoints[cmd.source] # None
    /\ db.checkpoints[cmd.source].revision >= NextRevision(cmd.expected)

\* No fork and no gap in a source's progress: two committed writes never build
\* on the same checkpoint, and each was collected from exactly the cursor its
\* predecessor left (the compare-and-set of a checkpoint read long before).
ProgressIsAChain ==
  \A l \in lineage :
    /\ \A m \in lineage :
         (l.command.source = m.command.source
            /\ l.command.expected = m.command.expected) => l = m
    /\ l.command.expected # None =>
         \E m \in lineage :
           /\ m.command.source = l.command.source
           /\ m.command.connector = l.command.connector
           /\ NextRevision(m.command.expected) = l.command.expected
           /\ m.command.cursor = l.from

\* A refused collector is refused for a reason it can find in the committed
\* tables: a checkpoint that moved since it was read or belongs to another
\* connector, or a different document under an identity of its batch.
ConflictsAreReal ==
  \A c \in Clients : phase[c] = "ended" =>
    /\ outcome[c] = "CheckpointConflict" =>
         LET stored == db.checkpoints[command[c].source] IN
         stored # checkpoint[c] \/ stored.connector # command[c].connector
    /\ outcome[c] = "DocumentConflict" =>
         \E d \in command[c].documents, e \in db.documents :
           d.id = e.id /\ d # e

\* Without direct port writes no row is an orphan, whatever fails or dies in
\* between: the documents that exist, the documents claimed under either kind
\* and the documents queued for processing are the same.
NoOrphans ==
  LET ids == {d.id : d \in db.documents} IN
  /\ {w.document : w \in db.work} = ids
  /\ \A kind \in {"collection", "content"} :
       {i.document : i \in {j \in db.identities : j.kind = kind}} = ids

\* Rows are never changed or removed, and a checkpoint only moves forward by
\* one revision, under the connector binding it was created with.
TablesOnlyGrow ==
  [][/\ db.documents \subseteq db'.documents
     /\ db.identities \subseteq db'.identities
     /\ db.work \subseteq db'.work
     /\ \A s \in Sources :
          LET old == db.checkpoints[s]  new == db'.checkpoints[s] IN
          old # None =>
            \/ new = old
            \/ /\ new.connector = old.connector
               /\ new.revision = old.revision + 1]_vars

\* The detailed protocol implements the atomic boundary: whatever statements,
\* failures and crashes lie in between, the committed tables change as in
\* AtomicCollection!Spec (the stutter is named first to spare TLC the search
\* for a command on every step that leaves db alone).
ImplementsAtomicCollection == Init /\ [][db' # db /\ Next]_db

\* A collection that has begun ends, in a result, an exception or a crash.
CollectionsEnd == \A c \in Clients : phase[c] # "idle" ~> phase[c] = "idle"

\* What ADR-008 says of a race to create a checkpoint: the loser is told
\* CheckpointConflictError.
CreationRaceIsCheckpointConflict ==
  \A c \in Clients :
    (/\ phase[c] = "ended"
     /\ outcome[c] \in {"DocumentConflict", "IdentityConflict",
                        "WorkItemConflict", "CheckpointConflict"}
     /\ command[c].expected = None
     /\ db.checkpoints[command[c].source] # None)
       => outcome[c] = "CheckpointConflict"
=============================================================================
