------------------------ MODULE SQLiteCollectionProofs ------------------------
(***************************************************************************)
(* Theorems about SQLiteCollection for every value of its constants.       *)
(***************************************************************************)
EXTENDS SQLiteCollection, TLAPS

-----------------------------------------------------------------------------
(* Facts about the operators the actions are built from. *)

\* The id of every document is derived from its source and external id.
LEMMA RawDocumentFields ==
  ASSUME NEW d \in RawDocuments
  PROVE  /\ d.source \in Sources /\ d.externalId \in ExternalIds
         /\ d.payload \in Payloads /\ d.connector \in Connectors
         /\ d.id = RawDocumentId(d.source, d.externalId)
         /\ d.id \in DocumentIds
         /\ d = RawDocument(d.source, d.externalId, d.payload, d.connector)
BY DEF RawDocuments, RawDocument, DocumentIds

LEMMA WorkType ==
  ASSUME NEW D \in SUBSET RawDocuments
  PROVE  {DocumentWork(d.id) : d \in D} \subseteq WorkRows
BY RawDocumentFields DEF WorkRows

LEMMA BatchType ==
  ASSUME NEW s \in Sources, NEW k \in Connectors, NEW batch \in Batches(s, k)
  PROVE  batch \in SUBSET RawDocuments
BY DEF Batches, RawDocuments

LEMMA StoredDocumentType ==
  ASSUME NEW D \in SUBSET RawDocuments, NEW d \in RawDocuments
  PROVE  StoredDocument(D, d) \in RawDocuments
BY DEF StoredDocument, DocumentClashes

LEMMA ClaimsType ==
  ASSUME NEW d \in RawDocuments
  PROVE  ClaimsOf(d) \in SUBSET Claims
BY DEF Claims

LEMMA AdvancedType ==
  ASSUME NEW r \in Nat \cup {None}, NEW k \in Connectors, NEW q \in Cursors \cup {None}
  PROVE  AdvancedCheckpoint(r, k, q) \in Checkpoints
BY NoneIsNoValue DEF AdvancedCheckpoint, NextRevision, Checkpoints

LEMMA ReadType ==
  ASSUME NEW p \in Checkpoints \cup {None}
  PROVE  /\ ExpectedRevision(p) \in Nat \cup {None}
         /\ CursorOf(p) \in Cursors \cup {None}
BY DEF ExpectedRevision, CursorOf, Checkpoints

LEMMA EmptyTablesType == EmptyTables \in Tables
BY DEF EmptyTables, Tables

-----------------------------------------------------------------------------
(* Type correctness, one step per action. *)

LEMMA InitTypeOK == SystemInit => TypeOK
BY EmptyTablesType, NoneIsNoClient
   DEF SystemInit, Init, TypeOK, Phases, NothingToDo

LEMMA StartTypeOK ==
  ASSUME TypeOK, NEW c \in Clients, NEW s \in Sources, NEW k \in Connectors,
         Start(c, s, k)
  PROVE  TypeOK'
<1>1. db.checkpoints[s] \in Checkpoints \cup {None}
  BY DEF TypeOK, Tables
<1>2. ExpectedRevision(db.checkpoints[s]) \in Nat \cup {None}
  BY <1>1, ReadType
<1>3. [NoCommand EXCEPT !.source = s, !.connector = k,
                        !.expected = ExpectedRevision(db.checkpoints[s])] \in Commands
  BY <1>2 DEF NoCommand, Commands
<1> QED
  BY <1>1, <1>3 DEF TypeOK, Start, NoTransaction, txVars, Phases, Errors

LEMMA CollectTypeOK ==
  ASSUME TypeOK, NEW c \in Clients, phase[c] = "collecting", CollectBatch(c)
  PROVE  TypeOK'
<1>1. PICK batch \in Batches(command[c].source, command[c].connector),
           returned \in Cursors \cup {None} : Collect(c, batch, returned)
  BY DEF CollectBatch
<1>2. command[c] \in Commands /\ checkpoint[c] \in Checkpoints \cup {None}
  BY DEF TypeOK
<1>3. batch \in SUBSET RawDocuments
  BY <1>2, BatchType DEF Commands
<1>4. NextCursor(c, returned) \in Cursors \cup {None}
  BY <1>2, ReadType DEF NextCursor
<1>5. command'[c] \in Commands
  BY <1>1, <1>2, <1>3, <1>4 DEF Collect, Commands, TypeOK
<1> QED
  BY <1>1, <1>5 DEF TypeOK, Collect, NoTransaction, txVars, Phases

LEMMA EndTypeOK ==
  ASSUME TypeOK, NEW c \in Clients, NEW r \in Errors \cup {"committed"},
         phase[c] # "idle", End(c, r)
  PROVE  /\ phase' \in [Clients -> Phases]
         /\ checkpoint' \in [Clients -> Checkpoints \cup {None}]
         /\ command' \in [Clients -> Commands \cup {NoCommand}]
         /\ \A x \in Clients : phase'[x] # "idle" => command'[x] \in Commands
         /\ outcome' \in [Clients -> Errors \cup {"none", "committed"}]
BY DEF TypeOK, End, Phases

LEMMA ReleasedTypeOK ==
  ASSUME Released
  PROVE  /\ writer' \in Clients \cup {None}
         /\ staged' \in Tables
         /\ todo' \in [documents : SUBSET RawDocuments, work : SUBSET WorkRows]
BY EmptyTablesType DEF Released, NothingToDo

LEMMA RollbackTypeOK ==
  ASSUME TypeOK, NEW c \in Clients, NEW r \in Errors, phase[c] # "idle",
         Rollback(c, r)
  PROVE  TypeOK'
BY EndTypeOK, ReleasedTypeOK DEF TypeOK, Rollback

LEMMA FailTypeOK ==
  ASSUME TypeOK, NEW c \in Clients, CollectFails(c) \/ BusyTimeout(c) \/ StorageFails(c)
  PROVE  TypeOK'
<1>1. CASE CollectFails(c)
  <2>1. PICK error \in {"ConnectorError", "ValueError"} : End(c, error)
    BY <1>1 DEF CollectFails
  <2>2. error \in Errors /\ phase[c] # "idle"
    BY <1>1 DEF Errors, CollectFails
  <2> QED
    BY <1>1, <2>1, <2>2, EndTypeOK DEF TypeOK, CollectFails, NoTransaction, txVars
<1>2. CASE BusyTimeout(c)
  <2>1. "Operational" \in Errors /\ phase[c] # "idle"
    BY <1>2 DEF Errors, BusyTimeout
  <2> QED
    BY <1>2, <2>1, EndTypeOK DEF TypeOK, BusyTimeout, NoTransaction, txVars
<1>3. CASE StorageFails(c)
  BY <1>3, RollbackTypeOK DEF StorageFails, Errors
<1> QED BY <1>1, <1>2, <1>3

LEMMA BeginTypeOK ==
  ASSUME TypeOK, NEW c \in Clients, Begin(c)
  PROVE  TypeOK'
<1>1. command[c] \in Commands
  BY DEF TypeOK, Begin
<1>2. {DocumentWork(d.id) : d \in command[c].documents} \in SUBSET WorkRows
  BY <1>1, WorkType DEF Commands
<1> QED
  BY <1>1, <1>2 DEF TypeOK, Begin, Phases, Commands

LEMMA WriteDocumentTypeOK ==
  ASSUME TypeOK, NEW c \in Clients, WriteDocument(c)
  PROVE  TypeOK'
<1> DEFINE row(d) == StoredDocument(staged.documents, d)
<1>1. phase[c] # "idle" /\ {"DocumentConflict", "IdentityConflict"} \subseteq Errors
  BY DEF WriteDocument, Errors
<1>2. PICK d \in todo.documents :
        \/ Rollback(c, "DocumentConflict") \/ Rollback(c, "IdentityConflict")
        \/ /\ staged' = [staged EXCEPT !.documents = @ \cup {row(d)},
                                       !.identities = @ \cup ClaimsOf(row(d))]
           /\ todo' = [todo EXCEPT !.documents = @ \ {d}]
           /\ UNCHANGED <<db, clientVars, writer, lineage>>
  BY DEF WriteDocument
<1>3. row(d) \in RawDocuments
  BY StoredDocumentType DEF TypeOK, Tables
<1>4. ClaimsOf(row(d)) \in SUBSET Claims
  BY <1>3, ClaimsType
<1>5. CASE \E r \in Errors : Rollback(c, r)
  BY <1>1, <1>5, RollbackTypeOK
<1>6. CASE /\ staged' = [staged EXCEPT !.documents = @ \cup {row(d)},
                                       !.identities = @ \cup ClaimsOf(row(d))]
           /\ todo' = [todo EXCEPT !.documents = @ \ {d}]
           /\ UNCHANGED <<db, clientVars, writer, lineage>>
  <2>1. staged' \in Tables
    BY <1>3, <1>4, <1>6 DEF TypeOK, Tables
  <2> HIDE DEF row
  <2> QED BY <1>6, <2>1 DEF TypeOK, clientVars
<1> QED BY <1>1, <1>2, <1>5, <1>6

LEMMA WriteWorkTypeOK ==
  ASSUME TypeOK, NEW c \in Clients, WriteWork(c)
  PROVE  TypeOK'
<1>1. phase[c] # "idle" /\ "WorkItemConflict" \in Errors
  BY DEF WriteWork, Errors
<1>2. PICK w \in todo.work :
        \/ Rollback(c, "WorkItemConflict")
        \/ /\ staged' = [staged EXCEPT !.work = WithWork(@, w)]
           /\ todo' = [todo EXCEPT !.work = @ \ {w}]
           /\ UNCHANGED <<db, clientVars, writer, lineage>>
  BY DEF WriteWork
<1>3. WithWork(staged.work, w) \in SUBSET WorkRows
  BY DEF WithWork, TypeOK, Tables
<1>4. CASE Rollback(c, "WorkItemConflict")
  BY <1>1, <1>4, RollbackTypeOK
<1>5. CASE /\ staged' = [staged EXCEPT !.work = WithWork(@, w)]
           /\ todo' = [todo EXCEPT !.work = @ \ {w}]
           /\ UNCHANGED <<db, clientVars, writer, lineage>>
  <2>1. staged' \in Tables
    BY <1>3, <1>5 DEF TypeOK, Tables
  <2> QED BY <1>5, <2>1 DEF TypeOK, clientVars
<1> QED BY <1>2, <1>4, <1>5

LEMMA AdvanceTypeOK ==
  ASSUME TypeOK, NEW c \in Clients, AdvanceCheckpoint(c)
  PROVE  TypeOK'
<1> DEFINE cmd == command[c]
           new == AdvancedCheckpoint(cmd.expected, cmd.connector, cmd.cursor)
<1>1. phase[c] # "idle" /\ "CheckpointConflict" \in Errors
  BY DEF AdvanceCheckpoint, Errors
<1>2. cmd \in Commands
  BY <1>1 DEF TypeOK
<1>3. new \in Checkpoints
  BY <1>2, AdvancedType DEF Commands
<1>4. CASE Rollback(c, "CheckpointConflict")
  BY <1>1, <1>4, RollbackTypeOK
<1>5. CASE /\ staged' = [staged EXCEPT !.checkpoints[cmd.source] = new]
           /\ phase' = [phase EXCEPT ![c] = "committing"]
           /\ UNCHANGED <<db, checkpoint, command, outcome, writer, todo, lineage>>
  <2>1. staged' \in Tables
    BY <1>3, <1>5 DEF TypeOK, Tables
  <2> QED BY <1>2, <1>5, <2>1 DEF TypeOK, Phases
<1> QED BY <1>4, <1>5 DEF AdvanceCheckpoint

LEMMA CommitTypeOK ==
  ASSUME TypeOK, NEW c \in Clients, Commit(c)
  PROVE  TypeOK'
<1>1. phase[c] # "idle" /\ command[c] \in Commands
  BY DEF TypeOK, Commit
<1>2. CursorOf(checkpoint[c]) \in Cursors \cup {None}
  BY ReadType DEF TypeOK
<1>3. lineage' \subseteq [command : Commands, from : Cursors \cup {None}]
  BY <1>1, <1>2 DEF TypeOK, Commit
<1> QED
  BY <1>1, <1>3, EndTypeOK, ReleasedTypeOK DEF TypeOK, Commit

LEMMA ForgetTypeOK ==
  ASSUME TypeOK, NEW c \in Clients, Return(c) \/ Crash(c)
  PROVE  TypeOK'
<1>1. /\ phase' \in [Clients -> Phases]
      /\ checkpoint' \in [Clients -> Checkpoints \cup {None}]
      /\ command' \in [Clients -> Commands \cup {NoCommand}]
      /\ \A x \in Clients : phase'[x] # "idle" => command'[x] \in Commands
      /\ outcome' \in [Clients -> Errors \cup {"none", "committed"}]
  BY DEF TypeOK, Return, Crash, Forget, Phases
<1> QED
  BY <1>1, ReleasedTypeOK DEF TypeOK, Return, Crash, NoTransaction, txVars

LEMMA PortTypeOK ==
  ASSUME TypeOK,
         \/ PortWrite
         \/ \E s \in PortSources, k \in Connectors, r \in Revisions,
               q \in Cursors \cup {None} : PortCheckpoint(s, k, r, q)
  PROVE  TypeOK'
<1>1. CASE PortWrite
  <2>1. db' \in Tables
    <3>1. CASE \E d \in PortDocuments : InsertDocument(d)
      BY <3>1, PortsAreTyped DEF InsertDocument, TypeOK, Tables
    <3>2. CASE \E i \in PortClaims : InsertClaim(i)
      BY <3>2 DEF InsertClaim, TypeOK, Tables, Claims
    <3>3. CASE \E w \in PortWork : InsertWork(w)
      BY <3>3 DEF InsertWork, TypeOK, Tables, WorkRows
    <3> QED BY <1>1, <3>1, <3>2, <3>3 DEF PortWrite, PortInsert
  <2> QED BY <1>1, <2>1 DEF TypeOK, PortWrite, clientVars, txVars
<1>2. ASSUME NEW s \in PortSources, NEW k \in Connectors, NEW r \in Revisions,
             NEW q \in Cursors \cup {None}, PortCheckpoint(s, k, r, q)
      PROVE  TypeOK'
  <2>1. s \in Sources /\ r \in Nat \cup {None}
    BY PortsAreTyped DEF Revisions
  <2>2. AdvancedCheckpoint(r, k, q) \in Checkpoints
    BY <2>1, AdvancedType
  <2>3. db' \in Tables
    BY <1>2, <2>1, <2>2 DEF PortCheckpoint, CompareAndSet, TypeOK, Tables
  <2>4. CursorOf(db.checkpoints[s]) \in Cursors \cup {None}
    BY <2>1, ReadType DEF TypeOK, Tables
  <2>5. lineage' \subseteq [command : Commands, from : Cursors \cup {None}]
    BY <1>2, <2>1, <2>4 DEF PortCheckpoint, TypeOK, Commands
  <2> QED BY <1>2, <2>3, <2>5 DEF TypeOK, PortCheckpoint, clientVars, txVars
<1> QED BY <1>1, <1>2

LEMMA NextTypeOK == TypeOK /\ [SystemNext]_vars => TypeOK'
<1> SUFFICES ASSUME TypeOK, [SystemNext]_vars PROVE TypeOK'
  OBVIOUS
<1>1. ASSUME NEW c \in Clients, NEW s \in Sources, NEW k \in Connectors,
             Start(c, s, k)
      PROVE  TypeOK'
  BY <1>1, StartTypeOK
<1>2. ASSUME NEW c \in Clients, ClientStep(c) \/ StorageFails(c) \/ Crash(c)
      PROVE  TypeOK'
  BY <1>2, CollectTypeOK, FailTypeOK, BeginTypeOK, WriteDocumentTypeOK,
     WriteWorkTypeOK, AdvanceTypeOK, CommitTypeOK, ForgetTypeOK DEF ClientStep
<1>3. CASE UNCHANGED vars
  BY <1>3 DEF TypeOK, vars, clientVars, txVars
<1> QED BY <1>1, <1>2, <1>3, PortTypeOK DEF SystemNext

\* Every reachable state is typed, whatever clients and ports do.
THEOREM TypeCorrect == SystemSpec => []TypeOK
BY InitTypeOK, NextTypeOK, PTL DEF SystemSpec

-----------------------------------------------------------------------------
(* The protocol invariant, one lemma per kind of step. *)

LEMMA InitProtocolInv == SystemInit => ProtocolInv
<1> SUFFICES ASSUME SystemInit PROVE ProtocolInv
  OBVIOUS
<1>1. TypeOK
  BY InitTypeOK
<1>2. LockInv /\ ReadInv /\ BatchInv /\ StagedInv /\ CheckpointInv
  BY NoneIsNoClient DEF SystemInit, LockInv, ReadInv, BatchInv, StagedInv, CheckpointInv
<1>3. HeadInv
  BY DEF SystemInit, Init, EmptyTables, HeadInv
<1> QED BY <1>1, <1>2, <1>3 DEF ProtocolInv

\* A step of one client outside the transaction disturbs only what is said of
\* that client's reading and batch.
LEMMA OutsideStep ==
  ASSUME ProtocolInv, TypeOK', NEW c \in Clients,
         UNCHANGED <<db, writer, staged, todo, lineage>>,
         phase[c] \notin {"writing", "committing"},
         phase'[c] \notin {"writing", "committing"},
         \A x \in Clients \ {c} : /\ phase'[x] = phase[x]
                                  /\ checkpoint'[x] = checkpoint[x]
                                  /\ command'[x] = command[x],
         phase'[c] # "idle" =>
           LET read == checkpoint'[c]  stored == db.checkpoints[command'[c].source] IN
           /\ command'[c].expected = ExpectedRevision(read)
           /\ read # None =>
                /\ stored # None
                /\ read.revision <= stored.revision
                /\ read.revision = stored.revision => read = stored,
         phase'[c] = "prepared" =>
           /\ command'[c].documents \in Batches(command'[c].source, command'[c].connector)
           /\ NextRevision(command'[c].expected) <= MaxRevision
  PROVE  ProtocolInv'
<1>1. LockInv'
  BY DEF ProtocolInv, LockInv
<1>2. ReadInv'
  BY DEF ProtocolInv, ReadInv
<1>3. BatchInv'
  BY DEF ProtocolInv, BatchInv
<1>4. StagedInv'
  BY DEF ProtocolInv, StagedInv
<1>5. CheckpointInv'
  BY DEF ProtocolInv, CheckpointInv
<1>6. HeadInv'
  BY DEF ProtocolInv, HeadInv
<1> QED BY <1>1, <1>2, <1>3, <1>4, <1>5, <1>6 DEF ProtocolInv

LEMMA StartProtocolInv ==
  ASSUME ProtocolInv, NEW c \in Clients, NEW s \in Sources, NEW k \in Connectors,
         Start(c, s, k)
  PROVE  ProtocolInv'
<1> DEFINE read == db.checkpoints[s]
<1>1. TypeOK /\ TypeOK'
  BY StartTypeOK DEF ProtocolInv
<1>2. read \in Checkpoints \cup {None}
  BY <1>1 DEF TypeOK, Tables
<1>3. /\ checkpoint'[c] = read
      /\ command'[c].source = s
      /\ command'[c].expected = ExpectedRevision(read)
      /\ phase'[c] \in {"collecting", "ended"}
      /\ phase[c] = "idle"
      /\ UNCHANGED <<db, writer, staged, todo, lineage>>
      /\ \A x \in Clients \ {c} : /\ phase'[x] = phase[x]
                                  /\ checkpoint'[x] = checkpoint[x]
                                  /\ command'[x] = command[x]
  BY <1>1 DEF Start, TypeOK, NoCommand, NoTransaction, txVars
<1>4. read # None => read.revision <= read.revision
  BY <1>2 DEF Checkpoints
<1> QED BY <1>1, <1>3, <1>4, OutsideStep

LEMMA CollectProtocolInv ==
  ASSUME ProtocolInv, NEW c \in Clients, phase[c] = "collecting", CollectBatch(c)
  PROVE  ProtocolInv'
<1>1. TypeOK /\ TypeOK'
  BY CollectTypeOK DEF ProtocolInv
<1>2. PICK batch \in Batches(command[c].source, command[c].connector),
           returned \in Cursors \cup {None} : Collect(c, batch, returned)
  BY DEF CollectBatch
<1>3. command[c] \in Commands
  BY <1>1 DEF TypeOK
<1>4. /\ command'[c].source = command[c].source
      /\ command'[c].connector = command[c].connector
      /\ command'[c].expected = command[c].expected
      /\ command'[c].documents = batch
  BY <1>1, <1>2, <1>3 DEF Collect, Commands, TypeOK
<1>5. /\ phase'[c] = "prepared" /\ checkpoint'[c] = checkpoint[c]
      /\ NextRevision(command[c].expected) <= MaxRevision
      /\ UNCHANGED <<db, writer, staged, todo, lineage>>
      /\ \A x \in Clients \ {c} : /\ phase'[x] = phase[x]
                                  /\ checkpoint'[x] = checkpoint[x]
                                  /\ command'[x] = command[x]
  BY <1>1, <1>2 DEF Collect, TypeOK, NoTransaction, txVars
<1>6. LET read == checkpoint[c]  stored == db.checkpoints[command[c].source] IN
      /\ command[c].expected = ExpectedRevision(read)
      /\ read # None =>
           /\ stored # None
           /\ read.revision <= stored.revision
           /\ read.revision = stored.revision => read = stored
  BY DEF ProtocolInv, ReadInv
<1> QED BY <1>1, <1>4, <1>5, <1>6, OutsideStep

LEMMA EndProtocolInv ==
  ASSUME ProtocolInv, TypeOK', NEW c \in Clients, NEW r,
         phase[c] \in {"collecting", "prepared"}, End(c, r),
         UNCHANGED <<db, writer, staged, todo, lineage>>
  PROVE  ProtocolInv'
<1>1. /\ phase'[c] = "ended"
      /\ checkpoint' = checkpoint /\ command' = command
      /\ \A x \in Clients \ {c} : phase'[x] = phase[x]
  BY DEF End, ProtocolInv, TypeOK
<1>2. LET read == checkpoint[c]  stored == db.checkpoints[command[c].source] IN
      /\ command[c].expected = ExpectedRevision(read)
      /\ read # None =>
           /\ stored # None
           /\ read.revision <= stored.revision
           /\ read.revision = stored.revision => read = stored
  BY DEF ProtocolInv, ReadInv
<1> QED BY <1>1, <1>2, OutsideStep

LEMMA ReturnProtocolInv ==
  ASSUME ProtocolInv, NEW c \in Clients, Return(c)
  PROVE  ProtocolInv'
<1>1. TypeOK /\ TypeOK'
  BY ForgetTypeOK DEF ProtocolInv
<1>2. /\ phase'[c] = "idle" /\ phase[c] = "ended"
      /\ UNCHANGED <<db, writer, staged, todo, lineage>>
      /\ \A x \in Clients \ {c} : /\ phase'[x] = phase[x]
                                  /\ checkpoint'[x] = checkpoint[x]
                                  /\ command'[x] = command[x]
  BY <1>1 DEF Return, Forget, TypeOK, NoTransaction, txVars
<1> QED BY <1>1, <1>2, OutsideStep

\* A transaction that is rolled back or dies with its client leaves no trace.
LEMMA AbandonProtocolInv ==
  ASSUME ProtocolInv, TypeOK', NEW c \in Clients, Released,
         UNCHANGED <<db, lineage>>, writer = c,
         phase'[c] \in {"idle", "ended"},
         phase'[c] = "ended" => /\ checkpoint'[c] = checkpoint[c]
                                /\ command'[c] = command[c],
         \A x \in Clients \ {c} : /\ phase'[x] = phase[x]
                                  /\ checkpoint'[x] = checkpoint[x]
                                  /\ command'[x] = command[x]
  PROVE  ProtocolInv'
<1>1. \A x \in Clients : phase'[x] \notin {"writing", "committing"}
  BY DEF ProtocolInv, LockInv
<1>2. phase[c] # "idle"
  BY DEF ProtocolInv, LockInv
<1>3. LockInv'
  BY <1>1, NoneIsNoClient DEF LockInv, Released
<1>4. ReadInv'
  BY <1>2 DEF ProtocolInv, ReadInv
<1>5. BatchInv'
  BY <1>1 DEF ProtocolInv, BatchInv
<1>6. StagedInv' /\ CheckpointInv'
  BY <1>1 DEF StagedInv, CheckpointInv
<1>7. HeadInv'
  BY DEF ProtocolInv, HeadInv
<1> QED BY <1>3, <1>4, <1>5, <1>6, <1>7 DEF ProtocolInv

LEMMA RollbackProtocolInv ==
  ASSUME ProtocolInv, NEW c \in Clients, NEW r \in Errors,
         phase[c] \in {"writing", "committing"}, Rollback(c, r)
  PROVE  ProtocolInv'
<1>1. TypeOK /\ TypeOK'
  BY RollbackTypeOK DEF ProtocolInv
<1>2. writer = c
  BY DEF ProtocolInv, LockInv
<1>3. /\ phase'[c] = "ended" /\ checkpoint' = checkpoint /\ command' = command
      /\ \A x \in Clients \ {c} : phase'[x] = phase[x]
      /\ Released /\ UNCHANGED <<db, lineage>>
  BY <1>1 DEF Rollback, End, TypeOK
<1> QED BY <1>1, <1>2, <1>3, AbandonProtocolInv

LEMMA CrashProtocolInv ==
  ASSUME ProtocolInv, NEW c \in Clients, Crash(c)
  PROVE  ProtocolInv'
<1>1. TypeOK /\ TypeOK'
  BY ForgetTypeOK DEF ProtocolInv
<1>2. /\ phase'[c] = "idle"
      /\ UNCHANGED <<db, lineage>>
      /\ \A x \in Clients \ {c} : /\ phase'[x] = phase[x]
                                  /\ checkpoint'[x] = checkpoint[x]
                                  /\ command'[x] = command[x]
  BY <1>1 DEF Crash, Forget, TypeOK
<1>3. CASE writer = c
  BY <1>1, <1>2, <1>3, AbandonProtocolInv DEF Crash
<1>4. CASE writer # c
  <2>1. phase[c] \notin {"writing", "committing"}
    BY <1>4 DEF ProtocolInv, LockInv
  <2>2. UNCHANGED <<writer, staged, todo>>
    BY <1>4 DEF Crash, NoTransaction, txVars
  <2> QED BY <1>1, <1>2, <2>1, <2>2, OutsideStep
<1> QED BY <1>3, <1>4

LEMMA FailProtocolInv ==
  ASSUME ProtocolInv, NEW c \in Clients,
         CollectFails(c) \/ BusyTimeout(c) \/ StorageFails(c)
  PROVE  ProtocolInv'
<1>1. TypeOK /\ TypeOK'
  BY FailTypeOK DEF ProtocolInv
<1>2. CASE CollectFails(c)
  BY <1>1, <1>2, EndProtocolInv DEF CollectFails, NoTransaction, txVars
<1>3. CASE BusyTimeout(c)
  BY <1>1, <1>3, EndProtocolInv DEF BusyTimeout, NoTransaction, txVars
<1>4. CASE StorageFails(c)
  BY <1>4, RollbackProtocolInv DEF StorageFails, Errors
<1> QED BY <1>2, <1>3, <1>4

LEMMA BeginProtocolInv ==
  ASSUME ProtocolInv, NEW c \in Clients, Begin(c)
  PROVE  ProtocolInv'
<1>1. TypeOK /\ TypeOK'
  BY BeginTypeOK DEF ProtocolInv
<1>2. /\ phase[c] = "prepared" /\ phase'[c] = "writing"
      /\ writer = None /\ writer' = c
      /\ staged' = db
      /\ todo' = [documents |-> command[c].documents,
                  work |-> {DocumentWork(d.id) : d \in command[c].documents}]
      /\ UNCHANGED <<db, checkpoint, command, outcome, lineage>>
      /\ \A x \in Clients \ {c} : phase'[x] = phase[x]
  BY <1>1 DEF Begin, TypeOK
<1>3. \A x \in Clients \ {c} : phase'[x] \notin {"writing", "committing"}
  BY <1>2, NoneIsNoClient DEF ProtocolInv, LockInv
<1>4. LockInv'
  BY <1>2, <1>3 DEF LockInv
<1>5. ReadInv'
  BY <1>2 DEF ProtocolInv, ReadInv
<1>6. BatchInv'
  BY <1>2 DEF ProtocolInv, BatchInv
<1>7. StagedInv'
  BY <1>2, <1>3 DEF StagedInv
<1>8. CheckpointInv'
  BY <1>2, <1>3 DEF CheckpointInv
<1>9. HeadInv'
  BY <1>2 DEF ProtocolInv, HeadInv
<1> QED BY <1>1, <1>4, <1>5, <1>6, <1>7, <1>8, <1>9 DEF ProtocolInv

\* A clash that resolves is the very document: ids are derived, so equivalence
\* leaves no field in which the two could differ.
LEMMA ResolvedIsSame ==
  ASSUME NEW D \in SUBSET RawDocuments, NEW d \in RawDocuments,
         DocumentResolves(D, d), NEW e \in DocumentClashes(D, d)
  PROVE  e = d
<1>1. e \in RawDocuments /\ Equivalent(e, d)
  BY DEF DocumentResolves, DocumentClashes
<1>2. e.source = d.source /\ e.externalId = d.externalId
  BY <1>1 DEF Equivalent, RawDocuments, RawDocument
<1>3. e.id = d.id
  BY <1>1, <1>2, RawDocumentFields
<1> QED BY <1>1, <1>3 DEF Equivalent, RawDocuments, RawDocument

LEMMA StoredIsSame ==
  ASSUME NEW D \in SUBSET RawDocuments, NEW d \in RawDocuments,
         DocumentResolves(D, d)
  PROVE  StoredDocument(D, d) = d
BY ResolvedIsSame DEF StoredDocument

\* What resolves against more rows resolves against fewer.
LEMMA ResolvesMonotone ==
  ASSUME NEW D, NEW E, D \subseteq E, NEW d, DocumentResolves(E, d)
  PROVE  DocumentResolves(D, d)
BY DEF DocumentResolves, DocumentClashes

LEMMA WorkResolvesMonotone ==
  ASSUME NEW V, NEW W, V \subseteq W, NEW w, WorkResolves(W, w)
  PROVE  WorkResolves(V, w)
BY DEF WorkResolves, WorkClashes

LEMMA ClaimMonotone ==
  ASSUME NEW d \in RawDocuments, NEW D, NEW I, NEW J, I \subseteq J,
         NEW i \in ClaimsOf(d), ClaimResolves(D, J, i)
  PROVE  \A E : ClaimResolves(E \cup {d}, I, i)
<1>1. i.document = d.id
  BY DEF ClaimsOf, CollectionClaim, ContentClaim
<1>2. ClaimClashes(I, i) \subseteq ClaimClashes(J, i)
  BY DEF ClaimClashes
<1> QED BY <1>1, <1>2 DEF ClaimResolves

LEMMA WriteDocumentProtocolInv ==
  ASSUME ProtocolInv, NEW c \in Clients, WriteDocument(c)
  PROVE  ProtocolInv'
<1> DEFINE cmd == command[c]
           docs == cmd.documents \ todo.documents
<1>1. TypeOK /\ TypeOK'
  BY WriteDocumentTypeOK DEF ProtocolInv
<1>2. phase[c] = "writing" /\ writer = c
  BY DEF WriteDocument, ProtocolInv, LockInv
<1>3. {"DocumentConflict", "IdentityConflict"} \subseteq Errors
  BY DEF Errors
<1>4. PICK d \in todo.documents :
        \/ \E r \in Errors : Rollback(c, r)
        \/ LET row == StoredDocument(staged.documents, d) IN
           /\ DocumentResolves(staged.documents, d)
           /\ ClaimResolves(staged.documents \cup {row}, staged.identities,
                            CollectionClaim(row))
           /\ ClaimResolves(staged.documents \cup {row},
                            staged.identities \cup {CollectionClaim(row)},
                            ContentClaim(row))
           /\ staged' = [staged EXCEPT !.documents = @ \cup {row},
                                       !.identities = @ \cup ClaimsOf(row)]
           /\ todo' = [todo EXCEPT !.documents = @ \ {d}]
           /\ UNCHANGED <<db, clientVars, writer, lineage>>
  BY <1>3 DEF WriteDocument
<1>5. CASE \E r \in Errors : Rollback(c, r)
  BY <1>2, <1>5, RollbackProtocolInv
<1>6. CASE ~ \E r \in Errors : Rollback(c, r)
  <2>1. d \in RawDocuments /\ staged.documents \in SUBSET RawDocuments
    BY <1>1 DEF TypeOK, Tables
  <2>2. StoredDocument(staged.documents, d) = d /\ DocumentResolves(staged.documents, d)
    BY <1>4, <1>6, <2>1, StoredIsSame
  <2>3. /\ ClaimResolves(staged.documents \cup {d}, staged.identities, CollectionClaim(d))
        /\ ClaimResolves(staged.documents \cup {d},
                         staged.identities \cup {CollectionClaim(d)}, ContentClaim(d))
        /\ staged' = [staged EXCEPT !.documents = @ \cup {d},
                                    !.identities = @ \cup ClaimsOf(d)]
        /\ todo' = [todo EXCEPT !.documents = @ \ {d}]
        /\ UNCHANGED <<db, clientVars, writer, lineage>>
    BY <1>4, <1>6, <2>2
  <2>4. /\ todo.documents \subseteq cmd.documents
        /\ staged.documents = db.documents \cup docs
        /\ staged.identities = db.identities \cup UNION {ClaimsOf(x) : x \in docs}
        /\ \A x \in docs :
             /\ DocumentResolves(db.documents, x)
             /\ \A i \in ClaimsOf(x) :
                  ClaimResolves(db.documents \cup {x}, db.identities, i)
    BY <1>2 DEF ProtocolInv, StagedInv
  <2>5. DocumentResolves(db.documents, d)
    BY <2>2, <2>4, ResolvesMonotone
  <2>6. \A i \in ClaimsOf(d) : ClaimResolves(db.documents \cup {d}, db.identities, i)
    <3>1. db.identities \subseteq staged.identities
      BY <2>4
    <3>2. db.identities \subseteq staged.identities \cup {CollectionClaim(d)}
      BY <3>1
    <3>3. ClaimResolves(db.documents \cup {d}, db.identities, CollectionClaim(d))
      BY <2>1, <2>3, <3>1, ClaimMonotone DEF ClaimsOf
    <3>4. ClaimResolves(db.documents \cup {d}, db.identities, ContentClaim(d))
      BY <2>1, <2>3, <3>2, ClaimMonotone DEF ClaimsOf
    <3> QED BY <3>3, <3>4 DEF ClaimsOf
  <2>7. /\ staged'.documents = staged.documents \cup {d}
        /\ staged'.identities = staged.identities \cup ClaimsOf(d)
        /\ staged'.work = staged.work
        /\ staged'.checkpoints = staged.checkpoints
        /\ todo'.documents = todo.documents \ {d}
        /\ todo'.work = todo.work
    BY <1>1, <2>3 DEF TypeOK, Tables
  <2>8. command'[c].documents \ todo'.documents = docs \cup {d}
    BY <2>3, <2>4, <2>7 DEF clientVars
  <2>9. \A x \in Clients : phase'[x] \in {"writing", "committing"} => x = c
    BY <1>2, <2>3 DEF ProtocolInv, LockInv, clientVars
  <2>10. staged'.documents = db'.documents \cup (docs \cup {d})
    BY <2>3, <2>4, <2>7
  <2>11. staged'.identities = db'.identities \cup UNION {ClaimsOf(x) : x \in docs \cup {d}}
    BY <2>3, <2>4, <2>7
  <2>12. /\ staged'.work = db'.work \cup
              {w \in {DocumentWork(x.id) : x \in command'[c].documents} \ todo'.work :
                 WorkClashes(db'.work, w) = {}}
         /\ \A w \in {DocumentWork(x.id) : x \in command'[c].documents} \ todo'.work :
              WorkResolves(db'.work, w)
         /\ todo'.work \subseteq {DocumentWork(x.id) : x \in command'[c].documents}
    BY <1>2, <2>3, <2>7 DEF ProtocolInv, StagedInv, clientVars
  <2>13. todo'.documents \subseteq command'[c].documents
    BY <2>3, <2>4, <2>7 DEF clientVars
  <2>14. \A x \in docs \cup {d} :
           /\ DocumentResolves(db'.documents, x)
           /\ \A i \in ClaimsOf(x) :
                ClaimResolves(db'.documents \cup {x}, db'.identities, i)
    BY <2>3, <2>4, <2>5, <2>6
  <2>15. StagedInv'
    <3> HIDE DEF docs, cmd
    <3> QED BY <2>8, <2>9, <2>10, <2>11, <2>12, <2>13, <2>14 DEF StagedInv
  <2>16. CheckpointInv'
    BY <1>2, <2>3, <2>7, <2>9 DEF ProtocolInv, CheckpointInv, clientVars
  <2>17. LockInv' /\ ReadInv' /\ BatchInv' /\ HeadInv'
    BY <2>3 DEF ProtocolInv, LockInv, ReadInv, BatchInv, HeadInv, clientVars
  <2> QED BY <1>1, <2>15, <2>16, <2>17 DEF ProtocolInv
<1> QED BY <1>5, <1>6

LEMMA WriteWorkProtocolInv ==
  ASSUME ProtocolInv, NEW c \in Clients, WriteWork(c)
  PROVE  ProtocolInv'
<1> DEFINE all == {DocumentWork(d.id) : d \in command[c].documents}
           work == all \ todo.work
<1>1. TypeOK /\ TypeOK'
  BY WriteWorkTypeOK DEF ProtocolInv
<1>2. phase[c] = "writing" /\ writer = c
  BY DEF WriteWork, ProtocolInv, LockInv
<1>3. PICK w \in todo.work :
        \/ Rollback(c, "WorkItemConflict")
        \/ /\ WorkResolves(staged.work, w)
           /\ staged' = [staged EXCEPT !.work = WithWork(@, w)]
           /\ todo' = [todo EXCEPT !.work = @ \ {w}]
           /\ UNCHANGED <<db, clientVars, writer, lineage>>
  BY DEF WriteWork
<1>4. CASE Rollback(c, "WorkItemConflict")
  BY <1>2, <1>4, RollbackProtocolInv DEF Errors
<1>5. CASE /\ WorkResolves(staged.work, w)
           /\ staged' = [staged EXCEPT !.work = WithWork(@, w)]
           /\ todo' = [todo EXCEPT !.work = @ \ {w}]
           /\ UNCHANGED <<db, clientVars, writer, lineage>>
  <2>1. /\ todo.work \subseteq all
        /\ staged.work = db.work \cup {v \in work : WorkClashes(db.work, v) = {}}
        /\ \A v \in work : WorkResolves(db.work, v)
    BY <1>2 DEF ProtocolInv, StagedInv
  <2>2. WorkResolves(db.work, w)
    BY <1>5, <2>1, WorkResolvesMonotone
  <2>3. /\ staged'.documents = staged.documents
        /\ staged'.identities = staged.identities
        /\ staged'.work = WithWork(staged.work, w)
        /\ staged'.checkpoints = staged.checkpoints
        /\ todo'.documents = todo.documents
        /\ todo'.work = todo.work \ {w}
    BY <1>1, <1>5 DEF TypeOK, Tables
  <2>4. \A x \in Clients : phase'[x] \in {"writing", "committing"} => x = c
    BY <1>2, <1>5 DEF ProtocolInv, LockInv, clientVars
  <2>5. StagedInv'
    <3>1. command' = command /\ db' = db
      BY <1>5 DEF clientVars
    <3>2. all \ todo'.work = work \cup {w}
      BY <2>1, <2>3
    <3>3. staged'.work =
            db.work \cup {v \in work \cup {w} : WorkClashes(db.work, v) = {}}
      <4>1. CASE WorkClashes(staged.work, w) = {}
        <5>1. WorkClashes(db.work, w) = {}
          BY <2>1, <4>1 DEF WorkClashes
        <5> QED BY <2>1, <2>3, <4>1, <5>1 DEF WithWork
      <4>2. CASE WorkClashes(staged.work, w) # {}
        <5>1. PICK v \in staged.work : v.id = w.id \/ v.key = w.key
          BY <4>2 DEF WorkClashes
        <5>2. v \notin work
          BY <2>1, <5>1 DEF DocumentWork
        <5>3. WorkClashes(db.work, w) # {}
          BY <2>1, <5>1, <5>2 DEF WorkClashes
        <5> QED BY <2>1, <2>3, <4>2, <5>3 DEF WithWork
      <4> QED BY <4>1, <4>2
    <3>4. \A v \in work \cup {w} : WorkResolves(db.work, v)
      BY <2>1, <2>2
    <3>5. todo'.work \subseteq all
      BY <2>1, <2>3
    <3>6. LET docs == command[c].documents \ todo'.documents IN
          /\ todo'.documents \subseteq command[c].documents
          /\ staged'.documents = db.documents \cup docs
          /\ staged'.identities = db.identities \cup UNION {ClaimsOf(d) : d \in docs}
          /\ \A d \in docs :
               /\ DocumentResolves(db.documents, d)
               /\ \A i \in ClaimsOf(d) :
                    ClaimResolves(db.documents \cup {d}, db.identities, i)
      BY <1>2, <2>3 DEF ProtocolInv, StagedInv
    <3> QED BY <2>4, <3>1, <3>2, <3>3, <3>4, <3>5, <3>6 DEF StagedInv
  <2>6. CheckpointInv'
    BY <1>2, <1>5, <2>3, <2>4 DEF ProtocolInv, CheckpointInv, clientVars
  <2>7. LockInv' /\ ReadInv' /\ BatchInv' /\ HeadInv'
    BY <1>5 DEF ProtocolInv, LockInv, ReadInv, BatchInv, HeadInv, clientVars
  <2> QED BY <1>1, <2>5, <2>6, <2>7 DEF ProtocolInv
<1> QED BY <1>3, <1>4, <1>5

LEMMA AdvanceProtocolInv ==
  ASSUME ProtocolInv, NEW c \in Clients, AdvanceCheckpoint(c)
  PROVE  ProtocolInv'
<1> DEFINE cmd == command[c]
           new == AdvancedCheckpoint(cmd.expected, cmd.connector, cmd.cursor)
<1>1. TypeOK /\ TypeOK'
  BY AdvanceTypeOK DEF ProtocolInv
<1>2. phase[c] = "writing" /\ writer = c /\ todo = NothingToDo
  BY DEF AdvanceCheckpoint, ProtocolInv, LockInv
<1>3. CASE Rollback(c, "CheckpointConflict")
  BY <1>2, <1>3, RollbackProtocolInv DEF Errors
<1>4. CASE ~ Rollback(c, "CheckpointConflict")
  <2>1. /\ CheckpointAccepts(staged.checkpoints[cmd.source], cmd.expected, cmd.connector)
        /\ staged' = [staged EXCEPT !.checkpoints[cmd.source] = new]
        /\ phase' = [phase EXCEPT ![c] = "committing"]
        /\ UNCHANGED <<db, checkpoint, command, outcome, writer, todo, lineage>>
    BY <1>4 DEF AdvanceCheckpoint
  <2>2. /\ staged'.documents = staged.documents
        /\ staged'.identities = staged.identities
        /\ staged'.work = staged.work
        /\ staged'.checkpoints = [staged.checkpoints EXCEPT ![cmd.source] = new]
    BY <1>1, <2>1 DEF TypeOK, Tables
  <2>3. /\ phase'[c] = "committing"
        /\ \A x \in Clients \ {c} : phase'[x] = phase[x]
    BY <1>1, <2>1 DEF TypeOK
  <2>4. \A x \in Clients : phase'[x] \in {"writing", "committing"} => x = c
    BY <1>2, <2>3 DEF ProtocolInv, LockInv
  <2>5. LockInv'
    BY <1>2, <2>1, <2>3 DEF ProtocolInv, LockInv
  <2>6. ReadInv' /\ BatchInv' /\ HeadInv'
    BY <1>2, <2>1, <2>3 DEF ProtocolInv, ReadInv, BatchInv, HeadInv
  <2>7. StagedInv'
    BY <1>2, <2>1, <2>2, <2>4 DEF ProtocolInv, StagedInv
  <2>8. staged.checkpoints = db.checkpoints
    BY <1>2 DEF ProtocolInv, CheckpointInv
  <2>9. CheckpointInv'
    BY <1>2, <2>1, <2>2, <2>3, <2>4, <2>8 DEF CheckpointInv
  <2> QED BY <1>1, <2>5, <2>6, <2>7, <2>9 DEF ProtocolInv
<1> QED BY <1>3, <1>4

-----------------------------------------------------------------------------
(* A checkpoint moves, in a commit or through its port. *)

\* A checkpoint that accepts a write is at the revision the write expects, and
\* the new one is exactly one revision further.
LEMMA AcceptedMoves ==
  ASSUME NEW p \in Checkpoints \cup {None}, NEW r \in Nat \cup {None},
         NEW k \in Connectors, NEW q \in Cursors \cup {None},
         CheckpointAccepts(p, r, k)
  PROVE  /\ AdvancedCheckpoint(r, k, q) # None
         /\ AdvancedCheckpoint(r, k, q).revision = NextRevision(r)
         /\ AdvancedCheckpoint(r, k, q).connector = k
         /\ AdvancedCheckpoint(r, k, q).cursor = q
         /\ NextRevision(r) \in Nat
         /\ p # None => /\ p.revision \in Nat
                        /\ NextRevision(r) = p.revision + 1
<1>1. AdvancedCheckpoint(r, k, q) \in Checkpoints
  BY AdvancedType
<1>2. AdvancedCheckpoint(r, k, q) # None
  BY <1>1, NoneIsNoValue
<1>3. NextRevision(r) \in Nat
  BY DEF NextRevision
<1>4. p # None => p.revision \in Nat /\ NextRevision(r) = p.revision + 1
  BY NoneIsNoValue DEF NextRevision, Checkpoints, CheckpointAccepts
<1> QED
  BY <1>2, <1>3, <1>4 DEF AdvancedCheckpoint

\* The committed checkpoint of one source moves by the accepted write `entry'
\* records, and the clients that are not forgotten keep what they read.
LEMMA MovedCheckpoint ==
  ASSUME TypeOK, ReadInv, HeadInv, NEW entry,
         NEW s \in Sources, NEW k \in Connectors, NEW r \in Nat \cup {None},
         NEW q \in Cursors \cup {None},
         entry.command.source = s, entry.command.connector = k,
         entry.command.expected = r, entry.command.cursor = q,
         CheckpointAccepts(db.checkpoints[s], r, k),
         db'.checkpoints = [db.checkpoints EXCEPT ![s] = AdvancedCheckpoint(r, k, q)],
         lineage' = lineage \cup {entry},
         \A x \in Clients : phase'[x] # "idle" =>
           phase[x] # "idle" /\ checkpoint'[x] = checkpoint[x] /\ command'[x] = command[x]
  PROVE  ReadInv' /\ HeadInv'
<1> DEFINE old == db.checkpoints[s]
           new == AdvancedCheckpoint(r, k, q)
<1>1. /\ DOMAIN db.checkpoints = Sources
      /\ old \in Checkpoints \cup {None}
  BY DEF TypeOK, Tables
<1>2. /\ new # None /\ new.revision = NextRevision(r)
      /\ new.connector = k /\ new.cursor = q /\ new.revision \in Nat
      /\ old # None => old.revision \in Nat /\ new.revision = old.revision + 1
  <2>1. /\ new.revision = NextRevision(r)
        /\ new.connector = k /\ new.cursor = q
    BY DEF AdvancedCheckpoint
  <2>2. new \in Checkpoints
    BY AdvancedType
  <2>3. new # None /\ new.revision \in Nat
    BY <2>2, NoneIsNoValue DEF Checkpoints
  <2>4. ASSUME old # None
        PROVE  old.revision \in Nat /\ new.revision = old.revision + 1
    <3>1. old.revision \in Nat /\ old.revision = r /\ r # None
      BY <1>1, <2>4, NoneIsNoValue DEF Checkpoints, CheckpointAccepts
    <3> QED BY <2>1, <3>1 DEF NextRevision
  <2> QED BY <2>1, <2>3, <2>4
<1>3. /\ db'.checkpoints[s] = new
      /\ \A x \in Sources \ {s} : db'.checkpoints[x] = db.checkpoints[x]
  BY <1>1
<1> HIDE DEF new
<1>4. ReadInv'
  <2> SUFFICES ASSUME NEW x \in Clients, phase'[x] # "idle"
               PROVE  LET read == checkpoint[x]
                          stored == db'.checkpoints[command[x].source] IN
                      /\ command[x].expected = ExpectedRevision(read)
                      /\ read # None =>
                           /\ stored # None
                           /\ read.revision <= stored.revision
                           /\ read.revision = stored.revision => read = stored
    BY DEF ReadInv
  <2>1. LET read == checkpoint[x]  stored == db.checkpoints[command[x].source] IN
        /\ command[x].expected = ExpectedRevision(read)
        /\ read # None =>
             /\ stored # None
             /\ read.revision <= stored.revision
             /\ read.revision = stored.revision => read = stored
    BY DEF ReadInv
  <2>2. command[x] \in Commands /\ checkpoint[x] \in Checkpoints \cup {None}
    BY DEF TypeOK
  <2>3. command[x].source \in Sources
    BY <2>2 DEF Commands
  <2>4. checkpoint[x] # None => checkpoint[x].revision \in Nat
    BY <2>2 DEF Checkpoints
  <2>5. CASE command[x].source = s
    BY <1>2, <1>3, <2>1, <2>4, <2>5
  <2>6. CASE command[x].source # s
    BY <1>3, <2>1, <2>3, <2>6
  <2> QED BY <2>5, <2>6
<1>5. HeadInv'
  <2> SUFFICES ASSUME NEW z \in Sources
               PROVE  LET stored == db'.checkpoints[z] IN
                      /\ stored = None => \A l \in lineage' : l.command.source # z
                      /\ stored # None =>
                           /\ \A l \in lineage' : l.command.source = z =>
                                NextRevision(l.command.expected) <= stored.revision
                           /\ \E l \in lineage' :
                                /\ l.command.source = z
                                /\ l.command.connector = stored.connector
                                /\ l.command.cursor = stored.cursor
                                /\ NextRevision(l.command.expected) = stored.revision
    BY DEF HeadInv
  <2>1. CASE z # s
    <3>1. db'.checkpoints[z] = db.checkpoints[z]
      BY <1>3, <2>1
    <3> QED BY <2>1, <3>1 DEF HeadInv
  <2>2. CASE z = s
    <3>1. \A l \in lineage : l.command.source = z =>
            /\ NextRevision(l.command.expected) \in Nat
            /\ old # None
            /\ NextRevision(l.command.expected) <= old.revision
      BY <2>2, NoneIsNoValue DEF HeadInv, TypeOK, Commands, NextRevision
    <3>2. \A l \in lineage : l.command.source = z =>
            NextRevision(l.command.expected) <= new.revision
      BY <1>2, <3>1
    <3>3. NextRevision(r) <= new.revision
      BY <1>2
    <3> QED BY <1>2, <1>3, <2>2, <3>2, <3>3
  <2> QED BY <2>1, <2>2
<1> QED BY <1>4, <1>5

\* A committed transaction is the whole command, applied to tables it applies to.
LEMMA CommitApplies ==
  ASSUME ProtocolInv, NEW c \in Clients, Commit(c)
  PROVE  /\ command[c] \in Commands
         /\ Applicable(db, command[c])
         /\ db' = Applied(db, command[c])
<1> DEFINE cmd == command[c]
           all == {DocumentWork(d.id) : d \in cmd.documents}
<1>1. TypeOK /\ phase[c] = "committing" /\ db' = staged
  BY DEF ProtocolInv, Commit
<1>2. cmd \in Commands
  BY <1>1 DEF TypeOK
<1>3. todo.documents = {} /\ todo.work = {}
  <2>1. todo = NothingToDo
    BY <1>1 DEF ProtocolInv, CheckpointInv
  <2> QED BY <2>1 DEF NothingToDo
<1>4. /\ CheckpointAccepts(db.checkpoints[cmd.source], cmd.expected, cmd.connector)
      /\ staged.checkpoints = [db.checkpoints EXCEPT ![cmd.source] =
           AdvancedCheckpoint(cmd.expected, cmd.connector, cmd.cursor)]
  BY <1>1 DEF ProtocolInv, CheckpointInv
<1>5. LET docs == cmd.documents \ todo.documents
          work == all \ todo.work
      IN /\ staged.documents = db.documents \cup docs
         /\ staged.identities = db.identities \cup UNION {ClaimsOf(d) : d \in docs}
         /\ \A d \in docs :
              /\ DocumentResolves(db.documents, d)
              /\ \A i \in ClaimsOf(d) :
                   ClaimResolves(db.documents \cup {d}, db.identities, i)
         /\ staged.work = db.work \cup {w \in work : WorkClashes(db.work, w) = {}}
         /\ \A w \in work : WorkResolves(db.work, w)
  BY <1>1 DEF ProtocolInv, StagedInv
<1>6. /\ cmd.documents \ todo.documents = cmd.documents
      /\ all \ todo.work = all
  BY <1>3
<1>7. /\ staged.documents = db.documents \cup cmd.documents
      /\ staged.identities = db.identities \cup UNION {ClaimsOf(d) : d \in cmd.documents}
      /\ \A d \in cmd.documents :
           /\ DocumentResolves(db.documents, d)
           /\ \A i \in ClaimsOf(d) :
                ClaimResolves(db.documents \cup {d}, db.identities, i)
      /\ staged.work = db.work \cup {w \in all : WorkClashes(db.work, w) = {}}
      /\ \A w \in all : WorkResolves(db.work, w)
  <2> HIDE DEF all
  <2> QED BY <1>5, <1>6
<1>8. Applicable(db, cmd)
  BY <1>4, <1>7 DEF Applicable
<1>9. staged \in Tables
  BY <1>1 DEF TypeOK
<1>10. staged = [documents   |-> staged.documents,
                 identities  |-> staged.identities,
                 work        |-> staged.work,
                 checkpoints |-> staged.checkpoints]
  BY <1>9 DEF Tables
<1>11. staged = Applied(db, cmd)
  BY <1>4, <1>7, <1>10 DEF Applied, NewWork
<1> QED BY <1>1, <1>2, <1>8, <1>11

LEMMA CommitProtocolInv ==
  ASSUME ProtocolInv, NEW c \in Clients, Commit(c)
  PROVE  ProtocolInv'
<1> DEFINE cmd == command[c]
           entry == [command |-> cmd, from |-> CursorOf(checkpoint[c])]
<1>1. TypeOK /\ TypeOK' /\ ReadInv /\ HeadInv
  BY CommitTypeOK DEF ProtocolInv
<1>2. /\ phase[c] = "committing" /\ writer = c
      /\ phase' = [phase EXCEPT ![c] = "ended"]
      /\ UNCHANGED <<checkpoint, command>>
      /\ writer' = None
      /\ lineage' = lineage \cup {entry}
  BY DEF Commit, End, Released, ProtocolInv, LockInv
<1>3. \A x \in Clients : phase'[x] \notin {"writing", "committing"}
  BY <1>1, <1>2 DEF ProtocolInv, LockInv, TypeOK
<1>4. LockInv' /\ StagedInv' /\ CheckpointInv'
  BY <1>2, <1>3, NoneIsNoClient DEF LockInv, StagedInv, CheckpointInv
<1>5. BatchInv'
  BY <1>1, <1>2 DEF ProtocolInv, BatchInv, TypeOK
<1>6. /\ CheckpointAccepts(db.checkpoints[cmd.source], cmd.expected, cmd.connector)
      /\ db'.checkpoints = [db.checkpoints EXCEPT ![cmd.source] =
           AdvancedCheckpoint(cmd.expected, cmd.connector, cmd.cursor)]
  BY CommitApplies DEF Applicable, Applied
<1>7. /\ cmd.source \in Sources /\ cmd.connector \in Connectors
      /\ cmd.expected \in Nat \cup {None} /\ cmd.cursor \in Cursors \cup {None}
  BY CommitApplies DEF Commands
<1>8. \A x \in Clients : phase'[x] # "idle" =>
        phase[x] # "idle" /\ checkpoint'[x] = checkpoint[x] /\ command'[x] = command[x]
  BY <1>1, <1>2 DEF TypeOK
<1>9. ReadInv' /\ HeadInv'
  BY <1>1, <1>2, <1>6, <1>7, <1>8, MovedCheckpoint
<1> QED BY <1>1, <1>4, <1>5, <1>9 DEF ProtocolInv

LEMMA PortProtocolInv ==
  ASSUME ProtocolInv,
         \/ PortWrite
         \/ \E s \in PortSources, k \in Connectors, r \in Revisions,
               q \in Cursors \cup {None} : PortCheckpoint(s, k, r, q)
  PROVE  ProtocolInv'
<1>1. TypeOK /\ TypeOK' /\ ReadInv /\ HeadInv
  BY PortTypeOK DEF ProtocolInv
<1>2. /\ writer = None
      /\ UNCHANGED <<phase, checkpoint, command, writer, staged, todo>>
  BY DEF PortWrite, PortCheckpoint, clientVars, txVars
<1>3. \A x \in Clients : phase'[x] \notin {"writing", "committing"}
  BY <1>2, NoneIsNoClient DEF ProtocolInv, LockInv
<1>4. LockInv' /\ StagedInv' /\ CheckpointInv' /\ BatchInv'
  BY <1>2, <1>3 DEF ProtocolInv, LockInv, StagedInv, CheckpointInv, BatchInv
<1>5. CASE PortWrite
  <2>1. db'.checkpoints = db.checkpoints /\ lineage' = lineage
    BY <1>1, <1>5 DEF PortWrite, PortInsert, InsertDocument, InsertClaim, InsertWork,
                      TypeOK, Tables
  <2>2. ReadInv' /\ HeadInv'
    BY <1>1, <1>2, <2>1 DEF ReadInv, HeadInv
  <2> QED BY <1>1, <1>4, <2>2 DEF ProtocolInv
<1>6. ASSUME NEW s \in PortSources, NEW k \in Connectors, NEW r \in Revisions,
             NEW q \in Cursors \cup {None}, PortCheckpoint(s, k, r, q)
      PROVE  ProtocolInv'
  <2>1. s \in Sources /\ r \in Nat \cup {None}
    BY PortsAreTyped DEF Revisions
  <2>2. /\ CheckpointAccepts(db.checkpoints[s], r, k)
        /\ db'.checkpoints = [db.checkpoints EXCEPT ![s] = AdvancedCheckpoint(r, k, q)]
    BY <1>1, <1>6 DEF PortCheckpoint, CompareAndSet, TypeOK, Tables
  <2>3. PICK entry :
          /\ entry.command.source = s /\ entry.command.connector = k
          /\ entry.command.expected = r /\ entry.command.cursor = q
          /\ lineage' = lineage \cup {entry}
    BY <1>6 DEF PortCheckpoint
  <2>4. ReadInv' /\ HeadInv'
    BY <1>1, <1>2, <2>1, <2>2, <2>3, MovedCheckpoint
  <2> QED BY <1>1, <1>4, <2>4 DEF ProtocolInv
<1> QED BY <1>5, <1>6

LEMMA NextProtocolInv == ProtocolInv /\ [SystemNext]_vars => ProtocolInv'
<1> SUFFICES ASSUME ProtocolInv, [SystemNext]_vars PROVE ProtocolInv'
  OBVIOUS
<1>1. ASSUME NEW c \in Clients, NEW s \in Sources, NEW k \in Connectors,
             Start(c, s, k)
      PROVE  ProtocolInv'
  BY <1>1, StartProtocolInv
<1>2. ASSUME NEW c \in Clients, ClientStep(c) \/ StorageFails(c) \/ Crash(c)
      PROVE  ProtocolInv'
  BY <1>2, CollectProtocolInv, FailProtocolInv, BeginProtocolInv,
     WriteDocumentProtocolInv, WriteWorkProtocolInv, AdvanceProtocolInv,
     CommitProtocolInv, ReturnProtocolInv, CrashProtocolInv DEF ClientStep
<1>3. CASE UNCHANGED vars
  <2>1. UNCHANGED <<db, phase, checkpoint, command, outcome, writer, staged, todo,
                    lineage>>
    BY <1>3 DEF vars, clientVars, txVars
  <2>2. TypeOK' /\ LockInv' /\ ReadInv'
    BY <2>1 DEF ProtocolInv, TypeOK, LockInv, ReadInv
  <2>3. BatchInv' /\ StagedInv'
    BY <2>1 DEF ProtocolInv, BatchInv, StagedInv
  <2>4. CheckpointInv' /\ HeadInv'
    BY <2>1 DEF ProtocolInv, CheckpointInv, HeadInv
  <2> QED BY <2>2, <2>3, <2>4 DEF ProtocolInv
<1> QED BY <1>1, <1>2, <1>3, PortProtocolInv DEF SystemNext

\* The protocol invariant holds of any number of clients, sources and rows: one
\* writer, staged tables that are the committed ones plus what was written, and
\* a checkpoint that is the youngest of its source's writes.
THEOREM ProtocolCorrect == SystemSpec => []ProtocolInv
BY InitProtocolInv, NextProtocolInv, PTL DEF SystemSpec

-----------------------------------------------------------------------------
(* What the protocol invariant buys. *)

\* Only a commit and the ports change the committed tables or the lineage.
LEMMA OnlyCommitsAndPorts ==
  ASSUME [SystemNext]_vars
  PROVE  \/ UNCHANGED <<db, lineage>>
         \/ \E c \in Clients : Commit(c)
         \/ PortWrite
         \/ \E s \in PortSources, k \in Connectors, r \in Revisions,
               q \in Cursors \cup {None} : PortCheckpoint(s, k, r, q)
<1>1. ASSUME NEW c \in Clients, NEW s \in Sources, NEW k \in Connectors,
             Start(c, s, k)
      PROVE  UNCHANGED <<db, lineage>>
  BY <1>1 DEF Start
<1>2. ASSUME NEW c \in Clients, StorageFails(c) \/ Crash(c)
      PROVE  UNCHANGED <<db, lineage>>
  BY <1>2 DEF StorageFails, Rollback, Crash
<1>3. ASSUME NEW c \in Clients, ClientStep(c), ~ Commit(c)
      PROVE  UNCHANGED <<db, lineage>>
  BY <1>3 DEF ClientStep, CollectBatch, Collect, CollectFails, Begin, BusyTimeout,
              WriteDocument, WriteWork, AdvanceCheckpoint, Return, Rollback
<1>4. CASE UNCHANGED vars
  BY <1>4 DEF vars
<1> QED BY <1>1, <1>2, <1>3, <1>4 DEF SystemNext

\* A write accepted from the checkpoint its entry was collected from extends
\* the chain at its head.
LEMMA ChainExtends ==
  ASSUME TypeOK, HeadInv, ProgressIsAChain,
         NEW entry \in [command : Commands, from : Cursors \cup {None}],
         NEW stored, stored = db.checkpoints[entry.command.source],
         CheckpointAccepts(stored, entry.command.expected, entry.command.connector),
         stored # None => entry.from = stored.cursor,
         lineage' = lineage \cup {entry}
  PROVE  ProgressIsAChain'
<1> DEFINE e == entry.command
<1>1. e.source \in Sources /\ e.expected \in Nat \cup {None}
  BY DEF Commands
<1>2. \A m \in lineage : m.command.source = e.source => m.command.expected # e.expected
  <2>1. SUFFICES ASSUME NEW m \in lineage, m.command.source = e.source,
                        m.command.expected = e.expected
                 PROVE  FALSE
    OBVIOUS
  <2>2. stored # None /\ NextRevision(e.expected) <= stored.revision
    BY <1>1, <2>1 DEF HeadInv
  <2>3. stored.revision = e.expected /\ e.expected \in Nat
    BY <1>1, <2>2, NoneIsNoValue DEF CheckpointAccepts
  <2> QED BY <2>2, <2>3, NoneIsNoValue DEF NextRevision
<1>3. \A l \in lineage', m \in lineage' :
        (l.command.source = m.command.source
           /\ l.command.expected = m.command.expected) => l = m
  BY <1>2 DEF ProgressIsAChain
<1>4. e.expected # None =>
        \E m \in lineage :
          /\ m.command.source = e.source
          /\ m.command.connector = e.connector
          /\ NextRevision(m.command.expected) = e.expected
          /\ m.command.cursor = entry.from
  BY <1>1 DEF HeadInv, CheckpointAccepts
<1>5. \A l \in lineage' : l.command.expected # None =>
        \E m \in lineage' :
          /\ m.command.source = l.command.source
          /\ m.command.connector = l.command.connector
          /\ NextRevision(m.command.expected) = l.command.expected
          /\ m.command.cursor = l.from
  BY <1>4 DEF ProgressIsAChain
<1> QED BY <1>3, <1>5 DEF ProgressIsAChain

LEMMA NextChain ==
  ASSUME ProtocolInv, ProgressIsAChain, [SystemNext]_vars
  PROVE  ProgressIsAChain'
<1>1. TypeOK /\ HeadInv /\ ReadInv
  BY DEF ProtocolInv
<1>2. CASE UNCHANGED <<db, lineage>>
  BY <1>2 DEF ProgressIsAChain
<1>3. ASSUME NEW c \in Clients, Commit(c)
      PROVE  ProgressIsAChain'
  <2> DEFINE cmd == command[c]
             stored == db.checkpoints[cmd.source]
             entry == [command |-> cmd, from |-> CursorOf(checkpoint[c])]
  <2>1. /\ phase[c] = "committing" /\ lineage' = lineage \cup {entry}
        /\ cmd \in Commands
        /\ CheckpointAccepts(stored, cmd.expected, cmd.connector)
    BY <1>3, CommitApplies DEF Commit, Applicable
  <2>2. checkpoint[c] \in Checkpoints \cup {None}
    BY <1>1 DEF TypeOK
  <2>3. entry \in [command : Commands, from : Cursors \cup {None}]
    BY <2>1, <2>2, ReadType
  <2>4. /\ cmd.expected = ExpectedRevision(checkpoint[c])
        /\ checkpoint[c] # None =>
             (checkpoint[c].revision = stored.revision => checkpoint[c] = stored)
    BY <1>1, <2>1 DEF ReadInv
  <2>5. stored # None => entry.from = stored.cursor
    BY <2>1, <2>4 DEF CheckpointAccepts, ExpectedRevision, CursorOf
  <2> QED BY <1>1, <2>1, <2>3, <2>5, ChainExtends
<1>4. CASE PortWrite
  BY <1>4 DEF PortWrite, ProgressIsAChain
<1>5. ASSUME NEW s \in PortSources, NEW k \in Connectors, NEW r \in Revisions,
             NEW q \in Cursors \cup {None}, PortCheckpoint(s, k, r, q)
      PROVE  ProgressIsAChain'
  <2> DEFINE stored == db.checkpoints[s]
             entry == [command |-> [source |-> s, connector |-> k, expected |-> r,
                                    cursor |-> q, documents |-> {}],
                       from |-> CursorOf(stored)]
  <2>1. s \in Sources /\ r \in Nat \cup {None}
    BY PortsAreTyped DEF Revisions
  <2>2. CursorOf(stored) \in Cursors \cup {None}
    BY <1>1, <2>1, ReadType DEF TypeOK, Tables
  <2>3. entry \in [command : Commands, from : Cursors \cup {None}]
    BY <2>1, <2>2 DEF Commands
  <2>4. /\ CheckpointAccepts(stored, r, k)
        /\ lineage' = lineage \cup {entry}
    BY <1>5 DEF PortCheckpoint, CompareAndSet
  <2>5. stored # None => entry.from = stored.cursor
    BY DEF CursorOf
  <2> QED BY <1>1, <2>3, <2>4, <2>5, ChainExtends
<1> QED BY <1>2, <1>3, <1>4, <1>5, OnlyCommitsAndPorts

\* However many clients and ports compete for a source, its committed
\* checkpoints form one chain: no fork, no gap, no lost cursor.
THEOREM ProgressCorrect == SystemSpec => []ProgressIsAChain
<1>1. SystemInit => ProgressIsAChain
  BY DEF SystemInit, ProgressIsAChain
<1>2. ProtocolInv /\ ProgressIsAChain /\ [SystemNext]_vars => ProgressIsAChain'
  BY NextChain
<1> QED BY <1>1, <1>2, ProtocolCorrect, PTL DEF SystemSpec

-----------------------------------------------------------------------------
(* The committed tables only grow. *)

LEMMA TablesGrow ==
  ASSUME ProtocolInv, [SystemNext]_vars
  PROVE  /\ db.documents \subseteq db'.documents
         /\ db.identities \subseteq db'.identities
         /\ db.work \subseteq db'.work
         /\ \A s \in Sources :
              LET old == db.checkpoints[s]  new == db'.checkpoints[s] IN
              old # None =>
                \/ new = old
                \/ new.connector = old.connector /\ new.revision = old.revision + 1
<1>1. TypeOK
  BY DEF ProtocolInv
<1>2. ASSUME NEW s \in Sources, NEW k \in Connectors, NEW r \in Nat \cup {None},
             NEW q \in Cursors \cup {None}, CheckpointAccepts(db.checkpoints[s], r, k),
             db'.checkpoints = [db.checkpoints EXCEPT ![s] = AdvancedCheckpoint(r, k, q)],
             NEW z \in Sources, db.checkpoints[z] # None
      PROVE  LET old == db.checkpoints[z]  new == db'.checkpoints[z] IN
             \/ new = old
             \/ new.connector = old.connector /\ new.revision = old.revision + 1
  <2>1. DOMAIN db.checkpoints = Sources /\ db.checkpoints[s] \in Checkpoints \cup {None}
    BY <1>1 DEF TypeOK, Tables
  <2>2. CASE z = s
    <3>1. db'.checkpoints[z] = AdvancedCheckpoint(r, k, q)
      BY <1>2, <2>1, <2>2
    <3>2. db.checkpoints[s].connector = k
      BY <1>2, <2>2, NoneIsNoValue DEF CheckpointAccepts
    <3> QED BY <1>2, <2>1, <2>2, <3>1, <3>2, AcceptedMoves
  <2>3. CASE z # s
    BY <1>2, <2>1, <2>3
  <2> QED BY <2>2, <2>3
<1>3. CASE UNCHANGED <<db, lineage>>
  BY <1>3
<1>4. ASSUME NEW c \in Clients, Commit(c)
      PROVE  /\ db.documents \subseteq db'.documents
             /\ db.identities \subseteq db'.identities
             /\ db.work \subseteq db'.work
             /\ \A s \in Sources :
                  LET old == db.checkpoints[s]  new == db'.checkpoints[s] IN
                  old # None =>
                    \/ new = old
                    \/ new.connector = old.connector /\ new.revision = old.revision + 1
  <2> DEFINE cmd == command[c]
  <2>1. cmd \in Commands /\ Applicable(db, cmd) /\ db' = Applied(db, cmd)
    BY <1>4, CommitApplies
  <2>2. /\ cmd.source \in Sources /\ cmd.connector \in Connectors
        /\ cmd.expected \in Nat \cup {None} /\ cmd.cursor \in Cursors \cup {None}
    BY <2>1 DEF Commands
  <2>3. /\ CheckpointAccepts(db.checkpoints[cmd.source], cmd.expected, cmd.connector)
        /\ db'.checkpoints = [db.checkpoints EXCEPT ![cmd.source] =
             AdvancedCheckpoint(cmd.expected, cmd.connector, cmd.cursor)]
    BY <2>1 DEF Applicable, Applied
  <2>4. /\ db.documents \subseteq db'.documents
        /\ db.identities \subseteq db'.identities
        /\ db.work \subseteq db'.work
    BY <2>1 DEF Applied
  <2> QED BY <1>2, <2>2, <2>3, <2>4
<1>5. CASE PortWrite
  BY <1>1, <1>5 DEF PortWrite, PortInsert, InsertDocument, InsertClaim, InsertWork,
                    TypeOK, Tables
<1>6. ASSUME NEW s \in PortSources, NEW k \in Connectors, NEW r \in Revisions,
             NEW q \in Cursors \cup {None}, PortCheckpoint(s, k, r, q)
      PROVE  /\ db.documents = db'.documents
             /\ db.identities = db'.identities
             /\ db.work = db'.work
             /\ \A z \in Sources :
                  LET old == db.checkpoints[z]  new == db'.checkpoints[z] IN
                  old # None =>
                    \/ new = old
                    \/ new.connector = old.connector /\ new.revision = old.revision + 1
  <2>1. s \in Sources /\ r \in Nat \cup {None}
    BY PortsAreTyped DEF Revisions
  <2>2. /\ CheckpointAccepts(db.checkpoints[s], r, k)
        /\ db'.checkpoints = [db.checkpoints EXCEPT ![s] = AdvancedCheckpoint(r, k, q)]
        /\ db.documents = db'.documents
        /\ db.identities = db'.identities
        /\ db.work = db'.work
    BY <1>1, <1>6 DEF PortCheckpoint, CompareAndSet, TypeOK, Tables
  <2> QED BY <1>2, <2>1, <2>2
<1> QED BY <1>3, <1>4, <1>5, <1>6, OnlyCommitsAndPorts

\* No step of any client, failure or port changes or removes a committed row,
\* or moves a checkpoint other than one revision forward.
THEOREM GrowthCorrect == SystemSpec => TablesOnlyGrow
<1>1. ProtocolInv /\ [SystemNext]_vars =>
        [/\ db.documents \subseteq db'.documents
         /\ db.identities \subseteq db'.identities
         /\ db.work \subseteq db'.work
         /\ \A s \in Sources :
              LET old == db.checkpoints[s]  new == db'.checkpoints[s] IN
              old # None =>
                \/ new = old
                \/ /\ new.connector = old.connector
                   /\ new.revision = old.revision + 1]_vars
  BY TablesGrow
<1> QED BY <1>1, ProtocolCorrect, PTL DEF SystemSpec, TablesOnlyGrow

-----------------------------------------------------------------------------
(* Committed batches stay whole. *)

LEMMA NextWhole ==
  ASSUME ProtocolInv, BatchesStayWhole, [SystemNext]_vars
  PROVE  BatchesStayWhole'
<1>1. TypeOK /\ TypeOK' /\ HeadInv'
  BY NextProtocolInv DEF ProtocolInv
<1>2. \A l \in lineage' : /\ db'.checkpoints[l.command.source] # None
                          /\ db'.checkpoints[l.command.source].revision >=
                               NextRevision(l.command.expected)
  <2> SUFFICES ASSUME NEW l \in lineage'
               PROVE  /\ db'.checkpoints[l.command.source] # None
                      /\ db'.checkpoints[l.command.source].revision >=
                           NextRevision(l.command.expected)
    OBVIOUS
  <2>1. l.command \in Commands
    BY <1>1 DEF TypeOK
  <2>2. l.command.source \in Sources /\ l.command.expected \in Nat \cup {None}
    BY <2>1 DEF Commands
  <2>3. /\ db'.checkpoints[l.command.source] # None
        /\ NextRevision(l.command.expected) <= db'.checkpoints[l.command.source].revision
    BY <1>1, <2>2 DEF HeadInv
  <2>4. db'.checkpoints[l.command.source] \in Checkpoints
    BY <1>1, <2>2, <2>3 DEF TypeOK, Tables
  <2>5. db'.checkpoints[l.command.source].revision \in Nat
    BY <2>4 DEF Checkpoints
  <2>6. NextRevision(l.command.expected) \in Nat
    BY <2>2 DEF NextRevision
  <2> QED BY <2>3, <2>5, <2>6
<1>3. /\ db.documents \subseteq db'.documents
      /\ db.identities \subseteq db'.identities
      /\ db.work \subseteq db'.work
  BY TablesGrow
<1>4. \A l \in lineage : \A d \in l.command.documents :
        /\ d \in db'.documents
        /\ ClaimsOf(d) \subseteq db'.identities
        /\ \E w \in db'.work : w.key = d.id /\ w.document = d.id
  BY <1>3 DEF BatchesStayWhole
<1>5. ASSUME NEW c \in Clients, Commit(c), NEW d \in command[c].documents
      PROVE  /\ d \in db'.documents
             /\ ClaimsOf(d) \subseteq db'.identities
             /\ \E w \in db'.work : w.key = d.id /\ w.document = d.id
  <2> DEFINE cmd == command[c]
             w == DocumentWork(d.id)
  <2>1. Applicable(db, cmd) /\ db' = Applied(db, cmd)
    BY <1>5, CommitApplies
  <2>2. d \in db'.documents /\ ClaimsOf(d) \subseteq db'.identities
    BY <2>1 DEF Applied
  <2>3. w.key = d.id /\ w.document = d.id
    BY DEF DocumentWork
  <2>4. CASE WorkClashes(db.work, w) = {}
    <3>1. w \in NewWork(db, cmd.documents)
      BY <2>4 DEF NewWork
    <3> QED BY <2>1, <2>2, <2>3, <3>1 DEF Applied
  <2>5. CASE WorkClashes(db.work, w) # {}
    <3>1. PICK v \in WorkClashes(db.work, w) : TRUE
      BY <2>5
    <3>2. v \in db.work /\ v.key = w.key /\ v.document = w.document
      BY <2>1, <3>1 DEF Applicable, WorkResolves, WorkClashes
    <3> QED BY <1>3, <2>2, <2>3, <3>2
  <2> QED BY <2>4, <2>5
<1>6. \A l \in lineage' : \A d \in l.command.documents :
        /\ d \in db'.documents
        /\ ClaimsOf(d) \subseteq db'.identities
        /\ \E w \in db'.work : w.key = d.id /\ w.document = d.id
  <2>1. CASE lineage' = lineage
    BY <1>4, <2>1
  <2>2. ASSUME NEW c \in Clients, Commit(c)
        PROVE  \A l \in lineage' : \A d \in l.command.documents :
                 /\ d \in db'.documents
                 /\ ClaimsOf(d) \subseteq db'.identities
                 /\ \E w \in db'.work : w.key = d.id /\ w.document = d.id
    <3>1. \A l \in lineage' : l \in lineage \/ l.command = command[c]
      BY <2>2 DEF Commit
    <3> QED BY <1>4, <1>5, <2>2, <3>1
  <2>3. ASSUME NEW s \in PortSources, NEW k \in Connectors, NEW r \in Revisions,
               NEW q \in Cursors \cup {None}, PortCheckpoint(s, k, r, q)
        PROVE  \A l \in lineage' : \A d \in l.command.documents :
                 /\ d \in db'.documents
                 /\ ClaimsOf(d) \subseteq db'.identities
                 /\ \E w \in db'.work : w.key = d.id /\ w.document = d.id
    <3>1. \A l \in lineage' : l \in lineage \/ l.command.documents = {}
      BY <2>3 DEF PortCheckpoint
    <3> QED BY <1>4, <3>1
  <2>4. PortWrite => lineage' = lineage
    BY DEF PortWrite
  <2> QED BY <2>1, <2>2, <2>3, <2>4, OnlyCommitsAndPorts
<1> QED BY <1>2, <1>6 DEF BatchesStayWhole

\* Every committed batch is whole in every later state: no crash, failure or
\* competing writer leaves a document without its claims, its work or a
\* checkpoint past the one it was collected from.
THEOREM WholeCorrect == SystemSpec => []BatchesStayWhole
<1>1. SystemInit => BatchesStayWhole
  BY DEF SystemInit, BatchesStayWhole
<1>2. ProtocolInv /\ BatchesStayWhole /\ [SystemNext]_vars => BatchesStayWhole'
  BY NextWhole
<1> QED BY <1>1, <1>2, ProtocolCorrect, PTL DEF SystemSpec

-----------------------------------------------------------------------------
(* Refusals and orphans. *)

\* A collect() that has ended had ended before, or ends now; the two refusals
\* come from the statement that found the conflict.
LEMMA HowItEnds ==
  ASSUME TypeOK, [SystemNext]_vars, NEW c \in Clients, phase'[c] = "ended"
  PROVE  \/ /\ phase[c] = "ended" /\ outcome'[c] = outcome[c]
            /\ checkpoint'[c] = checkpoint[c] /\ command'[c] = command[c]
         \/ outcome'[c] \notin {"DocumentConflict", "CheckpointConflict"}
         \/ outcome'[c] = "DocumentConflict" /\ WriteDocument(c)
         \/ outcome'[c] = "CheckpointConflict" /\ AdvanceCheckpoint(c)
<1> DEFINE Stays == /\ phase[c] = "ended" /\ outcome'[c] = outcome[c]
                    /\ checkpoint'[c] = checkpoint[c] /\ command'[c] = command[c]
           Fine == outcome'[c] \notin {"DocumentConflict", "CheckpointConflict"}
<1>1. ASSUME NEW x \in Clients, NEW s \in Sources, NEW k \in Connectors, Start(x, s, k)
      PROVE  Stays \/ outcome'[c] = "ValueError"
  BY <1>1 DEF Start, TypeOK
<1>2. ASSUME NEW x \in Clients, NEW r, End(x, r)
      PROVE  Stays \/ (x = c /\ outcome'[c] = r)
  BY <1>2 DEF End, TypeOK
<1>3. ASSUME NEW x \in Clients, StorageFails(x) \/ BusyTimeout(x) \/ CollectFails(x) \/ Commit(x)
      PROVE  Stays \/ Fine
  BY <1>2, <1>3 DEF StorageFails, Rollback, BusyTimeout, CollectFails, Commit
<1>4. ASSUME NEW x \in Clients, WriteWork(x)
      PROVE  Stays \/ Fine
  <2>1. Rollback(x, "WorkItemConflict") \/ UNCHANGED clientVars
    BY <1>4 DEF WriteWork
  <2> QED BY <1>2, <2>1 DEF Rollback, clientVars
<1>5. ASSUME NEW x \in Clients, WriteDocument(x)
      PROVE  \/ Stays \/ Fine \/ (x = c /\ outcome'[c] = "DocumentConflict")
  <2>1. \/ Rollback(x, "DocumentConflict") \/ Rollback(x, "IdentityConflict")
        \/ UNCHANGED clientVars
    BY <1>5 DEF WriteDocument
  <2> QED BY <1>2, <2>1 DEF Rollback, clientVars
<1>6. ASSUME NEW x \in Clients, AdvanceCheckpoint(x)
      PROVE  \/ Stays \/ Fine \/ (x = c /\ outcome'[c] = "CheckpointConflict")
  <2>1. CASE Rollback(x, "CheckpointConflict")
    BY <1>2, <2>1 DEF Rollback
  <2>2. CASE /\ phase' = [phase EXCEPT ![x] = "committing"]
             /\ UNCHANGED <<checkpoint, command, outcome>>
    BY <2>2 DEF TypeOK
  <2> QED BY <1>6, <2>1, <2>2 DEF AdvanceCheckpoint
<1>7. ASSUME NEW x \in Clients, Begin(x) \/ Return(x) \/ Crash(x)
      PROVE  Stays
  BY <1>7 DEF Begin, Return, Crash, Forget, TypeOK
<1>8. ASSUME NEW x \in Clients, phase[x] = "collecting", CollectBatch(x)
      PROVE  Stays
  BY <1>8 DEF CollectBatch, Collect, TypeOK
<1>9. ASSUME UNCHANGED clientVars PROVE Stays
  BY <1>9 DEF clientVars
<1>10. ASSUME NEW x \in Clients, ClientStep(x)
       PROVE  \/ Stays \/ Fine
              \/ outcome'[c] = "DocumentConflict" /\ WriteDocument(c)
              \/ outcome'[c] = "CheckpointConflict" /\ AdvanceCheckpoint(c)
  BY <1>3, <1>4, <1>5, <1>6, <1>7, <1>8, <1>10 DEF ClientStep
<1>11. ASSUME PortWrite \/ UNCHANGED vars
              \/ \E s \in PortSources, k \in Connectors, r \in Revisions,
                    q \in Cursors \cup {None} : PortCheckpoint(s, k, r, q)
       PROVE  Stays
  BY <1>9, <1>11 DEF vars, PortWrite, PortCheckpoint
<1> HIDE DEF Stays
<1>12. \/ Stays \/ Fine
       \/ outcome'[c] = "DocumentConflict" /\ WriteDocument(c)
       \/ outcome'[c] = "CheckpointConflict" /\ AdvanceCheckpoint(c)
  BY <1>1, <1>3, <1>7, <1>10, <1>11 DEF SystemNext
<1> QED BY <1>12 DEF Stays

\* The document a batch is refused for is stored, under an id of the batch.
LEMMA DocumentRefusal ==
  ASSUME ProtocolInv, NEW c \in Clients, WriteDocument(c),
         phase' = [phase EXCEPT ![c] = "ended"], outcome'[c] = "DocumentConflict"
  PROVE  \E d \in command[c].documents, e \in db.documents : d.id = e.id /\ d # e
<1> DEFINE docs == command[c].documents \ todo.documents
<1>1. TypeOK /\ phase[c] = "writing"
  BY DEF ProtocolInv, WriteDocument
<1>2. PICK d \in todo.documents : ~ DocumentResolves(staged.documents, d)
  <2>1. PICK d \in todo.documents :
          \/ ~ DocumentResolves(staged.documents, d)
          \/ Rollback(c, "IdentityConflict")
          \/ UNCHANGED clientVars
    BY DEF WriteDocument
  <2>2. ~ Rollback(c, "IdentityConflict")
    BY <1>1 DEF Rollback, End, TypeOK
  <2>3. ~ UNCHANGED clientVars
    BY <1>1 DEF clientVars, TypeOK
  <2> QED BY <2>1, <2>2, <2>3
<1>3. PICK e \in staged.documents : e \in DocumentClashes(staged.documents, d) /\ ~ Equivalent(e, d)
  BY <1>2 DEF DocumentResolves, DocumentClashes
<1>4. /\ d \in command[c].documents /\ staged.documents = db.documents \cup docs
      /\ \A x, y \in command[c].documents : x.id = y.id => x = y
  BY <1>1, <1>2 DEF ProtocolInv, StagedInv, BatchInv, Batches
<1>5. d \in RawDocuments /\ e \in RawDocuments
  BY <1>1, <1>2, <1>3 DEF TypeOK, Tables
<1>6. e.id = d.id /\ e # d
  <2>1. e.id = d.id
    BY <1>3, <1>5, RawDocumentFields DEF DocumentClashes, RawDocumentId, CollectionIdentity
  <2>2. Equivalent(d, d)
    BY <1>5 DEF Equivalent, RawDocuments, RawDocument
  <2> QED BY <1>3, <2>1, <2>2
<1>7. e \in db.documents
  BY <1>3, <1>4, <1>6
<1> QED BY <1>4, <1>6, <1>7

\* The checkpoint a batch is refused for moved, or belongs to another connector.
LEMMA CheckpointRefusal ==
  ASSUME ProtocolInv, NEW c \in Clients, AdvanceCheckpoint(c),
         phase' = [phase EXCEPT ![c] = "ended"]
  PROVE  \/ db.checkpoints[command[c].source] # checkpoint[c]
         \/ db.checkpoints[command[c].source].connector # command[c].connector
<1> DEFINE stored == db.checkpoints[command[c].source]
<1>1. TypeOK /\ phase[c] = "writing"
  BY DEF ProtocolInv, AdvanceCheckpoint
<1>2. phase' # [phase EXCEPT ![c] = "committing"]
  BY <1>1 DEF TypeOK
<1>3. ~ CheckpointAccepts(stored, command[c].expected, command[c].connector)
  BY <1>1, <1>2 DEF AdvanceCheckpoint, ProtocolInv, CheckpointInv
<1>4. /\ command[c].expected = ExpectedRevision(checkpoint[c])
      /\ checkpoint[c] # None => stored # None
      /\ checkpoint[c] \in Checkpoints \cup {None}
  BY <1>1 DEF ProtocolInv, ReadInv, TypeOK
<1>5. CASE checkpoint[c] = None
  BY <1>3, <1>4, <1>5 DEF CheckpointAccepts, ExpectedRevision
<1>6. CASE checkpoint[c] # None
  <2>1. command[c].expected = checkpoint[c].revision /\ command[c].expected # None
    BY <1>4, <1>6, NoneIsNoValue DEF ExpectedRevision, Checkpoints
  <2> QED BY <1>3, <1>4, <1>6, <2>1 DEF CheckpointAccepts
<1> QED BY <1>5, <1>6

\* A checkpoint that was created stays.
LEMMA CheckpointStays ==
  ASSUME ProtocolInv, [SystemNext]_vars, NEW s \in Sources, db.checkpoints[s] # None
  PROVE  db'.checkpoints[s] # None
<1>1. lineage \subseteq lineage'
  BY OnlyCommitsAndPorts DEF Commit, PortWrite, PortCheckpoint
<1>2. \E l \in lineage : l.command.source = s
  BY DEF ProtocolInv, HeadInv
<1> QED BY <1>1, <1>2, NextProtocolInv DEF ProtocolInv, HeadInv

\* What a refusal was for stays in the tables: rows stay, and a checkpoint that
\* moved does not come back to what was read.
LEMMA RefusalsStay ==
  ASSUME ProtocolInv, ConflictsAreReal, [SystemNext]_vars, NEW c \in Clients,
         phase[c] = "ended", checkpoint'[c] = checkpoint[c], command'[c] = command[c]
  PROVE  /\ outcome[c] = "CheckpointConflict" =>
              \/ db'.checkpoints[command[c].source] # checkpoint[c]
              \/ db'.checkpoints[command[c].source].connector # command[c].connector
         /\ outcome[c] = "DocumentConflict" =>
              \E d \in command[c].documents, e \in db'.documents : d.id = e.id /\ d # e
<1> DEFINE s == command[c].source
           old == db.checkpoints[s]
           new == db'.checkpoints[s]
           read == checkpoint[c]
<1>1. TypeOK /\ TypeOK' /\ ReadInv
  BY NextProtocolInv DEF ProtocolInv
<1>2. s \in Sources
  BY <1>1 DEF TypeOK, Commands
<1>3. /\ old \in Checkpoints \cup {None} /\ new \in Checkpoints \cup {None}
      /\ read \in Checkpoints \cup {None}
  BY <1>1, <1>2 DEF TypeOK, Tables
<1>4. /\ old # None => \/ new = old
                       \/ new.connector = old.connector /\ new.revision = old.revision + 1
      /\ db.documents \subseteq db'.documents
  BY <1>2, TablesGrow
<1>5. read # None => old # None /\ read.revision <= old.revision
  BY <1>1 DEF ReadInv
<1>6. ASSUME outcome[c] = "CheckpointConflict"
      PROVE  new # read \/ new.connector # command[c].connector
  <2>1. old # read \/ old.connector # command[c].connector
    BY <1>6 DEF ConflictsAreReal
  <2>2. CASE new = old
    BY <2>1, <2>2
  <2>3. CASE new # old /\ old = None
    BY <1>5, <2>3
  <2>4. CASE new # old /\ old # None
    <3>1. old.revision \in Nat /\ new.revision = old.revision + 1
      BY <1>3, <1>4, <2>4 DEF Checkpoints
    <3>2. new # None
      BY <1>2, <2>4, CheckpointStays
    <3>3. read # None => read.revision \in Nat
      BY <1>3 DEF Checkpoints
    <3> QED BY <1>5, <3>1, <3>2, <3>3
  <2> QED BY <2>2, <2>3, <2>4
<1>7. ASSUME outcome[c] = "DocumentConflict"
      PROVE  \E d \in command[c].documents, e \in db'.documents : d.id = e.id /\ d # e
  BY <1>4, <1>7 DEF ConflictsAreReal
<1> QED BY <1>6, <1>7

LEMMA NextReal ==
  ASSUME ProtocolInv, ConflictsAreReal, [SystemNext]_vars
  PROVE  ConflictsAreReal'
<1> SUFFICES ASSUME NEW c \in Clients, phase'[c] = "ended"
             PROVE  /\ outcome'[c] = "CheckpointConflict" =>
                         \/ db'.checkpoints[command'[c].source] # checkpoint'[c]
                         \/ db'.checkpoints[command'[c].source].connector # command'[c].connector
                    /\ outcome'[c] = "DocumentConflict" =>
                         \E d \in command'[c].documents, e \in db'.documents :
                           d.id = e.id /\ d # e
  BY DEF ConflictsAreReal
<1>1. TypeOK
  BY DEF ProtocolInv
<1>2. CASE /\ phase[c] = "ended" /\ outcome'[c] = outcome[c]
           /\ checkpoint'[c] = checkpoint[c] /\ command'[c] = command[c]
  BY <1>2, RefusalsStay
<1>3. CASE outcome'[c] = "DocumentConflict" /\ WriteDocument(c)
  <2>1. \/ phase' = [phase EXCEPT ![c] = "ended"] /\ UNCHANGED <<db, command>>
        \/ UNCHANGED phase
    BY <1>3 DEF WriteDocument, Rollback, End, clientVars
  <2>2. phase[c] # "ended"
    BY <1>3 DEF WriteDocument
  <2> QED BY <1>3, <2>1, <2>2, DocumentRefusal
<1>4. CASE outcome'[c] = "CheckpointConflict" /\ AdvanceCheckpoint(c)
  <2>1. \/ phase' = [phase EXCEPT ![c] = "ended"] /\ UNCHANGED <<db, command, checkpoint>>
        \/ phase' = [phase EXCEPT ![c] = "committing"]
    BY <1>4 DEF AdvanceCheckpoint, Rollback, End
  <2> QED BY <1>1, <1>4, <2>1, CheckpointRefusal DEF TypeOK
<1> QED BY <1>1, <1>2, <1>3, <1>4, HowItEnds

\* A collector is refused for a document or a checkpoint it can find in the
\* committed tables (unit_of_work.py: the conflicts commit_collection raises).
THEOREM RefusalsAreReal == SystemSpec => []ConflictsAreReal
<1>1. SystemInit => ConflictsAreReal
  BY DEF SystemInit, ConflictsAreReal
<1>2. ProtocolInv /\ ConflictsAreReal /\ [SystemNext]_vars => ConflictsAreReal'
  BY NextReal
<1> QED BY <1>1, <1>2, ProtocolCorrect, PTL DEF SystemSpec

\* What the tables are made of when nobody inserts rows through the ports.
LEMMA CollectedRows ==
  ASSUME TypeOK, PortClaims = {}, PortWork = {}
  PROVE  /\ \A w \in db.work : w = DocumentWork(w.document)
         /\ \A i \in db.identities : i.kind \in {"collection", "content"}
<1>1. \A w \in db.work : \E i \in DocumentIds : w = DocumentWork(i)
  BY DEF TypeOK, Tables, WorkRows
<1>2. \A w \in db.work : w = DocumentWork(w.document)
  BY <1>1 DEF DocumentWork
<1>3. \A i \in db.identities : i.kind \in {"collection", "content"}
  BY DEF TypeOK, Tables, Claims, ClaimsOf, CollectionClaim, ContentClaim
<1> QED BY <1>2, <1>3

\* The documents claimed under a kind.
ClaimedUnder(identities, kind) ==
  {i.document : i \in {j \in identities : j.kind = kind}}

IdsOf(documents) == {d.id : d \in documents}

LEMMA ClaimedBy ==
  ASSUME NEW I, NEW D, NEW J,
         \A j : j \in J <=> j \in I \/ \E d \in D : j \in ClaimsOf(d),
         NEW kind \in {"collection", "content"}
  PROVE  ClaimedUnder(J, kind) = ClaimedUnder(I, kind) \cup IdsOf(D)
<1>1. \A d \in D : \E i \in ClaimsOf(d) : i.kind = kind /\ i.document = d.id
  BY DEF ClaimsOf, CollectionClaim, ContentClaim
<1>2. \A d \in D : \A i \in ClaimsOf(d) : i.document = d.id
  BY DEF ClaimsOf, CollectionClaim, ContentClaim
<1> QED BY <1>1, <1>2 DEF ClaimedUnder, IdsOf

\* The documents queued: a key that is taken already queues its document.
LEMMA QueuedBy ==
  ASSUME NEW W, NEW D, \A w \in W : w = DocumentWork(w.document)
  PROVE  {w.document : w \in W \cup {w \in {DocumentWork(d.id) : d \in D} : WorkClashes(W, w) = {}}}
           = {w.document : w \in W} \cup {d.id : d \in D}
<1> DEFINE new == {w \in {DocumentWork(d.id) : d \in D} : WorkClashes(W, w) = {}}
<1>1. \A d \in D : DocumentWork(d.id) \in new \/ \E w \in W : w.document = d.id
  <2> SUFFICES ASSUME NEW d \in D, NEW w \in WorkClashes(W, DocumentWork(d.id))
               PROVE  w \in W /\ w.document = d.id
    OBVIOUS
  <2>1. w \in W /\ w = DocumentWork(w.document)
    BY DEF WorkClashes
  <2> QED BY <2>1 DEF WorkClashes, DocumentWork
<1>2. \A d \in D : DocumentWork(d.id).document = d.id
  BY DEF DocumentWork
<1>3. \A w \in new : \E d \in D : w.document = d.id
  BY DEF DocumentWork
<1> HIDE DEF new
<1>4. {w.document : w \in W \cup new} = {w.document : w \in W} \cup {d.id : d \in D}
  <2>1. ASSUME NEW i, i \in {w.document : w \in W \cup new}
        PROVE  i \in {w.document : w \in W} \cup {d.id : d \in D}
    BY <2>1, <1>3
  <2>2. ASSUME NEW i, i \in {w.document : w \in W} \cup {d.id : d \in D}
        PROVE  i \in {w.document : w \in W \cup new}
    BY <2>2, <1>1, <1>2
  <2> QED BY <2>1, <2>2
<1> QED BY <1>4 DEF new

LEMMA NextOrphans ==
  ASSUME PortDocuments = {}, PortClaims = {}, PortWork = {},
         ProtocolInv, NoOrphans, [SystemNext]_vars
  PROVE  NoOrphans'
<1>1. TypeOK
  BY DEF ProtocolInv
<1>2. CASE UNCHANGED db
  BY <1>2 DEF NoOrphans
<1>3. ASSUME NEW s \in PortSources, NEW k \in Connectors, NEW r \in Revisions,
             NEW q \in Cursors \cup {None}, PortCheckpoint(s, k, r, q)
      PROVE  NoOrphans'
  <2>1. UNCHANGED <<db.documents, db.identities, db.work>>
    BY <1>1, <1>3 DEF PortCheckpoint, CompareAndSet, TypeOK, Tables
  <2> QED BY <2>1 DEF NoOrphans
<1>4. ASSUME NEW c \in Clients, Commit(c) PROVE NoOrphans'
  <2> DEFINE D == command[c].documents
  <2>1. /\ db'.documents = db.documents \cup D
        /\ db'.identities = db.identities \cup UNION {ClaimsOf(d) : d \in D}
        /\ db'.work = db.work \cup
             {w \in {DocumentWork(d.id) : d \in D} : WorkClashes(db.work, w) = {}}
    BY <1>4, CommitApplies DEF Applied, NewWork
  <2>2. {d.id : d \in db'.documents} = {d.id : d \in db.documents} \cup {d.id : d \in D}
    BY <2>1
  <2>3. {w.document : w \in db'.work} = {w.document : w \in db.work} \cup {d.id : d \in D}
    <3>1. \A w \in db.work : w = DocumentWork(w.document)
      BY <1>1, CollectedRows
    <3> QED BY <2>1, <3>1, QueuedBy
  <2>4. /\ ClaimedUnder(db'.identities, "collection")
             = ClaimedUnder(db.identities, "collection") \cup IdsOf(D)
        /\ ClaimedUnder(db'.identities, "content")
             = ClaimedUnder(db.identities, "content") \cup IdsOf(D)
    <3> HIDE DEF D
    <3>1. \A j : j \in db'.identities <=>
                   j \in db.identities \/ \E d \in D : j \in ClaimsOf(d)
      BY <2>1
    <3> QED BY <3>1, ClaimedBy
  <2> HIDE DEF D
  <2> QED BY <2>2, <2>3, <2>4 DEF NoOrphans, ClaimedUnder, IdsOf
<1>5. ~ PortWrite
  BY DEF PortWrite, PortInsert
<1> QED BY <1>2, <1>3, <1>4, <1>5, OnlyCommitsAndPorts

\* Without direct inserts no document is ever without its claims and its work,
\* nor a claim or a work item without its document, whatever fails or dies.
THEOREM NothingIsOrphaned ==
  ASSUME PortDocuments = {}, PortClaims = {}, PortWork = {}
  PROVE  SystemSpec => []NoOrphans
<1>1. SystemInit => NoOrphans
  BY DEF SystemInit, Init, EmptyTables, NoOrphans
<1>2. ProtocolInv /\ NoOrphans /\ [SystemNext]_vars => NoOrphans'
  BY NextOrphans
<1> QED BY <1>1, <1>2, ProtocolCorrect, PTL DEF SystemSpec

-----------------------------------------------------------------------------
(* Refinement: the transactional protocol implements the atomic boundary. *)

LEMMA CommitRefines ==
  ASSUME ProtocolInv, NEW c \in Clients, Commit(c)
  PROVE  CommitCollection
<1> DEFINE cmd == command[c]
<1>1. cmd \in Commands /\ Applicable(db, cmd) /\ db' = Applied(db, cmd)
  BY CommitApplies
<1>2. /\ cmd.documents \in Batches(cmd.source, cmd.connector)
      /\ NextRevision(cmd.expected) <= MaxRevision
  BY DEF Commit, ProtocolInv, BatchInv
<1>3. /\ cmd.source \in Sources /\ cmd.connector \in Connectors
      /\ cmd.expected \in Nat \cup {None} /\ cmd.cursor \in Cursors \cup {None}
  BY <1>1 DEF Commands
<1>4. cmd.expected \in Revisions
  BY <1>2, <1>3, PortsAreTyped DEF Revisions, NextRevision
<1>5. cmd = [source |-> cmd.source, connector |-> cmd.connector,
             expected |-> cmd.expected, cursor |-> cmd.cursor,
             documents |-> cmd.documents]
  BY <1>1 DEF Commands
<1>6. CheckpointAccepts(db.checkpoints[cmd.source], cmd.expected, cmd.connector)
  BY <1>1 DEF Applicable
<1>7. CommitBatch([source |-> cmd.source, connector |-> cmd.connector,
                   expected |-> cmd.expected, cursor |-> cmd.cursor,
                   documents |-> cmd.documents])
  BY <1>1, <1>5 DEF CommitBatch
<1> HIDE DEF cmd
<1> QED BY <1>2, <1>3, <1>4, <1>6, <1>7 DEF CommitCollection

LEMMA StepRefines ==
  ASSUME ProtocolInv, [SystemNext]_vars
  PROVE  [db' # db /\ Next]_db
<1>1. PortWrite => PortInsert
  BY DEF PortWrite
<1>2. \A s, k, r, q : PortCheckpoint(s, k, r, q) => CompareAndSet(s, k, r, q)
  BY DEF PortCheckpoint
<1>3. ASSUME NEW c \in Clients, Commit(c) PROVE CommitCollection
  BY <1>3, CommitRefines
<1> QED BY <1>1, <1>2, <1>3, OnlyCommitsAndPorts DEF Next

\* The committed tables, watched from outside, change only as the atomic
\* boundary AtomicCollection says: by one whole applicable command or one row.
THEOREM RefinementCorrect == SystemSpec => ImplementsAtomicCollection
<1>1. SystemInit => Init
  BY DEF SystemInit
<1>2. ProtocolInv /\ [SystemNext]_vars => [db' # db /\ Next]_db
  BY StepRefines
<1> QED BY <1>1, <1>2, ProtocolCorrect, PTL DEF SystemSpec, ImplementsAtomicCollection

\* The same, of the specification as AtomicCollection states it.
THEOREM ImplementsSpec == SystemSpec => Spec
<1>1. SystemInit => Init
  BY DEF SystemInit
<1>2. ProtocolInv /\ [SystemNext]_vars => [Next]_db
  BY StepRefines
<1> QED BY <1>1, <1>2, ProtocolCorrect, PTL DEF SystemSpec, Spec
=============================================================================
