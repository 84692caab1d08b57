----------------------------- MODULE Migration -----------------------------
(***************************************************************************)
(* Processes that start on one database file and run migrate(): validate   *)
(* what is applied, apply each migration of the registry in a transaction  *)
(* of its own, validate again.  Builds of different age meet: a registry   *)
(* is a sequence of migrations, and two registries may disagree.  A        *)
(* process can die anywhere, a statement can fail, and the wait for the    *)
(* write lock is bounded.                                                  *)
(***************************************************************************)
EXTENDS Naturals, Sequences, SequencesExt

CONSTANTS
  Processes,
  Registry,    \* the migrations each process is built with
  None,
  Incompatible, Operational,   \* MigrationCompatibilityError, PersistenceOperationalError
  Foreign,    \* tables a file may have that no migration made
  MaxStarts   \* how often a process is started

IsTuple(t) == t \in Seq(Range(t))

\* _validate_registry: contiguous versions from 1, each with statements.
ValidRegistry(migrations) ==
  /\ IsTuple(migrations) /\ migrations # <<>>
  /\ \A i \in DOMAIN migrations :
       /\ migrations[i].version = i
       /\ IsTuple(migrations[i].statements) /\ migrations[i].statements # <<>>

ASSUME RegistriesAreValid == \A p \in Processes : ValidRegistry(Registry[p])

\* A version is told from an error, and a process from the absence of one.
ASSUME OutcomesAreApart ==
  /\ None \notin Processes
  /\ {None, Incompatible, Operational} \cap Nat = {}

\* Every migration some build knows.
Known == UNION {Range(Registry[p]) : p \in Processes}

VARIABLES
  ledger, schema,   \* committed
  lock,             \* process in a write transaction, or None
  staged,           \* statements executed in that transaction
  pc,               \* where each process is in migrate()
  next,             \* index of the migration it applies
  result,           \* version it returned, or why it raised
  starts

vars == <<ledger, schema, lock, staged, pc, next, result, starts>>

Steps == {"down", "check", "begin", "decide", "execute", "confirm", "done"}

Errors == {Incompatible, Operational}

TypeOK ==
  /\ ledger \in Seq(Known)
  /\ lock \in Processes \cup {None}
  /\ pc \in [Processes -> Steps]
  /\ next \in [Processes -> Nat \ {0}]
  /\ result \in [Processes -> Nat \cup Errors \cup {None}]
  /\ lock = None => staged = <<>>
  /\ \A p \in Processes : lock = p <=> pc[p] \in {"decide", "execute"}

Init ==
  /\ ledger = <<>> /\ schema \in Foreign \cup {<<>>}
  /\ lock = None /\ staged = <<>>
  /\ pc = [p \in Processes |-> "down"]
  /\ next = [p \in Processes |-> 1]
  /\ result = [p \in Processes |-> None]
  /\ starts = [p \in Processes |-> 0]

\* Mutant: a ledger newer than the registry is no obstacle.
CompatibleWithNewer(p) ==
  /\ ledger = <<>> => schema = <<>>
  /\ \A i \in DOMAIN ledger : i <= Len(Registry[p]) => ledger[i] = Registry[p][i]

\* _validate_applied_migrations: not newer, no gap, names and checksums equal; and
\* a file without a ledger has no tables.
Compatible(p) == (ledger = <<>> => schema = <<>>) /\ IsPrefix(ledger, Registry[p])

Goto(p, step) == pc' = [pc EXCEPT ![p] = step]

Raise(p, error) ==
  /\ Goto(p, "done")
  /\ result' = [result EXCEPT ![p] = error]

\* Mutant: a transaction that ends keeps the lock.
NeverReleases(p) == lock' = p /\ staged' = <<>>

Release(p) == lock' = None /\ staged' = <<>>

Start(p) ==
  /\ pc[p] \in {"down", "done"} /\ starts[p] < MaxStarts
  /\ Goto(p, "check")
  /\ next' = [next EXCEPT ![p] = 1]
  /\ result' = [result EXCEPT ![p] = None]
  /\ starts' = [starts EXCEPT ![p] = @ + 1]
  /\ UNCHANGED <<ledger, schema, lock, staged>>

Check(p) ==
  /\ pc[p] = "check"
  /\ IF Compatible(p) THEN Goto(p, "begin") /\ UNCHANGED result
     ELSE Raise(p, Incompatible)
  /\ UNCHANGED <<ledger, schema, lock, staged, next, starts>>

\* The file cannot be opened, or its ledger cannot be read.
CheckFails(p) ==
  /\ pc[p] \in {"check", "begin", "confirm"}
  /\ \E error \in Errors : Raise(p, error)
  /\ UNCHANGED <<ledger, schema, lock, staged, next, starts>>

Begin(p) ==
  /\ pc[p] = "begin" /\ lock = None
  /\ lock' = p
  /\ Goto(p, "decide")
  /\ UNCHANGED <<ledger, schema, staged, next, result, starts>>

BeginTimesOut(p) ==
  /\ pc[p] = "begin" /\ lock # None
  /\ Raise(p, Operational)
  /\ UNCHANGED <<ledger, schema, lock, staged, next, starts>>

\* next migration, or the final validation after the last one.
Proceed(p) ==
  /\ next' = [next EXCEPT ![p] = @ + 1]
  /\ Goto(p, IF next[p] < Len(Registry[p]) THEN "begin" ELSE "confirm")

\* Mutant: what was applied is not read again under the lock.
AppliesBlindly(p) ==
  /\ pc[p] = "decide"
  /\ Goto(p, "execute")
  /\ UNCHANGED <<ledger, schema, lock, staged, next, result, starts>>

\* The ledger is read again under the lock: another process may have been here.
Decide(p) ==
  /\ pc[p] = "decide"
  /\ \/ /\ ~Compatible(p) \/ next[p] > Len(ledger) + 1
        /\ Raise(p, Incompatible) /\ Release(p) /\ UNCHANGED next
     \/ /\ Compatible(p) /\ next[p] <= Len(ledger)
        /\ Proceed(p) /\ Release(p) /\ UNCHANGED result
     \/ /\ Compatible(p) /\ next[p] = Len(ledger) + 1
        /\ Goto(p, "execute") /\ UNCHANGED <<lock, staged, next, result>>
  /\ UNCHANGED <<ledger, schema, starts>>

Statements(p) == Registry[p][next[p]].statements

Execute(p) ==
  /\ pc[p] = "execute" /\ Len(staged) < Len(Statements(p))
  /\ staged' = Append(staged, Statements(p)[Len(staged) + 1])
  /\ UNCHANGED <<ledger, schema, lock, pc, next, result, starts>>

\* Reading the ledger, a statement, the insert into the ledger or the commit
\* fails: roll back.
StatementFails(p) ==
  /\ pc[p] \in {"decide", "execute"}
  /\ \/ Raise(p, Operational)
     \/ pc[p] = "decide" /\ Raise(p, Incompatible)
  /\ Release(p)
  /\ UNCHANGED <<ledger, schema, next, starts>>

Record(p) ==
  /\ pc[p] = "execute" /\ Len(staged) = Len(Statements(p))
  /\ ledger' = Append(ledger, Registry[p][next[p]])
  /\ schema' = schema \o staged
  /\ Release(p) /\ Proceed(p)
  /\ UNCHANGED <<result, starts>>

Confirm(p) ==
  /\ pc[p] = "confirm"
  /\ Raise(p, IF Compatible(p) THEN Len(ledger) ELSE Incompatible)
  /\ UNCHANGED <<ledger, schema, lock, staged, next, starts>>

\* The process dies; SQLite rolls back what it had not committed.
Crash(p) ==
  /\ pc[p] \notin {"down", "done"}
  /\ Goto(p, "down")
  /\ lock' = IF lock = p THEN None ELSE lock
  /\ staged' = IF lock = p THEN <<>> ELSE staged
  /\ UNCHANGED <<ledger, schema, next, result, starts>>

Run(p) ==
  \/ Check(p) \/ CheckFails(p) \/ Begin(p) \/ BeginTimesOut(p) \/ Decide(p)
  \/ Execute(p) \/ StatementFails(p) \/ Record(p) \/ Confirm(p)

Next == \E p \in Processes : Start(p) \/ Run(p) \/ Crash(p)

Spec == Init /\ [][Next]_vars

\* A running process goes on until it returns, raises or dies.
FairSpec == Spec /\ \A p \in Processes : WF_vars(Run(p))

-----------------------------------------------------------------------------
(* Properties. *)

\* The file goes through whole migrations only, ledger and schema together,
\* whatever fails, dies or races: the abstract specification.
Ledger == INSTANCE SchemaLedger WITH
  Migrations <- Known
ImplementsLedger == Ledger!LedgerSpec

\* Returning normally means that the file held exactly the migrations of this
\* build: never fewer, never one of another build.  Another build may add its
\* own later, and that is the only way the two can come apart.
ReturnsSupported ==
  \A p \in Processes :
    result[p] \in Nat => result[p] = Len(Registry[p]) /\ IsPrefix(Registry[p], ledger)

\* Where a process is in migrate() and what it then knows of the file: the
\* migrations before `next' are applied, and under the lock `next' is the first
\* that is not, with a first part of its statements staged.
PlaceInv ==
  \A p \in Processes :
    /\ pc[p] = "check" => next[p] = 1
    /\ pc[p] \in {"begin", "decide", "execute"} => next[p] <= Len(Registry[p])
    /\ pc[p] \in {"begin", "decide", "execute", "confirm"} => next[p] <= Len(ledger) + 1
    /\ pc[p] = "decide" => staged = <<>>
    /\ pc[p] = "execute" => /\ Compatible(p) /\ next[p] = Len(ledger) + 1
                            /\ IsTuple(staged) /\ IsPrefix(staged, Statements(p))
    /\ pc[p] = "confirm" => next[p] = Len(Registry[p]) + 1

\* The inductive invariant: types, who has the lock, where everybody is, and what
\* a normal return of migrate() says of the file.
MigrationInv == TypeOK /\ PlaceInv /\ ReturnsSupported

\* The write lock comes free again, whatever becomes of the transaction: no
\* start of a process locks the database for the others for good.
LockComesFree == \A p \in Processes : (lock = p) ~> (lock = None)
=============================================================================
