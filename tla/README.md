# Verification of signalproject

TLA+ models of the program under `src/`, checked with TLC on small instances and,
for the parts that matter most, proved with TLAPS for every value of the
constants. Paths below are relative to `src/src/` unless they start with `src/`.

## 1. The system

signalproject turns what public sources publish into investment signals. Its code
falls into two halves that do not call each other yet.

**Ingestion** (Phase 7) polls sources through *connectors* and stores what they
return in a SQLite file. It is the half where processes share state that must
survive them.

| component | state it keeps | operations | talks to |
|---|---|---|---|
| `CollectionCoordinator` (`application/collection.py`) with `CollectionRunner` (`ingestion/service.py`) | none but the locals of one `collect()`: the checkpoint it read, the batch, the command | `collect` | reads the checkpoint port, calls a connector, calls the atomic persistence port |
| connectors (`ingestion/connectors/`) | none; a cursor travels in the checkpoint | `collect(source, checkpoint, limit)` | an HTTP feed, a manifest file |
| atomic persistence (`persistence/sqlite/atomic.py`) | none | `commit_collection` | the four tables, in one transaction |
| repositories (`documents.py`, `deduplication.py`, `work_items.py`, `checkpoints.py`) | the tables `documents`, `deduplication_identities`, `work_items`, `collection_checkpoints` | `insert`, `insert_identity`, `compare_and_set`, reads | one transaction of their own per call |
| `SQLiteDatabase` (`database.py`) | the file | `transaction`, `connection` | SQLite: `BEGIN IMMEDIATE`, busy timeout |
| migrations (`migration.py`) | the ledger `schema_migrations` | `migrate` | the file, before anything else |
| in-memory checkpoint store (`ingestion/cursor.py`) | a dict | `get`, `compare_and_set` | tests |
| durable WorkItem lifecycle (`persistence/ingestion/lifecycle.py`) | a record per work item: status, lease, attempt, revision | claim, renew, complete, retry, fail (a contract: no adapter yet), `evaluate_retry` | workers |

**The cycle** (Phases 1 to 6) runs a six-stage pipeline over an in-memory store.

| component | state it keeps | operations | talks to |
|---|---|---|---|
| `WorkQueue` (`runtime/queue.py`) | priority buckets, three terminal logs | `enqueue`, `dequeue`, `mark_completed`, `mark_failed`, `cancel`, `clear` | scheduler, dispatcher, retry orchestrator |
| `DefaultScheduler`, `CycleDispatcher` (`runtime/scheduler.py`) | last tick | `schedule`, `schedule_interval`, `notify`; `dispatch_one`, `drain` | the queue; the executor |
| retry (`retry_manager.py`, `retry_orchestrator.py`, `dead_letter.py`) | the dead-letter queue | `evaluate`, `handle_failed_cycle`, `handle_replay_from_dead_letter` | queue, dead-letter queue |
| `RuntimeCycle` (`runtime/cycle.py`) with executor, validator, audit log | the audit log | `run` | pipeline, store |
| pipeline (`workflow/`) | the `PipelineContext` of one cycle | `run`, six stages and their gates | the context |
| in-memory store (`persistence/in_memory.py`, `lifecycle.py`, `checkpoint.py`, `override.py`) | dicts by id, the override log | put, get, append, `snapshot`, `restore`, the lifecycle helpers | everyone |
| domain objects (`core/`) | immutable values with a status | transitions | everyone |
| research layer (`research/`) | none | promotion, synthesis, evolution, conflicts, curator | store |
| reports (`reports/`) | none | rendering | its inputs |

What is hard in it:

* **Ingestion.** Several processes may collect one source. Each reads the
  checkpoint, spends seconds in connector I/O outside any transaction, and then
  writes four tables under a lock it may not get, against tables that have moved.
  It can be refused or die between any two statements. Rows written through the
  repository ports meet the insert-or-resolve rules of the next batch.
* **Feeds.** A provider publishes, revises and withdraws entries between polls, in an
  order its cursor knows nothing of; one entry can stop a source.
* **The lifecycle.** Leases expire while their holder still works, and a command is
  executed long after its timestamp was taken.
* **Migrations.** Processes of different builds start on one file.
* **The queue.** Items are immutable copies, so an operation may act on a copy that
  is out of date; capacity is checked at the moment a retry needs room.
* **The cycle.** Failures are swallowed at several levels and the writes of one
  cycle are not a transaction. Gates are judged twice.
* **The store.** Callers keep frozen objects that go out of date; a snapshot is
  restored over a store that has moved on.
* **The research layer.** Passes, cycles and curators move the same signals in turn.

The hazards, each at its line and with the properties that cover it, are listed
in `PROJECT.json`.

### What makes each component correct

* Collection: a committed batch is whole and stays whole; the progress of a source
  is a chain (no fork, no gap); a refusal has a cause in the tables; the
  statement-by-statement protocol is indistinguishable from one atomic step;
  every collection ends.
* Feed and connectors: what the feed shows at a poll is eventually stored, once.
* Lifecycle: at most one worker may finish an attempt; the budget bounds attempts;
  a terminal item stays terminal; a revision is used once.
* Queue and retry: no item is lost or counted twice; priority and arrival order
  decide; a failing cycle is retried within its budget and then dead-lettered.
* Cycle: a report that says success describes what the store holds.
* Store and domain objects: a status moves along its graph; histories only grow and
  a successor keeps its predecessor's; evidence is written once; a snapshot restores
  what it captured.
* Research layer: the promoter moves a signal once, and a pass that returns has settled all of
  them.
* Migrations: the ledger is always a prefix of one registry, and each migration
  is applied once.

## 2. Modules

| module | models |
|---|---|
| `IngestionTables` | the four tables and the insert-or-resolve rule of each, as operators |
| `AtomicCollection` | the abstract specification: committed tables change by one whole applicable command, or by one row through a port |
| `SQLiteCollection` | the detailed specification: coordinators, transactions, statements, failures and crashes, port writers; its properties |
| `SQLiteCollectionProofs` | the theorems about it |
| `Connectors` | what the RSS and the filing connector return, as a function of feed, checkpoint and limit |
| `FeedPolling` | a source polled through the coordinator while its provider changes the feed |
| `FeedPollingProofs` | the theorems about it |
| `SchemaLedger` | the abstract specification of the migration runner: whole migrations only |
| `Migration` | processes in `migrate()` on one file |
| `MigrationProofs` | the theorems about it |
| `WorkContract` | the values of the durable WorkItem lifecycle and the rules of their constructors |
| `RetryTiming`, `RetrySweep` | the integer backoff with jitter, cap and hint; its evaluation over all small inputs |
| `ErrorText` | `sanitize_work_error_message` and what `WorkError` accepts |
| `WorkGrants` | the abstract specification of the lifecycle: exclusive, counted grants |
| `WorkLifecycle` | the detailed one: workers with old timestamps, leases, lost answers, crashes |
| `WorkLifecycleProofs` | the theorems about it, about `RetrySweep` and about `ErrorText` |
| `CycleAccounts` | the abstract specification of the runtime: one account per cycle, moved along one edge at a time |
| `RuntimeQueue` | the detailed specification: scheduler, priority queue, dispatcher, retry orchestrator, dead-letter queue; its properties |
| `RuntimeQueueProofs` | the theorems about its invariants and order, and that it implements `CycleAccounts` |
| `Gates` | the workflow gates as predicates on a context |
| `PipelineStages` | what `execute()` of each stage may leave in the context |
| `RuntimeCycle` | `RuntimeCycle.run` over these stages: gates, Validator, writes, report, audit |
| `RuntimeCycleProofs` | the theorems about it |
| `Lifecycles` | the transition graphs of the domain objects |
| `ObjectStore` | store, lifecycle helpers, override log, checkpoint and restore |
| `ObjectStoreProofs` | the theorems about it |
| `KnowledgePass` | `KnowledgeUpdater.update` beside cycles and curators |
| `KnowledgePassProofs` | the theorems about it |
| `MC...` | the instances for TLC |

`IngestionTables` is extended by `AtomicCollection`, which is extended by
`SQLiteCollection`; the variable `db` (the committed tables) is shared, so the
refinement mapping is the identity on `db` and hides everything else.
`RuntimeQueue` refines `CycleAccounts` through `Account`, which reads the account of
a cycle off the queues and logs its items are in. `WorkLifecycle` refines `WorkGrants`
by reading grants, grantee and state off a row, and `Migration` refines `SchemaLedger`
by the identity. `FeedPolling` composes the connectors with the coordinator and takes
the atomic commit from `AtomicCollection`, as an action. `Gates`, `PipelineStages` and
`RuntimeCycle` are one composition, and `Lifecycles` is used by `ObjectStore`. The two
halves of the program share no state, as in the code.

### State and actions of `SQLiteCollection`

| in the model | in the code |
|---|---|
| `db` | the committed contents of the file |
| `phase`, `checkpoint`, `command`, `outcome` | the locals of each client's `collect()` and what it returned or raised |
| `writer`, `staged`, `todo` | who is inside `BEGIN IMMEDIATE`, its uncommitted tables, and what is left of its two loops |
| `lineage` | a history variable: each committed checkpoint write with the cursor it started from |
| `Start` | `checkpoints.get` and `prepare_collection_work`, which refuses another connector version |
| `Collect`, `CollectFails` | the connector call outside any transaction; a partial batch is refused |
| `Begin`, `BusyTimeout` | `BEGIN IMMEDIATE`, granted or timed out |
| `WriteDocument` | one turn of the first loop: document, collection claim, content claim |
| `WriteWork` | one turn of the second loop |
| `AdvanceCheckpoint` | the compare-and-set that closes the transaction |
| `Commit`, `StorageFails`, `Crash` | COMMIT; an SQLite error with its rollback; process death at any step |
| `Return` | the caller takes the outcome and may collect again |
| `PortWrite`, `PortCheckpoint` | the repositories' own one-statement transactions |

Data are abstracted to what the rules compare. A document is its id, source,
external id, connector and one `payload` that stands for every other canonical
field, the retrieval time included; `ContentHash` maps payloads to hashes, so two
payloads with one hash are one body fetched at two times. `Stripped` is
`external_id.strip()`, the only part of the normalisation the id depends on.
Documents of a batch are written in any order, which covers the order the code
uses. A connector may return any batch the command accepts. The watermark, work
item timestamps and priorities, and provider run ids take part in no rule
modelled here.

A transaction that fails rolls back in the same step in which the statement
fails: SQLite's rollback cannot be observed half-way, since nobody else sees
`staged`.

### State and actions of `RuntimeQueue`

| in the model | in the code |
|---|---|
| `items` | every `WorkItem` ever enqueued, by arrival; an index stands for `work_item_id` |
| `buckets` | `WorkQueue._buckets`: the PENDING items of each priority |
| `log` | `_completed`, `_failed`, `_cancelled`: the statuses an item was logged with |
| `running` | items dequeued whose cycle has not ended: the RUNNING copy a dispatcher or caller holds |
| `failures` | the copies and reports on their way to `handle_failed_cycle` |
| `dead` | `DeadLetterQueue._entries` |
| `attempt` | the number each driver passes as `RetryContext.attempt_number` |
| `now`, `fired` | the wall clock and `ScheduleConfig.last_fired_at` |
| `setBack` | history: the interval ticks during whose call the clock was set back |
| `Schedule`, `Notify`, `ScheduleInterval` | the three triggers of `DefaultScheduler`; a full queue refuses them and nothing changes. The interval trigger reads the wall clock three times, and any time may pass, or be taken back, between two readings |
| `Dequeue` | `WorkQueue.dequeue`, by `dispatch_one` or by a caller of `RuntimeCycle.run` |
| `Cancel` | `WorkQueue.cancel` |
| `CycleSucceeds`, `DispatchRaises`, `ReportFails` | how a cycle ends: completed; failed by an exception the dispatcher catches; failed in its report, with the item still RUNNING |
| `Retry`, `DeadLetter` | `RetryOrchestrator.handle_failed_cycle`, with the decision of `RetryManager.evaluate` |
| `Replay` | `handle_replay_from_dead_letter` |
| `ClockMoves` | `now_utc()` reads a clock that may also be set back |

Two callers are outside `src/`. The driver hands a failed cycle to the orchestrator,
numbers its attempts from 1, adds one at each retry, keeps the number of the dead
letter when it is replayed, and keeps the failure when the queue is full, because
`QueueFullError` reaches it. The operator replays. Both are modelled from the
arguments the orchestrator takes and the errors it lets out.

In `Spec` an item is cancelled only while it is queued, as the docstring of `cancel`
asks; the code does not enforce that (section 6), and the properties are about callers
that keep to it.

Left out: `clear()` and the store binding, which no code in `src/src` uses;
the `TypeError` of a dispatcher built with a wrong executor; jitter, which is off by
default; the payload of a replayed item.

### State and actions of `FeedPolling`

| in the model | in the code |
|---|---|
| `feed` | what the provider shows: a set of entries [name, date, text, fault] |
| `store` | the committed documents of the source |
| `cursor`, `watermark` | those of the stored checkpoint |
| `held`, `stale` | the batch a poller has fetched, and whether its checkpoint moved since |
| `failure` | the error of the last fetch or commit |
| `prompt`, `shaken` | history: entries published ahead of every cursor in use; the manifest changed at or before one |
| `Publish`, `Withdraw` | the provider (external) |
| `Fetch`, `FetchNothing`, `FetchFails` | `collect()` of a connector (`rss.py:99`, `filing_fixture.py:23`) with its refusals |
| `Commit`, `Refuse`, `Crash` | the atomic commit, its two conflicts, and the death of a poller |

`Connectors` gives the batch: RSS filters by watermark and by the pair (date, external
id), sorts and cuts; the filing connector sorts the manifest and takes the positions
after its cursor. A feed that cannot be parsed is refused as a whole, a manifest record
(one without an id, which sorts first, too) when it is selected. The order of dates and
of names is a number; a generated id is a function of date and text. Every fetch stamps
a new retrieval time, so a document whose id is stored is never equivalent to the stored
one.

### State and actions of `Migration`

`ledger` and `schema` are the committed file, `lock` and `staged` the transaction under
way, `pc` and `next` the place of each process in `migrate()`. `Check` is the first
validation, `Begin`, `Decide`, `Execute`, `Record` are `_apply_if_needed` statement by
statement, `Confirm` the last validation; `CheckFails` (the file cannot be opened or its
ledger not read), `BeginTimesOut`, `StatementFails` and `Crash` are the failures. A
migration is its version, checksum and statements. A file may start with tables that no
migration made (`Foreign`) and is then refused for ever.

### State and actions of `WorkLifecycle`

| in the model | in the code |
|---|---|
| `row` | the durable row of an item: the fields of `WorkItemLifecycleRecord` |
| `hand` | the `ClaimAuthority` a worker holds |
| `call` | the request or command it has sent, with the timestamp it sampled |
| `told` | history: grants whose worker got the answer to its verdict |
| `Ask`, `Claim`, `ClaimNothing` | `claim_next`, with the normalization of expired items that have used their attempts |
| `Renew`, `Extend` | `renew` |
| `Report`, `Conclude` | `complete`, `retry`, `fail_terminal`, with the retry decision made before the call |
| `Refuse` | `WorkClaimLostError`, `WorkInvalidTransitionError` |
| `Crash`, lost answers, `Tick` | the environment |

The adapter is not in the repository: its actions are external and follow its port,
its contract tests and ADR-010. What is in `src/` are the constructors
(`WorkContract`), the retry policy (`RetryTiming`, one definition per step of
`evaluate_retry`) and the sanitizer (`ErrorText`, over four classes of characters).
A behaviour of `RetrySweep` is one item failing again and again; one of `ErrorText` is one
message, sanitized by the caller and wrapped in a `WorkError`.
`RecordsValid`, `CommandsValid` and `ResultsValid` say that adapter and constructors agree:
whatever the adapter has to store, the constructors accept. For a repeated terminal operation
ADR-010 (`src/ADR/ADR-010-*.md:499`) names `WorkClaimLostError` and the contract test
(`src/tests/contract/persistence/test_work_item_lifecycle_contract.py:605`)
`WorkInvalidTransitionError`; `Refuse` stands for both, and neither changes a row.

### State and actions of `RuntimeCycle`

| in the model | in the code |
|---|---|
| `store`, `knowledge` | the `Store` and what the injected integrator took |
| `ctx` | the `PipelineContext`, a record of sets |
| `at`, `stage` | where `run()` and the pipeline are |
| `outcome`, `counts`, `report`, `audit` | the status of each stage, what was emitted and written, the `CycleReport`, the audit log |
| `Start` | loading the active sources, the entities and the theses |
| `Execute` | `execute()` of a stage: every outcome `PipelineStages` gives it, raised ones included |
| `Judge` | its gates, with the evidence S2-G4 moves |
| `Abort` | an exception of the pipeline itself |
| `Validate` | the Validator's second judgement of all gates |
| `PersistSignals`, `PersistResearch`, `PersistTheses`, `PersistEvidence` | the loops of writes, each of which the store may break off after any part |
| `Conclude` | report and audit log |

Each of the six injected interfaces and the provider of stored theses returns any member
of a small set, raises (`faults`), answers what breaks the loop of its stage outside the
`try` block (`nonsense`: no list, or an item of the wrong make), or is `None`, the
default (`absent`). The integrator answers nothing that is looked at, so it raises or is
absent. An extractor may cite the evidence it was given, all of the cycle, or an id of
nothing. Research is about the entity the synthesizer was asked about and cites its
signals. Ids are structured (source, item; cycle, entity), which
makes them fresh without a counter. The clock is read in units in which two cycles may
fall together: `datetime.now` has a resolution, and a stamp is compared for equality
(`S6-G3`). Events of the router and all wording are left out.

### State and actions of `ObjectStore`

| in the model | in the code |
|---|---|
| `objects` | the dicts of `InMemoryStore`, as one function: ids are unique across kinds |
| `overrides` | `_overrides` |
| `copies` | the frozen object each caller holds |
| `captured`, `outcome` | the last snapshot and how the last restore ended |
| `Read` | a get |
| `Move`, `Evolve`, `Supersede` | the lifecycle helpers: transition the copy, put it over what is stored |
| `PutEvidence`, `Override` | `put_evidence`, `append_override` |
| `Checkpoint`, `Restore`, `RestoreMalformed`, `RestoreRefused` | `snapshot`, and `restore` with its two ways to fail |

A history entry is what was done, by whom and of which thesis. The status of a source is
loaded unconverted from a snapshot (`in_memory.py:292`), so a restore may leave it
`unknown`; damage that leaves a valid entry would be another snapshot. An entity has no
graph, so nothing is claimed of its status. An override is appended for any id
(`append_curator_override`): only the curator looks its target up. Supersession may stop
between its two writes (`Faulty`). Nothing keeps a caller from acting on a copy that was
overwritten since; the history variable `aged` records that one did, and the properties
that need current copies say so.

### State and actions of `KnowledgePass`

`KnowledgePass` keeps the stored `signals`, what the pass under way has still to write,
and whether the last one returned a `report`. `Begin` is steps 1 to 5 of `update`: all
decisions are made from the store before anything is written. Synthesis and theme
evolution give copies that nobody stores, so of them only the failure is left:
`BeginFails`, a theme whose interpretation has grown too long (`research/themes.py:289`).
`Persist` is one turn of the loop of writes, `PersistFails` a store error in it,
`Absorb` the end of the pass. `Arrive` is a cycle that stores a signal
between two passes and `Curate` a curator who moves one. `Decide` is the promoter with
its three bands; scores and thresholds are only compared. The contents of the report, of
the accumulator and of research and theses are left out.

## 3. Runs

A run is one `.cfg` with the MC module it names. Where a module has several small
instances, one run holds them all: a variable that keeps its value in a behaviour
(`scenario` in MC modules, `installed` and `connector` in models) says which instance
the behaviour is of, and a formula of the MC module (`Within`, `OneAtATime`, `Race`, `Ends`)
is the bound of each. These formulas restrict the steps of one run, as part of its
specification or as its ACTION_CONSTRAINT, and are no part of the models.

| run | instance | shows |
|---|---|---|
| `collection_race` | two clients that collect for ever, one source, two external ids, two fetches of each, revisions 0 and 1, weak fairness of each client | batches stay whole, progress is a chain, and the statements implement one atomic step under every interleaving of two collectors with failures and crashes; every collection ends |
| `collection_ports` | one client; direct writers on all four ports; two spellings of one id; three connector bindings that differ in name and in version | the inductive invariant beside every port writer; each conflict outcome has its cause in the tables, and none leaves a trace |
| `creation_race` | two clients, one cursor | a disagreement (section 6) |
| `runtime_retry` | two cycles, a work queue and a dead-letter queue of one place each, two attempts, two retry priorities, one replay, fairness | the invariants and the refinement when every refusal, drop and loss happens; every cycle settles although retries are refused |
| `runtime_order` | three interchangeable cycles, three priorities, room for all, manual policy; or manual and interval cycles, interval 2, clock 0 to 3 both ways, also within one call | order under cancellation from the middle; the spacing of interval cycles |
| `lost_replay` | two cycles, one place | a disagreement (section 6) |
| `work` | *race*: one item with two attempts, two workers, one renewal, one lost answer, one crash. *ends*: two items of one and two attempts, one of two workers may hang for ever. *sweep*: every attempt to 7, digest and hint, base values that floor. *text*: every message of up to six characters of four classes, limit three | exclusive, counted, fenced grants; every stored record and command is valid; every item ends; backoff, jitter, cap and hint; what is stored is clean |
| `feed` | *rss*: two pollers, two entries per poll, two entries of one date, a revision, an unreadable entry; the provider also withdraws. *filing*: two pollers of a manifest of up to five records, two of them with one id, one without an id, one with a bad date. *alone*: one poller that fails and crashes, four entries, one without a name | nothing ahead of the cursor is skipped, nothing fetched twice, and what stops a source for good; when a position in a sorted list counts a stored prefix; every entry published ahead is stored |
| `migration_race` | an old build, a newer one and one that disagrees about version 2, each started twice, on a new file or on one another program made | whole migrations only; a normal return means this build's schema; the lock comes free |
| `cycle` | *varied*: one cycle over a dozen stores, every answer of every interface, exceptions included. *faulty*: two cycles on one store, store errors, nonsense answers, a clock that may stand still. *broken*: two cycles over pairs of items and a producer that may answer nonsense, the one thing that goes wrong. *nonsense*: one cycle, nonsense from every interface, drafts that cite other evidence or none. *bare*: two cycles without integrator and provider, and store errors. *default*: no interface at all | evidence kept, but for what a broken producer mislays; the report counts what was written; the audit log shows which stage raised; theses evolve from what was stored; no cycle stops on its way |
| `store` | *theses*: two callers, a thesis or one object of another kind, three ids, histories of two entries, snapshots, halved pairs, up to one write from an overwritten copy. *sections*: a source, a thesis, two pieces of evidence, two overrides, restores that fail anywhere or load a status nobody checks | histories only grow, along the graphs, and a successor keeps its predecessor's; what a restore leaves is a first part of the snapshot |
| `research` | three signals of every score and status, two passes that return and any number that fail before or between their writes, curators | a verdict of the promoter is final; a pass that returns has settled all signals |

`MaxRevision` caps the checkpoint revision (a client that would exceed it does not
collect); everything else in the collection is a finite constant set. In
`collection_race` the second client's batches hold the second of the two payloads
only. Payloads are told apart by equality alone, and what a race compares is whether
two clients fetched at the same or at different times; the first client draws both.
In `runtime_order` the clock moves only in behaviours whose cycles were scheduled by
hand or by the interval, the only triggers the tick is compared with, and none has failed.

Two clients are enough for every race the code has: they interact only through
the tables and one lock, so a third client can only be another writer that
commits in between, and the port writers are that too. Revision 1 is enough to
see creation and an update race; revisions are only compared with the one that
was read. Two documents per batch let a batch fail after half of it was written.
The proofs remove these bounds for the safety properties.

In the runtime, `MaxTime` bounds the clock, `MaxReplays` the operator's replays, and
`Cycles` the arrivals; retries are bounded by the code. Two cycles are enough to
fill queues of one place, so that one cycle's retry, dead letter or replay meets the
other's item; order needs a third, to cancel from the middle of a bucket.
`CHECK_DEADLOCK FALSE` is set there because a runtime whose cycles have all settled
rests.

Of the other modules: `MaxRenewals`, `MaxLost` and `MaxCrashes` bound what goes wrong in
`WorkLifecycle`, whose attempts the code bounds and whose clock stops when nobody waits
for it; two attempts let a retry, a reclaim and an exhaustion meet one old command. In
`FeedPolling` nothing is bounded but the entries: revisions are compared through the set
of pollers that hold an old one. `MaxStarts` of two lets a process that died start
again. `MaxCycles` of two is a first and a later cycle, since a cycle keeps nothing but
the store. `MaxId`, `MaxHistory` and `MaxOverrides` bound `ObjectStore`: three ids are a
thesis superseded twice, or its successor superseded. `MaxPasses` of two lets a pass meet
what a failed or completed one left. `CHECK_DEADLOCK FALSE` is set where these bounds end
a behaviour, and where a sweep or a message is finished; `feed` and `cycle` check for
deadlock, the latter with a stutter for a run whose cycles are over (`MCSpec`).

`runtime_order` uses symmetry on the cycle ids, which no definition tells apart, and
checks no liveness. The deadlock check is on in every collection run: an idle client
can always start.

**Fairness.** `Fairness` is weak fairness of each client's next step: the program
is sequential code in a live process, connector I/O has a timeout
(`ingestion/connectors/rss.py:93`) and so has the wait for the lock
(`persistence/sqlite/database.py:93`). A prepared client always has a step enabled,
either `Begin` or `BusyTimeout`, so no strong fairness is needed. Nothing is assumed
about starting collections, crashes or failures.

In `RuntimeQueue` weak fairness is assumed of dequeueing (`drain` loops over
`dispatch_one`, `runtime/scheduler.py:274`), of some running cycle ending (a cycle is
sequential code) and of some failure being handled: a refused retry disables the
handling until there is room, but a full queue holds an item, which is dequeued in
the end. Scheduling, cancelling, replaying and the clock are not assumed.

In `WorkLifecycle` time passes, calls end, and one *reliable* worker ends its handlers
and polls; the others may hang for ever. `EveryItemEnds` holds for an item whose kind
that worker asks for again and again. In `MCFeedPolling` the poller that is alone with
its feed is scheduled again and again (weak fairness of ending a poll), and, strongly,
the provider answers now and then and not every batch is lost in a crash: nothing in the
code can do without that. In
`Migration` fairness is that of sequential code that does not hang; crashes are not
assumed either way. It needs no more, since a process in `begin` either gets the lock or
times out. The other models state no fairness: that a cycle reaches its end is the
deadlock check of `cycle`, since no step of a cycle is ever repeated.

## 4. Properties

Where a run checks several invariants of one subject, one definition with a name of
its own is their conjunction; the parts are named in the module and listed here.

Of collection:

* `ProtocolInv`: the inductive invariant, types included (section 5).
* `BatchesStayWhole`, `ProgressIsAChain`, `ConflictsAreReal`, `NoOrphans`:
  invariants that relate the tables to the history of committed commands, or to the
  refusal a client was given.
* `TablesOnlyGrow`: an action property.
* `ImplementsAtomicCollection`: the refinement of `AtomicCollection!Spec`, stated
  with the stutter first so that TLC does not search for a command on steps that
  leave `db` alone. `ImplementsSpec` proves the plain form.
* `CollectionsEnd`: liveness.

Of the runtime:

* `QueueInv`: the inductive invariant (section 5). Among its parts: `WithinCapacity`, both
  queues keep to their size, whoever enqueues; `OneItemPerCycle`, a cycle has one live
  item, in one place; `SettledIsFinal`, a completed or cancelled cycle is never taken up
  again.
* `NoItemVanishes`: an item that is nowhere is in a terminal log or was followed by
  another of its cycle; dropped and lost dead letters included.
* `TerminalOnce`: one terminal log entry per item, none while it is queued or runs.
* `RetriesWithinBudget`: automatic retries are bounded over a cycle's whole life.
* `DispatchOrder`: an action property: most urgent first, then oldest first.
* `TicksSpaced`: two interval cycles are an interval apart, however the wall clock is set
  between calls; only a tick during whose own call it was set back is excused (section 6).
* `CyclesSettle`: liveness: nothing waits, runs or fails for ever.
* `ImplementsAccounts`: the refinement of `CycleAccounts!AccountsSpec`.

Of the feeds and the migrations:

* `NothingSkipped`, `CursorNeverGoesBack`: the RSS cursor against a changing feed.
* `FeedInv`: types; `NothingTwice`, no fetch from the current checkpoint returns a stored document;
  `PrefixCollected`, the filing cursor counts what is stored.
* `JamIsStable`: what stops a source stops it until the provider acts.
* `AloneCollectsAll`, `LockComesFree`: liveness.
* `ImplementsLedger`: the refinement. `MigrationInv`: types, and `ReturnsSupported`, what
  a normal return of `migrate()` says of the file.

Of the lifecycle:

* `ConstructorsAccept`: types, and the rules of the constructors hold of every row,
  command, claim and result (`RecordsValid`, `CommandsValid`, `ResultsValid`).
* `ExclusiveAndCounted`: one worker may conclude (`OneAuthority`), attempts are bounded
  (`WithinBudget`). `NothingTakenEarly`: leases and backoff are respected.
* `ImplementsGrants`: the refinement. `EveryItemEnds`: liveness.
* `RetryDelays`: `WithinJitter`, `HintHonoured`, `BackoffGrows`. `StoredTexts`:
  `HandedIsClean`, `StoredIsClean`, `ShortIsStored`.

Of the cycle, the store and the research layer:

* `SignalsKeepTheirEvidence`, `ReportIsExact`, `AuditCoversEveryStage`, and
  `ThesesWereIntegrated` in `CycleInv`: what a finished cycle left in store, knowledge,
  report and audit log agrees. Two things excuse a signal from
  `SignalsKeepTheirEvidence`: a store that raises, and evidence nobody could retrieve
  in a cycle whose producer answered nonsense (`Mislaid`, section 6). It is about the
  cited ids that name evidence of the cycle: nothing in the code checks the others.
  `ThesesWereIntegrated` asks for the integrator where one is installed; without one
  (`stages.py:784`, `811`) S6 keeps the ripe theses and they are stored all the same.
* `LineagePreserved`, `PastIsKept`, and `RestoredIsCaptured` in `StoreInv`: histories and
  snapshots.
* `MovedOnce`, `PassSettles`.

## 5. Proofs

Eight modules hold theorems, one per component. Constants are arbitrary but for the
named assumptions of the modules, each of which TLC evaluates in a run.

### Collection

`SQLiteCollectionProofs` proves, for any sets of clients, sources, external ids,
payloads, connectors and cursors and any port writes, that `SystemSpec` implies
`[]TypeOK`, `[]ProtocolInv`, `[]ProgressIsAChain`, `[]BatchesStayWhole`,
`[]ConflictsAreReal`, `TablesOnlyGrow`, `ImplementsAtomicCollection` and
`AtomicCollection!Spec`; and `[]NoOrphans` when the ports write no document, claim or
work item, as a port writer may put down a document nobody claims.

The assumptions: stripping is idempotent, `None` is none of the values it stands
beside, and port writes are typed.

The safety properties are not inductive. What makes them so is `ProtocolInv`:

* `LockInv`: whoever is between BEGIN and COMMIT is the one writer;
* `ReadInv`: what a client read is the stored checkpoint or one it has left behind;
* `BatchInv`: past the connector a client holds an admissible batch;
* `StagedInv`: the staged tables are the committed ones plus exactly what the loops
  have done, all of it resolvable against the committed tables;
* `CheckpointInv`: the checkpoint is staged last and only if it may be;
* `HeadInv`: the stored checkpoint is the youngest write of its source's lineage.

The argument: only the writer and the ports change `db`, and ports need the lock
(`OnlyCommitsAndPorts`); by `StagedInv` and `CheckpointInv` the tables a commit
installs are the abstract `Applied` of the command and the command is `Applicable`
(`CommitApplies`), which is the refinement; by `ReadInv` and the compare-and-set
the new lineage entry extends the head (`ChainExtends`). A refusal is real because the
staged tables are applied rows of the batch itself and committed rows, and a batch is
admissible: what clashes was committed by somebody else.

### Runtime queue

`RuntimeQueueProofs` proves, for any capacities, policy, budget, delays, priorities of
retries and set of cycles, that `Spec` implies `[]QueueInv` and each of its conjuncts
above, `[]RetriesWithinBudget`, `DispatchOrder`, `[]TicksSpaced` and
`ImplementsAccounts`. The assumption is `ConfigurationIsValid`: sizes and budget are
positive, as the constructors and `RetryPolicy` check, and retries get one of the five
priorities.

`QueueInv` adds three facts without which a step breaks the properties:

* `InOrder`: a bucket holds items of its own priority in order of arrival, so the
  head is the oldest (`DispatchOrder`), also after a removal from the middle;
* `Numbered`: the attempt number of a cycle is one more than its retries, and a
  dead letter carries it, so a replay does not refill the budget;
* `BuriedAreLogged`: an item is logged before it becomes a dead letter, so dropping
  or losing the letter leaves a trace.

The argument has two cases. A step that adds no item (`SameItems`) moves one item from
one place to another or to a log: what leaves the live items is on record, and what is
newly settled was live, hence the only live item of its cycle. A step that adds an item
(`MoreItems`) puts it in the place of the live item of its cycle, if there is one.
`TicksSpaced` needs `Remembered`: no scheduled item is younger than the tick the
scheduler remembers, unless the clock was set back during its tick or a later one. For
the refinement, `AccountRead` computes the account of a cycle from its one live item,
and a step concerns the items of one cycle only (`OneMoves`).

### Knowledge pass

`KnowledgePassProofs` proves, for any signals, scores, thresholds and number of passes,
that `Spec` implies `[]TypeOK`, `[]MovedOnce` and `[]PassSettles`. The assumptions are
`PolicyIsOrdered` (the borderline is not above the publishing threshold, as
`PromotionPolicy` checks) and that `None` is neither a signal nor a set of them. Two facts make it inductive:

* `JudgedInv`: a signal the promoter has moved is one it would leave alone, also after
  what a curator may still do to it;
* `PendingInv`: what a running pass has still to write is exactly what the promoter would
  move in the store as it is now, so a pass that failed half-way and the next one agree.

Both rest on `DecisionsStand`: a decision, applied, decides the same again.

### Migrations

`MigrationProofs` proves, for any processes with any registries the constructors accept
(`RegistriesAreValid`), that `Spec` implies `[]MigrationInv` and `ImplementsLedger`.
`MigrationInv` is inductive by its part `PlaceInv`: the migrations before `next` are
applied, and under the lock `next` is the first that is not, with a first part of its
statements staged. Hence a process that records a migration has executed all of it and
appends to a ledger that is still a prefix of its registry. `OutcomesAreApart` tells an
error from a version.

### Durable lifecycle

`WorkLifecycleProofs` proves, for any workers, items, policies, renewals, crashes and
lost answers, that `Spec` implies `[]LifecycleInv`, `[]ExclusiveAndCounted`,
`ConstructorsAccept`, `NothingTakenEarly` and `ImplementsGrants`. `LifecycleInv` has types,
`RecordsValid`, `CommandsValid` and `ExclusiveAndCounted`, whose part `AuthorityInv` makes
it inductive: an authority trails its row, and one that is still current was sampled no
earlier than the row's last change. A command takes its timestamp when it is built and
is judged when it arrives, so without that a late result would have to be stored with a
time before the claim, which the constructors refuse. The assumptions are the ranges of
the constants (`LifecycleAssumption`, `NoneAssumption`), valid kind policies
(`PolicyAssumption`) and positive delays (`DelayAssumption`), which the constructor of
the retry decision demands.

The retry arithmetic is proved for any policy the constructor accepts and any attempt,
digest and hint: `SweepSpec` implies `RetryDelays` (`DelaysAreRight`), and what
`evaluate_retry` returns is what `DelayAssumption` asks for (`DelaysArePositive`). `pow` is a
recursive function of the exponent (`Power`), and nothing is known of it before it is shown
to exist: functions on `0..n` with its recursion can be prolonged (`PowersExist`) and agree
(`PowersAgree`), so one of them on `Nat` is `Power` (`PowerValues`). Induction is over a
set instead of a predicate: there is no least number outside a set that has 0 and every
successor of a member (`Counting`). The rest is
floors: a quotient is the largest integer whose product is within the dividend
(`Quotient`), the offset stays within the jitter whatever the digest
(`OffsetIsBounded`), and the floors of two attempts are no further apart than the multiplier
and one unit allow (`BackoffIsGrowing`).

The error texts are proved for messages of any length and any limit: `TextSpec` implies
`[]StoredTexts` (`TextsAreClean`). A filter is the characters at some places, in their
order (`Picked`), and the place of the k-th is the one with k kept places up to it
(`Numbering`: counting is a bijection between the places and their numbers). So each
kept space has the word before it kept just before it and a word kept after it (`JoinedIs`),
and a line of words is what it was (`JoinedIsStable`). `HandedIsClean` makes the
invariant inductive: what `WorkError` compares with its own sanitizing was sanitized before,
so a message it refuses was cut, and one it accepts ends with a word.

### Feeds

`FeedPollingProofs` proves, for any entries, limit and number of pollers, that `Spec`
implies `[]FeedInv`, `[]NothingSkipped`, `CursorNeverGoesBack` and `JamIsStable`. The
inductive invariant is `PollingInv`: types, `CursorInv`, `BatchInv`, `NothingSkipped`,
`PrefixCollected`. `BatchInv` is what makes it so: storing the records of a batch built on
the current checkpoint leaves nothing behind its next cursor. `NothingTwice` follows from
the others (`FetchedOnce`). Both connectors cut a sorted list, so the first lemmas are about
positions in a finite set under a strict order (`RankGrows`, `SliceIsBounded`,
`LastExists`), and the next about what a publication or withdrawal does to a position
(`PublishedRank`, `WithdrawnRank`). The assumptions: entries are numbers
in the ranges the comparison of strings and dates is encoded in (`ConnectorNumbers`,
`WatermarksAreDates`), and the provider publishes one entry of one name, date and text
(`EntriesArePublished`).

### Object store

`ObjectStoreProofs` proves, for any callers, stocks and bounds, that `Spec` implies
`[]StoreInv`, `[]LineagePreserved` and `PastIsKept`. The invariant, `StoreInv` and
`LineagePreserved` together, is inductive: a helper extends a history by entries that
name no thesis, or gives a successor, under an id no entry names yet, the predecessor's
history and one entry that names it; a restore leaves a first part of the snapshot with
the histories it has there (`PartOfLineage`); and a put from an overwritten copy sets
`aged`, after which lineage is not claimed. The assumptions are ranges
(`StoreAssumption`) and that a run starts with new objects (`StocksAreNew`).

### Cycle

`RuntimeCycleProofs` proves, for any interfaces, stores and number of cycles, that `Spec`
implies `[]CycleInv`, `[]SignalsKeepTheirEvidence`, `[]ReportIsExact` and
`[]AuditCoversEveryStage`. `CycleAssumption` says that a store is of the six dicts, that its
theses are keyed by id, that a first cycle finds no signals, no research and only theses
of before, and that an evolver proposes statuses a thesis can have.
The inductive invariant `RunInv` has seven parts:

* `PlaceInv`: types, and where `run()` stands;
* `CtxInv`: what is in the context is of this cycle, one research per entity, theses keyed
  by id;
* `GroundInv`: evidence that cannot be retrieved leaves the context before signals are
  drawn from it, unless the producer broke its stage; what a stored signal lacks is about
  to be written;
* `ThesisInv`: what S6 leaves is past emerging, and was integrated if anyone can do it;
* `CountInv`: what is counted as written is what the store has of this cycle;
* `ReportInv`, `AuditInv`: the report tells an aborted cycle, and the events tell how every
  stage that is over ended.

One lemma per stage says what `execute()` leaves of the context it was given, one per
action what it leaves of the other variables, and one per part of `RunInv` that the
actions keep it. The interfaces are a constant, so the proofs hold for every combination
of those that raise, answer nonsense or are absent. The first attempt at `GroundInv`
failed: S2 breaks off before its gates when a producer answers nonsense, and what it
then mislays is `Mislaid`.

### Only model-checked

Liveness (`CollectionsEnd`, `CyclesSettle`, `AloneCollectsAll`, `LockComesFree`,
`EveryItemEnds`), since fairness is outside what the prover supports. The two
disagreements that have a run are counterexamples. Every other property of a run is a
theorem.

## 6. Disagreements found

`creation_race`: ADR-008 says the loser of a race to create a checkpoint is told
`CheckpointConflictError` (`src/ADR/ADR-008-phase7-persistence-decisions.md:266`) and
its sketch verifies the checkpoint first (line 514). `commit_collection` writes the
documents first, and a document fetched at another time is not equivalent, so the
loser of a race over the same window is told `DocumentConflictError`. A caller that
retries on `CheckpointConflictError` only, which is what the error means, does not
retry. Nothing is corrupted: the loser is rolled back.

`lost_replay`: `handle_replay_from_dead_letter` pops the dead letter before it
enqueues the new item (`runtime/retry_orchestrator.py:154`). When the queue is full
the entry is lost to every later replay; only the failed log still has the item.

Others were met while modelling. They are read off one definition, so no run is spent
on them. Where the code is modelled, the models do what it does, but for the cancelling
of stale copies, and the properties state what holds in spite of it; the rest was read
off code that is left out.

In the runtime:

* `WorkQueue.cancel` (`runtime/queue.py:287`) validates the copy it is handed and not
  the item, so the PENDING copy `schedule` returned cancels an item that is already
  running, although the class says transitions are validated (`runtime/queue.py:155`).
* `schedule_interval` reads the wall clock for the due check, for `enqueued_at` and for
  `last_fired_at` (`runtime/scheduler.py:168`, `217`, `181`). A clock set back between two
  of these readings puts two interval cycles closer together than the interval its
  docstring speaks of (`scheduler.py:149`): the new item is stamped before the time it was
  found due at, or the tick remembered lies before the item's stamp. One reading would do.
* The delay `RetryManager` computes is read by nobody: a retry is enqueued at once,
  while `RetryDecision` says how long to wait before it (`runtime/retry.py:83`).

In the lifecycle: `sanitize_work_error_message` cuts at the limit after it has stripped,
so a space may become the last character, and `WorkError` refuses the text it was
sanitized for (`persistence/ingestion/lifecycle.py:492`, `117`). `ShortIsStored` says
that this is the only refusal.

In the cycle, against `src/docs/02_WORKFLOW_MODEL.md`, `03_RUNTIME_MODEL.md` and the
code's comments:

* a stage that raises leaves no trace in the report (`workflow/pipeline.py:76`); the
  audit log shows it (`AuditCoversEveryStage`);
* the Validator reports a gate as failed that passed when its stage ran
  (`runtime/validator.py:132`), since it judges what the last stage left, and S2-G4
  moves evidence while it judges (`workflow/gates.py:235`);
* an object whose gate failed is stored (`workflow/stages.py:742`), and a thesis is
  integrated before it is made pending (`stages.py:812`): knowledge and the pending list
  then both have it;
* without an integrator, the default, the last stage keeps the ripe theses, advances and
  has them stored, though nobody integrated them (`stages.py:811`);
* S3-G2, the gate on evidence grounding, checks that a signal names some evidence id and
  not that the id is known (`workflow/gates.py:284`): a made-up id is stored;
* an observer, extractor, synthesizer or crystallizer that answers something of the wrong
  make breaks its stage outside the `try` blocks (`stages.py:250`, `260`, `470`, `606`,
  `704`), and what came before the break goes on;
* a degraded source is observed again by the next cycle, and a pending thesis is gone
  with the context of its cycle (`stages.py:249`, `804`);
* a store error leaves signals without evidence, and no report (`runtime/cycle.py:211`):
  `SignalsKeepTheirEvidence` is about a store that raises none;
* evidence that cannot be retrieved grounds signals when the producer answers nonsense:
  S2 raises before its gates (`workflow/stages.py:338`), S3 draws signals from what is in
  the context, and only the Validator's S2-G4 takes that evidence out, to mark it as
  excluded from downstream grounding (`workflow/gates.py:231`). The signals are stored, and
  their evidence is not: hence `Mislaid`.

In the store:

* a helper that is handed an old copy moves a status outside its graph
  (`persistence/lifecycle.py:71`): hence `aged`;
* a supersession may be half written (`lifecycle.py:111`), by a backend whose
  `put_thesis` can fail; `InMemoryStore` has no such failure;
* a restore deletes override records (`in_memory.py:188`), gives a record without a
  payload an empty one (`in_memory.py:472`), and fails on a malformed entry with another
  exception than `PersistenceError`, or loads it: the status of a source is not converted
  (`in_memory.py:292`), though a malformed snapshot should be "loud, not silent"
  (`in_memory.py:245-246`).

In the research layer:

* research a pass reports as created is not stored (`research/knowledge.py:147`);
* the module docstring of the promoter has an ACTIVE signal decay below 0.30 or when its
  age exceeds its horizon, and go back to HELD in between (`research/promotion.py:10-11`);
  `evaluate` decays it below `borderline_low`, 0.45, knows no age and has no way from
  ACTIVE to HELD (`promotion.py:169`), as its own docstring says (`promotion.py:109-112`);
* a signal a cycle stored as held with a score below the borderline and a curator
  publishes is decayed by the next pass: `MovedOnce` is about verdicts of the promoter,
  and a curator's is not one;
* low confidence does not keep a signal from being published (`research/promotion.py:142`);
* a thesis is listed once for every pass (`core/knowledge/__init__.py:92`);
* a score set after the noise is reported stale (`research/conflicts.py:179`);
* the score of an object that is no signal may be overridden (`research/curator.py:121`).

## 7. Plan

Done, in the order of importance: the collection core; the runtime queue and its
abstract accounts; the durable lifecycle with its retry policy; the feeds; the
migrations; the runtime cycle with its pipeline; the object store; the research layer's
passes. Their four refinements are proved, and all their safety properties.

### Not modelled

* Reports and repository scripts: rendering of immutable inputs and checks of
  documentation files; no state and no interaction.
* Calibration: statistics over the override log, computed on demand. The curator's log
  itself is only appended to, and its conflicts are computed from it on demand.
* The in-memory checkpoint store: for tests, and documented as not thread-safe.
* `workflow/cardinality.py`, `update_rules.py` and `persistence.py`: called by tests only.
* XML, HTTP, JSON and date parsing, row and snapshot (de)serialisation field by field.
* The `TypeError` of a dispatcher built with a wrong executor, and the Validator's events,
  which are not in the audit log.
* Starvation of low priorities has no property: it needs an endless stream of arrivals.
