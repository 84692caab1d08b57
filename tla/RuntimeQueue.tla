------------------------------ MODULE RuntimeQueue ------------------------------
(***************************************************************************)
(* The in-process runtime: a scheduler puts cycles on a bounded priority   *)
(* queue, a dispatcher or a caller of RuntimeCycle takes and runs them,    *)
(* and the retry orchestrator sends a failed one back to the queue or to a *)
(* bounded dead-letter queue.  The WorkItems are frozen: every caller      *)
(* holds copies, and the queue learns what happened only from the copy it  *)
(* is handed.                                                              *)
(***************************************************************************)
EXTENDS Naturals, SequencesExt, FiniteSetsExt

CONSTANTS
  None,
  Cycles,        \* cycle ids that new_id() can return
  MaxSize,       \* WorkQueue(max_size)
  MaxDead,       \* DeadLetterQueue(max_size)
  Policy,        \* RetryPolicy.kind
  MaxAttempts,   \* RetryPolicy.max_attempts
  Retryable,     \* RetryContext.is_retryable
  Severities,    \* severities that burst events carry
  RetryPriorities,  \* priorities given to retries and replays
  Interval,      \* seconds between scheduled cycles
  MaxTime,       \* bound: the wall clock stays in 0 .. MaxTime
  MaxReplays     \* bound: how often an operator replays a dead letter

HIGHEST == 0
HIGH    == 10
NORMAL  == 50
LOW     == 90
LOWEST  == 100
Priorities == {HIGHEST, HIGH, NORMAL, LOW, LOWEST}

Kinds == {"manual", "immediate", "exponential"}
Triggers == {"manual", "scheduled", "burst", "retry", "replay"}
Terminal == {"completed", "failed", "cancelled"}

ASSUME ConfigurationIsValid ==
  /\ None \notin Nat
  /\ {MaxSize, MaxDead, MaxAttempts} \subseteq Nat \ {0}
  /\ {Interval, MaxTime, MaxReplays} \subseteq Nat
  /\ Policy \in Kinds
  /\ Retryable \in BOOLEAN
  /\ RetryPriorities \subseteq Priorities

VARIABLES
  items,     \* the WorkItems ever enqueued, in that order
  buckets,   \* priority -> the PENDING items, by index into items
  log,       \* item -> the terminal statuses it was logged with
  running,   \* items dequeued, whose cycle has not ended
  failures,  \* copies of failed items on their way to the orchestrator
  dead,      \* the dead-letter queue
  attempt,   \* the attempt number its driver keeps for each cycle
  now,       \* the wall clock
  fired,     \* ScheduleConfig.last_fired_at
  setBack    \* history: the interval ticks during whose call the wall clock
             \* was set back

queueVars == <<items, buckets, log>>
clockVars == <<now, fired, setBack>>
vars == <<queueVars, running, failures, dead, attempt, clockVars>>

Item == [cycle : Cycles, priority : Priorities, trigger : Triggers,
         at : 0 .. MaxTime]
Failure == [item : DOMAIN items, status : {"running", "failed"},
            error : BOOLEAN]
Entry == [item : DOMAIN items, attempt : 1 .. MaxAttempts]

CycleOf(i) == items[i].cycle

-----------------------------------------------------------------------------
(* WorkQueue *)

Size == Len(buckets[HIGHEST]) + Len(buckets[HIGH]) + Len(buckets[NORMAL])
        + Len(buckets[LOW]) + Len(buckets[LOWEST])

HasRoom == Size < MaxSize

Queued == UNION {ToSet(buckets[p]) : p \in Priorities}

\* A fresh PENDING item, stamped `at`, goes to the tail of its bucket.
Enqueue(c, p, t, at) ==
  /\ HasRoom
  /\ items' = Append(items, [cycle |-> c, priority |-> p, trigger |-> t,
                             at |-> at])
  /\ buckets' = [buckets EXCEPT ![p] = Append(@, Len(items) + 1)]
  /\ log' = Append(log, <<>>)

Logged(i, status) == log' = [log EXCEPT ![i] = Append(@, status)]

\* Mutant: a bucket is served from its tail.
YoungestFirst(p) ==
  /\ buckets[p] # <<>>
  /\ \A q \in Priorities : q < p => buckets[q] = <<>>
  /\ running' = running \cup {Last(buckets[p])}
  /\ buckets' = [buckets EXCEPT ![p] = Front(@)]

\* The head of the first bucket that is not empty.
TakeNext(p) ==
  /\ buckets[p] # <<>>
  /\ \A q \in Priorities : q < p => buckets[q] = <<>>
  /\ running' = running \cup {Head(buckets[p])}
  /\ buckets' = [buckets EXCEPT ![p] = Tail(@)]

Dequeue ==
  /\ \E p \in Priorities : TakeNext(p)
  /\ UNCHANGED <<items, log, failures, dead, attempt, clockVars>>

\* Mutant: the cancelled copy is looked up by equality, which a copy with
\* another status never satisfies.
CancelByEquality(i) ==
  /\ Logged(i, "cancelled")
  /\ UNCHANGED <<items, buckets, running, failures, dead, attempt, clockVars>>

\* Whoever holds a PENDING copy of item i cancels it; the item leaves its
\* bucket if it is still there.
Cancel(i) ==
  /\ Logged(i, "cancelled")
  /\ buckets' = [buckets EXCEPT ![items[i].priority] = RemoveFirst(@, i)]
  /\ UNCHANGED <<items, running, failures, dead, attempt, clockVars>>

-----------------------------------------------------------------------------
(* The scheduler: QueueFullError leaves everything as it was. *)

\* A cycle nobody has had before, numbered 1 by its driver.
NewCycle(p, t, at) ==
  /\ \E c \in Cycles :
       /\ \A i \in DOMAIN items : CycleOf(i) # c
       /\ Enqueue(c, p, t, at)
       /\ attempt' = [attempt EXCEPT ![c] = 1]
  /\ UNCHANGED <<running, failures, dead>>

Schedule == NewCycle(NORMAL, "manual", now) /\ UNCHANGED clockVars

SeverityPriority == [critical |-> HIGHEST, warning |-> HIGH, info |-> NORMAL]

Notify ==
  /\ \E s \in Severities :
       NewCycle(IF s \in DOMAIN SeverityPriority THEN SeverityPriority[s]
                ELSE HIGH, "burst", now)
  /\ UNCHANGED clockVars

\* Mutant: one second too early.
DueSoon == fired # None => now + 1 >= fired + Interval

Due == fired # None => now >= fired + Interval

\* No reading of one call is earlier than the one before it; the first tick
\* of all reads no clock to see whether it is due.
ClockHeld(made, stamped) == (fired # None => now <= made) /\ made <= stamped

\* The call reads the wall clock three times: now, to see whether it is due;
\* `made`, the item's enqueued_at; and `stamped`, once the item is queued.
\* The clock may be moved, and set back, between any two of them.
ScheduleInterval ==
  /\ Due
  /\ \E made, stamped \in 0 .. MaxTime :
       /\ NewCycle(NORMAL, "scheduled", made)
       /\ fired' = stamped /\ now' = stamped
       /\ setBack' = IF ClockHeld(made, stamped) THEN setBack
                     ELSE setBack \cup {Len(items) + 1}

\* now_utc() reads the wall clock, which may also be set back.
ClockMoves ==
  /\ \E t \in (0 .. MaxTime) \ {now} : now' = t
  /\ UNCHANGED <<queueVars, running, failures, dead, attempt, fired, setBack>>

-----------------------------------------------------------------------------
(* The end of a cycle. *)

\* mark_completed, by dispatch_one or by the caller of RuntimeCycle.
CycleSucceeds(i) ==
  /\ i \in running
  /\ running' = running \ {i}
  /\ Logged(i, "completed")
  /\ UNCHANGED <<items, buckets, failures, dead, attempt, clockVars>>

Ends(i, status, error) ==
  /\ i \in running
  /\ running' = running \ {i}
  /\ failures' = failures \cup
       {[item |-> i, status |-> status, error |-> error]}
  /\ UNCHANGED <<items, buckets, dead, attempt, clockVars>>

\* dispatch_one catches the exception: the item it returns is FAILED, and
\* there is no CycleReport to carry the error.
DispatchRaises(i) == Ends(i, "failed", FALSE) /\ Logged(i, "failed")

\* A caller of RuntimeCycle.run keeps the RUNNING copy; the report has an
\* error, or only gates that failed.
ReportFails(i) ==
  /\ \E error \in BOOLEAN : Ends(i, "running", error)
  /\ UNCHANGED log

-----------------------------------------------------------------------------
(* RetryManager.evaluate and RetryOrchestrator. *)

\* evaluate() decides to retry; everything else goes to the dead letters.
Retries(error, n) ==
  ~ error /\ Retryable /\ n < MaxAttempts /\ Policy # "manual"

\* Mutant: the failure is handed on and nothing retries it.
NeverRetry(f) == FALSE /\ UNCHANGED vars

\* A fresh item of the same cycle, enqueued at once.  When the queue is full
\* the error reaches the caller, who still holds the failure.
Retry(f) ==
  LET c == CycleOf(f.item) IN
  /\ Retries(f.error, attempt[c])
  /\ \E p \in RetryPriorities : Enqueue(c, p, "retry", now)
  /\ attempt' = [attempt EXCEPT ![c] = @ + 1]
  /\ failures' = failures \ {f}
  /\ UNCHANGED <<running, dead, clockVars>>

\* Mutant: the copy is logged failed whatever its status.
LogFailedAgain(f) == Logged(f.item, "failed")

\* Mutant: the terminal log is left to somebody else.
LogNothing(f) == UNCHANGED log

\* mark_failed accepts a RUNNING copy only, and its error is swallowed.
MarkFailed(f) ==
  IF f.status = "running" THEN Logged(f.item, "failed") ELSE UNCHANGED log

\* A full dead-letter queue drops the newest.
Bury(entry) ==
  dead' = IF Len(dead) < MaxDead THEN Append(dead, entry) ELSE dead

DeadLetter(f) ==
  LET n == attempt[CycleOf(f.item)] IN
  /\ ~ Retries(f.error, n)
  /\ MarkFailed(f)
  /\ Bury([item |-> f.item, attempt |-> n])
  /\ failures' = failures \ {f}
  /\ UNCHANGED <<items, buckets, running, attempt, clockVars>>

\* Mutant: the oldest entry is read and stays.
PeekOldest == dead # <<>> /\ UNCHANGED dead

PopOldest == dead # <<>> /\ dead' = Tail(dead)

Replays == Quantify(DOMAIN items, LAMBDA i : items[i].trigger = "replay")

\* Mutant: a replayed cycle is numbered as a new one.
Renumbered(c, n) ==
  /\ \E p \in RetryPriorities : Enqueue(c, p, "replay", now)
  /\ attempt' = [attempt EXCEPT ![c] = 1]

\* The new item of a replayed cycle; its driver keeps the number.
Revived(c, n) ==
  /\ \E p \in RetryPriorities : Enqueue(c, p, "replay", now)
  /\ attempt' = [attempt EXCEPT ![c] = n]

\* The entry is popped first; a full queue then refuses the new item, and the
\* error leaves the entry in neither queue.
Replay ==
  /\ Replays < MaxReplays
  /\ PopOldest
  /\ \/ Revived(CycleOf(Head(dead).item), Head(dead).attempt)
     \/ ~ HasRoom /\ UNCHANGED <<queueVars, attempt>>
  /\ UNCHANGED <<running, failures, clockVars>>

-----------------------------------------------------------------------------
Init ==
  /\ items = <<>>
  /\ buckets = [p \in Priorities |-> <<>>]
  /\ log = <<>>
  /\ running = {} /\ failures = {} /\ dead = <<>>
  /\ attempt = [c \in Cycles |-> 0]
  /\ now = 0 /\ fired = None /\ setBack = {}

Next ==
  \/ Schedule \/ Notify \/ ScheduleInterval \/ ClockMoves
  \/ Dequeue \/ Replay
  \/ \E i \in Queued : Cancel(i)
  \/ \E i \in running : CycleSucceeds(i) \/ DispatchRaises(i) \/ ReportFails(i)
  \/ \E f \in failures : Retry(f) \/ DeadLetter(f)

Spec == Init /\ [][Next]_vars

\* drain() loops over dispatch_one, a cycle ends, and its driver hands every
\* failure to the orchestrator until that succeeds.
Fairness ==
  /\ WF_vars(Dequeue)
  /\ WF_vars(\E i \in running :
               CycleSucceeds(i) \/ DispatchRaises(i) \/ ReportFails(i))
  /\ WF_vars(\E f \in failures : Retry(f) \/ DeadLetter(f))

FairSpec == Spec /\ Fairness

-----------------------------------------------------------------------------
(* Properties. *)

\* The shape of every variable.
TypeOK ==
  /\ items \in Seq(Item)
  /\ buckets \in [Priorities -> Seq(DOMAIN items)]
  /\ log \in [DOMAIN items -> Seq(Terminal)]
  /\ running \subseteq DOMAIN items
  /\ failures \subseteq Failure
  /\ dead \in Seq(Entry)
  /\ attempt \in [Cycles -> 0 .. MaxAttempts]
  /\ now \in 0 .. MaxTime
  /\ fired \in {None} \cup 0 .. MaxTime
  /\ setBack \subseteq DOMAIN items

Failing == {f.item : f \in failures}
Buried == {entry.item : entry \in ToSet(dead)}
LoggedAs(s) == {i \in DOMAIN items : s \in ToSet(log[i])}
LoggedItems == UNION {LoggedAs(s) : s \in Terminal}

Active == Queued \cup running \cup Failing
Live == Active \cup Buried

\* WithinCapacity: neither the queue nor the dead-letter queue ever holds
\* more than its max_size, whoever enqueues (scheduler, retry or replay).
WithinCapacity == Size <= MaxSize /\ Len(dead) <= MaxDead

\* OneItemPerCycle: a cycle is dealt with in one place only.  No retry,
\* replay or dead-lettering leaves a second live item of the cycle behind,
\* so no cycle runs twice at once.
OneItemPerCycle ==
  /\ \A i, j \in Live : CycleOf(i) = CycleOf(j) => i = j
  /\ Queued \cap (running \cup Failing \cup Buried) = {}
  /\ running \cap (Failing \cup Buried) = {}
  /\ Failing \cap Buried = {}
  /\ \A f, g \in failures : f.item = g.item => f = g
  /\ \A k, l \in DOMAIN dead : dead[k].item = dead[l].item => k = l

\* NoItemVanishes: an item nobody deals with any more is in a terminal log
\* or was followed by a later item of its cycle; in particular an item
\* dropped by a full dead-letter queue or lost by a replay is logged failed.
NoItemVanishes ==
  \A i \in DOMAIN items :
    \/ i \in Live \cup LoggedItems
    \/ \E j \in DOMAIN items : i < j /\ CycleOf(i) = CycleOf(j)

\* TerminalOnce: COMPLETED, FAILED and CANCELLED have no successor in
\* _WORK_ITEM_TRANSITIONS, so an item is logged once, with one of them, and
\* is neither queued nor running then; a dead letter the dispatcher has
\* already logged is not logged a second time.
TerminalOnce ==
  /\ \A i \in DOMAIN items : Len(log[i]) <= 1
  /\ LoggedItems \cap (Queued \cup running) = {}
  /\ \A f \in failures : f.item \in LoggedItems <=> f.status = "failed"

\* SettledIsFinal: once some item of a cycle is completed or cancelled the
\* cycle is over: no retry or replay of it waits, runs or can be replayed.
SettledIsFinal ==
  \A i \in LoggedAs("completed") \cup LoggedAs("cancelled") : \A j \in Live : CycleOf(i) # CycleOf(j)

RetriesOf(c) ==
  Quantify(DOMAIN items, LAMBDA i : CycleOf(i) = c /\ items[i].trigger = "retry")

AllowedRetries == IF Retryable /\ Policy # "manual" THEN MaxAttempts - 1 ELSE 0

\* RetriesWithinBudget: over its whole life, replays by an operator included,
\* a cycle is retried automatically at most max_attempts - 1 times, and never
\* under the manual policy or when the failure is not retryable.
RetriesWithinBudget == \A c \in Cycles : RetriesOf(c) <= AllowedRetries

Increasing(s) == \A k, l \in DOMAIN s : k < l => s[k] < s[l]

\* A bucket holds items of its own priority, oldest first.
InOrder ==
  \A p \in Priorities :
    /\ Increasing(buckets[p])
    /\ \A i \in ToSet(buckets[p]) : items[i].priority = p

\* A driver's number counts the retries of its cycle, and a dead letter keeps it.
Numbered ==
  /\ \A c \in Cycles :
       attempt[c] = IF \E i \in DOMAIN items : CycleOf(i) = c
                    THEN RetriesOf(c) + 1 ELSE 0
  /\ \A c \in Cycles : attempt[c] <= AllowedRetries + 1
  /\ \A k \in DOMAIN dead : dead[k].attempt = attempt[CycleOf(dead[k].item)]

\* A dead letter was logged (failed) before it could be dropped or lost.
BuriedAreLogged == Buried \subseteq LoggedItems

\* QueueInv: what makes the properties above inductive: buckets are sorted by
\* arrival, attempt numbers count retries, and a dead letter is on record.
QueueInv ==
  /\ TypeOK /\ WithinCapacity /\ InOrder
  /\ OneItemPerCycle /\ TerminalOnce /\ BuriedAreLogged
  /\ NoItemVanishes /\ SettledIsFinal /\ Numbered

\* DispatchOrder: dequeue hands out the most urgent item, and of those the
\* one enqueued first, also after cancellations from the middle of a bucket.
DispatchOrder ==
  [][\A i \in running' \ running : \A j \in Queued \ {i} :
       \/ items[i].priority < items[j].priority
       \/ items[i].priority = items[j].priority /\ i < j]_vars

Ticks == {i \in DOMAIN items : items[i].trigger = "scheduled"}

\* TicksSpaced: two cycles of the interval trigger carry times at least
\* Interval apart, although three readings of a wall clock that may be set back
\* between any two calls decide about each.  What is excused is a tick during
\* whose own call the clock was set back: it and the ticks before it may lie
\* closer than Interval to the ones after it, never two ticks of which neither
\* it nor one between them was hit.
TicksSpaced ==
  \A i, j \in Ticks :
    i < j /\ (\A k \in setBack : k < i \/ j < k)
      => items[j].at >= items[i].at + Interval

\* CyclesSettle: a cycle that waits, runs or has failed is in the end
\* completed, cancelled, dropped or a dead letter: retries do not go on for
\* ever and a failure whose retry was refused is handled once there is room.
CyclesSettle ==
  \A c \in Cycles :
    (\E i \in Active : CycleOf(i) = c) ~> (\A i \in Active : CycleOf(i) # c)

\* Where the queues and logs say a cycle stands.
Account ==
  [c \in Cycles |->
     LET in(S) == \E i \in S : CycleOf(i) = c IN
     IF in(Queued) THEN "waiting"
     ELSE IF in(running) THEN "running"
     ELSE IF in(Failing) THEN "failed"
     ELSE IF in(Buried) THEN "dead"
     ELSE IF in(LoggedAs("completed")) THEN "completed"
     ELSE IF in(DOMAIN items) THEN "dropped"
     ELSE "unknown"]

Accounts == INSTANCE CycleAccounts WITH account <- Account

\* ImplementsAccounts: every step of the runtime moves at most one cycle along
\* one edge of CycleAccounts, which no call re-enters after it was left.
ImplementsAccounts == Accounts!AccountsSpec

-----------------------------------------------------------------------------
(* What the documentation says and the code does not do. *)

\* ReplayReenqueues: "Pop the oldest DLQ entry and re-enqueue it for another
\* attempt": the cycle of a popped entry waits in the queue.
ReplayReenqueues ==
  [][dead # <<>> /\ dead' = Tail(dead)
       => \E j \in Queued' : items'[j].cycle = CycleOf(Head(dead).item)]_vars
=============================================================================
