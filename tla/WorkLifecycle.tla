----------------------------- MODULE WorkLifecycle --------------------------
(***************************************************************************)
(* The durable WorkItem lifecycle: workers that claim, renew, complete and *)
(* fail items under leases.  The repository holds the values and their     *)
(* rules (WorkContract), the retry policy (RetryTiming), the port and the  *)
(* contract tests of its adapters; the adapter's operations are modelled   *)
(* from those tests.                                                       *)
(*                                                                         *)
(* A worker samples the clock once per operation and puts the timestamp in *)
(* the command; the adapter executes the command later, in one             *)
(* transaction, and decides by that timestamp alone.  Between the two,     *)
(* time passes and other workers act.  A worker may hang or crash with a   *)
(* claim in its hands, and an answer may be lost after the commit.         *)
(***************************************************************************)
EXTENDS WorkContract

CONSTANTS
    Items, Workers,
    Reliable,           \* the workers that never hang for ever
    KindOf,             \* the kind of each item
    AllowedKinds,       \* the sets of kinds a request of each worker may name
    Priority,           \* a lower number is more urgent
    Rank,               \* created_at and id: the last tie-breaker, no two equal
    Delay(_, _),        \* the retry delay of an item after an attempt
    Errors,             \* the categories workers fail with
    MaxRenewals, MaxLost, MaxCrashes    \* bounds of the instance

ASSUME LifecycleAssumption ==
    /\ KindOf \in [Items -> Kinds]
    /\ AllowedKinds \in [Workers -> SUBSET ((SUBSET Kinds) \ {{}})]
    /\ None \notin Workers /\ Reliable \subseteq Workers
    /\ Priority \in [Items -> Nat] /\ Rank \in [Items -> Nat]
    /\ \A i, j \in Items : Rank[i] = Rank[j] => i = j
    /\ Errors \subseteq Categories \ {"attempts_exhausted"}
    /\ MaxRenewals \in Nat /\ MaxLost \in Nat /\ MaxCrashes \in Nat
ASSUME DelayAssumption ==
    \A i \in Items : \A n \in 1..Policy[KindOf[i]].maximum_attempts :
        Delay(i, n) \in Nat \ {0}

VARIABLES
    row,        \* the durable row of each item
    clock,      \* the UTC clock
    hand,       \* the authority each worker believes it holds, or None
    call,       \* the command each worker has sent, or None
    told,       \* the grants whose worker was told its verdict is recorded
    renewals, lost, crashes    \* used bounds

vars == <<row, clock, hand, call, told, renewals, lost, crashes>>

Maximum(i) == Policy[KindOf[i]].maximum_attempts
Lease(i) == Policy[KindOf[i]].lease_duration_seconds

Pending ==
    [status |-> "pending", available_at |-> 0, attempt_count |-> 0, revision |-> 0,
     lease_owner |-> None, claim_token |-> None, lease_expires_at |-> None,
     claimed_at |-> None, completed_at |-> None, dead_lettered_at |-> None,
     failure |-> None, updated_at |-> 0]

Init ==
    /\ row = [i \in Items |-> Pending]
    /\ clock = 0
    /\ hand = [w \in Workers |-> None]
    /\ call = [w \in Workers |-> None]
    /\ told = {}
    /\ renewals = 0 /\ lost = 0 /\ crashes = 0

(***************************************************************************)
(* What a transaction makes of a row.  Every one of them raises the        *)
(* revision by one and stamps updated_at.                                  *)
(***************************************************************************)
Stamped(r, at) == [r EXCEPT !.revision = @ + 1, !.updated_at = at]

Released(r, at) ==
    [Stamped(r, at) EXCEPT !.lease_owner = None, !.claim_token = None,
                           !.lease_expires_at = None]

GrantedKeepingFailure(i, w, at) ==    \* slip: the retry's failure survives the grant
    [Stamped(row[i], at) EXCEPT
        !.status = "running", !.available_at = None,
        !.attempt_count = @ + 1, !.claimed_at = at, !.lease_owner = w,
        !.claim_token = row[i].attempt_count + 1,
        !.lease_expires_at = at + Lease(i)]

GrantedReusingToken(i, w, at) ==    \* slip: a reclaim keeps the silent worker's token
    [Stamped(row[i], at) EXCEPT
        !.status = "running", !.available_at = None, !.failure = None,
        !.attempt_count = @ + 1, !.claimed_at = at, !.lease_owner = w,
        !.claim_token = IF row[i].status = "running" THEN @ ELSE row[i].attempt_count + 1,
        !.lease_expires_at = at + Lease(i)]

\* A fresh token per grant: the attempt it belongs to.
Granted(i, w, at) ==
    [Stamped(row[i], at) EXCEPT
        !.status = "running", !.available_at = None, !.failure = None,
        !.attempt_count = @ + 1, !.claimed_at = at, !.lease_owner = w,
        !.claim_token = row[i].attempt_count + 1,
        !.lease_expires_at = at + Lease(i)]

Renewed(i, at) ==
    [Stamped(row[i], at) EXCEPT !.lease_expires_at = at + Lease(i)]

Completed(i, at) ==
    [Released(row[i], at) EXCEPT !.status = "completed", !.completed_at = at]

Rescheduled(i, at, decision, error) ==
    [Released(row[i], at) EXCEPT !.status = "retrying", !.failure = error,
                                 !.available_at = decision.available_at]

Buried(i, at, error) ==
    [Released(row[i], at) EXCEPT !.status = "dead_letter", !.failure = error,
                                 !.dead_lettered_at = at]

(***************************************************************************)
(* claim_next: one item that is due or whose lease ran out, expired leases *)
(* first, then by priority, due time, creation and id.                     *)
(***************************************************************************)
ExpiredWithinBudget(i, at) ==    \* slip: a spent item is never looked at again
    /\ row[i].status = "running" /\ row[i].lease_expires_at <= at
    /\ row[i].attempt_count < Maximum(i)

Expired(i, at) == row[i].status = "running" /\ row[i].lease_expires_at <= at

DueAtOnce(i, at) == row[i].status \in {"pending", "retrying"}    \* slip: no backoff

Due(i, at) ==
    /\ row[i].status \in {"pending", "retrying"}
    /\ row[i].available_at <= at

Eligible(request) ==
    {i \in Items : /\ KindOf[i] \in request.kinds
                   /\ Expired(i, request.at) \/ Due(i, request.at)}

DueTime(i) ==
    IF row[i].status = "running" THEN row[i].lease_expires_at ELSE row[i].available_at

Precedes(i, j) ==
    LET urgency(k) == IF row[k].status = "running" THEN 0 ELSE 1
        keys(k) == <<urgency(k), Priority[k], DueTime(k), Rank[k]>>
    IN \E n \in 1..4 : /\ keys(i)[n] < keys(j)[n]
                       /\ \A m \in 1..(n - 1) : keys(i)[m] = keys(j)[m]

First(S) == {i \in S : \A j \in S \ {i} : Precedes(i, j)}

Authority(i, w, r) ==
    [item |-> i, worker |-> w, token |-> r.claim_token, revision |-> r.revision]

\* The worker samples the clock and asks for work.
Ask(w) ==
    /\ hand[w] = None /\ call[w] = None
    /\ \E kinds \in AllowedKinds[w] :
         call' = [call EXCEPT ![w] = [op |-> "claim", at |-> clock, kinds |-> kinds]]
    /\ UNCHANGED <<row, clock, hand, told, renewals, lost, crashes>>

ClaimNothing(w) ==
    /\ call[w] # None /\ call[w].op = "claim"
    /\ Eligible(call[w]) = {}
    /\ call' = [call EXCEPT ![w] = None]
    /\ UNCHANGED <<row, clock, hand, told, renewals, lost, crashes>>

\* An expired item that has used its attempts is dead-lettered, not granted.
Spent(i) == row[i].status = "running" /\ row[i].attempt_count >= Maximum(i)

Reply == {"delivered", "lost"}

\* The answer to a call is delivered, or lost after the commit; then the
\* worker still holds the authority it had when it sent the call.
Answered(w, reply, newHand) ==
    /\ reply = "lost" => lost < MaxLost
    /\ lost' = IF reply = "lost" THEN lost + 1 ELSE lost
    /\ call' = [call EXCEPT ![w] = None]
    /\ hand' = IF reply = "lost" THEN hand ELSE [hand EXCEPT ![w] = newHand]
    /\ UNCHANGED <<clock, renewals, crashes>>

Claim(w, reply) ==
    /\ call[w] # None /\ call[w].op = "claim"
    /\ \E i \in First(Eligible(call[w])) :
         IF Spent(i)
         THEN /\ row' = [row EXCEPT ![i] = Buried(i, call[w].at, "attempts_exhausted")]
              /\ Answered(w, reply, None)
         ELSE LET granted == Granted(i, w, call[w].at)
              IN /\ row' = [row EXCEPT ![i] = granted]
                 /\ Answered(w, reply, Authority(i, w, granted))
    /\ UNCHANGED told

(***************************************************************************)
(* The commands a worker builds from its claim: the retry decision is made *)
(* before the port is called, from the attempt count of the claim.         *)
(***************************************************************************)
Decision(i, attempt, at) ==
    LET exhausted == attempt >= Maximum(i)
    IN [maximum_attempts |-> Maximum(i), attempt_count |-> attempt,
        exhausted |-> exhausted,
        available_at |-> IF exhausted THEN None ELSE at + Delay(i, attempt)]

Commands(w) ==
    LET at == clock
    IN {[op |-> "complete", at |-> at]}
       \union {[op |-> "retry", at |-> at, error |-> e,
                decision |-> Decision(hand[w].item, hand[w].token, at)]
                   : e \in {e \in Errors : Retryable(e)}}
       \union {[op |-> "terminal", at |-> at, error |-> e]
                   : e \in {e \in Errors : ~Retryable(e)}}

Send(w, command) ==
    /\ call' = [call EXCEPT ![w] = command]
    /\ UNCHANGED <<row, clock, hand, told, lost, crashes>>

\* The handler ends and the worker reports what became of it.
Report(w) ==
    /\ hand[w] # None /\ call[w] = None
    /\ \E command \in Commands(w) : Send(w, command)
    /\ UNCHANGED renewals

Renew(w) ==
    /\ hand[w] # None /\ call[w] = None
    /\ renewals < MaxRenewals
    /\ renewals' = renewals + 1
    /\ Send(w, [op |-> "renew", at |-> clock])

(***************************************************************************)
(* The adapter executes a command: authority first, then the transition.   *)
(***************************************************************************)
HasRunningItem(w) ==    \* slip: the lease is checked, not whose it is
    row[hand[w].item].status = "running" /\ call[w].at < row[hand[w].item].lease_expires_at

HasAuthority(w) ==
    LET r == row[hand[w].item]
    IN /\ r.status = "running"
       /\ r.lease_owner = hand[w].worker
       /\ r.claim_token = hand[w].token
       /\ r.revision = hand[w].revision
       /\ call[w].at < r.lease_expires_at

\* A renewal that would not extend the lease is refused.
Extends(w) == call[w].op = "renew" =>
    call[w].at + Lease(hand[w].item) > row[hand[w].item].lease_expires_at

\* WorkClaimLostError or WorkInvalidTransitionError: the worker drops its claim.
Refuse(w) ==
    /\ hand[w] # None /\ call[w] # None
    /\ ~(HasAuthority(w) /\ Extends(w))
    /\ call' = [call EXCEPT ![w] = None]
    /\ hand' = IF HasAuthority(w) THEN hand ELSE [hand EXCEPT ![w] = None]
    /\ UNCHANGED <<row, clock, told, renewals, lost, crashes>>

Extend(w, reply) ==
    /\ hand[w] # None /\ call[w] # None /\ call[w].op = "renew"
    /\ HasAuthority(w) /\ Extends(w)
    /\ LET i == hand[w].item
           renewed == Renewed(i, call[w].at)
       IN /\ row' = [row EXCEPT ![i] = renewed]
          /\ Answered(w, reply, Authority(i, w, renewed))
    /\ UNCHANGED told

Verdict(i, c) ==
    CASE c.op = "complete" -> Completed(i, c.at)
      [] c.op = "terminal" -> Buried(i, c.at, c.error)
      [] c.op = "retry" -> IF c.decision.exhausted
                           THEN Buried(i, c.at, c.error)
                           ELSE Rescheduled(i, c.at, c.decision, c.error)

Conclude(w, reply) ==
    /\ hand[w] # None /\ call[w] # None
    /\ call[w].op \in {"complete", "retry", "terminal"}
    /\ HasAuthority(w)
    /\ LET i == hand[w].item
       IN /\ row' = [row EXCEPT ![i] = Verdict(i, call[w])]
          /\ told' = IF reply = "lost" THEN told
                     ELSE told \union {<<i, w, hand[w].token>>}
    /\ Answered(w, reply, None)

\* A restarted worker has a new id and knows nothing of its claim.
Crash(w) ==
    /\ crashes < MaxCrashes
    /\ hand[w] # None \/ call[w] # None
    /\ crashes' = crashes + 1
    /\ hand' = [hand EXCEPT ![w] = None]
    /\ call' = [call EXCEPT ![w] = None]
    /\ UNCHANGED <<row, clock, told, renewals, lost>>

Terminal(i) == row[i].status \in {"completed", "dead_letter"}

\* Somebody waits for a lease to run out or for a retry to fall due.  Beyond the
\* last such instant a later clock tells nothing apart, so time passes only then.
Awaited ==
    \E i \in Items : row[i].status \in {"running", "retrying"} /\ DueTime(i) > clock

Tick ==
    /\ Awaited
    /\ clock' = clock + 1
    /\ UNCHANGED <<row, hand, call, told, renewals, lost, crashes>>

Execute(w) ==
    \/ ClaimNothing(w) \/ Refuse(w)
    \/ \E reply \in Reply : Claim(w, reply) \/ Extend(w, reply) \/ Conclude(w, reply)

Next ==
    \/ Tick
    \/ \E w \in Workers : Ask(w) \/ Report(w) \/ Renew(w) \/ Execute(w) \/ Crash(w)

Spec == Init /\ [][Next]_vars

\* Time passes, calls end, and a reliable worker polls and ends its handlers.
Fairness ==
    /\ WF_vars(Tick)
    /\ \A w \in Workers : WF_vars(Execute(w))
    /\ \A w \in Reliable : WF_vars(Ask(w)) /\ WF_vars(Report(w))

FairSpec == Spec /\ Fairness

(***************************************************************************)
(* Properties                                                              *)
(***************************************************************************)
\* Row, authority and call of the shapes the code builds.
Rows == [status : Statuses, available_at : Nat \union {None},
         attempt_count : Nat, revision : Nat, lease_owner : Workers \union {None},
         claim_token : Nat \union {None}, lease_expires_at : Nat \union {None},
         claimed_at : Nat \union {None}, completed_at : Nat \union {None},
         dead_lettered_at : Nat \union {None}, failure : Categories \union {None},
         updated_at : Nat]

Authorities == [item : Items, worker : Workers, token : Nat, revision : Nat]

Decisions == [maximum_attempts : Nat, attempt_count : Nat, exhausted : BOOLEAN,
              available_at : Nat \union {None}]

Calls == [op : {"claim"}, at : Nat, kinds : SUBSET Kinds]
         \union [op : {"complete", "renew"}, at : Nat]
         \union [op : {"retry"}, at : Nat, error : Errors \intersect RetryableCategories,
                  decision : Decisions]
         \union [op : {"terminal"}, at : Nat, error : Errors \ RetryableCategories]

\* The type of the state.
TypeOK ==
    /\ row \in [Items -> Rows]
    /\ clock \in Nat
    /\ hand \in [Workers -> Authorities \union {None}]
    /\ call \in [Workers -> Calls \union {None}]
    /\ told \subseteq Items \X Workers \X Nat
    /\ renewals \in 0..MaxRenewals /\ lost \in 0..MaxLost /\ crashes \in 0..MaxCrashes

\* Whatever the order of claims, renewals, verdicts, crashes and lost answers,
\* every stored row is one WorkItemLifecycleRecord accepts: the adapter never
\* leaves a lease that ended before the last update, a retry that is already
\* due, or a field of an earlier status behind (lifecycle.py:628).
RecordsValid == \A i \in Items : RecordStateOK(row[i])

\* Every command a worker builds, from a claim that may be long stale, is one
\* its constructor accepts (lifecycle.py:213, 363, 387).
CommandsValid == \A w \in Workers : call[w] # None =>
    /\ call[w].op = "retry" => RetryCommandOK(call[w])
    /\ call[w].op = "terminal" => FailTerminalCommandOK(call[w])

\* The attempt budget counts every grant, reclaims and retries included: it is
\* never exceeded, an item is rescheduled only below it, and an item that died
\* of a retryable failure or of silence has used it up (lifecycle.py:505).
WithinBudget == \A i \in Items :
    /\ row[i].attempt_count <= Maximum(i)
    /\ row[i].status = "retrying" => row[i].attempt_count < Maximum(i)
    /\ row[i].status = "dead_letter"
          /\ (Retryable(row[i].failure) \/ row[i].failure = "attempts_exhausted")
       => row[i].attempt_count = Maximum(i)

\* No two workers hold the same token of a running item: a worker that lost its
\* lease, its answer or its process cannot get in the way of the one that has the
\* item now, whatever else their authorities say (lifecycle.py:307).
OneAuthority == \A v, w \in Workers :
    /\ hand[v] # None /\ hand[w] # None
    /\ hand[v].item = hand[w].item /\ hand[v].token = hand[w].token
    => v = w

\* What a worker holds is at most as new as the row it is about, and what it has
\* sent was built from what it holds: a command that is still admissible was
\* timed after the change its authority came from.
AuthorityInv ==
    /\ \A i \in Items :
          /\ row[i].updated_at <= clock
          /\ row[i].status = "running" => row[i].claim_token = row[i].attempt_count
    /\ \A w \in Workers : hand[w] # None =>
          LET r == row[hand[w].item]
          IN /\ hand[w].worker = w
             /\ hand[w].token \in 1..r.attempt_count
             /\ hand[w].revision <= r.revision
             /\ call[w] # None /\ hand[w].revision = r.revision => r.updated_at <= call[w].at
    /\ \A w \in Workers : call[w] # None =>
          /\ call[w].at <= clock
          /\ (call[w].op = "claim") = (hand[w] = None)
          /\ call[w].op = "retry" =>
                call[w].decision = Decision(hand[w].item, hand[w].token, call[w].at)

\* Grants are exclusive and counted, and authorities trail the rows.
ExclusiveAndCounted == OneAuthority /\ WithinBudget /\ AuthorityInv

ClaimOf(i) ==
    [claimed_at |-> row'[i].claimed_at, lease_expires_at |-> row'[i].lease_expires_at,
     attempt_count |-> row'[i].attempt_count, revision |-> row'[i].revision,
     reclaimed |-> row[i].status = "running", prior_worker_id |-> row[i].lease_owner]

ResultOf(i) ==
    [from_status |-> row[i].status, to_status |-> row'[i].status,
     occurred_at |-> row'[i].updated_at, attempt_count |-> row'[i].attempt_count,
     revision |-> row'[i].revision, available_at |-> row'[i].available_at,
     lease_expires_at |-> row'[i].lease_expires_at, error |-> row'[i].failure,
     exhausted |-> /\ row'[i].status = "dead_letter"
                   /\ row'[i].failure \in RetryableCategories \union {"attempts_exhausted"}]

\* Every change of a row is a claim WorkClaim accepts or a transition
\* WorkTransitionResult accepts, and moves the revision by exactly one: no other
\* change of a durable row exists (lifecycle.py:282, 569).
ResultsValid == [][\A i \in Items : row'[i] # row[i] =>
    /\ row'[i].revision = row[i].revision + 1
    /\ IF row'[i].attempt_count # row[i].attempt_count
       THEN ClaimOK(ClaimOf(i)) /\ row'[i].attempt_count = row[i].attempt_count + 1
       ELSE TransitionResultOK(ResultOf(i))]_vars

\* Types; and the constructors accept everything the lifecycle makes, rows, commands,
\* claims and results: no legal sequence of calls ends in their ValueError.
ConstructorsAccept == [](TypeOK /\ RecordsValid /\ CommandsValid) /\ ResultsValid

\* An item is taken from its worker only after the lease ran out, and retried
\* only after its backoff, on the clock every worker samples: a timestamp that
\* grew old in a call never brings either forward (lifecycle.py:307).
NothingTakenEarly == [][\A i \in Items :
    row'[i].attempt_count # row[i].attempt_count => clock >= DueTime(i)]_vars

Grants == INSTANCE WorkGrants WITH
    Nobody <- None,
    Limit <- [i \in Items |-> Maximum(i)],
    grants <- [i \in Items |-> row[i].attempt_count],
    grantee <- [i \in Items |-> row[i].lease_owner],
    state <- [i \in Items |-> CASE row[i].status = "completed" -> "done"
                                [] row[i].status = "dead_letter" -> "dead"
                                [] OTHER -> "open"]

\* The lifecycle implements WorkGrants: grants are exclusive and counted, only
\* the current grantee concludes an item, what it was told is what is stored,
\* and nothing concluded is ever reopened.
ImplementsGrants == Grants!GrantsSpec

AsksFor(w, i) == call[w] # None /\ call[w].op = "claim" /\ KindOf[i] \in call[w].kinds

\* An item whose kind a reliable worker asks for again and again ends, completed
\* or dead-lettered, even if every other worker hangs with a claim in its hands,
\* crashes, or loses answers.
EveryItemEnds == \A i \in Items :
    (\E w \in Reliable : []<>AsksFor(w, i)) => <>[](Terminal(i))
=============================================================================
