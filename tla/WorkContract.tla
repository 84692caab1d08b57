---------------------------- MODULE WorkContract ----------------------------
(***************************************************************************)
(* The values of the durable WorkItem lifecycle and the rules their        *)
(* constructors enforce (src/persistence/ingestion/lifecycle.py).  A value *)
(* that breaks a rule is never constructed: the constructor raises.        *)
(* Timestamps are naturals, identifiers and tokens are opaque, and formats *)
(* (UTC offsets, worker-id and token patterns) are left out.               *)
(***************************************************************************)
EXTENDS Naturals

CONSTANTS
    None,      \* an absent optional field
    Kinds,     \* the kinds of WorkItem
    Policy     \* the WorkKindPolicy of each kind

Statuses == {"pending", "running", "retrying", "completed", "dead_letter"}

RetryableCategories ==
    {"connector_transient", "rate_limited", "persistence_operational",
     "checkpoint_conflict", "downstream_transient", "unexpected"}

Categories == RetryableCategories \union
    {"unsupported_kind", "payload_incompatible", "payload_invalid",
     "dependency_missing", "binding_mismatch", "authoritative_conflict",
     "handler_contract_violation", "domain_invariant", "attempts_exhausted"}

\* WorkError.retryable must agree with the category, so it is derived from it.
Retryable(category) == category \in RetryableCategories

KindPolicyOK(p) ==
    /\ p.maximum_attempts \in Nat \ {0}
    /\ p.lease_duration_seconds \in Nat \ {0}
    /\ p.renewal_interval_seconds \in 1..(p.lease_duration_seconds - 1)

ASSUME PolicyAssumption == \A k \in Kinds : KindPolicyOK(Policy[k])
ASSUME NoneAssumption == None \notin Nat /\ None \notin Categories

Present(field) == field # None

Later(a, b) == a # None /\ b # None /\ a > b

(***************************************************************************)
(* RetryDecision and the commands                                          *)
(***************************************************************************)
RetryDecisionOK(d) ==
    /\ d.exhausted = (d.attempt_count >= d.maximum_attempts)
    /\ Present(d.available_at) = ~d.exhausted

RetryCommandOK(c) ==
    /\ Retryable(c.error)
    /\ RetryDecisionOK(c.decision)
    /\ Present(c.decision.available_at) => Later(c.decision.available_at, c.at)

FailTerminalCommandOK(c) == ~Retryable(c.error)

ClaimOK(c) ==
    /\ Later(c.lease_expires_at, c.claimed_at)
    /\ c.attempt_count >= 1
    /\ c.revision >= 1
    /\ c.reclaimed = Present(c.prior_worker_id)

(***************************************************************************)
(* WorkTransitionResult: which fields each transition carries              *)
(***************************************************************************)
Renewal(t) ==
    /\ t.from_status = "running" /\ t.to_status = "running"
    /\ ~Present(t.available_at) /\ ~Present(t.error) /\ ~t.exhausted
    /\ Later(t.lease_expires_at, t.occurred_at)

Completion(t) ==
    /\ t.from_status = "running" /\ t.to_status = "completed"
    /\ ~Present(t.lease_expires_at) /\ ~Present(t.available_at)
    /\ ~Present(t.error) /\ ~t.exhausted

Rescheduling(t) ==
    /\ t.from_status = "running" /\ t.to_status = "retrying"
    /\ ~Present(t.lease_expires_at) /\ ~t.exhausted
    /\ Present(t.error) /\ Retryable(t.error)
    /\ Later(t.available_at, t.occurred_at)

DeadLettering(t) ==
    /\ t.from_status = "running" /\ t.to_status = "dead_letter"
    /\ ~Present(t.lease_expires_at) /\ ~Present(t.available_at)
    /\ Present(t.error)
    /\ IF t.exhausted THEN Retryable(t.error) \/ t.error = "attempts_exhausted"
                      ELSE ~Retryable(t.error)

TransitionResultOK(t) ==
    /\ t.attempt_count >= 1
    /\ t.revision >= 2
    /\ \/ Renewal(t) \/ Completion(t) \/ Rescheduling(t) \/ DeadLettering(t)

(***************************************************************************)
(* WorkItemLifecycleRecord: what a durable row of each status looks like   *)
(***************************************************************************)
Shape(r) ==
    [available_at |-> Present(r.available_at), lease |-> Present(r.lease_owner),
     claimed_at |-> Present(r.claimed_at), completed_at |-> Present(r.completed_at),
     dead_lettered_at |-> Present(r.dead_lettered_at), failure |-> Present(r.failure)]

LeaseWhole(r) ==
    /\ Present(r.claim_token) = Present(r.lease_owner)
    /\ Present(r.lease_expires_at) = Present(r.lease_owner)

\* The shape every status requires, as the set of fields that are present.
ShapeOf(fields) ==
    [f \in {"available_at", "lease", "claimed_at", "completed_at",
            "dead_lettered_at", "failure"} |-> f \in fields]

PendingOK(r) ==
    /\ Shape(r) = ShapeOf({"available_at"})
    /\ r.attempt_count = 0
    /\ r.revision = 0

RunningOK(r) ==
    /\ Shape(r) = ShapeOf({"lease", "claimed_at"})
    /\ r.attempt_count >= 1
    /\ r.revision >= 1
    /\ Later(r.lease_expires_at, r.updated_at)
    /\ ~Later(r.claimed_at, r.updated_at)

RetryingOK(r) ==
    /\ Shape(r) = ShapeOf({"available_at", "claimed_at", "failure"})
    /\ r.attempt_count >= 1
    /\ r.revision >= 2
    /\ Retryable(r.failure)
    /\ Later(r.available_at, r.updated_at)

CompletedOK(r) ==
    /\ Shape(r) = ShapeOf({"claimed_at", "completed_at"})
    /\ r.attempt_count >= 1
    /\ r.revision >= 2
    /\ r.completed_at = r.updated_at

DeadLetterOK(r) ==
    /\ Shape(r) = ShapeOf({"claimed_at", "dead_lettered_at", "failure"})
    /\ r.attempt_count >= 1
    /\ r.revision >= 2
    /\ r.dead_lettered_at = r.updated_at

RecordStateOK(r) ==
    /\ LeaseWhole(r)
    /\ CASE r.status = "pending" -> PendingOK(r)
         [] r.status = "running" -> RunningOK(r)
         [] r.status = "retrying" -> RetryingOK(r)
         [] r.status = "completed" -> CompletedOK(r)
         [] r.status = "dead_letter" -> DeadLetterOK(r)
=============================================================================
