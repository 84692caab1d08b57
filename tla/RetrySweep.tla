----------------------------- MODULE RetrySweep -----------------------------
(***************************************************************************)
(* RetryTiming evaluated over every attempt, digest and hint of a small    *)
(* instance: one behaviour is one item failing again and again.            *)
(***************************************************************************)
EXTENDS RetryTiming

CONSTANTS MaxAttempt, MaxHint

ASSUME SweepAssumption == MaxAttempt \in Nat \ {0} /\ MaxHint \in Nat

VARIABLES attempt, digest, hint

sweepVars == <<attempt, digest, hint>>

Hints == (-1..MaxHint) \union {NoHint}

SweepInit == attempt = 1 /\ digest \in 0..DigestMax /\ hint \in Hints

FailAgain ==
    /\ attempt < MaxAttempt
    /\ attempt' = attempt + 1
    /\ digest' \in 0..DigestMax
    /\ hint' \in Hints

SweepSpec == SweepInit /\ [][FailAgain]_sweepVars

TheDelay == RetryDelay(attempt, digest, hint)

\* The jitter moves the backoff by at most its ratio either way, floors included,
\* and never below one second or above the maximum (lifecycle.py:531-543).
WithinJitter ==
    LET base == BaseDelay(attempt)
        calculated == CalculatedDelay(attempt, digest)
    IN /\ calculated \in 1..MaximumDelay
       /\ calculated * BasisPoints <= base * (BasisPoints + Jitter)
       /\ calculated = MaximumDelay
          \/ (calculated + 1) * BasisPoints > base * (BasisPoints - Jitter)

\* A provider's hint is honoured up to the maximum and never shortens the
\* calculated delay; an unusable hint changes nothing (lifecycle.py:544-551).
HintHonoured ==
    /\ TheDelay \in 1..MaximumDelay
    /\ TheDelay >= CalculatedDelay(attempt, digest)
    /\ hint # NoHint /\ hint > 0 => \/ TheDelay = MaximumDelay
                                    \/ TheDelay * HintUnits >= hint
    /\ hint = NoHint \/ hint = -1 => TheDelay = CalculatedDelay(attempt, digest)

\* The backoff never shrinks from one attempt to the next before jitter, although
\* each is a floor of its own, and grows until it reaches the maximum
\* (lifecycle.py:524-530).
BackoffGrows == [][
    /\ BaseDelay(attempt)' >= BaseDelay(attempt)
    /\ BaseDelay(attempt)' * BasisPoints > BaseDelay(attempt) * Multiplier - BasisPoints
       \/ BaseDelay(attempt)' = MaximumDelay]_attempt

\* evaluate_retry as a whole: jitter, cap and floor, hint, and growth of the backoff.
RetryDelays == [](WithinJitter /\ HintHonoured) /\ BackoffGrows
=============================================================================
