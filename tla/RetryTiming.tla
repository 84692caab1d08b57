----------------------------- MODULE RetryTiming ----------------------------
(***************************************************************************)
(* evaluate_retry of src/persistence/ingestion/lifecycle.py: integer       *)
(* backoff, deterministic jitter, the cap and the provider's hint.  The    *)
(* basis (10000 points), the range of the digest (2^64 - 1) and the hint's *)
(* resolution are constants, so that small instances stay within TLC's     *)
(* integers.                                                               *)
(***************************************************************************)
EXTENDS Integers, FiniteSetsExt

CONSTANTS
    BasisPoints,     \* 10000 in the code
    DigestMax,       \* 2^64 - 1 in the code
    HintUnits,       \* a hint is a count of 1/HintUnits of a second
    InitialDelay, MaximumDelay, Multiplier, Jitter,
    NoHint

\* WorkLifecyclePolicy.__post_init__
TimingPolicyOK ==
    /\ InitialDelay \in Nat \ {0}
    /\ MaximumDelay \in Nat /\ MaximumDelay >= InitialDelay
    /\ Multiplier \in Nat /\ Multiplier >= BasisPoints
    /\ Jitter \in 0..(BasisPoints - 1)

ASSUME TimingAssumption ==
    /\ BasisPoints \in Nat \ {0} /\ DigestMax \in Nat \ {0} /\ HintUnits \in Nat \ {0}
    /\ TimingPolicyOK

\* pow(base, n), as a function of n
Power(base) ==
    LET power[n \in Nat] == IF n = 0 THEN 1 ELSE base * power[n - 1]
    IN  power

\* min(maximum, initial * multiplier^(n-1) // 10000^(n-1))
BaseDelay(attempt) ==
    Min({MaximumDelay,
         (InitialDelay * Power(Multiplier)[attempt - 1]) \div Power(BasisPoints)[attempt - 1]})

JitterUpwards(digest) == (2 * Jitter * digest) \div DigestMax    \* slip: not centred

\* between -Jitter and +Jitter
JitterOffset(digest) == ((2 * Jitter * digest) \div DigestMax) - Jitter

CalculatedDelay(attempt, digest) ==
    Max({1, Min({MaximumDelay,
                 (BaseDelay(attempt) * (BasisPoints + JitterOffset(digest)))
                     \div BasisPoints})})

\* math.ceil of the hint, in seconds
HintSeconds(hint) == (hint + HintUnits - 1) \div HintUnits

\* _validated_retry_hint ignores what is not a finite non-negative number.
Usable(hint) == hint # NoHint /\ hint >= 0

RetryDelay(attempt, digest, hint) ==
    IF Usable(hint)
    THEN Min({MaximumDelay,
              Max({CalculatedDelay(attempt, digest), HintSeconds(hint)})})
    ELSE CalculatedDelay(attempt, digest)
=============================================================================
