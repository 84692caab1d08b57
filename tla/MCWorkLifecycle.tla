--------------------------- MODULE MCWorkLifecycle --------------------------
(***************************************************************************)
(* Instances of WorkLifecycle for TLC.  The delays are those of            *)
(* RetryTiming with 10 basis points to the whole, a backoff of 2, a jitter *)
(* of 3/10 and a digest of four values that depends on item and attempt.   *)
(* Item a is a research item with two attempts, item b a collection with   *)
(* one; worker w2 takes research only.                                     *)
(*                                                                         *)
(* A behaviour follows one scenario: a race for item a, the end of both    *)
(* items, a sweep of the retry delays or one error message.                *)
(***************************************************************************)
EXTENDS WorkLifecycle, RetrySweep, ErrorText, TLC

CONSTANTS w1, w2, a, b

Timing == INSTANCE RetryTiming WITH
    BasisPoints <- 10, DigestMax <- 3, HintUnits <- 2,
    InitialDelay <- 1, MaximumDelay <- 3, Multiplier <- 20, Jitter <- 3,
    NoHint <- None

MCDigest(i, n) == (n + IF i = a THEN 0 ELSE 2) % 4
MCDelay(i, n) == Timing!RetryDelay(n, MCDigest(i, n), None)

MCKinds == {"collection", "research"}
MCPolicy ==
    [k \in MCKinds |->
        [maximum_attempts |-> IF k = "research" THEN 2 ELSE 1,
         lease_duration_seconds |-> 2, renewal_interval_seconds |-> 1]]
MCKindOf == [i \in Items |-> IF i = a THEN "research" ELSE "collection"]
MCAllowed == w1 :> {MCKinds, {"research"}} @@ w2 :> {{"research"}}
MCPriority == [i \in Items |-> 1]
MCRank == [i \in Items |-> IF i = a THEN 1 ELSE 2]

VARIABLE scenario

MCInit ==
    /\ scenario \in {"race", "ends", "sweep", "text"}
    /\ Init
    /\ IF scenario = "sweep" THEN SweepInit
       ELSE attempt = 1 /\ digest = 0 /\ hint = NoHint
    /\ IF scenario = "text" THEN TextInit
       ELSE message = <<>> /\ stage = "raw"

\* Bound: both workers want item a.
Race == \A w \in Workers : call'[w] # None =>
    /\ call'[w].op = "claim" => call'[w].kinds = {"research"}
    /\ call'[w].op \in {"retry", "terminal"} => call'[w].error # "rate_limited"

\* Bound: w1 wants both items, handlers fail in one way, answers arrive.
Ends ==
    /\ renewals' = 0 /\ lost' = 0
    /\ call'[w1] # None /\ call'[w1].op = "claim" => call'[w1].kinds = MCKinds
    /\ \A w \in Workers : call'[w] # None =>
          /\ call'[w].op = "retry" => call'[w].error = "rate_limited"
          /\ call'[w].op # "terminal"

MCNext ==
    /\ UNCHANGED scenario
    /\ \/ scenario = "race" /\ Next /\ Race /\ UNCHANGED <<sweepVars, textVars>>
       \/ scenario = "ends" /\ Next /\ Ends /\ UNCHANGED <<sweepVars, textVars>>
       \/ scenario = "sweep" /\ FailAgain /\ UNCHANGED <<vars, textVars>>
       \/ scenario = "text" /\ TextNext /\ UNCHANGED <<vars, sweepVars>>

MCSpec ==
    /\ MCInit /\ [][MCNext]_<<vars, sweepVars, textVars, scenario>>
    /\ scenario \in {"race", "ends"} => Fairness
=============================================================================
