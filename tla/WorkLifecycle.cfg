\* Two workers, two items; the retry delays and the error texts beside them.
SPECIFICATION MCSpec
CONSTANTS
    None = None
    w1 = w1  w2 = w2  a = a  b = b
    Kinds <- MCKinds  Policy <- MCPolicy  KindOf <- MCKindOf  AllowedKinds <- MCAllowed
    Priority <- MCPriority  Rank <- MCRank  Delay <- MCDelay
    Items = {a, b}  Workers = {w1, w2}  Reliable = {w1}
    Errors = {"unexpected", "rate_limited", "payload_invalid"}
    MaxRenewals = 1  MaxLost = 1  MaxCrashes = 1
    BasisPoints = 10  DigestMax = 7  HintUnits = 2
    InitialDelay = 3  MaximumDelay = 20  Multiplier = 17  Jitter = 9
    NoHint = NoHint  MaxAttempt = 7  MaxHint = 44
    Limit = 3  MaxLength = 6

INVARIANTS ExclusiveAndCounted StoredTexts
PROPERTIES ConstructorsAccept NothingTakenEarly ImplementsGrants RetryDelays EveryItemEnds
\* A sweep and an error message end.
CHECK_DEADLOCK FALSE
