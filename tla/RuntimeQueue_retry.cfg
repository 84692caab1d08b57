\* Two cycles between full queues: refused retries, dropped dead letters and
\* lost replays; the clock stands still, and every cycle settles.
SPECIFICATION FairSpec
CONSTANTS
  c1 = c1  c2 = c2  c3 = c3
  None = None
  Cycles = {c1, c2}
  MaxSize = 1
  MaxDead = 1
  Policy = "immediate"
  MaxAttempts = 2
  Retryable = TRUE
  Severities = {}
  RetryPriorities = {10, 100}
  Interval = 1
  MaxTime = 0
  MaxReplays = 1
INVARIANTS QueueInv NoItemVanishes TerminalOnce RetriesWithinBudget
PROPERTIES ImplementsAccounts CyclesSettle
CHECK_DEADLOCK FALSE
