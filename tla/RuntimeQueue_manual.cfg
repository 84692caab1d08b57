\* Three cycles of every priority, the queue large enough to hold them all; or
\* manual and scheduled cycles under a wall clock that moves both ways.
SPECIFICATION Spec
CONSTANTS
  c1 = c1  c2 = c2  c3 = c3
  None = None
  Cycles = {c1, c2, c3}
  MaxSize = 3
  MaxDead = 1
  Policy = "manual"
  MaxAttempts = 2
  Retryable = TRUE
  Severities = {"critical", "info", "other"}
  RetryPriorities = {90}
  Interval = 2
  MaxTime = 3
  MaxReplays = 1
ACTION_CONSTRAINT OneAtATime
SYMMETRY Interchangeable
INVARIANTS TicksSpaced
PROPERTIES DispatchOrder
CHECK_DEADLOCK FALSE
