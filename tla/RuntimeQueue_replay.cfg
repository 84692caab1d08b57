\* An operator replays a dead letter while the queue is full.
SPECIFICATION Spec
CONSTANTS
  c1 = c1  c2 = c2  c3 = c3
  None = None
  Cycles = {c1, c2}
  MaxSize = 1
  MaxDead = 1
  Policy = "immediate"
  MaxAttempts = 1
  Retryable = TRUE
  Severities = {}
  RetryPriorities = {50}
  Interval = 1
  MaxTime = 0
  MaxReplays = 1
PROPERTIES ReplayReenqueues
CHECK_DEADLOCK FALSE
