SPECIFICATION Spec
CONSTANTS
  Signals = {"s1", "s2", "s3"}
  Scores <- MCScores
  High = 4
  Low = 2
  Faulty = TRUE
  None = None
  MaxPasses = 2
CHECK_DEADLOCK FALSE
INVARIANTS
  MovedOnce
  PassSettles
