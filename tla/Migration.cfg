SPECIFICATION FairSpec
CONSTANTS
  Processes = {"old", "new", "fork"}
  Registry <- Builds
  None = None
  Incompatible = Incompatible
  Operational = Operational
  Foreign <- Others
  MaxStarts = 2
CHECK_DEADLOCK FALSE
INVARIANTS
  MigrationInv
PROPERTIES
  ImplementsLedger
  LockComesFree
