SPECIFICATION MCSpec
CONSTANTS
  None = None
  Raised = Raised
  Malformed = Malformed
  acme = acme
  rival = rival
  wire = wire
  blog = blog
  Entities = {acme, rival}
  Interfaces <- MCInterfaces
  Store0 <- MCStores
  Cycles <- MCCycles
INVARIANTS CycleInv SignalsKeepTheirEvidence ReportIsExact AuditCoversEveryStage
