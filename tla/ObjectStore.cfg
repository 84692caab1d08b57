SPECIFICATION MCSpec
CONSTANTS
  c1 = c1
  c2 = c2
  Clients = {c1, c2}
  Stocks <- AllStocks
  EvidenceIds = {7, 8}
  Contents = {"x"}
  Payloads = {None}
  Empty = Empty
  None = None
  Faulty = TRUE
  MaxId = 3
  MaxHistory = 2
  MaxOverrides = 2
CHECK_DEADLOCK FALSE
INVARIANTS
  StoreInv
  LineagePreserved
PROPERTIES
  PastIsKept
