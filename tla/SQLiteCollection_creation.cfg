\* The creation race of ADR-008: the loser is not told CheckpointConflictError.
SPECIFICATION SystemSpec
CONSTANTS
  c1 = c1  c2 = c2  s1 = s1  a = a  aBlank = aBlank  b = b
  body = body  bodyLater = bodyLater  q1 = q1  q2 = q2
  h1 = h1  w1 = w1  research1 = research1  entity = entity
  None = None
  Clients = {c1, c2}
  Sources = {s1}
  ExternalIds = {a, b}
  Payloads = {body, bodyLater}
  Cursors = {q1}
  Connectors <- OneConnector
  Stripped <- MCStrippedTwo
  ContentHash <- MCContentHash
  CollectionVersion = "collection-v1"
  NormalizationVersion = "text-v1"
  MaxRevision = 1
  PortDocuments = {}
  PortClaims = {}
  PortWork = {}
  PortSources = {}
INVARIANTS CreationRaceIsCheckpointConflict
