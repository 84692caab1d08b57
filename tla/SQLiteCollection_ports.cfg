\* One collector against direct writers on every repository port, two spellings
\* of one external id, and three connector bindings.
SPECIFICATION SystemSpec
CONSTANTS
  c1 = c1  c2 = c2  s1 = s1  a = a  aBlank = aBlank  b = b
  body = body  bodyLater = bodyLater  q1 = q1  q2 = q2
  h1 = h1  w1 = w1  research1 = research1  entity = entity
  None = None
  Clients = {c1}
  Sources = {s1}
  ExternalIds = {a, aBlank, b}
  Payloads = {body, bodyLater}
  Cursors = {q1}
  Connectors <- ThreeConnectors
  Stripped <- MCStripped
  ContentHash <- MCContentHash
  CollectionVersion = "collection-v1"
  NormalizationVersion = "text-v1"
  MaxRevision = 1
  PortDocuments <- DirectDocuments
  PortClaims <- DirectClaims
  PortWork <- DirectWork
  PortSources = {s1}
INVARIANTS ProtocolInv ConflictsAreReal
PROPERTIES TablesOnlyGrow
