SPECIFICATION Spec
CONSTANTS
  root = root
  dir = dir
  file = file
  other = other
  Paths <- MCPaths
  Above <- MCAbove
  Tokens = {k1, k2, k3}
  Clients = {c1, c2}
  NoToken = noToken
  NoPath = noPath
  NoClient = noClient
  MaxBatch = 2
  Forced = TRUE
SYMMETRY Symmetry
INVARIANTS TypeOK IndexesAgree NoOrphanLock
PROPERTY Implements
