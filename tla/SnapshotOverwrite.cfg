CONSTANTS
  k1 = k1
  k2 = k2
  p1 = p1
  p2 = p2
  Kinds = {k1, k2}
  Clients = {c1, c2}
  Backends = {b1, b2}
  Filters <- OneFilter
  Batches <- OneEvent
  HasReplica = FALSE
  NoView = NoView
  MaxCalls = 1
  Projections = {p1, p2}
  Hash <- OwnHash
  NoSnapshot = NoSnapshot
  MaxWrites = 3
SPECIFICATION SnapshotSpec
SYMMETRY Symmetric
PROPERTIES UpdatedOnlyIfHigher
