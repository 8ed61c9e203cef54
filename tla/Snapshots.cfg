CONSTANTS
  k1 = k1
  k2 = k2
  p1 = p1
  p2 = p2
  Kinds = {k1, k2}
  Clients = {c1}
  Backends = {b1, b2}
  Filters <- BoundedFilter
  Batches <- OneEvent
  HasReplica = TRUE
  NoView = NoView
  MaxCalls = 2
  Projections = {p1, p2}
  Hash <- OwnHash
  NoSnapshot = NoSnapshot
  MaxWrites = 2
SPECIFICATION SnapshotSpec
SYMMETRY Symmetric
INVARIANTS SnapshotsMissOnlyLate SnapshotInv
PROPERTIES ProjectionsMissOnlyLate
