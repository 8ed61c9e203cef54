CONSTANTS
  k1 = k1
  k2 = k2
  Kinds = {k1, k2}
  Clients = {c1, c2}
  Backends = {b1, b2}
  Filters <- OneFilter
  Batches <- Single
  HasReplica = FALSE
  NoView = NoView
  MaxCalls = 1
SPECIFICATION Spec
INVARIANTS NoLostUpdate
