CONSTANTS
  k1 = k1
  k2 = k2
  Kinds = {k1, k2}
  Clients = {c1, c2}
  Backends = {b1}
  ReplicaSessions = {r1}
  Filters <- OneFilter
  Batches <- Pairs
  HasReplica = TRUE
  NoView = NoView
  Nobody = Nobody
  MaxCalls = 1
SPECIFICATION QueryLiveSpec
INVARIANTS QueryInv
PROPERTIES RefinesEventStore CallsReturn
