CONSTANTS
  k1 = k1
  k2 = k2
  Kinds = {k1, k2}
  Clients = {c1, c2}
  Backends = {b1}
  Filters <- Overlapping
  Batches <- SomeBatches
  HasReplica = TRUE
  NoView = NoView
  MaxCalls = 1
SPECIFICATION LiveSpec
INVARIANTS ResultsAreTruthful NoLostUpdate GuardInv SerialInv
PROPERTIES ImplementsBoundary ReadYourWrites AppendReturns
