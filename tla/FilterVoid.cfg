CONSTANTS
  Slots = {s1}
  TypeLists <- SomeTypes
  PredLists <- SomePreds
  Times = {2}
  Numbers = {1}
  Rows <- SampleRows
  MaxItems = 2
SPECIFICATION Spec
INVARIANTS FiltersHaveConditions
