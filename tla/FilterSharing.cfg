CONSTANTS
  Slots = {s1, s2}
  TypeLists <- OneType
  PredLists = {}
  Times = {}
  Numbers = {}
  Rows = {}
  MaxItems = 4
SPECIFICATION Spec
PROPERTIES FinalizedFiltersAreImmutable
