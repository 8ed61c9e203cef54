CONSTANTS
  Callers = {c1, c2}
  MaxCalls = 2
  Refusable <- SomeMetrics
SPECIFICATION Spec
SYMMETRY Symmetric
INVARIANTS TypeOK  SignalsAgree LogsAgree 
CHECK_DEADLOCK FALSE
