CONSTANTS
  Callers = {c1, c2}
  MaxCalls = 2
  Refusable <- SomeMetrics
SPECIFICATION Spec
SYMMETRY Symmetric
INVARIANTS ThreadSafe
CHECK_DEADLOCK FALSE
