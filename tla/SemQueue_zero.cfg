SPECIFICATION Spec
CONSTANTS
  Node = {n1, n2}
  NULL = NULL
  NoOne = NoOne
  IntRange = 3
  LongRange = 6
  MaxAttempts = 4
  Capacities = {0}
INVARIANT
  NothingFallsOver
