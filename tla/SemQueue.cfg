SPECIFICATION FairSpec
CONSTANTS
  Node = {n1, n2}
  NULL = NULL
  NoOne = NoOne
  IntRange = 3
  LongRange = 1
  MaxAttempts = 1
  Capacities <- AnyCapacity
INVARIANTS
  TypeOK
  OneToken
  DestroyedForCause
PROPERTIES
  ImplementsFifo
  Alternates
