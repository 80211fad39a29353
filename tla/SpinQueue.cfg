SPECIFICATION FairSpec
CONSTANTS
  Node = {n1, n2, n3}
  NULL = NULL
  NoOne = NoOne
  IntRange = 3
  LongRange = 1
  MaxAttempts = 1
  Capacities <- UpToTwo
PROPERTIES
  ImplementsFifo
  LockServesAll
