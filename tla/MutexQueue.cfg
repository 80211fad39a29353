SPECIFICATION FairSpec
CONSTANTS
  Node = {n1, n2}
  NULL = NULL
  NoOne = NoOne
  IntRange = 3
  LongRange = 5
  MaxAttempts = 4
  Capacities <- AnyCapacity
INVARIANTS
  TypeOK
  ReaderSeesSequence
  ListAgreesWithCount
  PrintedStatsConsistent
  AssertOnlyForNegativeCapacity
PROPERTIES
  ImplementsFifo
  MutexIsReleased
