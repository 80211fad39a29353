SPECIFICATION FairSpec
CONSTANTS
  Node = {n1, n2}
  NULL = NULL
  NoOne = NoOne
  FlagAtStart = {0, 2}
  IntRange = 3
  LongRange = 3
  MaxAttempts = 3
  Capacities <- AnyCapacity
INVARIANTS
  TypeOK
  TurnMatchesList
  NoLostWakeup
  PrintedStatsConsistent
PROPERTIES
  ImplementsFifo
  FifoProgress
