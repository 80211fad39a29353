SPECIFICATION FairSpec
CONSTANTS
  Node = {n1, n2}
  NULL = NULL
  NoOne = NoOne
  FlagAtStart = {0, 1, 2}
  IntRange = 3
  LongRange = 1
  MaxAttempts = 1
  Capacities = {1}
PROPERTIES
  EveryoneGetsATurn
