SPECIFICATION Spec
CONSTANTS
  n1 = n1
  n2 = n2
  n3 = n3
  n4 = n4
  n5 = n5
  Kinds = {"mutex"}
  Node = {n1, n2, n3, n4, n5}
  NULL = NULL
  Storages <- AnySize
  length <- Lengths
  threads <- OneFinder
  Finders = {"increasing"}
  Swappers = {"swap1", "swap2"}
  Width = 8
  MaxPasses = 2
  MaxSwaps = 3
INVARIANTS
  TypeOK
  ListMatchesOrder
  LockDiscipline
  UndisturbedPassIsExact
PROPERTIES
  NextIsGuarded
  ImplementsShuffle
CHECK_DEADLOCK FALSE
