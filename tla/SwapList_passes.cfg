SPECIFICATION FairSpec
CONSTANTS
  n1 = n1
  n2 = n2
  n3 = n3
  n4 = n4
  n5 = n5
  Kinds = {"spin", "rw"}
  Node = {n1, n2, n3, n4, n5}
  NULL = NULL
  Storages <- UpToFour
  length <- Lengths
  threads <- OneSwapper
  Finders = {"decreasing", "equal"}
  Swappers = {"swap1"}
  Width = 1
  MaxPasses = 1
  MaxSwaps = 2
INVARIANTS
  LockDiscipline
PROPERTIES
  LocksAreReleased
  PassesComplete
