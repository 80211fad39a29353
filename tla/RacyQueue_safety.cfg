SPECIFICATION Spec
CONSTANTS
  Node = {n1, n2, n3, n4}
  NULL = NULL
  WILD = WILD
  MaxAttempts = 7
  Capacities <- AnyCapacity
SYMMETRY NodeSymmetry
INVARIANTS
  TypeOK
  AssertsHold
  NumbersInOrder
