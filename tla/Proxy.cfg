SPECIFICATION FairSpec
CONSTANTS
  c1 = c1
  c2 = c2
  Client = {c1, c2}
  Limits = {3, 5}
  ReqLen = 2
  LineEnd <- LineEnds
  RespLen = 2
  NONE = NONE
INVARIANTS
  TypeOK
  DescriptorsOwned
  StreamsAreRelayed
PROPERTIES
  ClientsAreServed
