SPECIFICATION FairSpec
CONSTANTS
  Calls = 2
  Result = {"bye", "other"}
  NULL = NULL
  GARBAGE = GARBAGE
  NOTHING = NOTHING
  MaxRuns = 2
INVARIANT
  TypeOK
PROPERTIES
  ImplementsJoin
  LiveStackIsKept
  MainIsDone
