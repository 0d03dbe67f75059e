SPECIFICATION FairSpec
CONSTANTS
  Procs = {p1, p2}
  MaxLives = 3
INVARIANT
  ObjectsKept
PROPERTY
  SearchEnds
CHECK_DEADLOCK FALSE
