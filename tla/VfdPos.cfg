SPECIFICATION FairSpec
CONSTANTS
  MaxVfd = 2
  VfdChunk = 3
  MaxFilePerProcess = 1
  MAX_ALLOCATED_FILES = 1
  MaxPos = 2
  MaxTemp = 0
  SeekOffsets = {0, 2}
  SeekFirst = TRUE
INVARIANT
  PositionKept
PROPERTY
  CallReturns
