SPECIFICATION Spec
VIEW View
CONSTANTS
  MaxVfd = 1
  VfdChunk = 2
  MaxFilePerProcess = 2
  MAX_ALLOCATED_FILES = 1
  MaxPos = 0
  MaxTemp = 2
  SeekOffsets = {}
  SeekFirst = TRUE
INVARIANT
  DirtyRemembered
