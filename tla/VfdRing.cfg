SPECIFICATION Spec
VIEW View
CONSTANTS
  MaxVfd = 3
  VfdChunk = 2
  MaxFilePerProcess = 2
  MAX_ALLOCATED_FILES = 1
  MaxPos = 0
  MaxTemp = 2
  SeekOffsets = {}
  SeekFirst = TRUE
INVARIANTS
  RingHoldsOpenFiles
  FreeListHoldsUnused
  TempNamesDiffer
PROPERTY
  DescriptorBudget
