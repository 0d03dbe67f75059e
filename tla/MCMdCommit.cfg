SPECIFICATION Spec
CONSTANTS
  Relations = {r1}
  MaxSeg = 1
  RELSEG_SIZE = 2
  BLCKSZ = 1
  InitNfds = 2
  MaxFds = 2
  ReadAhead = 0
  Bootstrap = FALSE
INVARIANT
  CommitIsDurable
