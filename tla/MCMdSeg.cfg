SPECIFICATION Spec
VIEW View
CONSTANTS
  Relations = {r1}
  MaxSeg = 2
  RELSEG_SIZE = 2
  BLCKSZ = 2
  InitNfds = 2
  MaxFds = 2
  ReadAhead = 0
  Bootstrap = TRUE
INVARIANTS
  ChainsOwned
  BlocksContiguous
  TruncateExact
PROPERTY
  ExtendAddsOne
