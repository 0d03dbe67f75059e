SPECIFICATION Spec
VIEW PoolView
SYMMETRY Symmetry
CONSTANTS
  Relations = {r1, r2, r3}
  MaxSeg = 0
  RELSEG_SIZE = 2
  BLCKSZ = 1
  InitNfds = 2
  MaxFds = 4
  ReadAhead = 0
  Bootstrap = FALSE
INVARIANT
  PoolExact
