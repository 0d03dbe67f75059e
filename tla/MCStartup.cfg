SPECIFICATION StartupSpec
CONSTANTS
  Procs = {m, p, q}
  Postmaster = m
  Structs = {"ShmemIndex", "VariableCache", "Proc Header", "Buffer Descriptors", "Buffer Blocks", "Shared Buffer Lookup Table"}
  SizeOf <- Sizes
  SEG_HEADER = 1
  BATCH_SIZE = 2
  BATCH = 5
  Totals = {15, 17, 19, 21, 25}
  PROC_SIZE = 3
  SEGS_SIZE = 1
  MaxLives = 2
INVARIANTS
  SharedOnce
  ProcsOwned
PROPERTY
  StartupEnds
CHECK_DEADLOCK FALSE
