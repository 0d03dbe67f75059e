SPECIFICATION PoolsSpec
SYMMETRY Symmetry
CONSTANTS
  NBuffers = 3
  Backends = {p1, p2, p3}
  NoBackend = NoBackend
  MaxPins = 2
  Handles = {p, q}
  Sizes = {1, 3, 5, 8}
  ALLOC_MIN_BITS = 1
  NUM_FREELISTS = 2
  BLOCK_HDR = 2
  CHUNK_HDR = 2
  Align = 2
  MIN_BLOCK = 10
  MEG = 12
  min_context_size = 8
  init_size = 9
  max_size = 20
  MaxBlocks = 3
  Keys = {k1, k2, k3, k4}
  MaxHash = 3
  nelem = 1
  ssize = 2
  dirsize = 1
  FixedDir = FALSE
  ffactor = 1
  BUCKET_ALLOC_INCR = 2
  MaxElems = 4
INVARIANTS
  RefcountCountsBackends
  QueueHoldsUnpinned
  MemoryKept
  KeysFound
PROPERTIES
  TakenIsUnpinned
  ImplementsLruPool
  ScanExact
CHECK_DEADLOCK FALSE
