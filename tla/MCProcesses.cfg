SPECIFICATION Spec
CONSTANTS
  Backends = {p, q}
  Creator = p
  MaxHold <- Depths
  MaxSignals = 2
  MAX_ON_EXITS = 3
  MaxCallbacks = 4
  Bufs = {"b1", "b2"}
  Blocks = {1, 2, 3}
  P_NEW = 0
  Spinners = {p, q}
  S_MAX_BUSY = 3
INVARIANTS
  LocksExclusive
  BlocksFound
PROPERTIES
  RequestsHonoured
  CallbacksOnce
  WaitsEnd
CHECK_DEADLOCK FALSE
