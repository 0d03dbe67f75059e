SPECIFICATION Spec
CONSTANTS
  Addrs = {p, o1, o2}
  Owned = {o1, o2}
  Bytes <- SomeBytes
  NULL = NULL
  MaxCopies = 2
  MaxEdits = 2
  v1 = v1
  v2 = v2
  v3 = v3
  l1 = l1
  l2 = l2
  l3 = l3
  s1 = s1
  s2 = s2
  d1 = d1
  d2 = d2
  d3 = d3
  RowTypes <- SomeRowTypes
  Slots = {s, r}
  VarSizes = {1, 2}
  HDR = 3
  MAXALIGN_ = 4
  NoTuple = NoTuple
  Null = Null
  Garbage = Garbage
  DSlots = {k, l}
  Forms <- SomeForms
  DTexts = {"x", "y"}
  MaxAtts = 2
  NoDesc = NoDesc
  KeyVals = {1, 2}
  NCC_BUCK = 500
  MAX_TUP = 1
  MaxRows = 2
  MaxHeld = 2
  RDescs = {e, f}
  RelNames <- SomeNames
  RelIds = {1, 2}
  RelNodes = {1, 2}
  NAME_LEN = 3
  MaxPins = 2
  NoRel = NoRel
  OptItems <- SomeItems
  FileItems <- SomeFileItems
  Users = {1, 2}
  Dirs <- SomeDirs
  Cwds <- SomeCwds
  Slash = "/"
  INVALID_USER = 0
  DbNames = {m, n}
  Wanted = m
  PerPage = 2
  MaxPages = 2
  MaxOid = 2
  NoOid = 0
INVARIANTS
  
  RowsSound
  CachesSound
  
CHECK_DEADLOCK FALSE
