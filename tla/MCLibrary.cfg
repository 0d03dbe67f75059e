SPECIFICATION Spec
CONSTANTS
  Ctx = {T, E, u, v}
  TopMemoryContext = T
  ErrorContext = E
  CtxHandles = {h}
  NoCtx = NoCtx
  DlLists = {k, l}
  DlElems = {1, 2, 3}
  NoElem = NoElem
  Heads = {m, n}
  QElems = {1, 2, 3}
  INVALID_OFFSET = INVALID_OFFSET
  OSets = {s, t}
  OElems = {d, e, f}
  FStacks = {s, t}
  FItems = {1, 2, 3}
  Null = Null
  a = a
  b = b
  INIT_SIZE = 4
  HARDLY_ANY = 2
  Pieces <- Texts
  MaxText = 13
  NumCells = 4
  Data = {1, 2}
  Roots = {x, y}
  small = small
  large = large
  BLCKSZ = 16
  HDRSZ = 2
  IDSZ = 2
  ALIGNOF = 2
  SPECIAL = 1
  Items = {small, large}
  ItemSize <- Cells3
INVARIANTS
  TreeKept
  ListsWellLinked
  StringKept
  ListsSound
  PageSound
PROPERTIES
  ContextCallsDone
  ListsImplement
CHECK_DEADLOCK FALSE
