SPECIFICATION Spec
CONSTANTS
  Table = {R}
  LClosure = {f1,f2}
  CClosure = {}
  Udata = {}
  Thread = {main,th1}
  UpVal = {u1,u2}
  Str = {}
  MainThread = main
  Registry = R
  NSlots = 1
  Nil = Nil
  NumKey = NumKey
  Meta = noMeta
  ModeOf <- NoMode
  HasGC <- MetaHasGC
  Metatables = {}
  BaseMetatables = {}
  Environments = {}
  Keys = {}
  MaxNode = 0
  FullCollections = TRUE
  White0 = White0
  White1 = White1
  GCSWEEPMAX = 2

SYMMETRY Interchangeable
INVARIANTS NoDangling UpvalueShared CycleClean
