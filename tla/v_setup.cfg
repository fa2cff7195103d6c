SPECIFICATION DebugSpec
CONSTANTS
  Table = {R}
  LClosure = {f1,f2}
  CClosure = {}
  Udata = {}
  Thread = {main}
  UpVal = {u1}
  Str = {s1}
  MainThread = main
  Registry = R
  NSlots = 2
  Nil = Nil
  NumKey = NumKey
  Meta = noMeta
  ModeOf <- NoMode
  HasGC <- MetaHasGC
  Metatables = {}
  BaseMetatables = {}
  Environments = {}
  Keys = {NumKey}
  MaxNode = 1
  FullCollections = FALSE
  White0 = White0
  White1 = White1
  GCSWEEPMAX = 2

INVARIANT NoDangling
