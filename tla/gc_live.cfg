SPECIFICATION FairSpec
CONSTANTS
  Table = {R}
  LClosure = {}
  CClosure = {}
  Udata = {x1}
  Thread = {main,th1}
  UpVal = {}
  Str = {s1}
  MainThread = main
  Registry = R
  NSlots = 1
  Nil = Nil
  NumKey = NumKey
  Meta = R
  ModeOf <- NoMode
  HasGC <- MetaHasGC
  Metatables = {R}
  BaseMetatables = {}
  Environments = {}
  Keys = {}
  MaxNode = 0
  FullCollections = TRUE
  White0 = White0
  White1 = White1
  GCSWEEPMAX = 2

PROPERTIES ImplementsHeap GarbageCollected
