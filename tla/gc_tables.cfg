SPECIFICATION Spec
CONSTANTS
  Table = {R,t1}
  LClosure = {}
  CClosure = {c1}
  Udata = {}
  Thread = {main}
  UpVal = {}
  Str = {}
  MainThread = main
  Registry = R
  NSlots = 1
  Nil = Nil
  NumKey = NumKey
  Meta = t1
  ModeOf <- WeakValues
  HasGC <- MetaHasGC
  Metatables = {t1}
  BaseMetatables = {t1}
  Environments = {t1}
  Keys = {t1}
  MaxNode = 1
  FullCollections = FALSE
  White0 = White0
  White1 = White1
  GCSWEEPMAX = 2

SYMMETRY Interchangeable
INVARIANTS TriColor GrayListed
