SPECIFICATION Spec
CONSTANTS
  Table = {R}
  LClosure = {}
  CClosure = {}
  Udata = {x1,x2}
  Thread = {main}
  UpVal = {}
  Str = {}
  MainThread = main
  Registry = R
  NSlots = 2
  Nil = Nil
  NumKey = NumKey
  Meta = R
  ModeOf <- WeakKeys
  HasGC <- MetaHasGC
  Metatables = {R}
  BaseMetatables = {}
  Environments = {}
  Keys = {x1,x2}
  MaxNode = 1
  FullCollections = TRUE
  White0 = White0
  White1 = White1
  GCSWEEPMAX = 2

SYMMETRY Interchangeable
INVARIANTS FinalizeOnce
PROPERTIES WeakCleared SeparatesOnlyDead FreesGarbage
