SPECIFICATION ProgramSpec
CONSTANTS
  Table = {R,t1}
  LClosure = {}
  CClosure = {}
  Udata = {x1,x2}
  Thread = {main}
  UpVal = {}
  Str = {}
  MainThread = main
  Registry = R
  NSlots = 3
  Nil = Nil
  NumKey = NumKey
  Meta = R
  ModeOf <- WeakKeys
  HasGC <- MetaHasGC
  Metatables = {R}
  BaseMetatables = {}
  Environments = {t1}
  Keys = {x2,NumKey}
  MaxNode = 1
  FullCollections = TRUE
  White0 = White0
  White1 = White1
  GCSWEEPMAX = 3
  t1 = t1
  x1 = x1
  x2 = x2


PROPERTY SeparatesOnlyUnreachable
