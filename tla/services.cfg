SPECIFICATION Spec
CONSTANTS
  LUA_MAXCAPTURES = 2
  Characters <- MCCharacters
  StringCalls <- MCStringCalls
  CallResults <- MCCallResults
  Sorts <- MCSorts
  LUAL_BUFFERSIZE = 3
  LIMIT = 4
  MaxText = 14
  RefValues = {x, y}
  MaxRefs = 4
  ListValues = {p, q}
  MaxKey = 5
  Tables = {t1, t2}
  Methods = {f}
  Families <- MCFamilies
  MAXTAGLOOP = 2
  CatCharacters = {"a", "1", "m", "o"}
  CatObjects <- MCCatObjects
  Rows <- MCRows
  Contents = {1, 2, 3, 4}
  StringHash <- MCStringHash
  MINSTRTABSIZE = 1
  Userdata = {u1, u2}
  Threads = {h1}
  StackSizes = {1, 2}
INVARIANTS
  PatternsMean
  Sorted
  NothingLost
  AuxsortBounded
  BufferKept
  ReferencesKept
  MetamethodsAgree
  ConcatAgrees
  InternedOnce
  NothingLeft
PROPERTIES
  ListKeeps
CHECK_DEADLOCK FALSE
