SPECIFICATION Spec
CONSTANTS
  Nil = Nil
  String = {s1, s2}
  Object = {o1}
  Value = {v1}
  Hashing <- MCHashing
  MAX_INT = 5
  NodesMayFail = TRUE
INVARIANT FindsElement
