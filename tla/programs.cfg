SPECIFICATION Spec
CONSTANTS
  MaxIndexRK = 1
  FieldsPerFlush = 2
  MaxArgC = 1
  Collation <- MCCollation
  MaxNumeral = 20
  Programs <- MCPrograms
  StackSize = 40
  MaxLog = 30
INVARIANTS
  
  AssertsHold
  
  TopFixed
  ScopesClosed
