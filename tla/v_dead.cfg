SPECIFICATION Spec
CONSTANTS
  Thread = {main, co1}
  MainThread = main
  LUAI_MAXCCALLS = 3
  CCALLS_SLACK = 1
  LUAI_MAXCALLS = 3
  BASIC_CI_SIZE = 3
  MaxOpen = 1
  TooManyResults = TRUE
PROPERTY ReturnedIsDead
