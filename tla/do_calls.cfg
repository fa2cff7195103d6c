SPECIFICATION Spec
CONSTANTS
  Thread = {main, co1}
  MainThread = main
  LUAI_MAXCCALLS = 2
  CCALLS_SLACK = 2
  LUAI_MAXCALLS = 3
  BASIC_CI_SIZE = 3
  MaxOpen = 1
  TooManyResults = FALSE
INVARIANTS FramesOwned CcallsCounted NothingAbandoned ErrorContained HandlerInForce UpvaluesOnStack
PROPERTIES FreshFrames ImplementsCoroutines
