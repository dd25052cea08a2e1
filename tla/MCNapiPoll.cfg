CONSTANTS
  Boards <- BoardsUsual
  Budget = 2
  MaxArrivals = 3
SPECIFICATION NapiFairSpec
INVARIANTS NapiInv
PROPERTIES FramesProcessed PollRests
CHECK_DEADLOCK FALSE
