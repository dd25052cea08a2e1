CONSTANTS
  Capacity = 4
  TsFifoLen = 1
  RxSecRange = 4
  Flush = FALSE
  AllocFails = TRUE
  MaxAge = 1
  RxMaxFrames = 6
  RxMaxTime = 1
SPECIFICATION RxSpec
\* One at a time; none holds.
INVARIANT OnlyOwnStampLost
\* INVARIANT StampLossLimited
\* INVARIANT NeverStarved
CHECK_DEADLOCK FALSE
