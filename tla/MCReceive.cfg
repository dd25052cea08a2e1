CONSTANTS
  Capacity = 2
  TsFifoLen = 2
  RxSecRange = 4
  Flush = FALSE
  AllocFails = TRUE
  MaxAge = 2
  RxMaxFrames = 5
  RxMaxTime = 4
SPECIFICATION RxSpec
INVARIANTS RxInv RxStampExact LossHandedOn
CHECK_DEADLOCK FALSE
