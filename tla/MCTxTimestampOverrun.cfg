CONSTANTS
  FifoLen = 2
  HwFifoLen = 2
  SecRange = 4
  Setups <- Overrun
  MaxFrames = 5
  MaxTime = 5
SPECIFICATION Spec
INVARIANTS StampComputed
CHECK_DEADLOCK FALSE
