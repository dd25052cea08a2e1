CONSTANTS
  FifoLen = 2
  HwFifoLen = 2
  SecRange = 4
  Setups <- FailingAndNominal
  MaxFrames = 5
  MaxTime = 5
SPECIFICATION FairSpec
INVARIANTS Inv StampExact
PROPERTY StampsArrive
CHECK_DEADLOCK FALSE
