CONSTANTS
  i1 = i1
  i2 = i2
  Inst = {i1, i2}
  Setups <- AllSetups
  MaxEdits = 2
  MaxStarts = 2
SPECIFICATION FairSpec
INVARIANT Inv
PROPERTIES TakenOnce HelperServes
CHECK_DEADLOCK FALSE
