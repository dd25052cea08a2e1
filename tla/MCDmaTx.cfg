CONSTANTS
  ep = ep
  pt1 = pt1
  pt2 = pt2
  NoFrame = NoFrame
  Devices = {ep, pt1, pt2}
  DescCnt = 4
  MaxPending = 3
  Setups <- Both
SPECIFICATION FairSpec
INVARIANTS Inv StoppedIffPending
PROPERTIES ImplementsAbs StoppedWakes
