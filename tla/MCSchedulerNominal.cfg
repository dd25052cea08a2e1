CONSTANTS
  u1 = u1
  u2 = u2
  a = a
  b = b
  bad = bad
  Users = {u1, u2}
  Entries = {a, b}
  BadEntries = {}
  MaxEntries = 2
  MaxCycle = 2
  MaxDelay = 2
  MinAdvance = 1
  SecRange = 16
  TimeAdvance = 1
  LevelTriggered = FALSE
  MayFail = FALSE
  InitAdmins <- InitBoth
  Calls <- Submitting
  ListWrites <- WritesFull
  Lens = {1}
  Cycles = {}
  BaseTimes = {2}
  MaxCalls = 4
  LastCall = 3
  MaxTime = 6
  ErrCap = 1
SPECIFICATION NominalSpec
INVARIANTS ShaperFollows
PROPERTIES PendingEnds OnlyWorkBlocks
CHECK_DEADLOCK FALSE
