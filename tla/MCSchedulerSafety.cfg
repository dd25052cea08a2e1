CONSTANTS
  u1 = u1
  u2 = u2
  a = a
  b = b
  bad = bad
  Users = {u1}
  Entries = {a, b, bad}
  BadEntries = {bad}
  MaxEntries = 2
  MaxCycle = 2
  MaxDelay = 2
  MinAdvance = 1
  SecRange = 8
  TimeAdvance = 1
  LevelTriggered = TRUE
  MayFail = TRUE
  InitAdmins <- InitReady
  Calls <- AllCalls
  ListWrites <- WritesAll
  Lens = {1, 3}
  Cycles = {0, 3}
  BaseTimes = {6}
  MaxCalls = 5
  LastCall = 4
  MaxTime = 6
  ErrCap = 1
SPECIFICATION Spec
INVARIANTS Inv PendingAccounted NothingLost
PROPERTIES LiveTablesUntouched StartTimes ImplementsAbs
CHECK_DEADLOCK FALSE
