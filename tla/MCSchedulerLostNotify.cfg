CONSTANTS
  u1 = u1
  u2 = u2
  a = a
  b = b
  bad = bad
  Users = {u1}
  Entries = {a, b, bad}
  BadEntries = {bad}
  MaxEntries = 2
  MaxCycle = 2
  MaxDelay = 2
  MinAdvance = 1
  SecRange = 8
  TimeAdvance = 1
  LevelTriggered = TRUE
  MayFail = FALSE
  InitAdmins <- InitReady
  Calls = {"gate on", "config change", "cycle"}
  ListWrites <- WritesAll
  Lens = {1, 3}
  Cycles = {0}
  BaseTimes = {2, 5}
  MaxCalls = 4
  LastCall = 4
  MaxTime = 6
  ErrCap = 1
SPECIFICATION Spec
INVARIANTS ShaperFollows
CHECK_DEADLOCK FALSE
