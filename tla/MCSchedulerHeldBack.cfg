CONSTANTS
  u1 = u1
  u2 = u2
  a = a
  b = b
  bad = bad
  Users = {u1}
  Entries = {a, b, bad}
  BadEntries = {bad}
  MaxEntries = 2
  MaxCycle = 2
  MaxDelay = 2
  MinAdvance = 1
  SecRange = 8
  TimeAdvance = 1
  LevelTriggered = TRUE
  MayFail = FALSE
  InitAdmins <- InitFar
  Calls = {"gate on", "config change"}
  ListWrites <- WritesAll
  Lens = {1, 3}
  Cycles = {0, 2, 3}
  BaseTimes = {2, 5}
  \* For CallsReturn: MaxCalls = 3, LastCall = 6.
  MaxCalls = 2
  LastCall = 1
  MaxTime = 6
  ErrCap = 1
SPECIFICATION FairSpec
\* One at a time; neither holds.
PROPERTY DelayedSubmitted
\* PROPERTY CallsReturn
CHECK_DEADLOCK FALSE
