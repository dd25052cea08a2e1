CONSTANTS
  Handles = {0, 1}
  Pcps = {0, 1}
  Filters = {0, 1, 2}
  None = None
  CounterMod = 3
  FrameRows <- OneRow
  Blocking = {1}
SPECIFICATION Spec
\* One at a time; neither holds.
INVARIANT BlockedIsOwn
\* PROPERTY BlockStands
