\* What does not hold, one at a time:
\*   FollowsDespiteRefusals (INVARIANT, OnlyDisorderly): another callback refuses a
\*     change that the driver has been given;
\*   FollowsDespiteFaults (INVARIANT, OnlyPsfpFaults): a failed write is reported as
\*     success;
\*   ResetOwn (PROPERTY, OnlyOrderly): a late reset withdraws a new request;
\*   OwedTaken (PROPERTY, OnlyOrderly): a trigger set while the plugin is down, or
\*     just before it dies, is reset at its start and never applied;
\*   StopAlwaysReturns (PROPERTY, OnlyDisorderly, FairSpec): the helper is signalled
\*     before it waits, or while it processes a list.
CONSTANTS
  i1 = i1
  i2 = i2
  Inst = {i1}
  Setups <- OnlyOrderly
  MaxEdits = 2
  MaxStarts = 2
SPECIFICATION Spec
PROPERTY OwedTaken
CHECK_DEADLOCK FALSE
