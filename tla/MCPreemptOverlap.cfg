CONSTANTS
  p1 = p1
  p2 = p2
  u1 = u1
  u2 = u2
  q1 = q1
  q2 = q2
  Ports = {p1}
  Users = {u1, u2}
  Queues = {q1, q2}
  VerifyLimit = 3
  Overlap = TRUE
  MayLose = TRUE
  Stores = {"enable", "disable verify", "status"}
  MaxStores = 4
  MaxLinkChanges = 2
SPECIFICATION Spec
\* One at a time; none holds.
INVARIANT RegisterFollows
\* INVARIANT StatusTruthful
\* INVARIANT VerificationDue
CHECK_DEADLOCK FALSE
