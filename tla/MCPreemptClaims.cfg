CONSTANTS
  p1 = p1
  p2 = p2
  u1 = u1
  u2 = u2
  q1 = q1
  q2 = q2
  Ports = {p1, p2}
  Users = {u1}
  Queues = {q1, q2}
  VerifyLimit = 3
  Overlap = FALSE
  MayLose = TRUE
  Stores = {"enable", "disable verify", "status"}
  MaxStores = 4
  MaxLinkChanges = 2
SPECIFICATION Spec
\* One at a time; neither holds.
PROPERTY AttemptsCounted
\* INVARIANT PartnerVerified
CHECK_DEADLOCK FALSE
