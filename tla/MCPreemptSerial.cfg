CONSTANTS
  p1 = p1
  p2 = p2
  u1 = u1
  u2 = u2
  q1 = q1
  q2 = q2
  Ports = {p1, p2}
  Users = {u1}
  Queues = {q1}
  VerifyLimit = 3
  Overlap = FALSE
  MayLose = TRUE
  Stores = {"enable", "disable verify", "status"}
  MaxStores = 4
  MaxLinkChanges = 2
SPECIFICATION SerialSpec
INVARIANTS Inv RegisterFollows
PROPERTIES FailureEarned VerificationEnds
CHECK_DEADLOCK FALSE
