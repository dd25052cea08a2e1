CONSTANTS
  Macs = {1}
  Fids = {0, 1}
  Vids = {1, 2}
  Ports = {"p", "q"}
  None = None
  MaxVlans = 3
  StartFid <- FidApart
  StartPorts <- PortApart
  Overlap = TRUE
  MaxEvents = 5

SPECIFICATION Spec

\* One at a time; none holds.
INVARIANT NodesAlive
\* INVARIANT StopWithdraws
\* PROPERTY BridgeCallsReturn
\* With Overlap = FALSE, these do not hold either:
\* INVARIANT NoDanglingEver
\* PROPERTY PortFollows
CHECK_DEADLOCK FALSE
