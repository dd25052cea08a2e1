CONSTANTS
  Macs = {1}
  Fids = {0, 1}
  Vids = {1, 2}
  Ports = {"p", "q"}
  None = None
  MaxVlans = 2
  StartFid <- FidApart
  StartPorts <- PortApart
  Overlap = FALSE
  MaxEvents = 6

SPECIFICATION Spec

INVARIANTS NoDangling Inv
PROPERTIES BridgeFollows
CHECK_DEADLOCK FALSE
