CONSTANTS
  Clients = {"memory", "other"}
  Requests <- MCRequests
  QueueLen = 1
  MapResults = {"0", "map_error"}
  Boots <- MCBoots
  Addrs <- MCAddrs
  Code = {"x", "y"}
  LINESIZE = 2
  None = None
SPECIFICATION Spec
INVARIANTS
  CodeCoherent
  ReloadUsesPath
PROPERTIES
  ImplementsRpc
  Answered
\* without a thread there is no device to call
CHECK_DEADLOCK FALSE
