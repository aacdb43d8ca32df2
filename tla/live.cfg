CONSTANTS
  b1 = b1
  Broadcasts <- OneBroadcast
  MaxFaults = 1
  MaxReruns = 1
  MaxSockets = 4
SPECIFICATION FairSpec
INVARIANTS
  SetIsExact
  SocketsBounded
PROPERTIES
  Reconnects
CHECK_DEADLOCK FALSE
