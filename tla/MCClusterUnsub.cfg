SPECIFICATION Spec
CONSTANTS
  gate = gate
  gs = gs
  a1 = a1
  a2 = a2
  None = none
  Nodes <- MCNodes
  Types <- MCTypes
  SvrType <- MCSvrType
  Subs <- MCSubs
  Addrs <- MCAddrs
  FirstAddr <- MCFirstAddr
  MaxSessions = 4
  MaxFaults = 2
INVARIANT Unsubscribed
CHECK_DEADLOCK FALSE
