SPECIFICATION TcpSpec
CONSTANTS
  Conns = {c1, c2}
  Kinds = {"tcp", "ws"}
  CallCap = 1
  MaxRecv = 1
INVARIANTS
  TcpTypeOK
  StopCloses
PROPERTIES
  ServerEnds
CHECK_DEADLOCK FALSE
