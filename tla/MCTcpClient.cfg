SPECIFICATION Spec
CONSTANTS
  None = none
  Addrs = {a1, a2}
  CallCap = 3
  MaxOrders = 3
  MaxSessions = 3
  MaxRecv = 1
INVARIANTS
  TypeOK
  ReplacedIsGone
PROPERTIES
  ClientEnds
CHECK_DEADLOCK FALSE
