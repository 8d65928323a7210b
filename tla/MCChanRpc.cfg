SPECIFICATION Spec
CONSTANTS
  Clients = {c1, c2}
  CallCap = 2
  AsynCap = 1
  MaxCalls = 2
INVARIANTS
  TypeOK
  AnsweredOnce
PROPERTIES
  CallsReturn
CHECK_DEADLOCK FALSE
