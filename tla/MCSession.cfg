SPECIFICATION Spec
CONSTANTS
  Procs = {p1, p2}
  Loop = loop
  NoMsg = nomsg
  SendCap = 1
  MaxSends = 2
INVARIANTS
  TypeOK
  NoPanic
  RefusedMeansClosed
PROPERTIES
  GoesOn
  ImplementsOutbox
CHECK_DEADLOCK FALSE
