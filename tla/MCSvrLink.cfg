SPECIFICATION Spec
CONSTANTS
  None = none
  Shared = FALSE
  MaxSessions = 3
  MaxNotices = 1
INVARIANTS
  TypeOK
  LinkHolds
PROPERTIES
  Heals
CHECK_DEADLOCK FALSE
