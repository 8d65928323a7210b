SPECIFICATION Spec
CONSTANTS
  None = none
  Shared = TRUE
  MaxSessions = 1
  MaxNotices = 1
INVARIANT Notified
CHECK_DEADLOCK FALSE
