SPECIFICATION Spec
CONSTANTS
  Sessions = {s1, s2}
  Uids = {u1, u2}
  None = none
  MaxBreaks = 1
  MaxTries = 2
  Refuses = TRUE
INVARIANTS
  TypeOK
  OneLogin
  NoDeadPlayer
  OfflineTold
PROPERTIES
  LoginCompletes
CHECK_DEADLOCK FALSE
