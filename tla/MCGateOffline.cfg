SPECIFICATION Spec
CONSTANTS
  Sessions = {s1, s2}
  Uids = {u1, u2}
  None = none
  MaxBreaks = 1
  MaxTries = 2
  Refuses = FALSE
INVARIANT AlwaysTold
CHECK_DEADLOCK FALSE
