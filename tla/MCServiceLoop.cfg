SPECIFICATION Spec
CONSTANTS
  Timers = {t1}
  ChanCap = 1
  CbCap = 1
  TimerCap = 1
  MaxTasks = 3
  MaxPosts = 3
INVARIANTS
  TypeOK
  CallbacksInOrder
PROPERTIES
  StoppedIsSilent
  CloseEnds
CHECK_DEADLOCK FALSE
