SPECIFICATION MCSpec
CONSTANTS
  Size <- MCSize
  Intervals <- MCIntervals
  Ids = {t1}
  NoTimer = none
  LogCallers = {a, b}
  LogCap = 1
  LogMaxSize = 3
  LogMaxLines = 7
  LogMaxDay = 2
  LogMaxRuns = 2
  Servers = {s1, s2}
  Callers = {c1, c2}
  NoList = nolist
  MaxEntries = 2
  MaxStarts = 2
  MaxEvents = 2
  Nodes = {n1, n2, n3}
  n1 = n1
  n2 = n2
  n3 = n3
  NoNode = nonode
  Keys <- MCKeys
  NoKey = nokey
  VirualSpots = 2
  SpotHashes <- MCSpotHashes
  Goroutines = {g1, g2}
  FrameBase = 4
  DefaultMax = 16
  MaxArgs = {0, 4, 300}
  InnerMessages <- MCInnerMessages
  UserMessages <- MCUserMessages
  HeartBeat = 0
  MaxMessages = 2
  Cuts <- MCCuts
  Calendar <- MCCalendar
  MinSecs = 2
  HourMins = 2
  DayHours = 2
  MonthMax = 2
  DomMax = 3
  WeekDays = 4
  Exprs <- MCExprs
  Never = never
  MaxTime = 45
  MaxLate = 1
  DbClients = {a, b}
  DbMaxRequests = 2
  DbMaxLinks = 2
INVARIANTS
  MCTypeOK
  LogKept
  LogEnds
  NoLostWakeup
  ClientFollows
  FramesInStep
  CronFollows
  DbAnswers
PROPERTIES
  OnTime
  SelectsRight
  MCListConverges
CHECK_DEADLOCK FALSE
