SPECIFICATION DataSpec
CONSTANTS
  Interval = 13
  MaxLag = 30
  Overshoots <- AnyOvershoots
  ListenerTimes <- AnyListenerTimes
  Procs = {p1, p2}
  NoProc = NoProc
  StateFds = {"none", "positive"}
  Ticks = 2
  SeqSize = 3
  Second = 1
  MaxClock = 3
  MaxSets = 2
  CrashMayHappen = TRUE
  Windows = {2003, 2099, 2399}
  MaxDays = 800
  Pasts <- MCPasts
  MAX_DOMAIN_LABEL = 3
  MAX_DOMAIN_NAME = 10
  Limit = 90
  OneSecond = 1024
  Beyonds = {0, 2}
  Questions <- MCQuestions
  Records <- MCRecords
  Leases = {7200}
  MaxPuts = 3
  Junk = {0, 1, 2, 97, 192, 12, 13}
  MaxJunk = 5
  Labels <- MCLabels
  Strings <- MCStrings
  FirstLabels <- MCFirstLabels
  Randoms = {0, 98}
  MaxRenames = 6
INVARIANTS SleepBounds NoDrift UniqueButAtEdge MessagesReadBack NamesSurviveText
PROPERTY LogInOrder
SYMMETRY Alike
CHECK_DEADLOCK FALSE
