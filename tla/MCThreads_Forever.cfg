SPECIFICATION ThreadsSpec
CONSTANTS
  Loops = {l1, l2}
  NoThread = NoThread
  Unlimited = Unlimited
  RcvBuf = 3
  Times = {0, 1, 2}
  SelfStop = FALSE
  CreateMayFail = FALSE
  SelectMayFail = FALSE
  SendMayFail = FALSE
  NoOne = NoOne
  Threads = {t1, t2, t3}
  TcpClients = {c1, c2}
  Listener = listener
  MaxConns = 1
  Room = 1
  Lengths = {2}
  ReadLength = 2
  ServerBlocks = FALSE
  MaxWrites = 1
PROPERTY LoopForever
CHECK_DEADLOCK FALSE

