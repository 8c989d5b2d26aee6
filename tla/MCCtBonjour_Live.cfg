SPECIFICATION FairSpec
CONSTANTS
  NoThread = NoThread
  NoOp = NoOp
  EventThread = ev
  Ops = {o1, o2, o3}
  CreateMayFail = FALSE
  DaemonMayDie = TRUE
  RequestMayFail = TRUE
  MaxQueue = 2
  MaxUid = 2
PROPERTY StopReturns RepliesDispatched
