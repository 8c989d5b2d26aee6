SPECIFICATION Spec
CONSTANTS
  NoThread = NoThread
  NoOp = NoOp
  EventThread = ev
  Ops = {o1, o2, o3}
  CreateMayFail = FALSE
  DaemonMayDie = FALSE
  RequestMayFail = FALSE
  MaxQueue = 2
  MaxUid = 2
INVARIANT SerializedCalls
