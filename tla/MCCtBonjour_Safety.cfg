SPECIFICATION Spec
CONSTANTS
  NoThread = NoThread
  NoOp = NoOp
  EventThread = ev
  Ops = {o1, o2, o3, o4}
  CreateMayFail = TRUE
  DaemonMayDie = TRUE
  RequestMayFail = TRUE
  MaxQueue = 2
  MaxUid = 3
SYMMETRY OpsSymmetry

INVARIANTS UndefinedOnlyInStop NothingLeaks QuiescentAfterStop RepliesReachTheirOp
