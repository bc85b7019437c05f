SPECIFICATION Spec
CONSTANTS
  Functions <- Different
  Callers = {}
  MaxSchedule = 2
  NoCost = NoCost
INVARIANT NodesAgree
CHECK_DEADLOCK FALSE
