SPECIFICATION MCSpec
CONSTANTS
  Functions <- SameCosts
  Callers = {c1, c2}
  MaxSchedule = 2
  NoCost = NoCost
INVARIANTS ChargesAreCurrent NodesAgree
PROPERTIES ChangeEnds
