SPECIFICATION Spec
CONSTANTS
  Users = {uNear, uFar}
  Contracts = {cFar}
  Near = {uNear}
  Nobody = Nobody
  GasCost = 2
  GasLimits = {3, 5}
  ThroughSC = TRUE
  MaxRewards = 1
  MaxCalls = 1
INVARIANTS GasComesBack
