CONSTANTS
  n1 = n1
  n2 = n2
  n3 = n3
  w1 = w1
  w2 = w2
  Nodes = {n1, n2}
  NumSets = 2
  MaxCIDRs <- FourAndTwo
  Reserved <- LastReservedDual
  Workers = {w1}
  QueueSize = 1
  Retries = 1
  InitialAPI <- DualOld
  MaxCreates = 1
  MaxBacklog = 1
  MaxLost = 0
  MaxTimeouts = 1
  MaxRestarts = 2
  MaxRelists = 1
CHECK_DEADLOCK FALSE
SPECIFICATION Spec
INVARIANTS
  ServiceRangeProtected
  FirstLapDisjoint
