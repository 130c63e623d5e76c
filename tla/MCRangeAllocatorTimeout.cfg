CONSTANTS
  n1 = n1
  n2 = n2
  n3 = n3
  w1 = w1
  w2 = w2
  Nodes = {n1}
  NumSets = 1
  MaxCIDRs <- TwoBlocks
  Reserved <- NoneReserved
  Workers = {w1}
  QueueSize = 1
  Retries = 1
  InitialAPI <- OnlyEmpty
  MaxCreates = 1
  MaxBacklog = 1
  MaxLost = 0
  MaxTimeouts = 1
  MaxRestarts = 0
  MaxRelists = 0
CHECK_DEADLOCK FALSE
SPECIFICATION Spec
INVARIANT
  TimedOutNotReleased
