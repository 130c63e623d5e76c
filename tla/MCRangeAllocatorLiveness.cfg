CONSTANTS
  n1 = n1
  n2 = n2
  n3 = n3
  w1 = w1
  w2 = w2
  Nodes = {n1}
  NumSets = 1
  MaxCIDRs <- FourBlocks
  Reserved <- NoneReserved
  Workers = {w1}
  QueueSize = 5
  Retries = 1
  InitialAPI <- OnlyEmpty
  MaxCreates = 2
  MaxBacklog = 1
  MaxLost = 1
  MaxTimeouts = 0
  MaxRestarts = 0
  MaxRelists = 0
CHECK_DEADLOCK FALSE
SPECIFICATION FairSpec
PROPERTY
  EveryNodeGetsCIDRs
