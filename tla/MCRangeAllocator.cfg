CONSTANTS
  n1 = n1
  n2 = n2
  n3 = n3
  w1 = w1
  w2 = w2
  Nodes = {n1, n2}
  NumSets = 1
  MaxCIDRs <- ThreeBlocks
  Reserved <- LastReserved
  Workers = {w1, w2}
  QueueSize = 2
  Retries = 2
  InitialAPI <- EmptyOrOld
  MaxCreates = 1
  MaxBacklog = 2
  MaxLost = 1
  MaxTimeouts = 2
  MaxRestarts = 0
  MaxRelists = 0
CHECK_DEADLOCK FALSE
SPECIFICATION Spec
SYMMETRY WorkerSymmetry
INVARIANTS
  TypeOK
  ProcessingHasWork
  NoLeak
