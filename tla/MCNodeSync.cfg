CONSTANTS
  n1 = n1
  n2 = n2
  Nodes = {n1, n2}
  MaxCIDRs = 3
  Reserved = {1}
  Modes = {"SyncFromCloud", "SyncFromCluster"}
  OldNodes = {n1}
  InitialPods = {0}
  MaxCreates = 1
  MaxFaults = 1
  MaxLoops = 2
CHECK_DEADLOCK FALSE
SPECIFICATION SyncSpec
INVARIANTS
  
  AliasAgreesWithNode
  LoopsReceive
PROPERTIES
  EventsAreServed
