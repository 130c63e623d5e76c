CONSTANTS
  Parts = {"instances", "volumes", "cluster id", "setup", "tpu", "addresses"}
  ManagedZones <- MCManagedZones
  VmNames = {"a", "b"}
  VmTags <- MCVmTags
  Callers = {"c1", "c2"}
  MaxClusterName = 2
  Nodes = {"n1", "n2"}
  NoLabel = ""
  SizeUnit = 2
  MaxDiskId = 5
  IdThreads <- MCIdThreads
  FederatedId = 9
  MaxIdChanges = 2
  MaxUid = 2
  SetupScenes <- MCSetupScenes
  SetupThreads = {"t1", "t2"}
  TokenTries = 2
  TpuCallers = {"c1", "c2"}
  TpuMaxFaults = 2
  Nics <- MCNics
  MaxNics = 2
  MetaRequests = {"nics", "v4", "v6", "configs", "nat", "hostname"}
SPECIFICATION MCSpec
CHECK_DEADLOCK FALSE
INVARIANTS
  
  DisksAreTrue
  OneClusterId
  IdsAreTrue
  SetupIsTrue
  AddressesAreRight
