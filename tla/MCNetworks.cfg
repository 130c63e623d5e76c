CONSTANTS
  n1 = n1
  Nodes = {n1}
  Networks <- MCNetworkNames
  NetworkSpec <- MCNetworkSpec
  ParamSpec <- MCParamSpec
  Setups <- MCSetups
  MaxRetries = 1
  MaxChanges = 2
  ParamNames = {"default", "p", "q"}
  NetNames <- MCNetNames
  NetTypes <- MCNetTypes
  Specs <- MCSpecs
  Subnets <- MCSubnets
  VPCs = {"vpc", "dev"}
  DefaultSpec <- MCDefaultSpec
  Scenes <- MCScenes
  GnpMaxRetries = 1
  GnpMaxChanges = 2
CHECK_DEADLOCK FALSE
SPECIFICATION NetworksSpec
INVARIANTS
  NodesAreRight
  NodesSettle
  
PROPERTIES
  HeldSetsStay
