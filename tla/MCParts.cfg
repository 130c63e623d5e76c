CONSTANTS
  MaxCIDRs = 4
  V4Bits = 4
  HalfV6Bits = 3
  ClusterSubnetMaxDiff = 3
  BootFlags <- MCBootFlags
  BootNodes = {"x", "y"}
  MaxPolls = 1
  MaxBoots = 2
  Skew = 1
  MaxClock = 3
  Lives = {0, 2}
  PluginRuns = {"r1", "r2"}
  PluginFlags <- MCPluginFlags
  Contexts = {"k1", "k2"}
  DefaultTries = 2
  MaxPlugFaults = 1
  MaxSwitches = 1
  Requests = {"q1", "q2"}
  SourceConfigs <- MCSourceConfigs
  MaxTokens = 2
  MaxSrcFaults = 1
  MaxProcesses = 2
  AuthScenes <- MCAuthScenes
  Registries = {"gcr.io", "pkg.dev"}
  CfgLifetime = 2
SPECIFICATION MCSpec
CHECK_DEADLOCK FALSE
INVARIANTS
  CounterMatchesBitmap
  BlocksAreExact
  StartIsSafe
  PluginCacheWorks
  
  RegistryAnswersAreTrue
PROPERTIES
  PoolImplemented
  ReuseComesLast
