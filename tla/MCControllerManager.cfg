CONSTANTS
  Parts = {"direct path", "annotator", "certificates", "cache"}
  Ksas = {"k"}
  Gsas = {"g1", "g2"}
  DpNodes = {"n1", "n2"}
  DpPods <- MCDpPods
  DpScenes <- MCDpScenes
  Metas <- MCMetas
  OwnedKubeLabels = {"pool"}
  UserLabels <- MCUserLabels
  AnnMaxVms = 2
  ProjectParts <- MCProject
  ZonePrefixes = {"us", "z1"}
  Csrs = {"c1", "c2"}
  CsrScenes <- MCCsrScenes
  Threads = {"t1", "t2"}
  Leaves <- MCLeaves
  InterLists <- MCInterLists
  Prefixed = {"inter"}
  CrlCacheDuration = 1
  CaMaxTime = 2
SPECIFICATION MCSpec
CHECK_DEADLOCK FALSE
INVARIANTS
  DirectPathAgrees
  AnnotationsAreWritten
  SignedWasApproved
  RequestsSettle
  CaCacheIsSafe
PROPERTIES
  DecisionIsFinal
  StaleNodesGo
