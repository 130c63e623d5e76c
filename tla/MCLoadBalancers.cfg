CONSTANTS
  Services = {"a", "b"}
  Zone <- MCZone
  ExternalIPs = {1, 2, 3}
  InternalIPs = {4, 5, 6}
  StaticIPs <- MCStaticIPs
  MaxCreate = 1
  MaxUpdate = 1
  LbScenes <- MCScenes
  LbMaxChanges = 3
CHECK_DEADLOCK FALSE
SPECIFICATION LbSpec
INVARIANTS
  
  AddressIsKept
  
  
  MetricsAgree
