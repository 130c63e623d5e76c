CONSTANTS
  Services = {"a", "b"}
  Zone <- MCZone
  ExternalIPs = {1, 2, 3}
  InternalIPs = {4, 5, 6}
  StaticIPs <- MCStaticIPs
  MaxCreate = 1
  MaxUpdate = 1
  LbScenes <- SwitchScenes
  LbMaxChanges = 3
CHECK_DEADLOCK FALSE
SPECIFICATION LbSpec
INVARIANT
  OldSchemeIsDeleted
