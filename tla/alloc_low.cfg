\* One zone, 4-bit words.  The caps on grants stop the allocator at last.
SPECIFICATION Spec
CHECK_DEADLOCK FALSE
CONSTANTS
  WordBits = 4
  NPages = 12
  ZonesSize = 1
  Zones <- LowZones
  LastKernel = 0
  Page4G = 8
  Slack <- NoSlack
  Requests = {0, 1, 2, 3, 4}
  CountMod = 16
  MaxGrants = 2
INVARIANTS
  InUseMarked
  LinkMatchesRefs
  UniqueLow
  NoFault
PROPERTIES
  FreshWhileLowFree
