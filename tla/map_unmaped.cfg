\* The memory of bochsrc, words of 64 bits, single pages as do_fork asks for.
SPECIFICATION Spec
CHECK_DEADLOCK FALSE
CONSTANTS
  WordBits = 64
  NPages = 2048
  ZonesSize = 1
  Zones <- BochsZones
  LastKernel = 0
  Page4G = 2048
  Slack <- NoSlack
  Requests = {1}
  CountMod = 65536
  MaxGrants = 1
INVARIANT
  UnmapedAbove1G
