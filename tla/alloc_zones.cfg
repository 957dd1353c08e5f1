\* Three zones, 8-bit words.  A fault stops the kernel.
SPECIFICATION Spec
CHECK_DEADLOCK FALSE
CONSTANTS
  WordBits = 8
  NPages = 32
  ZonesSize = 3
  Zones <- MixedZones
  LastKernel = 1
  Page4G = 24
  Slack <- MixedSlack
  Requests = {1, 2, 5, 8}
  CountMod = 64
  MaxGrants = 2
INVARIANTS
  TypeOK
  CountsMatch
  FreeNeverWraps
PROPERTIES
  FreshFromStartWord
