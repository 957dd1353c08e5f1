\* The loader stops at a message, or init_memory ends: there is no step after that.
SPECIFICATION Spec
CHECK_DEADLOCK FALSE
CONSTANTS
  PageSize = 2
  WordBits = 4
  MaxEntries = 4
  VbeEntry = 3
  Addr4G = 6
  CountMod = 32
  BiosTables <- Tables
  Leftovers <- Before
  EndStructs = {1, 3}
INVARIANTS
  TypeOK
  NoFault
  FreeIsRam
  AllocatorReady
PROPERTY
  Terminates
