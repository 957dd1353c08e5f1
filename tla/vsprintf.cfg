\* vsprintf returns; there is no step after it.
SPECIFICATION FormatSpec
CHECK_DEADLOCK FALSE
CONSTANTS
  IntMod = 256
  LongMod = 65536
  PtrDigits = 6
  StringAt <- Texts
  Calls <- Inputs
INVARIANTS
  FormatTypeOK
  Rendered
  NeverPastEnd
PROPERTY
  Terminates
