\* Handlers end in an endless loop, and Start_Kernel need not be interrupted.
SPECIFICATION Spec
CHECK_DEADLOCK FALSE
CONSTANTS
  Causes <- MCCauses
  MaxKeys = 2
INVARIANTS
  TypeOK
  ReportTrue
  IrqTransparent
PROPERTIES
  TrapIsFinal
  Reported
