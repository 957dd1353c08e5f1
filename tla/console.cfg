\* Start_Kernel's last text returns, or a "BS" has faulted.
SPECIFICATION Spec
CHECK_DEADLOCK FALSE
CONSTANTS
  xRes = 10
  yRes = 13
  xCharSize = 2
  yCharSize = 4
  Tab = 2
  MappedPixels = 240
  MaxKeys = 2
  Sessions <- MCSessions
  IrqTexts <- MCIrqTexts
INVARIANTS
  TypeOK
  CursorOnScreen
  LaidOut
PROPERTY
  Returns
