\* Three keys.  The model stops when all are typed and reported.
SPECIFICATION Spec
CHECK_DEADLOCK FALSE
CONSTANTS
  MaxKeys = 3
  MsgLen = 2
INVARIANTS
  TypeOK
  ReportsWhole
  EarlyKeyJams
PROPERTIES
  EveryKeyReported
  NestingIsFinal
  MainResumes
