\* Well-formed volumes.  The code has jumped away, or stays at jmp $.
SPECIFICATION WellFormedSpec
CHECK_DEADLOCK FALSE
CONSTANTS
  Base = 2
  BytesPerSec = 2
  EntriesPerSec = 2
  SecPerTrk = 5
  Cylinders = 2
  rootDirSecs = 3
  SecNumOfRootDirStart = 13
  SecNumOfFAT1Start = 1
  SecBal = 11
  Window = 3
  Name = "LOADER"
  Volumes <- AnyVolume
PROPERTY
  Loads
