SPECIFICATION FairWaitSpec
CONSTANTS
  CLICKS_PER_SECOND = 3
  Modulus = 12
  MaxLate = 1
  MaxTicks = 14
  ATA_TIMEOUT = 1
  MaxStart = 3
INVARIANTS
  ReadingWithinASecond
PROPERTIES
  ResetHeld
  WaitEnds
CHECK_DEADLOCK FALSE
