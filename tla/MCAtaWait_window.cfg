SPECIFICATION WaitSpec
CONSTANTS
  CLICKS_PER_SECOND = 3
  Modulus = 12
  MaxLate = 1
  MaxTicks = 9
  ATA_TIMEOUT = 1
  MaxStart = 2
PROPERTIES
  WindowKept
CHECK_DEADLOCK FALSE
