SPECIFICATION Spec
CONSTANTS
  ATA_ATAPI_DEVICE_COUNT = 3
  Equipment <- Attachments
  NumBlocks = 3
  CountRange = 2
  Counts = {1, 2, 3}
  Offsets = {0, 2}
  MaxCalls = 2
INVARIANTS
  NothingOwed
  DevicesDescribed
PROPERTIES
  ImplementsBlockDevice
CHECK_DEADLOCK FALSE
