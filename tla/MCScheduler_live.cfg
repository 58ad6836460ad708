SPECIFICATION FairSpec
CONSTANTS
  NumPages = 8
  BootCount = 2
  StackPages = 1
  MaxThreads = 2
  TimeQuantum = 2
  StackSizes = {1024}
  Depths = {0}
  BootPages <- FirstPagesUsed
  StackTop = 4096
  IntStackTop = 8192
PROPERTIES
  EveryThreadRuns
