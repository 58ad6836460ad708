SPECIFICATION Spec
CONSTANTS
  NumPages = 14
  MaxThreads = 2
  TimeQuantum = 2
  StackSizes = {4000}
  Depths = {0, 200}
  BootPages <- FirstPagesUsed
  StackTop = 4096
  IntStackTop = 8192
INVARIANTS
  StacksIntact
