SPECIFICATION Spec
CONSTANTS
  NumPages = 10
  BootCount = 2
  StackPages = 2
  MaxThreads = 2
  TimeQuantum = 2
  StackSizes = {1024, 8000}
  Depths = {0, 200}
  BootPages <- FirstPagesUsed
  StackTop = 4096
  IntStackTop = 8192
INVARIANTS
  TypeOK
  SavedContextIntact
  HeadIsRunning
  QuantumLeft
  FramesInOwnMemory
  StacksIntact
  ContextInv
PROPERTIES
  NoOvertaking
  ImplementsMultithreading
