SPECIFICATION Spec
CONSTANTS
  NumPages = 14
  MemoryMaps <- Maps
  KernelBase = 8192
  KernelEnds <- Ends
  MapStart = 20440
  MapLength = 72
  Lengths = {92, 3936, 6000, 8192}
  MaxCalls = 6
INVARIANTS
  TypeOK
  NoOverlap
  
  MemoryInv
PROPERTIES
  ImplementsAllocator
CHECK_DEADLOCK FALSE
