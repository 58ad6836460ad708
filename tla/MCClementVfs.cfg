SPECIFICATION Spec
CONSTANTS
  Names = {"a", "b", "c"}
  Tags = {"x"}
  Lengths = {507, 600, 1100}
  NumEntries = 2
  NumBlocks = 12
  MayStop = {"mkfile", "write"}
  MaxStops = 1
INVARIANTS
  
  LeaksBounded

  
