SPECIFICATION Spec
CONSTANTS
  keymap <- SmallKeymap
  Threads = {"t1", "t2"}
  xsize = 2
  ysize = 3
  Printed = {"x", "newline", "bs", "up", "ff"}
  Positions <- SmallPositions
  MaxCalls = 4
INVARIANTS
  CursorOnScreen
  FlagKept
PROPERTIES
  ImplementsTerminal
  
