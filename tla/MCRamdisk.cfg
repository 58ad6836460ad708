SPECIFICATION Spec
CONSTANTS
  RAMDISK_BLOCKSIZE = 2
  Lengths = {1, 3}
  MaxNodes = 7
  MaxEarly = 5
  MaxWrites = 3
INVARIANTS
  ListsApart
PROPERTIES
  WritesShown
  ImplementsNodeLists
CHECK_DEADLOCK FALSE
