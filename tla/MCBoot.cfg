SPECIFICATION FairSpec
CONSTANTS
  Wired = {0, 1, 14}
  Drivers <- InOrder
  MaxKeys = 1
  NumCells = 3
INVARIANTS
  InterruptsFindTheirWay
  InServiceWhileServed
PROPERTIES
  KeysAreRead
  TextIsShown
  LinesAreServed
