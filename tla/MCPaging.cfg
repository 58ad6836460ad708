SPECIFICATION Spec
CONSTANTS
  E = 4
  KernelPages <- Kernel
  DirFrame = 3
  FirstTableFrame = 4
  KmallocFrames = {8, 12}
  KmallocContents <- Contents
  Targets = {1, 9, 10}
  ForcedTargets = {9, 10}
  TableTargets = {8}
  PhysFrames = {9, 11}
  Ranges <- SmallRanges
  PageSize = 16
  TlbSize = 1
  MaxOps = 4
INVARIANTS
  
  NothingStale
  UserOnlyWhereGranted
PROPERTIES
  GrantOpens
