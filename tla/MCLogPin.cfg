CONSTANTS
  p1 = p1  p2 = p2
  b1 = b1  b2 = b2  b3 = b3
  v1 = v1  v2 = v2
  Proc <- TwoProcs
  Block <- TwoBlocks
  Val <- TwoVals
  LOGSIZE = 6
  MAXOPBLOCKS = 3
  NLOG = 6
  OpBlocks = 1
  UINT = 8
  MaxCrashes = 1
  PressureUntil = 2
SPECIFICATION Spec
INVARIANT DirtyIsPinned
