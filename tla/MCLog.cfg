CONSTANTS
  p1 = p1  p2 = p2
  b1 = b1  b2 = b2  b3 = b3
  v1 = v1  v2 = v2
  Proc <- TwoProcs
  Block <- ThreeBlocks
  Val <- TwoVals
  LOGSIZE = 4
  MAXOPBLOCKS = 2
  NLOG = 4
  OpBlocks = 1
  UINT = 8
  MaxCrashes = 2
  PressureUntil = 1
SPECIFICATION FairSpec
INVARIANTS  NoOverslept
PROPERTIES Atomic SleepersWake
