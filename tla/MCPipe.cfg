CONSTANTS
  p1 = p1
  p2 = p2
  p3 = p3
  a = a
  b = b
  Proc <- Procs
  Byte <- Bytes
  PIPESIZE = 2
  UINT = 4
  MaxCount = 3
  Programs <- All
SPECIFICATION Spec
INVARIANTS TypeOK NotFreedInUse SleepersMustWait
PROPERTY IsFifo
CHECK_DEADLOCK FALSE
