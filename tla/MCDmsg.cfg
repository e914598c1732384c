CONSTANTS
  NPROC = 3
  DMSG_QUEUE_MAX = 2
  MaxPid = 5
  Programs <- All
SPECIFICATION Spec
INVARIANTS TypeOK  ClosedIsEmpty
CHECK_DEADLOCK FALSE
