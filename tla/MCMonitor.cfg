SPECIFICATION Spec
CONSTANTS
  NPROC = 3
  NMON = 3
  Programs <- All
  priority <- OnePriority
INVARIANTS Exclusive NotFreedUnderneath HandedOver  
CHECK_DEADLOCK FALSE
