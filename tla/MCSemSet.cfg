CONSTANTS
  NPROC = 3
  NSEM = 2
  Programs <- All
SPECIFICATION SetSpec
INVARIANTS NeverOverdrawn NotFreedUnderneath WaitersCounted NoLostWakeup 
CHECK_DEADLOCK FALSE
