CONSTANTS
  NPROC = 3
  Exempt <- Init1
  Programs <- All
SPECIFICATION Spec
INVARIANTS NoLostWakeup 
