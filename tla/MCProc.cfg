SPECIFICATION Spec
CONSTANTS
  NPROC = 4
  Programs <- All
  KillPids = {2}
INVARIANTS Accompanied GroupCounted ExitIsNoticed 
CHECK_DEADLOCK FALSE
