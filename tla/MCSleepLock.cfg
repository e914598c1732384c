SPECIFICATION Spec
CONSTANTS
  NPROC = 3
  NLOCK = 2
  priority <- TwoPriorities
INVARIANTS Exclusive SleepersWait BoostReturned
