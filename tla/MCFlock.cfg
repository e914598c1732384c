CONSTANTS
  p1 = p1
  p2 = p2
  p3 = p3
  p4 = p4
  f1 = f1
  f2 = f2
  f3 = f3
  Proc <- Procs
  File <- Files
  Programs <- All
SPECIFICATION Spec
INVARIANTS Exclusive CountIsHolders SleepersMustWait
