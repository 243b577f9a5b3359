SPECIFICATION Spec
CONSTANTS
  Threads = {t1, t2}
  Objects = {o1, o2, o3, o4}
  MaxCnt = 2
  Modulus = 8
SYMMETRY Symmetry
INVARIANTS ObjectInOnePlace Overshoot UseCountBalance
PROPERTIES WaiterStarves Linearizable
\* When every thread waits, or the pool is gone, nothing happens any more.
CHECK_DEADLOCK FALSE
