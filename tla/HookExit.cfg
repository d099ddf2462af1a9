\* exit while another thread allocates.
CONSTANTS
  t1 = t1
  t2 = t2
  Thread = {t1, t2}
  Starter = t1
  Platform = "linux"
  MainOnly = FALSE
  Ops = {"malloc"}
  MaxCalls = 3
SPECIFICATION Spec
INVARIANT NoConcurrentPlatformWrites
\* The target stops when it has made its calls.
CHECK_DEADLOCK FALSE
