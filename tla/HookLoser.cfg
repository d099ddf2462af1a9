\* A thread that loses the race for the initialisation.
CONSTANTS
  t1 = t1
  t2 = t2
  Thread = {t1, t2}
  Starter = t1
  Platform = "linux"
  MainOnly = FALSE
  Ops = {"malloc", "posix_memalign"}
  MaxCalls = 3
SPECIFICATION Spec
INVARIANT EveryCallServed
\* The target stops when it has made its calls.
CHECK_DEADLOCK FALSE
