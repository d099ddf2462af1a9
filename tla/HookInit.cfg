\* Two threads, from the first constructor to the end, events filtered.
CONSTANTS
  t1 = t1
  t2 = t2
  Thread = {t1, t2}
  Starter = t1
  Platform = "linux"
  MainOnly = TRUE
  Ops = {"malloc", "free", "posix_memalign"}
  MaxCalls = 3
SPECIFICATION Spec
INVARIANTS TypeOK InnerCallsSilent OneInitialiser OneEventPerCall OwedAreServed
           MainOnlySilent
PROPERTY CallsReturn
\* The target stops when it has made its calls.
CHECK_DEADLOCK FALSE
