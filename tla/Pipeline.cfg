\* Two threads of one process or of two; the ring may be full.
CONSTANTS
  t1 = t1
  t2 = t2
  p1 = p1
  p2 = p2
  a1 = a1
  a2 = a2
  Null = Null
  Thread = {t1, t2}
  Process = {p1, p2}
  Priors <- FewPriors
  EmptyRealloc = {"null", "block"}
  Cap = 2
  UsizeMax = 4095
  Addr = {a1, a2}
  Size = {0, 200}
  TcacheFillCount = 1
  AlertCap = 4
  MaxCalls = 4
SPECIFICATION Spec
INVARIANTS TypeOK AlarmsNeedBlur MisuseReported OracleMatchesHeap
\* The program ends, or is aborted.
CHECK_DEADLOCK FALSE
SYMMETRY Symmetry
