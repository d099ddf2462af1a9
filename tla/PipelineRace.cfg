\* One process: realloc by one thread while another allocates.
CONSTANTS
  t1 = t1
  t2 = t2
  p1 = p1
  a1 = a1
  a2 = a2
  Null = Null
  Thread = {t1, t2}
  Process = {p1}
  Priors = {{}}
  EmptyRealloc = {"null"}
  Cap = 8
  UsizeMax = 4095
  Addr = {a1, a2}
  Size = {200}
  TcacheFillCount = 1
  AlertCap = 4
  MaxCalls = 4
SPECIFICATION Spec
INVARIANT NoFalseAlarm
CHECK_DEADLOCK FALSE
SYMMETRY Symmetry
