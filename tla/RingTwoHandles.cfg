\* Two processes push into the ring, each under the lock of its own handle.
CONSTANTS
  p1 = p1
  p2 = p2
  Process = {p1, p2}
  Root = p1
  ThreadCount = 1
  Cap = 2
  BatchLimit = 1
  Word = 4
  MaxEvents = 3
SPECIFICATION Spec
INVARIANT NoOverwrite
CHECK_DEADLOCK FALSE
