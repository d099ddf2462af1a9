\* The target starts or forks a child: two handles, two locks, one ring.
CONSTANTS
  p1 = p1
  p2 = p2
  Process = {p1, p2}
  Root = p1
  ThreadCount = 2
  Cap = 1
  BatchLimit = 1
  Word = 2
  MaxEvents = 3
SPECIFICATION Spec
INVARIANT LockHasHolder
\* The target may stop allocating, or die.
CHECK_DEADLOCK FALSE
