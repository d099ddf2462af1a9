\* One process, several threads: the case push_lock is made for.
CONSTANTS
  p1 = p1
  Process = {p1}
  Root = p1
  ThreadCount = 2
  Cap = 2
  BatchLimit = 1
  Word = 4
  MaxEvents = 5
SPECIFICATION FairSpec
INVARIANTS TypeOK NoOverwrite DeliveredInOrder Accounted
PROPERTIES LockReleased EventuallyDelivered RefinesLossyQueue
\* The target may stop allocating, or die.
CHECK_DEADLOCK FALSE
