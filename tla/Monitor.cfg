\* All four modes.
CONSTANTS
  Cap = 2
  BatchLimit = 1
  DrainTries = 4
  DrainStable = 2
  Modes = {"run", "run_ui", "monitor", "monitor_ui"}
  MaxEvents = 4
SPECIFICATION Spec
INVARIANTS TypeOK SummaryCountsApplied NothingMissed NameFollowsReader
PROPERTIES SessionEnds EventsReachOracle
\* A session ends, or waits for a user.
CHECK_DEADLOCK FALSE
