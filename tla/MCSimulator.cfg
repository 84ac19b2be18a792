CONSTANTS
  NR_WP = 2
  NULL = NULL
  Value = {0, 1}
  Batch = {TRUE, FALSE}
  Steps = {0, 2}
  MaxInterrupts = 2
SPECIFICATION FairSpec
INVARIANTS TypeOK WatchesWellFormed RunningAgrees SuccessEarned
PROPERTIES  HaltIsFinal InterruptStops
CHECK_DEADLOCK FALSE
