CONSTANTS
  Pid = {main, p1, p2, p3}
  Main = main
  None = None
  SlotSize = 2
  Period = 2
  Fates <- MCFates
  ForkFails = TRUE
  MaxInterrupts = 1
SPECIFICATION FairSpec
INVARIANTS TypeOK SlotsAreSnapshots ReplayIsOldest
PROPERTIES FailureReplayed AllEnd
CHECK_DEADLOCK FALSE
