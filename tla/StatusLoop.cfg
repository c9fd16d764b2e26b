SPECIFICATION Spec
CONSTANTS
  OfflineTicks = 5
  TicksPerSecond = 2
  MinDelay = 1
  MaxDelay = 5
INVARIANT LoopInv
PROPERTIES BackOffHolds FailureRetried
