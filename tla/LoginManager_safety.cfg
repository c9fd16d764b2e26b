SPECIFICATION Spec
CONSTANTS
  MaxCalls = 2
  WithQuit = TRUE
  MaxWindows = 2
  MaxCloses = 1
INVARIANTS LoginInv UncancelledIsCurrent
CHECK_DEADLOCK FALSE
