SPECIFICATION Spec
CONSTANTS
  MaxCalls = 2
  WithQuit = FALSE
  MaxWindows = 1
  MaxCloses = 1
PROPERTIES CancelledDies SlotFreed SuccessReported
CHECK_DEADLOCK FALSE
