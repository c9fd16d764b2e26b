SPECIFICATION Spec
CONSTANTS
  MaxCalls = 2
  WithQuit = FALSE
  MaxWindows = 2
  MaxCloses = 1
INVARIANT SingleLoginProcess
CHECK_DEADLOCK FALSE
