SPECIFICATION Spec
CONSTANTS
  MaxClicks = 2
  MaxRetries = 1
  CliStates = {"Offline"}
  SpawnMayFail = TRUE
  WithSignal = TRUE
  None = None
  WithDialogs = TRUE
INVARIANT TrayInv
PROPERTIES PauseSticks TasksFinish
CHECK_DEADLOCK FALSE
