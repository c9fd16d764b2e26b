SPECIFICATION Spec
CONSTANTS
  MaxClicks = 2
  MaxRetries = 0
  CliStates = {"Synced", "Offline"}
  SpawnMayFail = FALSE
  WithSignal = FALSE
  None = None
  WithDialogs = FALSE
INVARIANT NoOrphan
CHECK_DEADLOCK FALSE
