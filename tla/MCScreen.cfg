SPECIFICATION Spec
CONSTANTS
  MaxCount = 1
  MaxFrame = 1
  Transfers = {t1}
  Times = {now}
  Nothing = Nothing
  MaxUpdates = 1
  States = {"Scanning", "Error"}
  LinuxCount = 0
  LinuxTransfers = {}
  MacFrame = 0
  CliStates = {"Syncing"}
  MaxChanges = 2
  MaxEvents = 1
  MaxRecords = 2
  MaxClears = 1
  MaxRetries = 1
  None = None
INVARIANTS ScreenInv RebuildKeepsUp ClearedNotShown
PROPERTY CatchesUp
CHECK_DEADLOCK FALSE
