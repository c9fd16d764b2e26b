SPECIFICATION Spec
CONSTANTS
  MaxTasks = 2
  MaxCycles = 2
  MaxTrouble = 2
  PipeSize = 1
INVARIANTS EventsInv ExitDiagnosed
PROPERTY ExitShown
CHECK_DEADLOCK FALSE
