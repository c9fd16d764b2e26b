SPECIFICATION Spec
CONSTANTS
    Tasks = {t1, t2}
    Pids = {p1, p2}
    None = None
    GenModulus = 3
    MaxStops = 2
    Written = {"Paused", "Offline"}
SYMMETRY Symmetry
INVARIANTS AtMostOneProcess RevokedOnlyWhileStopping RunningFlagHonest LateWritesAwaited IInv
PROPERTIES StopReturnsQuiet SlotSpec
CHECK_DEADLOCK FALSE
