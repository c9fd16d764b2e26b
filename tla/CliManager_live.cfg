SPECIFICATION LiveSpec
CONSTANTS
    Tasks = {t1, t2}
    Pids = {p1}
    None = None
    GenModulus = 2
    MaxStops = 1
    Written = {"Offline"}
PROPERTIES StopReturns StartSettles
CHECK_DEADLOCK FALSE
