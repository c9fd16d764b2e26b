SPECIFICATION LiveSpec
CONSTANTS
    None = None
    MaxEntries = 2
    MaxId = 4
    MaxClears = 1
    MaxDeaths = 1
    InitialDisk <- SmallDisk
INVARIANTS HistoryInv ClearedStaysCleared QuitSaves
PROPERTIES DiskNeverOlder SavedEventually
CHECK_DEADLOCK FALSE
