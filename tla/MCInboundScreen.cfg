SPECIFICATION ScreenSpec
CONSTANTS
    a1 = a1
    Account <- OneAccount
    Caller = {"watcher"}
    MaxDrop = 1
PROPERTY ScreenCommandEnds
CHECK_DEADLOCK FALSE
