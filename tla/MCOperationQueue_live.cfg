CONSTANTS
    BackupIds = {1, 2}
    RestoreIds = {11}
    MaxBackups = 2
    NoId = 0
    Schedulers = {s1}
    Clis = {}
    NoProc = NoProc
    PageModes = {"admin_only"}
    CommandModes = {}
    LockMayBeLost = TRUE
    MaxCrashes = 1
    MaxDbErrors = 0
SPECIFICATION FairSpecWithLostLocks
PROPERTY QueuedOperationsLeaveTheQueue
PROPERTY RestoreModeEnds
CHECK_DEADLOCK FALSE
