CONSTANTS
    BackupIds = {1, 2}
    RestoreIds = {11}
    MaxBackups = 3
    NoId = 0
    Schedulers = {s1, s2}
    Clis = {}
    NoProc = NoProc
    PageModes = {"admin_only"}
    CommandModes = {}
    LockMayBeLost = FALSE
    MaxCrashes = 1
    MaxDbErrors = 1
SPECIFICATION Spec
SYMMETRY Symmetric
INVARIANT TypeOK
INVARIANT AtMostOneActive
PROPERTY FinishedStaysFinished
PROPERTY RecoverySparesLiveScheduler
CHECK_DEADLOCK FALSE
