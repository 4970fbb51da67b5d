CONSTANTS
    BackupIds = {1, 2, 3}
    RestoreIds = {11, 12}
    MaxBackups = 2
    NoId = 0
    Schedulers = {s1, s2}
    Clis = {c1}
    NoProc = NoProc
    PageModes = {}
    CommandModes = {"admin_only"}
    LockMayBeLost = TRUE
    MaxCrashes = 0
    MaxDbErrors = 0
SPECIFICATION MCSpec
SYMMETRY Symmetric
INVARIANT OwnersDistinct
CHECK_DEADLOCK FALSE
