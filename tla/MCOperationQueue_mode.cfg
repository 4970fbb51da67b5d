\* Only the buttons of the system page switch the mode.
CONSTANTS
    BackupIds = {1, 2}
    RestoreIds = {11}
    MaxBackups = 2
    NoId = 0
    Schedulers = {s1}
    Clis = {}
    NoProc = NoProc
    PageModes = {"normal", "admin_only"}
    CommandModes = {}
    LockMayBeLost = FALSE
    MaxCrashes = 0
    MaxDbErrors = 0
SPECIFICATION Spec
PROPERTY NormalModeNotDuringRestore
CHECK_DEADLOCK FALSE
