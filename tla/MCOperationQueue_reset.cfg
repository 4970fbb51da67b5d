\* Restarts, and an administrator who keeps pressing the recovery button.
CONSTANTS
    BackupIds = {1}
    RestoreIds = {}
    MaxBackups = 1
    NoId = 0
    Schedulers = {s1}
    Clis = {}
    NoProc = NoProc
    PageModes = {"normal", "admin_only"}
    CommandModes = {}
    LockMayBeLost = FALSE
    MaxCrashes = 1
    MaxDbErrors = 0
SPECIFICATION FairSpecWithAdministrator
PROPERTY InterruptedOperationsCanBeReset
CHECK_DEADLOCK FALSE
