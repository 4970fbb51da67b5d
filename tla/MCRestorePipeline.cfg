CONSTANTS
    Dirs = {auto, rail}
    MaxChanges = 1
    MaxBackups = 1
    MaxRestores = 3
    MaxErrors = 2
    MaxKills = 1
    MaxLate = 1
SPECIFICATION Spec
SYMMETRY Symmetric
INVARIANT TypeOK
INVARIANT SuccessIsComplete
INVARIANT FailureLeavesUploads
INVARIANT OldUploadsExist
PROPERTY ImplementsOutcome
CHECK_DEADLOCK FALSE
