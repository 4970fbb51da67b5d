CONSTANTS
    Dirs = {auto}
    MaxChanges = 0
    MaxBackups = 1
    MaxRestores = 4
    MaxErrors = 0
    MaxKills = 1
    MaxLate = 0
SPECIFICATION Spec
INVARIANT SwapNeverBlocked
CHECK_DEADLOCK FALSE
