CONSTANTS
    Docs = {d1}
    Files = {f1, f2}
    NoFile = NoFile
    NoDoc = NoDoc
    Requests = {r1}
    MaxUnlinkErrors = 0
    MaxBackups = 1
    MaxRestores = 0
SPECIFICATION Spec
INVARIANT ArchiveMatchesManifest
CHECK_DEADLOCK FALSE
