CONSTANTS
    Docs = {d1}
    Files = {f1, f2}
    NoFile = NoFile
    NoDoc = NoDoc
    Requests = {r1, r2}
    MaxUnlinkErrors = 1
    MaxBackups = 3
    MaxRestores = 1
SPECIFICATION Spec
SYMMETRY Symmetric
INVARIANT TypeOK
INVARIANT QuietBackupsRestorable
PROPERTY UntouchedDocumentsCovered
PROPERTY FilesKeptBetweenRestores
CHECK_DEADLOCK FALSE
