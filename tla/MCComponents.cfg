CONSTANTS
    MaxBackups = 3
    MaxInterruptions = 1
    Files = {"f1", "f2"}
    NoFile = NoFile
    Uploaded = {"f2"}
    Confirms = {c1, c2}
    Lines = {1, 2}
    Keys = {"k1", "k2"}
    NoKey = NoKey
    LinesOf <- MCLinesOf
    StoredAs <- MCStoredAs
    MaxJobs = 1
    MaxImportFaults = 1
    ShipmentIds = {s1}
    Names = {n1, n2}
    NoName = NoName
    None = None
    ValueIds = {v1}
    Tabs = {t1, t2}
    Admins = {a1}
    MaxStamp = 4
    MaxRenames = 2
    MaxRequestKills = 1
    ConfigFields = {"d1", "d2"}
    SystemFields = {"d1"}
    Position <- MCPosition
    CatalogDefaults = {"d1"}
    Empty = Empty
    Editors = {e1, e2}
    Pages = {p1}
    MaxSettings = 2
    MaxTime = 1
    MaxEdits = 1
    Zones <- MCZones
    Named = Named
    NoPackage = NoPackage
    Accounts = {"u1", "u2", "root"}
    Superusers = {"root"}
    AccountForms = {1, 2}
    Columns = {"cargo", "grade"}
    PlainColumns = {"quantity"}
    NoColumn = NoColumn
    ColumnValues <- MCColumnValues
    SearchedFor = {2}
    Limit = 1
    MaxInUrl = 1
    MaxRequests = 2
    TableRows = {1, 2, 3}
    RowKeys = {"a", "b"}
    Comparable = {"a"}
    Unreadable = {"x"}
    Cleaners = {w1, w2}
    FullExportMax = 1
    PartialExportMax = 1
    MaxDuplicateRecords = 2
    MaxDay = 1
    KeepDays = 0
    Pids = {1, 2}
    AppVersions <- MCAppVersions
    Semver <- MCSemver
    Rank <- MCRank
    OtherLabels = {"broken"}
    Foreign <- MCForeign
    MaxSiteBackups = 2
    Sheets <- MCSheets
    HeaderWords <- MCHeaderWords
    CellValues = {"v1", "v2"}
    Dates = {"date"}
    Amounts = {"volume"}
    Texts = {"cargo"}
    KeyFields = {"date", "volume"}
    MaxDataRows = 3
    PreviewPageSize = 2
    MaxOthers = 2
    WeekLength = 2
    PartsOfDay = 2
    ScheduleForms <- MCScheduleForms
    MaxMoment = 5
    MaxScheduleSaves = 1
    MaxReloads = 1
SPECIFICATION ComponentsSpec
INVARIANT ComponentsTypeOK
INVARIANT NewestKept
INVARIANT IncrementalsHaveBaseline
INVARIANT YoungKept
INVARIANT ImportsSound
INVARIANT ScheduledOnce
INVARIANT JournalMatchesShipments
INVARIANT OverwritesOnlyAfterInvalidForm
PROPERTY AuditTellsTheHistory
INVARIANT NoNameLeftBehind
INVARIANT SettingsExplained
PROPERTY NothingLostUnchanged
INVARIANT PublishedIsItsCommit
INVARIANT AuditShowsOneVersion
INVARIANT AccountsKept
INVARIANT TableViewsSound
INVARIANT HostDataRemains
INVARIANT DeployedSiteRestores
CHECK_DEADLOCK FALSE
