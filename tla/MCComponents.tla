---------------------------- MODULE MCComponents ----------------------------
(* Small instances, for TLC, of the components that share no state: the     *)
(* first choice of a behaviour is the component it exercises, the others    *)
(* stay as they begin.                                                       *)
EXTENDS BackupCatalog, ImportFlow, Shipments, FieldConfig, Release, Accounts, TableViews,
        HostScripts, Deployment, Schedules

VARIABLE part

componentVars == <<vars, importVars, shipmentVars, configVars, releaseVars, accountVars, filterVars,
                   tableVars, hostVars, deployVars, importFileVars, scheduleVars, part>>

\* Two lines with the keys k1 and k2, or k1 and an error; k2 rounds to k1.
MCLinesOf == [f \in Files |-> 1 :> "k1" @@ 2 :> IF f = "f1" THEN "k2" ELSE NoKey]
MCStoredAs == [k \in Keys |-> "k1"]

\* The first field of field_config.yml has the place 0.
MCPosition == "d1" :> 0 @@ "d2" :> 1

\* Machines that make audit packages: one hour west of UTC, or in UTC.
MCZones == {-1, 0}

\* Two columns filtered by value and one by range; the list shows one value at most.
MCColumnValues == "cargo" :> {1, 2} @@ "grade" :> {3}

\* Releases, a pre-release with a number and one with words, and build metadata.
Identifier(numeric, value) == [numeric |-> numeric, value |-> value]
Numbers(major, pre) == [major |-> major, minor |-> 0, patch |-> 0, pre |-> pre]
MCSemver ==
    "1.0.0-9" :> Numbers(1, <<Identifier(TRUE, 9)>>)
    @@ "1.0.0-rc.2" :> Numbers(1, <<Identifier(FALSE, 1), Identifier(TRUE, 2)>>)
    @@ "1.0.0" :> Numbers(1, <<>>) @@ "1.0.0+b" :> Numbers(1, <<>>)
    @@ "2.0.0" :> Numbers(2, <<>>)
MCAppVersions == DOMAIN MCSemver
MCRank == "1.0.0-9" :> 1 @@ "1.0.0-rc.2" :> 2 @@ "1.0.0" :> 3 @@ "1.0.0+b" :> 3 @@ "2.0.0" :> 4
MCForeign ==
    {[label |-> v, schema |-> v] : v \in MCAppVersions} \cup {[label |-> NoVersion, schema |-> "1.0.0"]}

\* Sheets of three columns: two lines alike; a title, an empty row and faults; a
\* value that is a header word; a second column of amounts and short rows; too
\* many lines; no headers; nothing at all.
MCHeaders == <<"date", "cargo", "volume">>
Line(date, cargo, volume) == <<date, cargo, volume>>
MCSheets ==
    {<<MCHeaders, Line("v1", "v1", "v1"), Line("v2", "v1", "v1"), Line("v1", "v2", "v1")>>,
     <<<<"v1">>, MCHeaders, Line("v1", "long", "v1"), <<"blank", "blank">>,
       Line("malformed", "v1", "v1"), Line("v2", "v1", "zero")>>,
     <<MCHeaders, Line("v1", "v1", "v1"), Line("v2", "cargo", "v1"), Line("v2", "v1", "v2")>>,
     <<<<"volume", "cargo", "date", "amount">>, Line("v1", "v1", "v2") \o <<"v1">>, Line("v1", "v1", "v2")>>,
     <<MCHeaders>> \o [i \in 1..4 |-> Line("v1", "v1", "v1")],
     <<Line("v1", "v1", "v1")>>, <<>>}
MCHeaderWords == "date" :> "date" @@ "cargo" :> "cargo" @@ "volume" :> "volume" @@ "amount" :> "volume"

\* A schedule of one day, one of every day at another time, and one that is off.
MCScheduleForms ==
    {[enabled |-> TRUE, weekdays |-> {1}, time |-> 0], [enabled |-> TRUE, weekdays |-> {0, 1}, time |-> 1],
     [enabled |-> FALSE, weekdays |-> {}, time |-> 0]}

Except(own) ==
    /\ own # "catalogue" => UNCHANGED vars
    /\ own # "imports" => UNCHANGED importVars
    /\ own # "shipments" => UNCHANGED shipmentVars
    /\ own # "config" => UNCHANGED configVars
    /\ own # "release" => UNCHANGED releaseVars
    /\ own # "accounts" => UNCHANGED accountVars
    /\ own # "filters" => UNCHANGED filterVars
    /\ own # "tables" => UNCHANGED tableVars
    /\ own # "host" => UNCHANGED hostVars
    /\ own # "deployment" => UNCHANGED deployVars
    /\ own # "file" => UNCHANGED importFileVars
    /\ own # "schedules" => UNCHANGED scheduleVars
    /\ UNCHANGED part

ComponentsInit ==
    /\ part \in {"catalogue", "imports", "shipments", "config", "release", "accounts", "filters",
                "tables", "host", "deployment", "file", "schedules"}
    /\ Init /\ ImportsInit /\ ShipmentsInit /\ ConfigInit /\ ReleaseInit /\ AccountsInit
    /\ FiltersInit /\ TableInit /\ HostInit /\ DeployInit /\ ImportFileInit
    /\ SchedulesInit
    /\ part # "accounts" => inGroup = Accounts \ Superusers
    /\ part # "release" => outputs[0] = NoPackage
    /\ part # "filters" => \A f \in Columns : filters[f] = {}
    /\ part # "tables" => \A r \in TableRows : tableRows[r].key \in Comparable
    /\ part # "deployment" => schema = "1.0.0"
    /\ part # "file" => sheet = <<>>

\* Two editors interleave while no page is open, and one with an open page.
ConfigBound ==
    \/ \A p \in Pages : pages[p].pc = "closed"
    \/ \A e, f \in Editors : e # f => editors[e].pc = "free" \/ editors[f].pc = "free"

\* Ignored files, which no audit package looks at, come and go while none is made
\* and there is no content but the first one; and a release and an audit package
\* are made at the same time while there is one commit.
ReleaseBound ==
    /\ \/ edits = 0 /\ auditRun = NoAudit /\ auditFolder = NoPackage /\ auditZip = NoPackage
       \/ /\ ignored = 0 /\ release.strays \cup {release.found} \subseteq {0}
          /\ \A n \in OutputNames : outputs[n] # NoPackage => outputs[n].strays \cup {outputs[n].found} \subseteq {0}
    /\ release = NoRun \/ auditRun = NoAudit \/ Cardinality(commits) = 1

\* Selections and exports are exercised beside edits of the rows, or pages of duplicates
\* are.
TablesBound ==
    \/ ~partial /\ selection = {} /\ export = NoExport
    \/ \A c \in Cleaners : cleaners[c] = NoCleaner

\* Once an image ran disguised there is one backup at most.
DeploymentBound == disguised => Cardinality(siteBackups) <= 1

CatalogueSteps == part = "catalogue" /\ Next /\ Except("catalogue")
ImportSteps == part = "imports" /\ ImportsNext /\ Except("imports")
ShipmentSteps == part = "shipments" /\ ShipmentsNext /\ Except("shipments")
ConfigSteps == part = "config" /\ ConfigNext /\ ConfigBound' /\ Except("config")
ReleaseSteps == part = "release" /\ ReleaseNext /\ ReleaseBound' /\ Except("release")
AccountSteps == part = "accounts" /\ AccountsNext /\ Except("accounts")
FilterSteps == part = "filters" /\ ColumnFiltersNext /\ Except("filters")
TableSteps == part = "tables" /\ TableNext /\ TablesBound' /\ Except("tables")
HostSteps == part = "host" /\ HostNext /\ Except("host")
DeploymentSteps == part = "deployment" /\ DeployNext /\ DeploymentBound' /\ Except("deployment")
FileSteps == part = "file" /\ ImportFileNext /\ Except("file")
ScheduleSteps == part = "schedules" /\ SchedulesNext /\ Except("schedules")

ComponentsNext ==
    \/ CatalogueSteps \/ ImportSteps \/ ShipmentSteps \/ ConfigSteps \/ ReleaseSteps
    \/ AccountSteps \/ FilterSteps \/ TableSteps \/ HostSteps \/ DeploymentSteps \/ FileSteps \/ ScheduleSteps

ComponentsSpec == ComponentsInit /\ [][ComponentsNext]_componentVars

\* Types of the variables of the component that is exercised (the others stay as
\* they begin).
ComponentsTypeOK ==
    /\ part = "catalogue" => TypeOK
    /\ part = "imports" => ImportsTypeOK
    /\ part = "shipments" => ShipmentsTypeOK
    /\ part = "config" => FieldConfigTypeOK
    /\ part = "release" => ReleaseTypeOK
    /\ part = "accounts" => AccountsTypeOK
    /\ part = "filters" => ColumnFiltersTypeOK
    /\ part = "tables" => TablePagesTypeOK
    /\ part = "host" => HostTypeOK
    /\ part = "deployment" => DeploymentTypeOK
    /\ part = "file" => ImportFileTypeOK
    /\ part = "schedules" => SchedulesTypeOK
=============================================================================
