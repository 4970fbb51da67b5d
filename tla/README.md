# Coal shipment control: TLA+ models, model checking and proofs

The program is a Django monolith (MySQL in production, gunicorn with two
workers, one scheduler container) in which a coal trader registers car and rail
shipments, attaches documents, imports rows from Excel, and backs up and
restores database and uploads. This directory models what of it is concurrent,
can fail half-way, or depends on the order of things, checks the models with
TLC and proves the central results with TLAPS.

## 1. Inventory

| Component | State | Operations | What is hard |
|---|---|---|---|
| Operation queue (`app/core/system_ops/{queue,state,recovery,scheduler}.py`, `app/core/management/commands/`, `app/core/views.py`) | `BackupRun`, `RestoreRun` rows, `SystemState` singleton (mode, heartbeat), MySQL advisory lock | enqueue from UI or schedule, claim, run, recover, switch mode, commands | three kinds of process act on the same rows; crashes; two clocks that judge who is alive; a reloaded dump rewrites the queue itself |
| Backup schedules (`app/core/models.py`, `queue.py`, `views.py`) | `BackupSchedule`: days, time, `next_run_at` | compute the next run, start what is due, save the form | three writers of `next_run_at`, each from its own "now"; restores bring old ones back |
| Restore pipeline (`system_ops/restore.py`) | the database while it is reloaded, the uploads directory, staging and holder directories, heartbeat pause | verify, stage, load, reassert, migrate, swap, finalize | no transaction covers database and files; crash or error at every step; web requests meanwhile; what a killed restore leaves in the uploads is backed up and restored again |
| Backup contents (`system_ops/backup.py`, `_shared.py`) | dump, inventory, archive and manifest of one backup | dump, take the inventory, pack, compare references, publish; verify and merge in a restore | three points in time while uploads go on; two archives and a list of deletions must add up |
| Backup catalogue (`system_ops/{backup,retention}.py`) | manifests, dumps and archives on disk, the rows that name them | create full/incremental/pre-restore, list, delete, retention | incrementals depend on a baseline that deletion and retention may remove; rows and files disagree after a restore |
| Documents (`app/documents`) | `ShipmentDocument` rows, files under MEDIA_ROOT | upload, replace, delete, serve, cleanup | file system and database have no common transaction; two requests on one document |
| Shipments (`app/core/shipment_views.py`, `app/shipments_auto`, `app/shipments_rail`, `app/shipments_common`) | shipment rows with `updated_at`, soft deletion, audit log | create, update with optimistic lock, delete, restore | a token read in one request and checked in another, and given anew when a form is shown again |
| Catalogues (`app/catalogs`) | `CatalogValue`, the strings in shipments that refer to them | add, rename with propagation, toggle, delete | rename races with a shipment edit that holds the old name and a token that stays valid |
| Imports (`app/imports`, `static/js/import_preview.js`) | session jobs, temporary files, `ImportLog`, `ImportRowResult`; the preview in the browser | parse, preview, select, confirm, cleanup | double submission, a session written back whole, at most five jobs, partial failure of a batch; rows are known by number from sheet to shipment |
| Field configuration (`app/core/field_config.py`, `field_settings_validation.py`, `forms.py`, seed commands) | `FieldSettings` rows, a cache entry per entity with a TTL of 300 s | get, save, switch a catalogue, seed, invalidate; forms built when shown and again when sent | a read that races with an invalidation caches the old rows; a restore does not invalidate; a hidden field is not sent |
| Accounts (`app/accounts`) | users, groups, passwords | edit, activate, deactivate, set a password | a form that writes the whole row beside views that write one field |
| Column filters (`core/table_filters.py`, `static/js/column_filters.js`) | the popup of a column, the address of the page | open, search, check, apply, remove | answers in any order, a list that is cut off |
| Exports and duplicates (`core/exporting.py`, `core/views.py`, `shipment_views.py`) | rows checked in the browser, a file under way, clusters on a page | check, export all or selected, find and delete duplicates | rows change between the page, the request and the file |
| Version preflight and deploy check (`version_preflight.py`, `core/deploy_security.py`, `config/settings`, `deploy/entrypoint.sh`) | the image that runs, its settings module, its identity, the schema of the database | start, migrate, back up, restore | identity is checked in two places, at a start only under one settings module, versions are compared by a parser of its own, migrations are not reverted |
| Deploy scripts (`deploy/backup.sh`, `deploy/restore.sh`) | backup directory of the host, uploads directory, database | dump, pack, prune; check, load, extract, exchange | a kill between any two commands, process identifiers used again |
| Release tooling (`release/`) | working tree, release outputs, audit package | build and publish a release, collect an audit package | a developer who edits, commits and checks out meanwhile; files that git ignores; times of commits that do not follow the moves of HEAD; file times in local zones |
| Dashboard, audit pages, readiness, log pages, templates, demo data | none of their own | read and render | see section 8 |

How they interact. Web handlers never execute a backup or a restore: they insert
a row. The `run_scheduler` process holds the MySQL lock
`coal_shipments_scheduler`, ticks every few seconds, writes its heartbeat into
`SystemState`, turns due schedules into rows, claims one row and executes it in
the same thread while a helper thread keeps the heartbeat fresh. A restore first
runs a nested pre-restore backup, then pipes the dump into `mysql`, which drops
every table: rows, mode, heartbeat and sessions become those of the dump, and
the restore writes its own rows back. `MaintenanceModeMiddleware` reads the mode
on each request. Retention and the cleanup of deleted documents run inside the
scheduler's tick. The commands `create_backup`, `restore_backup` and
`set_maintenance` act on the same rows from outside the scheduler.

What makes each component correct:

- queue: one operation at a time; what ended stays ended; recovery touches only
  what is dead; requests are answered; restore mode ends and is not left early;
- restore pipeline: afterwards database and uploads are both the old ones or both
  the new ones, or the failure is visible; uploads are never lost;
- contents: what nobody touched is in the backup, and what is missing is reported;
- catalogue: every incremental has its baseline; an active restore keeps its
  files; the newest backup of each kind survives;
- documents: an undeleted row has its file, files of lost rows do not pile up;
- schedules: each slot of an enabled schedule is run, once;
- shipments and catalogues: a save replaces what its author saw, the audit log
  tells the history without gaps, a rename leaves no old name behind;
- imports: what was shown and checked is inserted, once per confirmed file, and
  the journal says what was inserted;
- field configuration: a stale cache has a known cause, and a form that is sent
  as it came loses no value;
- accounts: somebody keeps the right to change users, a replaced password comes
  back at most where an edit had read the row before;
- filters, exports and duplicates: what is applied, exported and deleted is what
  the page showed;
- preflight and deploy check: the schema of a site that was let start is not newer
  than its code, and the site accepts its own backups;
- deploy scripts: a whole backup and whole uploads remain somewhere;
- release tooling: what is published is the commit it names and the ignored files
  that were there when the tree was found clean.

## 2. Plan

In order of importance.

| | Modules | State |
|---|---|---|
| 1 | `OperationQueue`, `MCOperationQueue`, `OperationQueueProofs`: queue, scheduler, recovery, commands and mode, with crashes, lock loss and reloaded dumps; `OperationOwners`, `MCOperationOwners`: who executes which operation | written |
| 2 | `Documents` (rows and files under concurrent requests), and `BackupContents`, which extends it with backups and restores; `MCBackupContents`, `BackupContentsProofs` | written |
| 3 | `BackupCatalog`, `BackupCatalogProofs`: which backups exist, deletion, retention, restores that forget | written |
| 4 | `RestorePipeline`, `MCRestorePipeline`, `RestorePipelineProofs`: load and exchange of the uploads with rollback and kills; `RestoreOutcome`: what a restore promises, which the pipeline implements | written |
| 5 | `Shipments`, `MCShipments`, `ShipmentsProofs`: optimistic lock, soft deletion, audit, rename of catalogue values with and without propagation | written |
| 6 | `Imports`, `ImportsProofs`: sessions as whole dictionaries, jobs, temporary files, double clicks, a failing batch; `ImportFile`: one file from sheet to shipments; `ImportFlow`: both together | written |
| 7 | `FieldConfig`, `Accounts` and `Schedules` with `UpkeepProofs` | written |
| 8 | `HostScripts`, `Release` and `Deployment`, whose theorems are in `UpkeepProofs` too; `ColumnFilters` and `TablePages`, together `TableViews`, with those in `ShipmentsProofs` | written |
| 9 | `MCComponents`, `ComponentsProofs`: one run over the components of 3 and 5 to 8, which share no state | written |

Every property that a passing run checks is stated by a theorem, but for the two
liveness properties. What could be stated next: that files and rows agree in
`Documents` after a bounded number of failures, and a refinement of
`OperationQueue` by a queue with one worker and no heartbeat, under `NoOverlap`.

## 3. Module by module

### OperationQueue

| In the module | In the code |
|---|---|
| `rows[i]` | a `BackupRun` or `RestoreRun` row: kind, status, age of `started_at`, backup a restore loads |
| `mode`, `fresh` | `SystemState.mode`; `_scheduler_heartbeat_is_fresh` |
| `due` | `_schedule_due` of some enabled `BackupSchedule` |
| `db` | tables are there, being replaced by `mysql`, or left half-loaded |
| `onDisk`, `image`, `named` | manifests in the backup directory, what their dumps contain, and how many were ever written |
| `lock` | `GET_LOCK('coal_shipments_scheduler')` |
| `pc`, `task` | where a scheduler or command process is, local variables of the operation |
| `pending` | a `system_maintenance` request between its check and its write |
| `NextId` | the key that AUTO_INCREMENT gives to a new row of one of the two tables |
| `StartBackup`, `StartRestore`, `RecoverRestore` | the views, each one transaction under the lock of the singleton (`SomethingToRecover`: the early return of `recover_restore`) |
| `RequestMode`, `ApplyMode` | `system_maintenance`, two steps since it takes no lock (`Admitted`: what `MaintenanceModeMiddleware` lets through) |
| `SchedulerStart` ... `ClaimNothing` | `run_scheduler`, `run_scheduler_tick`, `claim_scheduler_operation` |
| `BackupBegin` ... `BackupFail` | `create_backup`, by itself or nested in a restore |
| `RestoreBegin` ... `LeaveRestoreMode` | `restore_backup`, one step per statement that other processes can observe |
| `Crash`, `Raise`, `LoseLock`, `HeartbeatExpires`, `RowAges` | faults and clocks |

Abstractions. Time is three events (heartbeat too old, `started_at` too old,
schedule due). A full and an incremental backup behave alike here. The two tables
have disjoint keys, and `BackupIds` and `RestoreIds` bound how many rows each has
at a time. A new row gets the key after the largest its table has, and a reloaded
dump brings that back with the rows: a key is given out again while a worker still
has it in memory. Files in the backup directory are known by their names, which are
numbered (`Names`, bound `MaxBackups`). `PageModes` and `CommandModes` are what
somebody may choose on the page and with `set_maintenance`.
The failure of a statement inside a `try` is free (`BackupFail`, `RestoreFail`);
one outside of it, or in an `except` clause, is counted (`Raise`,
`MaxDbErrors`). A row does not become stale while its worker is at one of
`PromptSteps`: those are a few statements, and the age is 15 minutes.

`OperationOwners` asks who has which operation in memory (`Held`: the one it executes
and the pre-restore backup of that one), with commands, crashes and a lock that may be
lost. It adds one history variable, `overtaken`, with what a restore does to the
operations of workers (`OvertakenNow`): the reloaded dump has no row with that key, so
that it is given out again, or has one that is queued; the row of another restore that
has not yet created its pre-restore backup (`ExposedSteps`) is replaced by the dump,
or ended by `FinalizeSuccess`, so that nothing keeps others from the queue when that
backup is inserted; and that backup. A key is in `overtaken` as long as somebody holds
it. All other steps are those of `OperationQueue`.

### Documents and BackupContents

| In the module | In the code |
|---|---|
| `docs[d]` | a `ShipmentDocument` row: stored name, deleted and since when, purged |
| `media[f]` | the file under MEDIA_ROOT: absent, being written, whole |
| `named` | names `uuid4` has returned: they do not come back |
| `requests[r]` | a worker in `DocumentUploadView.post` or `DocumentEditView.post`: the row as read, the old and the new name |
| `UploadBegin`, `EditBegin`, `FileWritten`, `UploadCommit`, `EditCommit`, `UnlinkOld` | write the file in place, save the row, after the commit unlink what was replaced |
| `WriteFails`, `CommitFails`, `UnlinkOldFails`, `Kill` | the `except` clause around them, and a worker that stops |
| `Delete`, `Expire`, `Cleanup` | the delete view, 30 days, `_cleanup_deleted_document_files` |
| `backups[b]` | dump, inventory (`content`, `stamp`), archive, deleted files and reported references of one backup |
| `BackupDump`, `InventoryBegin`, `InventoryFile`, `ArchiveBegin`, `ArchiveFile`, `BackupPublish`, `BackupFails` | `create_backup`: dump, `_uploads_inventory` file by file, `_create_uploads_archive` file by file, `_backup_reference_consistency` and manifest |
| `Restore`, `RestoreRefused` | pre-restore backup, `_extract_uploads_to_staging`, `_verify_uploads_contents`, load and exchange |

A document that is edited keeps its row and gets a new file; the whole row is
written back, so that an edit revives a document deleted meanwhile. This is in
the model (`EditCommit`) and the properties hold with it. A restore is one
atomic step here, when nothing else goes on; its steps are `RestorePipeline`.

### BackupCatalog

| In the module | In the code |
|---|---|
| `backups[b]` | the manifest: type, baseline, age, and which backups the dumped database knew |
| `disk[b]` | manifest, dump and archive that exist |
| `known` | successful `BackupRun` rows of the database |
| `job` | `create_backup`; `BackupOrphaned` is a kill between manifest and row |
| `DeletePreview`, `DeleteUnlink`, `DeleteInterrupted` | `get_backup_delete_preview` and `delete_backup_by_key` |
| `RetentionRead`, `RetentionUnlink`, `RetentionSkips`, `RetentionKilled` | `_apply_retention`: what it decides to delete, then one unlink after the other, `except OSError: continue` |
| `RestoreChoose`, `RestoreEnqueue` | `start_restore` looks entries up before it takes the lock |
| `RestorePrepare`, `RestoreLoad`, `RestoreFinish`, `RestoreKilled` | `restore_backup`, as far as rows and manifests are concerned |

`RestoreLoad` makes the database forget what it did not know when the loaded
backup began, that backup included; the manifests on disk remain. That is why
deletion and retention look at both.

### RestorePipeline

| In the module | In the code |
|---|---|
| `files` | entries below MEDIA_ROOT, each the files of one version in one directory |
| `db` | the version of the documents the database refers to, or no tables |
| `restore` | local variables of `restore_backup` and `_swap_staging_to_media` (`todo`, `stashed`, `placed`; `left` is history) |
| `RestoreBegin`, `DropTables`, `LoadDump` | pre-restore backup and extraction; preamble and dump given to `mysql` |
| `SwapBegin`, `Stash`, `PlaceBegin`, `Place`, `SwapEnds` | `_restore_old_holder_path`, the two loops, `rmtree` of the holder |
| `RestoreSucceeds`, `FinishFails` | the statements after the swap: rows, audit log and mode are written, or one of them fails and the `except` branch records an error |
| `SwapFails`, `RollbackRemove`, `RollbackReturn`, `RollbackFails`, `RollbackEnds` | the `except` clause of the swap and its `finally` |
| `Destination`, `CanMove`, `Moved` | `shutil.move`, which moves *into* a directory that exists |
| `Discarded` | `shutil.rmtree(..., ignore_errors=True)`: it may leave any of the entries and says nothing |
| `Killed`, `LateUpload` | SIGKILL at any step; a request that maintenance mode did not stop |

`before` and `last` are history variables for the properties. `last.result` tells
more than the page does. A restore whose swap was done ends in `success`, `denied`
(an error is recorded although the site is the backup's) or `unsaid` (killed there);
together they are `Exchanged`. One whose swap was not done ends in `failed` (everything
was taken back, or nothing had been moved), `littered` (the rollback could not remove
a directory it had placed, and the old one was moved into it), `stranded` (the
rollback raised: old uploads stay in the holder) or `killed`; together `Unfinished`.

`RestoreOutcome` is what a restore promises to the person who starts it, in six
actions: use the site, make a backup of it, begin, and then one step that succeeds
(the site is that of the backup, whether or not the run says so), fails (the uploads
are as before) or breaks (neither, or only in part). The run tells only the recorded
success from the rest: an error row does not say which of the others it was.
`RestorePipeline` implements it: `Outcome == INSTANCE RestoreOutcome WITH ...` maps
`site`, what users see, to database and live uploads while nothing runs and to the
pre-restore backup while a restore does, `saved` to the backups, `selected` to the
backup that is restored, `outcome` to `last.result` and `disturbed` to late requests.
The steps between the first and the last of a restore are stutters.

### Shipments

| In the module | In the code |
|---|---|
| `shipments[s]` | a row: absent, live or deleted; one catalogue name; `updated_at` as a counter |
| `catalogue[v]` | a `CatalogValue` row |
| `tabs[t]` | a page in a browser and the request it sends: token, values read and to be written |
| `admins[a]` | a request that changes the catalogue |
| `audit[s]` | the newest `AuditLog` entry of the shipment that tells its name |
| `CreateShipment`, `AuditCreation` | `ShipmentCreateMixin.form_valid`, two statements |
| `OpenForm`, `PostInvalid`, `PostConflict`, `PostValid`, `UpdateCommit`, `UpdateMisses` | `ShipmentUpdateMixin`: form, comparison of the token, conditional UPDATE with its audit entry |
| `DeleteRead`, `DeleteCommit`, `RestoreRead`, `RestoreCommit` | the delete and restore views, each with an audit entry in its transaction that has the row as it was read |
| `ReadValue`, `RenameCommit`, `RenameFails`, `ToggleCommit`, `AddValue`, `DeleteValue` | `catalogs/views.py` |
| `RequestKilled` | a worker that dies before its commit |

`saves`, `behind`, `renamedAway` and `reintroduced` are history variables.
Car and rail shipments share the views. A rename leaves `updated_at` alone, so
that a form opened before it still saves, with the old name (`reintroduced`).

### Imports and ImportFile

| In the module | In the code |
|---|---|
| `session`, `importing[r].jobs` | the saved session; the copy of a request, which is written back whole |
| `tmp[f]` | the temporary file of an upload |
| `journal[c]` | `ImportLog` with its `ImportRowResult` rows |
| `imported` | shipments that imports inserted |
| `UploadBegin`, `UploadStore`, `UploadFails`, `Respond` | the upload view, and the middleware that saves the session |
| `ConfirmBegin` ... `ConfirmTake` | the preview page: job, file, token taken out and session saved at once |
| `ConfirmLog`, `ConfirmBatch`, `ConfirmBatchFails`, `ConfirmMarkError`, `ConfirmMarkResults`, `ConfirmClose` | log row, batch in one transaction, what is written when it fails, one statement at a time |
| `TmpAges`, `CleanupTmp`, `ImportKilled`, `DeleteImported` | cleanup by age, killed workers, users who delete rows |

`ImportFile` follows one file: `HeaderCells`, `ColumnMap`, `DataRows`,
`RowErrors` and `FoundDuplicates` are the parser, `OpenPreview`, `TurnPage`,
`CheckRow` and `SelectAllRows` the preview in the browser, `StatusOf` and
`Confirm` what becomes of each line; `OtherUser` adds and deletes shipments
between the steps. A cell is a word of a header, a usable value, or a kind of
unusable one. Rows are known by their number in the sheet; a page of the preview
is the set of rows whose rank among those of its kind it covers. `ImportFlow` is
both modules at once: they share no variable, since requests may have any lines.

### FieldConfig, Schedules, Accounts

`FieldConfig`: `settings` are the `FieldSettings` rows of an entity, `cache` its
cache entry, `savedRows` the rows in a backup. `SettingsRead`, `SettingsCommit` and
`Invalidate` are the settings page, `SwitchRead` and `SwitchCommit` the switch of a
catalogue, `Expire` the TTL. `Restart` and `RestoreRows` write rows without an
invalidation: both run `seed_field_config` (`SeededRows`), which takes the place 0 for
an unset one and gives the field its place in the yml file; a restore first brings back
the rows of the backup (`BackupRows`) with the places they had. `Ask` and `Fill` are a
reader, between whose read and write an invalidation may fall.
A page (`OpenPage` ... `CheckPage`) is a form built when it is shown and again
when it is sent, with settings that may differ; `steady` is history: each time
the page asked it was served the rows of the database, and these have not changed.

`Schedules`: `schedules[k]` are the two `BackupSchedule` rows, `scheduleTick`
the "now" of a tick, `scheduleForm` that of a form being saved. `TickClaims` is
`_claim_due_schedule`, `NextRun` is `calculate_next_run`, `DumpSchedules` and
`ReloadSchedules` are a backup and its restore. `runsOf` and the fields `since`
and `covered` of a schedule are history.

`Accounts`: `FormBegins` is `dispatch` with its checks and the read of the row;
`FieldSaved` the buttons and the password page, which save one field; `RowSaved`
and `GroupsSet` the edit form, which saves the whole row as read and then the
groups. History: `replaced` and `undone` (passwords that were replaced, and accounts
whose replaced password an edit has put back, until they get another one), and `lockout`,
how the last save may have taken the right to change users from the last who had it.

### ColumnFilters, TablePages

`ColumnFilters`: `popup` and `timer` are the variables of the script,
`requests` the answers under way, `filters` the address of the page and
`applied` what it is loaded with next. `Answered` is the callback of `fetch`,
which does not ask whose answer it got; `NoFilterNeeded` is the choice between
"everything is checked" and a list of values.

`TablePages`: `selection` and `partial` are in `localStorage`, which tabs share;
`ExportSelected`, `ExportAll` and `WriteXlsx` are the requests of an export and the
file; `Clusters`, `SearchDuplicates`, `ShowDuplicates` and `DeleteDuplicate` the page
of duplicates: the first query finds the clusters, the second keeps of each the rows
that still exist, and one may be left. `EditRow`, `DeleteRow` and `RestoreRow` are
other users. `TableViews` is both modules at once: the filter of an address is an
input of `TablePages`.

### Deployment, HostScripts, Release

`Deployment` is the life of a site: `StartContainer` is `entrypoint.sh`, which
runs the deploy check (`DeploySecure`) and the migrations. What the check asks depends
on `DJANGO_SETTINGS_MODULE` (`Modules`; unset, `manage.py` takes the one for
development): the identity of the build only where its name ends in `.prod`
(`IdentityValid`), and 127.0.0.1 in `ALLOWED_HOSTS` under each of them, where the
modules for development and tests have `["*"]`, which does not contain it
(`LocalhostAllowed`). So these two stop the container. What starts without an identity
is prod.py under a name of the site's own; when the image then runs with another
identity than its release's, the history variable `disguised` is set. `MakeBackup`
labels a backup with the version, `Decision` and `OlderVersion` are the preflight of a
restore with its own order of versions. `Rank` gives the order of SemVer 2.0, an
assumption of the instance, to compare with (`SemverAssumption`, the rules of
SemVer on the identifiers of a version); of backups of other sites it is assumed
that those sites were not rolled back (`ForeignAssumption`).

`HostScripts` has one action per command of `backup.sh` and `restore.sh` that
changes a file or the database; each may fail or be killed (`BackupShEnds`,
`RestoreShEnds`). `Release` has one action per stage of `release.py` and
`audit_package.py`, beside a developer. Contents of the tree are numbers; `Dirty` is
what `git status` tells, and it tells nothing of files that git ignores (`ignored`),
although some of them are packaged where they lie: `Litter` lets them come and go. A
commit is a content and a time: `Commit` makes one, `CommitElsewhere` fetches
another, with any time up to now, and `Checkout` moves HEAD to any of them, forward or
back. The audit package asks for times only.

## 4. Runs

| Run | Instance | Shows |
|---|---|---|
| `queue` | 2 schedulers, 3 rows, 1 crash, 1 MySQL error | types; one active operation; ended is ended; recovery spares the living |
| `queue_live` | 1 scheduler, 3 rows, 1 crash, lock may be lost, fairness | requests leave the queue, restore mode ends |
| `queue_commands` | `MCOperationOwners`: 2 schedulers that lose their lock, 3 rows; 1 scheduler and a command whose restore was recovered as abandoned, 5 rows | no operation has two executors, and no two restores one backup, although schedulers and commands overlap, unless a restore has overtaken it |
| `reset` (violated) | 1 scheduler, 1 row, 1 crash, fairness | an interrupted row that can never be reset |
| `mode` (violated) | 1 scheduler, 3 rows | restore mode left by a maintenance request |
| `contents` | 1 document, 2 files, 2 requests, 3 backups, 1 restore, 1 failing unlink | files of visible documents stay; untouched documents are covered; quiet backups can be put back |
| `references` (violated) | 1 document, 2 files, 1 request, 1 backup | a reference to a missing file that the manifest does not report |
| `archive` (violated) | the same | an archive whose digest is not that of the manifest |
| `pipeline` | 2 directories, 1 change, 3 restores, 1 other backup, 1 kill, 2 errors of which 1 may be a late request | a swap that was done is complete, a failure leaves the uploads, the old files are somewhere, the pipeline implements `RestoreOutcome` |
| `blocked` (violated) | 1 directory, 4 restores, 1 kill | a restore that fails because of what a killed one left |
| `components` | twelve parts, see below | the properties of the components that share no state |
| `lost_update` (violated) | 1 shipment, 2 pages | a form shown again after an error gets the token of another user's save |

The run `components`. Twelve components share no state with each other or with
the queue, as far as their properties go. `MCComponents` exercises one of them
in each behaviour: `part` is chosen in the initial state, and the variables of
the others stay as they begin. The states are therefore those of twelve runs
side by side, about 2.9 million together:

| Part | Instance | States | Properties |
|---|---|---|---|
| catalogue | 3 backups, 1 interruption | 831 000 | `NewestKept`, `IncrementalsHaveBaseline`, `YoungKept` |
| shipments | 1 shipment, 2 names, 2 pages, 1 catalogue value, 4 saves, 2 changes of the catalogue, 1 kill | 807 000 | `OverwritesOnlyAfterInvalidForm`, `AuditTellsTheHistory`, `NoNameLeftBehind` |
| schedules | weeks of 2 days with 2 times, 3 days, 1 save, 1 restore | 238 000 | `ScheduledOnce` |
| imports | 2 uploads of 2 lines, 2 confirmations, 1 job per session, 1 fault | 123 000 | `ImportsSound`, `JournalMatchesShipments` |
| release | 1 edit or commit made elsewhere, ignored files, 2 hours, 2 zones | 364 000 | `PublishedIsItsCommit`, `AuditShowsOneVersion` |
| filters | 2 columns of values, 1 of ranges, 2 requests in flight | 75 000 | `TableViewsSound` |
| config | 2 fields, 2 editors, 1 page, 1 backup at a time, 2 changes | 228 000 | `SettingsExplained`, `NothingLostUnchanged` |
| tables | 3 rows, 2 pages of duplicates | 113 000 | `TableViewsSound` |
| host | 2 days, 2 process identifiers | 40 000 | `HostDataRemains` |
| accounts | 2 users, 1 superuser, 2 requests | 19 000 | `AccountsKept` |
| deployment | 5 versions, 5 settings modules, 2 backups | 23 000 | `DeployedSiteRestores` |
| file | 7 sheets of up to 5 rows, 2 changes of other users | 300 | `ImportsSound` |

Bounds of the components. Two pages, requests or tabs are what each of these
races needs: one that reads, one that writes in between. Four saves let a
shipment be created, deleted, restored and then saved from a form that was
opened before. `MaxJobs = 1` makes the second upload evict the first. The two
keys of an import round to the same stored amount, which is the case that the
search for duplicates misses. A week of two days has a slot on the same day, the
next day and the same day of the next week; three days see a week end. (One day
is not a week: migration 0009 gives the full backup the last day and the
incremental one the others.) One line
per page or value per list (`Limit`, `FullExportMax`, `PartialExportMax`,
`PreviewPageSize`) puts every limit within reach of two or three rows. Of
`FieldConfig`, two editors interleave while no page is open, and one editor with
an open page (`ConfigBound`): both together multiply without a new pair of
actors that share anything but the rows. For the same reason ignored files come and go
while no audit package is made, which does not look at them, and a release and an audit
package run at the same time only while there is one commit (`ReleaseBound`);
selections and exports are exercised beside edits, or two pages of duplicates are
(`TablesBound`); and a site that ran disguised makes one backup (`DeploymentBound`).
These bounds constrain the instances only: the theorems are about the modules
without them. Three rows give a page of duplicates a cluster of two beside a row that
becomes a copy later.

Bounds of the queue. Three rows are what a restore needs (the backup it loads, itself,
its pre-restore backup), with every smaller history on the way; a reloaded dump frees
rows, so histories are longer than three operations. Two schedulers are the most that
the lock is about. One crash at every point followed by a restart covers each
recovery, and one MySQL error each `except` clause: 3.5 million states, with three
backups. `queue_live` loses the lock as well, but with one scheduler (0.3 million
states), where no other can take it. `queue_commands` has the causes of overlap, 1.7
million states: a lock that is lost, with three rows, and two restores at a time, with
the five rows these need. The second begins in the middle of a history, when a command
has made the pre-restore backup of a restore whose row has been recovered: that state
is reachable, but a run from an empty queue with so many rows is too large. Keys are
given out again in both: the dump of a first backup has fewer rows than the table it
replaces. More rows were explored when the theorems were prepared: they showed what
section "Conditions in the properties" says of a lost lock, which needs four or five
rows, more than a regular run affords.

Bounds of the contents. Three backups are a full one, an incremental one over it
and the pre-restore backup of the restore between or after them. A second file
lets a document be replaced while a backup runs; two edits that overlap need a
third, which was run once with two backups (8.0 million states) with the same
result, and `FilesAreKept` is proved for any number.

Bounds of the catalogue. Three backups are a baseline, its dependent and a newer
baseline or pre-restore backup; four without interruptions were run once (7.5
million states). One interruption is one in the page, in the retention or in a
restore; two were checked as well (with the same result), and the theorems
hold for any number of both.

Bounds of the pipeline. Three restores are one that is killed, one that backs up
the leftovers and one that restores that backup (0.8 million states); a fourth
is needed for `blocked` alone. Two directories give the swap a first and a
second move. Errors (a move, an `rmtree` that silently leaves something, a statement
after the swap) and late requests share a bound of two: one that makes the swap fail and
one that disturbs the rollback.

`CHECK_DEADLOCK FALSE` is set in every configuration since the system may really
stop: nothing is requested, or the bounds are used up.

Reading a violated run: TLC prints a behaviour of the program that contradicts a
sentence of the program's own pages, docstrings, comments or tests; see
`findings` in `PROJECT.json`.

### Conditions in the properties

Several properties hold but for a reason that the property names. Each reason is
a behaviour of the program that a reader should know of.

- `AtMostOneActive`, `FinishedStaysFinished` and `RecoverySparesLiveScheduler`
  are checked and proved for a lock that is kept. When MySQL drops the session of
  a scheduler that lives, a second one starts, and with enough rows both execute:
  with four rows the second takes a running operation of the first for dead, with
  five two operations are active. A scheduler asks whether it still has the lock
  between two ticks (`run_scheduler.py:100`), not during an operation.
- `RecoverySparesLiveScheduler`: but for a restore that failed while its heartbeat
  was paused, and one that has loaded its dump and not yet written its rows back: what
  is under their keys in that time are the rows of the dump, or younger ones.
- `OwnersDistinct`: but for operations that a restore has overtaken. A dump that has
  no row with the key of an operation somebody executes brings AUTO_INCREMENT back
  with it, so that the next operation gets that key; the pre-restore backup of the
  restore itself is such a row, and `_finalize_restore_run` (`restore.py:294-298`) then
  writes it over the newcomer. A dump that was taken of an operation still queued brings
  it back as queued, so that it is claimed while its first worker still has it. A
  restore that another one replaces or ends before it has created its pre-restore
  backup inserts that backup into a queue nothing guards, and another worker may
  claim it before the restore begins it. Two executors need two workers; but also
  where there is one, a request may be queued between load and write-back under such a
  key, and is then written over.
- `IncrementalsHaveBaseline` speaks of histories without interruptions: after a
  kill or a failed unlink an incremental may stay behind without its baseline
  (`backup.py:238` unlinks the baseline first), and a restore of it is refused.
- `FailureLeavesUploads` speaks of failures after which everything was taken back.
  When `rmtree` leaves, without raising, a directory that was placed
  (`restore.py:255-262`), the old one is moved into it: its files are then below their
  own name, one level deeper, and nothing on the page says so (`littered`).
  `OldUploadsExist` still holds, as it asks for the file below a directory of its name.
- `SuccessIsComplete` is about every restore whose swap was done. One of the statements
  after it may fail (`restore.py:511-518`): the run then says error, although database
  and uploads are those of the backup.
- `OldUploadsExist` and `FailureLeavesUploads` speak of backups without
  leftovers of a killed restore (`Clean`). Without that condition TLC finds a
  history in which the old uploads are gone from MEDIA_ROOT: the backup has a
  `.restore_old.1` of its own, which the swap moves *into* the holder of the
  same name, two moves fail, and the rollback removes the holder as something it
  had placed. The pre-restore backup still has the files. `RestoreOutcome` has
  the same condition in `Fail`.
- `OverwritesOnlyAfterInvalidForm`: a form shown again for an invalid field gets
  the present token; that alone is the run `lost_update`.
- `AuditTellsTheHistory`: a rename rewrites names without an entry; the
  entry of a creation may come after that of another user's update
  (`shipment_views.py:254-260`); and the entry of a deletion or a restoration has the
  row as it was read before the transaction (`shipment_views.py:462-474`), so that
  neither it nor the entry after it need join up when somebody saved in between.
- `ImportedOnce`: an amount with more decimals than its column is compared with
  what MariaDB rounded, so that its duplicate is not found; a confirmation that
  is killed may be repeated where a third request of the same session wrote the
  token back.
- `FileImportedAsShown`: a row among the first three with a header word as a
  value is taken for the headers, and the lines above it are lost
  (`excel_parser.py:89-95`). Two equal lines of one file are both inserted. A
  line that was shown without a box, because its duplicate existed then, is
  reported as "снята пользователем" (`imports/views.py:480-494`).
- `SettingsExplained`: a read that races with an invalidation leaves old rows in
  the cache for up to 300 s, and so do a killed editor and a restore. Two fields share
  a place after the switch of a catalogue wrote an old one back, after seeding took
  the place 0 for an unset one (at a start or in a restore, `seed_field_config.py:54-56`),
  and after a restore of a backup in which they did.
- `NothingLostUnchanged` excepts pages whose settings changed since their request asked
  for them, and pages that were served a stale cache, when they were asked for or when
  they were sent: then the form that is built differs from the one that was shown
  although nobody changed anything meanwhile.
- `ScheduledOnce`: the form drops a run that is due and not yet started; a save
  overtaken by the slot it computed, and a restore, which brings the old
  `next_run_at` back, run a slot twice.
- `AccountsKept`: the edit form writes the row as it was read
  (`accounts/forms.py:121-125`), and so brings an old password back, which is valid
  until the next one is set. Nobody of the group may be left with the right to change
  users when the last save was that of a superuser, of somebody who edited himself (the
  button checks for it, the form does not), or of one who had lost the right since his
  request began.
- `FiltersAreAsked`: a late answer replaces the list of another column or search
  (`column_filters.js:156-168`, `177-189`, `326-332`), and Apply after a failed
  request drops the filter. The property is about lists that answer the popup.
- `TablePagesSound`: a row of the page that changed since the first of the two queries
  of its search (`core/views.py:101`, `124`). The page compares nothing again, so that
  two users can delete both copies; and a row that is deleted between the queries leaves
  the other one alone in its cluster, with a button that deletes the only copy.
- `DeployedSiteRestores`: after an older image was started over a newer database
  the schema stays newer, as migrations are never reverted; and an image that ran
  disguised, under a settings module of the site's own whose name does not end in
  `.prod`, may make backups that it refuses, or whose label says less than their
  schema.
- `HostDataRemains`: a restore with the process identifier of one that was
  killed removes what that one had moved aside (`restore.sh:123`).
- `PublishedIsItsCommit`: the tree is compared with the commit once
  (`release.py:342`), so that an edit during the run is published. `git status` says
  nothing of ignored files (`evidence.py:61-71`), and those that lie under the packaged
  directories are published as they were found: the property says that no others are.
- `AuditShowsOneVersion`: times are compared, never the commit
  (`audit_package.py:177-240`). A checkout or a pull that moves HEAD to a commit not newer
  than the output puts another source beside it; so does a newer commit west of UTC,
  since a time in UTC is read as local time (`audit_package.py:162-174`). Ignored files
  are left out of the comparison.

## 5. Fairness

`Fairness` gives weak fairness to the start and the loop of each scheduler (docker
restarts the container, the loop catches every exception), to the steps of an
operation (each statement returns or raises: `subprocess` and file copies end), and to
the clocks. Web requests, crashes, lost locks and schedules are never assumed to
happen. `FairSpecWithLostLocks`, of the run `queue_live`, adds that MySQL does not
drop the session of the lock for ever (`LockKeptAtLast`): each time a scheduler finds
its lock gone it ends and is started again, so that one that loses it whenever it has
it never claims anything. `RestoreModeEnds` holds for crashes but not for a MySQL
error inside the failure handler of a restore (`restore.py:521-533`): the mode then
stays until the next restart, hence `MaxDbErrors = 0` in that run.
`FairSpecWithAdministrator` adds strong fairness of the recovery button: a generous
administrator, so that the violation shown by `reset` is not due to somebody not
pressing it. The other modules assume no fairness: their properties are safety
properties.

## 6. Proofs

`OperationQueueProofs` proves for all values of the constants that satisfy
`ConstantsAssumption`:

- `Typing`: `Spec => []TypeOK`. Types alone are not inductive, since a step of
  an operation indexes `rows` by the operation of its worker: `TypeInv` adds
  `TaskOK`, that a worker at an operation step has one, and one with a source
  dump where it restores.
- `Exclusion`: `Spec => []AtMostOneActive`, and `OneScheduler`: `Spec =>
  []OnlyLockHolderUp`, where `Clis = {}` and `LockMayBeLost = FALSE`
  (`NoOverlap`). The commands really can overlap with the scheduler, so the
  first assumption is needed, and so is the second (section 4).
- `FinishedStays`: `Spec => FinishedStaysFinished`, and
  `RecoverySparesTheWorker`: `Spec => RecoverySparesLiveScheduler`, under the same
  assumptions.
- `OwnersAreDistinct`: `OwnersSpec => []OwnersDistinct`, with commands, lost locks,
  crashes and errors, and any number of workers.

The argument of `Exclusion`: only the holder of the advisory lock is up
(`OnlyLockHolderUp`), so at most one worker executes an operation. What it
claimed cannot be joined by another active row, since all who insert or start a
row first see that none is active. Loading a dump replaces the rows: so every
dump on disk must have been exclusive when it was taken (`ExclusiveImages`), and
so must the dump that a worker has made but not yet published
(`ExclusiveDumps`). Writing rows back re-inserts rows the dump may not have:
it keeps exclusion because they end (`success`, `error`), except for the
pre-restore row, which does not count, and because an operation at its first
step is the only one (`ClaimHolds`, `PreRestoreHolds`). `ExclusionInv`, the
conjunction, was checked by TLC before it was proved.

The argument of the other two is about what a worker may still believe of its row.
From the claim on the row is running and first young, then guarded by a fresh
heartbeat (`GuardHolds`), so that recovery does not find it. While a dump loads nobody
else can act, since `db` is not there. From there until it has written its rows back
nothing protects them, since their keys may be those of rows of the dump or of younger
ones: these are the steps `RecoverySparesLiveScheduler` excepts (`LoadedSteps`), and
`FinishedStays` needs no more than that what is written back has ended. Afterwards no
row of the restore is running, unless a failure wrote its pre-restore backup back as
running (`LoadedHolds`). That a dump does not bring a request back rests on who dumps:
the one that is running, while what is queued is always alone (`QueuedAloneIn`), so
that no dump has a queued operation in it (`DumpsNotQueued`). `FinishedInv`, the
conjunction with `ExclusionInv`, was checked by TLC first.

`OwnersAreDistinct` needs neither assumption, since it does not say that one
worker is active. A worker gets an operation by claiming a queued row or by
inserting one. What it inserts has a key no row has; and unless overtaken, what another
worker holds has a row (`Present`), for rows go with a reload only, which makes their
keys `overtaken`. What a worker has is not queued any more (`QueuedOnlyBefore`), but for
the pre-restore backup between its insertion and its first step. For that moment
the row of the restore counts: it is running and young, so that whoever would claim
the backup sees it (`Sheltered`, `ExposedRuns`). Recovery does not end it, because it
is young; a restore of another worker may, by its dump or at its end, and that is
what `overtaken` notes. What a restore writes back after its load is `running`,
`success` or `error` (`PreSettled`), never queued. `OwnersInv` was checked by TLC first.

`BackupContentsProofs` proves for every number of documents, files, requests,
backups and restores:

- `Typing`: `Spec => []TypeOK`;
- `FilesAreKept`: `Spec => FilesKeptBetweenRestores`;
- `DocumentsAreCovered`: `Spec => UntouchedDocumentsCovered`;
- `QuietBackupsComeBack`: `Spec => []QuietBackupsRestorable`.

The second says that no request takes away another's file. The invariant,
`FilesInv`, is about who may name a file: a stored name is in one row at most
(`RowsOK`), a request writes a file nobody else writes and replaces one nobody
writes (`OwnFiles`), the file it writes is in no row before it commits
(`WritersOK`) and whole when it does (`SavedWhole`), and what it unlinks after
the commit is in no row (`UnlinkersOK`). Restores bring old rows back, so the
rows in all dumps must be as good (`DumpsOK`); that a restore waits for quiet is
needed here. One lemma per action of `Documents` shows the step both keeps
`DocInv` and satisfies `KeepsFiles`.

The other two relate a half-made backup to what goes on around it. A file of the
dump was committed, so nobody writes it any more (`DumpSettled`); being whole it
is in the inventory or among the names the inventory will still look at
(`DumpCovered`), and what the inventory has as whole stays as it is or goes
(`ContentSettled`). The archive has what is new or changed since the baseline and
already packed (`Packed`), so that a whole file is whole in the archive or
unchanged since the baseline, which has it (`Held`); when no upload changed
meanwhile, archive and deletions add up exactly (`Packed`, `GoneListed`). A name is
given out before its file exists, and `uuid4` repeats none (`NamesGiven`): a name
that is gone cannot come back with other content between inventory and archive.
`ContentsInv`, the conjunction, was checked by TLC first.

`BackupCatalogProofs` proves for every number of backups and interruptions:

- `CatalogTypes`: `Spec => []TypeOK` (the catalogue's share of
  `ComponentsTypeOK`);
- `NewestIsKept`: `Spec => []NewestKept`;
- `YoungIsKept`: `Spec => []YoungKept`;
- `IncrementalsKeepBaseline`: `Spec => []IncrementalsHaveBaseline`.

Deletion and retention decide at one time and unlink at another. `NewestKept` is
kept because what they decided on was not the newest then (`TargetsOK`: a later
one of the same type exists, and backups are only added), and because every
backup that was made is in what both look at, as a row or as a manifest. For
that rows of a reloaded database must be of backups that were made
(`SnapshotsOK`), ids must be given in order (`InOrder`), and a backup in the
making must be alone (`JobOK`, `RestoreOK`). `YoungKept` needs that nothing ages
while something is to be unlinked, see the simplifications of the module.
`FilesInv` and `CatalogInv` were checked by TLC as invariants first.

`IncrementalsKeepBaseline` has an invariant of its own, `BaselineInv`. A new
incremental backup takes the latest baseline the database knows, which must be
the newest there is (`NewestKnown`): it is, but while a restore has put back an
older database, and then the newest is the pre-restore backup of that restore,
whose row it writes back before anybody else runs. A baseline is unlinked only
together with all that need it (`DependentsGo`): retention and deletion count them
by the rows and the manifests, and none is added between decision and unlink. The
invariant says nothing once something was interrupted, as the property.

`RestorePipelineProofs` proves for every number of changes, backups, restores,
kills, errors and late requests, and every set of upload directories whose names
are not those the restore uses itself (`Dirs \cap Internal = {}`):

- `PipelineTyping`: `Spec => []TypeOK`;
- `SuccessComplete`: `Spec => []SuccessIsComplete`;
- `FailureLeaves`: `Spec => []FailureLeavesUploads`;
- `OldUploadsRemain`: `Spec => []OldUploadsExist`;
- `RestoreRefines`: `Spec => ImplementsOutcome`, the refinement of
  `RestoreOutcome`.

The swap moves every old directory into the holder before it places a new one, and
notes each move after it is made. Throughout, the staging directory has exactly what
is not yet placed (`StagingOK`); while the uploads are moved and while a failure is
rolled back, each old file is at its place or in the holder under the same relative
path (`StashOK`, `FailureOK`, `OldOK`); what is noted as placed equals what the backup
has there (`SuccessOK`), also while the statements after the swap run, so that it does
not matter how they end. So a swap that is done leaves what the backup had, and a
rollback that removes all it had placed and fails nowhere leaves what was before;
where `rmtree` left a directory, the old one is one level below it, which `OldOK`
allows. A new staging directory meets none that a killed restore left, and no file
lies where a directory of a restore does (`TreesOK`, with lemmas on what a move does
to paths). For the refinement a step of the restore is a stutter of `RestoreOutcome`
but for for its beginning, a late request and its end, which is `Succeed`
(`Exchanged`), `Fail` (`failed`) or `Break` (`littered`, `stranded`, `killed`): while
a restore runs, the abstract site stands still as the pre-restore backup has it.
`PipelineInv` was checked by TLC first.

`ShipmentsProofs` proves for every number of shipments, users, catalogue values,
saves, renames and killed workers:

- `ShipmentsTyping`: `ShipmentsSpec => []ShipmentsTypeOK`;
- `NoUnseenOverwrite`: `ShipmentsSpec => []OverwritesOnlyAfterInvalidForm`;
- `NamesFollow`: `ShipmentsSpec => []NoNameLeftBehind`;
- `AuditIsComplete`: `ShipmentsSpec => AuditTellsTheHistory`.

The argument of `NoUnseenOverwrite` is that a token tells the last save
(`TokensTellSaves`): every save, deletion and restoration gives `updated_at` a value
later than every token in any page (`SaveOutdatesTokens`), and a page gets token and
row together. So a token that equals `updated_at` in the UPDATE is that of the last
save, which the page has seen. A deletion that left `updated_at` out of its
`update_fields` would break this (mutant `SavedWithoutTime`). `AuditIsComplete` needs
that the newest entry tells the name of the row, and that a request about to write one
has read that name (`EntriesTellNames`), but for shipments that are `behind`: a
rename, a creation logged late and a deletion or restoration that logs another name
than the row has put them there, until the next update. A deletion or restoration
whose row was saved since it was read marks its own entry. Steps of a page that writes
nothing are treated together (`PageStep`), and so are the steps that save (`IsSave`,
`SaveInv`). `ShipmentsInv`, the conjunction, was checked by TLC first.

`ImportsProofs` proves for every number of requests, files, lines and jobs per
session:

- `JournalCounts`: `ImportsSpec => []JournalMatchesShipments`;
- `NothingTwice`: `ImportsSpec => []ImportedOnce`, the half of `ImportsSound`
  that is about overlapping requests.

A session is a sequence of jobs which each request copies, changes and writes back
whole; lemmas on sequences say what `Without`, `With` and the eviction of old jobs
leave in it (`JobsWithout`, `JobsWith`, `UploadedJobs`). `TokenInv`: when a
confirmation has taken its token, the token is in the session and in the copy of an
open request only if a third request overlapped with it, which wrote it back; and the
temporary file is gone when a confirmation that wrote a log has ended other than by a
kill. So a second confirmation of the same file finds token and file only if the first
was killed and such a request exists. `JournalInv`: the shipments of a confirmation
have one line each, the four outcomes partition the lines, and each statement keeps
what the log counts equal to what the confirmation has inserted (the batch and its
counts are one transaction); and a confirmation that has seen the shipments of another
counts as duplicates the lines whose key is stored as it is (`SawOK`), so that it
repeats only a line whose amount the column has rounded. Steps are grouped by what
they do to the token: `RequestBegins`, `Takes`, `Continues`, `Rests`. Both invariants
were checked by TLC first, with three confirmations as well (5.8 million states).

- `ImportsTyped`: `ImportsSpec => []ImportsTypeOK`. Apart from types it says that a
  session, and every copy of it a request has, holds `IMPORT_JOBS_MAX` jobs at most
  (`JobsLimited`): an upload that makes one too many evicts the oldest, and a
  confirmation only takes jobs out.
- `ImportedAsShown`: `ImportFileSpec => [](ImportFileTypeOK /\ FileImportedAsShown)`, and
  `ImportsAreSound`: `ImportFlowSpec => []ImportsSound`, for every sheet, size of page and
  number of lines. `FileInv`: the boxes are those of the selection and of the page
  that is open, the box above them tells how much of all valid rows is selected
  (`ViewOK`); once there are results, each data row has one, which was
  judged by the selection sent and the shipments there were then.

`UpkeepProofs` is about what administrators edit, about what runs without anybody
asking, and about how a site gets its version. First what administrators edit.

- `AccountsAreKept`: `AccountsSpec => []AccountsKept`, for every number of users,
  superusers and requests. A replaced password stays invalid because the password
  a request will set is in no row, and in no row any request has read, before it
  ends (`PasswordsFresh`); an edit that writes back another password than the row
  now has, because the row it read is old, adds the user to `undone`, which the
  property excepts until a new password is set. Somebody keeps the right to change
  users because a save after which `lockout` is "none" leaves its author his own
  rights (`AuthorRemains`), and what an earlier save may have done is no excuse.
- `SettingsAreExplained`: `ConfigSpec => []SettingsExplained`, and
  `NothingIsLostUnchanged`: `ConfigSpec => NothingLostUnchanged`, for every number
  of fields, editors, pages and changes. `FieldConfigInv` adds that the rows the
  settings page is about to save are valid and have distinct places, that the row
  a switch is about to write is valid, that the rows in a backup are valid and have
  distinct places unless they were reordered before, and that a page which was served
  the rows of the database and whose settings did not change since (`steady`) was built
  from the present ones, and shown with them, so that the form built when it is sent has
  the fields it was shown with.

- `AccountsTyped`: `AccountsSpec => []AccountsTypeOK`, and `ConfigTyped`: `ConfigSpec =>
  []FieldConfigTypeOK`: the rows are at all times settings the form would accept.

What runs without anybody asking:

- `SlotsRunOnce`: `SchedulesSpec => []ScheduledOnce`, for every length of week and
  day and every form. The arithmetic is in lemmas: a moment is a day and a time of
  day in one way (`Divided`, `Times`, `Remainder`, `DayOfWeek`), and `NextRun` is the
  first slot after a moment, which exists within a week and a day
  (`NextRunIsFirst`). `SchedulesInv` then says that the `next_run_at` of a schedule,
  in the database, in the dump and in an open form, is `NextRun` of what the
  schedule has covered, and that runs lie before it and not after the moment of
  their tick. It was checked by TLC on 22 million states before the proof.
- `HostDataSafe`: `HostSpec => []HostDataRemains`, for every number of days and
  process identifiers and every period of keeping. What `backup.sh` prunes is
  older than the pair it has just made (`BackupRunOK`), so that a whole pair
  remains however it ends. Between its two renames `restore.sh` has the uploads
  aside; its own place there is free before the first and the new uploads are in
  theirs after the second (`RestoreRunOK`).
- `PublishedIsTheCommit`: `ReleaseSpec => []PublishedIsItsCommit`, and
  `AuditShowsTheVersion`: `ReleaseSpec => []AuditShowsOneVersion`, for every number
  of edits, commits, times and zones. `ReleaseInv`: a run that nobody disturbed is about
  the commit that HEAD is and has copied nothing else but the ignored files it found; an
  output that is not older than HEAD shows that commit, unless HEAD was moved away from
  it (`leftBehind`); what the audit package selected is still official and as it
  was, unless the run is marked as disturbed.
- `SchedulesTyped`, `HostTyped` and `ReleaseTyped`: `SchedulesTypeOK`, `HostTypeOK` and
  `ReleaseTypeOK` of the same specifications. Of the last, that no output has contents there
  never were, and no commit is of a time to come.

And how a site gets its version:

- `SiteRestoresOnceDeployed`: `DeploymentSpec => []DeployedSiteRestores`, and
  `DeploymentTyped`, for every list of versions and labels and any number of backups, and
  for each settings module. What passes the check has the identity of its release, unless
  it runs disguised (`CheckedIdentity`: under the modules for development and tests
  it does not pass at all), and its database was migrated to its
  version, so that only a rollback leaves a newer one (`RunsAsChecked`). But for these
  two a backup names the version whose schema it has, or a later one
  (`BackupTold`), and a restore whose preflight accepts it migrates it to that of the image.
- `OlderHasLowerRank`: what `_compare_semver` calls older has the lower rank, by
  cases on the first place where two versions differ. The preflight relies on it.

`ShipmentsProofs` has the tables of shipments too:

- `TableViewsAreSound`: `TableViewsSpec => []TableViewsSound`, and `TableViewsTyped`, for
  every number of rows, pages, columns, values and requests in flight. `TableInv`: an
  export under way will find the rows it was asked for as long as no row changes
  (`ExportOK`), and each row of a cluster, on a page of which no row changed since the
  first query of its search, has another live one with its key (`CleanersOK`), of which a
  deletion leaves one. `FiltersInv`: the list of
  the popup is empty or the answer to the column and search it is marked with (`ListOf`),
  and what is checked is in it.

`ComponentsProofs` joins them: a behaviour of `ComponentsSpec` is one of each of the
twelve components, since a step of one leaves the variables of the others alone
(`ComponentsBegin`, `ComponentsStep`). `ComponentsTyped`: `ComponentsSpec =>
[]ComponentsTypeOK` follows from the types of each; so would the other properties.

The assumptions of the theorems are the named `ASSUME`s of the modules, which
TLC evaluates in every run, and for `Exclusion`, `OneScheduler`, `FinishedStays` and
`RecoverySparesTheWorker` also `NoOverlap`, without which they are false (section 4).

Only model-checked: `QueuedOperationsLeaveTheQueue`, `RestoreModeEnds` and what else is live
(fairness and `ENABLED` are out of the prover's reach), and of course the violated
properties, whose counterexamples are instances. Two kinds of induction were avoided by the
form of the model: a page of the preview is a set of rows given by their rank, not
a sequence that is cut, and versions are compared at the first place where they
differ, not by recursion.

## 7. Mutants

Each property has a plausible bug in the code that violates it, written next to
the definition it replaces.

- Queue: a status that does not exist, restores forgotten in the active check,
  every running row taken for stale, recovery that does not look at the
  heartbeat, a claim while something runs, a queue that blocks itself, a start
  that does not reset the mode.
- Contents: an exception that is not raised again, a file of the baseline
  compared by name only, deletions since the baseline forgotten, the path to
  unlink read when the callback runs.
- Catalogue: any baseline instead of the latest, the newest row protected
  instead of the newest entry, the age of dependents forgotten.
- Pipeline: a restore over a database without tables, a backup made after the
  staging, no stash before placing, a move noted before it is made, a holder
  removed although it has files.
- Shipments: an UPDATE by primary key alone, a deletion that leaves
  `updated_at` alone, the filled-in instance logged as the old values, a rename
  of the live rows only.
- Imports: one job too many kept, no second search for duplicates, the token
  taken out of the session with the answer only, a batch without a transaction;
  lines beyond the limit left out, an amount of zero accepted.
- Field configuration: two fields with one place accepted, the invalidation
  before the commit, hidden fields kept in the form. Schedules: a week that is
  one day short.
- Accounts: a button with which a user deactivates himself, whole rows saved
  everywhere. Filters and tables: "everything is checked" judged by a list that
  is cut off, selected rows that are gone left out of an export, clusters of one
  row.
- Deployment: a pre-release that follows its release, a version taken from the
  environment. Host scripts: pruning before the new backup is whole, the old
  directory removed when the move fails. Release: local changes released with
  the commit they are based on, uncommitted edits not counted.

## 8. Not modelled

- Dashboard (`core/dashboard_service.py`): sums and counts, each by one read.
- Audit pages, log pages, readiness probes, templates and formatting: they read
  and render.
- Login, sessions and password hashing belong to Django, and so does its admin, which
  edits the same users past the code of `app/accounts`; `seed_groups` and the demo data
  only add rows.
- Whether users reach a site that was let start: `entrypoint.sh:49-58` serves plain http
  without a certificate, and what is in front of it is not in the repository.
- `MaintenanceModeMiddleware` beyond the mode it reads: which pages it lets
  through in `restore_running` is `Admitted` and the guards of the other web actions
  of `OperationQueue`.
- What the single checks of the release pipeline and of the audit package test
  (names of files, secrets, digests), and the acceptance and end-to-end tools:
  their result is a choice in `Release` (`GatesPass`, `GateFails`).
- An edit of a document that changes its type alone.

Behaviours met on the way that no property is about: the toggle of a catalogue
value saves the whole row and undoes a rename made meanwhile
(`catalogs/views.py:185-188`); the selection of an export is cleared before its
answer has come; the defaults of the two host scripts name different directories
of uploads, so that `restore.sh` refuses what `backup.sh` makes unless it is told
the name; `_mark_import_batch_error` writes its statements one at a time, so that
a kill between them leaves a log whose results are fewer than its rows.
