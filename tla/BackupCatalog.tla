---------------------------- MODULE BackupCatalog ----------------------------
(***************************************************************************)
(* The backups in the backup directory: create_backup, the page that       *)
(* deletes one, the retention in the tick of the scheduler, and restores,  *)
(* which bring back a database that does not know the newest of them       *)
(* (app/core/system_ops/backup.py and retention.py).                       *)
(*                                                                         *)
(* Simplifications                                                         *)
(*   - One operation at a time; the overlaps of OperationQueue are not     *)
(*     repeated.  The retention may run beside an operation that a command *)
(*     executes; when the scheduler executes it, that is the case where    *)
(*     the retention does nothing.  A request to delete may have read the  *)
(*     mode long before it looks for backups.                              *)
(*   - Ids are in the order of creation, as are created_at of rows and of  *)
(*     manifests.  Age is what the retention tells apart: younger than     *)
(*     BACKUP_INCREMENTAL_KEEP_DAYS, younger than BACKUP_FULL_KEEP_DAYS    *)
(*     (the same for pre-restore backups), older; a backup does not get    *)
(*     older while something is under way, which nobody would notice.      *)
(*   - The rest of a restore is in RestorePipeline, the contents of the    *)
(*     files in BackupContents.                                            *)
(***************************************************************************)
EXTENDS Naturals

CONSTANTS
    MaxBackups,       \* bound on backups, pre-restore ones included
    MaxInterruptions  \* bound on killed processes and failed unlinks

ASSUME CatalogAssumption == MaxBackups \in Nat /\ MaxInterruptions \in Nat

VARIABLES
    backups,        \* backups[b]: manifest of backup b
    disk,           \* disk[b]: which of its files exist
    known,          \* backups of which the database has a successful BackupRun
    job,            \* local variables of create_backup
    restore,        \* the RestoreRun that is queued or running
    choice,         \* entries a start_restore request has looked up
    deletion,       \* files a delete_backup request is about to unlink
    retention,      \* files the retention is about to unlink
    interruptions   \* interruptions so far

vars == <<backups, disk, known, job, restore, choice, deletion, retention, interruptions>>

Backups == 1..MaxBackups
NoBackup == 0
Types == {"full", "incremental", "pre_restore"}
BaselineTypes == {"full", "pre_restore"}
Parts == {"manifest", "database", "uploads"}
Ages == {"young", "middle", "old"}
Targets == SUBSET (Backups \X Parts)

Backup == [type: Types \cup {"none"}, base: Backups \cup {NoBackup}, age: Ages, known: SUBSET Backups]
Missing == [type |-> "none", base |-> NoBackup, age |-> "young", known |-> {}]
NoJob == [id |-> NoBackup, new |-> Missing]
Selection == [full: Backups \cup {NoBackup}, incremental: Backups \cup {NoBackup}]
Nothing == [full |-> NoBackup, incremental |-> NoBackup]
Restore == [selected: Selection, step: {"none", "queued", "prepared", "loaded"}, pre: Backups \cup {NoBackup}]
NoRestore == [selected |-> Nothing, step |-> "none", pre |-> NoBackup]

\* Types.
TypeOK ==
    /\ backups \in [Backups -> Backup]
    /\ disk \in [Backups -> SUBSET Parts]
    /\ known \subseteq Backups
    /\ job.id \in Backups \cup {NoBackup} /\ job.new \in Backup
    /\ restore \in Restore
    /\ choice \in Selection
    /\ deletion \in Targets
    /\ retention \in Targets
    /\ interruptions \in 0..MaxInterruptions
    /\ \A b \in known : backups[b].type # "none"
    /\ \A b \in Backups : disk[b] # {} => backups[b].type # "none"

Init ==
    /\ backups = [b \in Backups |-> Missing]
    /\ disk = [b \in Backups |-> {}]
    /\ known = {}
    /\ job = NoJob
    /\ restore = NoRestore
    /\ choice = Nothing
    /\ deletion = {}
    /\ retention = {}
    /\ interruptions = 0

(***************************************************************************)
(* Views of the directory                                                  *)
(***************************************************************************)

\* scan_backup_manifests: rows count as long as their manifest exists.
Listed == {b \in Backups : "manifest" \in disk[b]}

OfType(S, t) == {b \in S : backups[b].type = t}
NewestOf(b, S) == b \in S /\ \A c \in S : c <= b
DependentsIn(S, b) == {i \in OfType(S, "incremental") : backups[i].base = b}

\* The database that was loaded does not know the restore that loaded it.
UsedByActiveRestore(S) ==
    /\ restore.step \in {"queued", "prepared"}
    /\ {restore.selected.full, restore.selected.incremental} \cap S # {}

NextBackup(b) == backups[b].type = "none" /\ \A c \in Backups : c < b => backups[c].type # "none"
OperationActive == job # NoJob \/ restore.step # "none"

Interrupted == interruptions < MaxInterruptions /\ interruptions' = interruptions + 1

(***************************************************************************)
(* create_backup                                                           *)
(***************************************************************************)

\* Mutant: any that exists.
AnyBaseline(c) == c \in {b \in known \cap Listed : backups[b].type \in BaselineTypes}

\* _latest_full_manifest
LatestBaseline(c) ==
    NewestOf(c, {b \in known \cap Listed : backups[b].type \in BaselineTypes})

New(type, base) == [type |-> type, base |-> base, age |-> "young", known |-> known]

BackupStart(b) ==
    /\ ~OperationActive
    /\ NextBackup(b)
    /\ \/ job' = [id |-> b, new |-> New("full", NoBackup)]
       \/ \E c \in Backups : LatestBaseline(c) /\ job' = [id |-> b, new |-> New("incremental", c)]
    /\ UNCHANGED <<backups, disk, known, restore, choice, deletion, retention, interruptions>>

Published ==
    /\ job # NoJob
    /\ backups' = [backups EXCEPT ![job.id] = job.new]
    /\ disk' = [disk EXCEPT ![job.id] = Parts]
    /\ job' = NoJob
    /\ UNCHANGED <<restore, choice, deletion, retention>>

BackupPublish == Published /\ known' = known \cup {job.id} /\ UNCHANGED interruptions

\* Killed after the manifest and before the row is written.
BackupOrphaned == Published /\ Interrupted /\ UNCHANGED known

BackupFails ==
    /\ job # NoJob
    /\ job' = NoJob
    /\ UNCHANGED <<backups, disk, known, restore, choice, deletion, retention, interruptions>>

(***************************************************************************)
(* delete_backup_by_key                                                    *)
(***************************************************************************)

\* get_backup_delete_preview without blockers
DeletePreview(b) ==
    LET entries == {b} \cup IF backups[b].type \in BaselineTypes THEN DependentsIn(Listed, b) ELSE {}
    IN  /\ deletion = {}
        /\ b \in Listed
        /\ backups[b].type \in BaselineTypes => ~NewestOf(b, OfType(Listed, backups[b].type))
        /\ ~UsedByActiveRestore(entries)
        /\ deletion' = entries \X Parts
        /\ UNCHANGED <<backups, disk, known, job, restore, choice, retention, interruptions>>

\* A baseline goes before its dependents, a manifest before what it names.
FirstOf(targets, b, part) ==
    /\ <<b, part>> \in targets
    /\ part # "manifest" => <<b, "manifest">> \notin targets
    /\ part = "uploads" => <<b, "database">> \notin targets
    /\ \A p \in Parts : <<backups[b].base, p>> \notin targets

Unlinked(b, part) == disk' = [disk EXCEPT ![b] = @ \ {part}]

DeleteUnlink(b, part) ==
    /\ FirstOf(deletion, b, part)
    /\ deletion' = deletion \ {<<b, part>>}
    /\ Unlinked(b, part)
    /\ UNCHANGED <<backups, known, job, restore, choice, retention, interruptions>>

\* OSError of unlink, or the worker is killed.
DeleteInterrupted ==
    /\ deletion # {}
    /\ deletion' = {}
    /\ Interrupted
    /\ UNCHANGED <<backups, disk, known, job, restore, choice, retention>>

(***************************************************************************)
(* _apply_retention                                                        *)
(***************************************************************************)

\* Rows whether their files exist or not, and manifests without a row.
Entries == known \cup Listed

\* Mutant: the newest row is protected, the newest manifest is not.
ProtectedRow(b) == NewestOf(b, OfType(known, backups[b].type))

Protected(b) == NewestOf(b, OfType(Entries, backups[b].type))

Outdated(b) ==
    /\ backups[b].type \in BaselineTypes
    /\ ~Protected(b)
    /\ backups[b].age = "old"
    /\ \A i \in DependentsIn(Entries, b) : backups[i].age # "young"
    /\ ~UsedByActiveRestore({b} \cup DependentsIn(Entries, b))

OutdatedIncremental(b) ==
    /\ backups[b].type = "incremental"
    /\ backups[b].age # "young"
    /\ ~UsedByActiveRestore({b, backups[b].base})

\* Mutant: the age of the dependents is forgotten.
OutdatedByOwnAge ==
    LET fulls == {b \in Entries : backups[b].type \in BaselineTypes /\ ~Protected(b) /\ backups[b].age = "old"}
    IN  fulls \cup {i \in Entries : backups[i].base \in fulls}

ToDelete ==
    LET fulls == {b \in Entries : Outdated(b)}
    IN  fulls \cup {i \in Entries : OutdatedIncremental(i) \/ backups[i].base \in fulls}

RetentionRead ==
    /\ retention = {}
    /\ ToDelete # {}
    /\ retention' = ToDelete \X Parts
    /\ UNCHANGED <<backups, disk, known, job, restore, choice, deletion, interruptions>>

RetentionUnlink(b, part) ==
    /\ FirstOf(retention, b, part)
    /\ retention' = retention \ {<<b, part>>}
    /\ Unlinked(b, part)
    /\ UNCHANGED <<backups, known, job, restore, choice, deletion, interruptions>>

\* except OSError: continue
RetentionSkips(b, part) ==
    /\ FirstOf(retention, b, part)
    /\ retention' = retention \ {<<b, part>>}
    /\ Interrupted
    /\ UNCHANGED <<backups, disk, known, job, restore, choice, deletion>>

RetentionKilled ==
    /\ retention # {}
    /\ retention' = {}
    /\ Interrupted
    /\ UNCHANGED <<backups, disk, known, job, restore, choice, deletion>>

(***************************************************************************)
(* Restores                                                                *)
(***************************************************************************)

Chosen(full, incremental) == [full |-> full, incremental |-> incremental]

RestoreChoose(full, incremental) ==
    /\ choice = Nothing
    /\ full \in Listed /\ backups[full].type \in BaselineTypes
    /\ incremental \in DependentsIn(Listed, full) \cup {NoBackup}
    /\ choice' = Chosen(full, incremental)
    /\ UNCHANGED <<backups, disk, known, job, restore, deletion, retention, interruptions>>

\* The row names what was looked up before.
RestoreEnqueue ==
    /\ choice # Nothing
    /\ choice' = Nothing
    /\ IF OperationActive THEN UNCHANGED restore
       ELSE restore' = [NoRestore EXCEPT !.selected = choice, !.step = "queued"]
    /\ UNCHANGED <<backups, disk, known, job, deletion, retention, interruptions>>

Selected == {restore.selected.full, restore.selected.incremental} \ {NoBackup}
Loaded == IF restore.selected.incremental = NoBackup THEN restore.selected.full ELSE restore.selected.incremental

\* Manifests are read, the pre-restore backup is made.
RestorePrepare(pre) ==
    /\ restore.step = "queued"
    /\ Selected \subseteq Listed
    /\ NextBackup(pre)
    /\ backups' = [backups EXCEPT ![pre] = New("pre_restore", NoBackup)]
    /\ disk' = [disk EXCEPT ![pre] = Parts]
    /\ known' = known \cup {pre}
    /\ restore' = [restore EXCEPT !.step = "prepared", !.pre = pre]
    /\ UNCHANGED <<job, choice, deletion, retention, interruptions>>

\* The database is as it was when the backup began.
RestoreLoad ==
    /\ restore.step = "prepared"
    /\ \A b \in Selected : {"database", "uploads"} \subseteq disk[b]
    /\ known' = backups[Loaded].known
    /\ restore' = [restore EXCEPT !.step = "loaded"]
    /\ UNCHANGED <<backups, disk, job, choice, deletion, retention, interruptions>>

\* _finalize_restore_run, after success or after a late failure
RestoreFinish ==
    /\ restore.step = "loaded"
    /\ known' = known \cup {restore.pre}
    /\ restore' = NoRestore
    /\ UNCHANGED <<backups, disk, job, choice, deletion, retention, interruptions>>

RestoreFails ==
    /\ restore.step \in {"queued", "prepared"}
    /\ restore' = NoRestore
    /\ UNCHANGED <<backups, disk, known, job, choice, deletion, retention, interruptions>>

\* Killed before the row of the pre-restore backup is written back.
RestoreKilled ==
    /\ restore.step = "loaded"
    /\ restore' = NoRestore
    /\ Interrupted
    /\ UNCHANGED <<backups, disk, known, job, choice, deletion, retention>>

Older(age) == IF age = "young" THEN "middle" ELSE "old"

Age(b) ==
    /\ ~OperationActive /\ choice = Nothing /\ deletion = {} /\ retention = {}
    /\ backups[b].type # "none" /\ backups[b].age # "old"
    /\ \A c \in Backups : c < b => backups[c].age \in {"old", Older(backups[b].age)}
    /\ backups' = [backups EXCEPT ![b] = [backups[b] EXCEPT !.age = Older(backups[b].age)]]
    /\ UNCHANGED <<disk, known, job, restore, choice, deletion, retention, interruptions>>

Next ==
    \/ \E b \in Backups : BackupStart(b) \/ DeletePreview(b) \/ RestorePrepare(b) \/ Age(b)
    \/ BackupPublish \/ BackupOrphaned \/ BackupFails
    \/ \E b \in Backups, part \in Parts : DeleteUnlink(b, part) \/ RetentionUnlink(b, part) \/ RetentionSkips(b, part)
    \/ DeleteInterrupted
    \/ RetentionRead \/ RetentionKilled
    \/ \E full \in Backups, incremental \in Backups \cup {NoBackup} : RestoreChoose(full, incremental)
    \/ RestoreEnqueue \/ RestoreLoad \/ RestoreFinish \/ RestoreFails \/ RestoreKilled

Spec == Init /\ [][Next]_vars

(***************************************************************************)
(* Properties                                                              *)
(***************************************************************************)

Made(t) == OfType(Backups, t)

(***************************************************************************)
(* The newest full and the newest pre-restore backup are never deleted, by *)
(* the page or by the retention, although after a restore the database     *)
(* does not know them and both look at the directory before they act.      *)
(***************************************************************************)
NewestKept == \A b \in Backups, t \in BaselineTypes : NewestOf(b, Made(t)) => disk[b] = Parts

(***************************************************************************)
(* An incremental backup that can be chosen has its baseline, unless it is *)
(* being deleted with it, or something was interrupted before.             *)
(***************************************************************************)
IncrementalsHaveBaseline ==
    interruptions = 0 =>
        \A i \in OfType(Listed, "incremental") :
            disk[backups[i].base] = Parts \/ <<i, "manifest">> \in deletion \cup retention

(***************************************************************************)
(* The retention does not touch a backup before its days are over, even as *)
(* a dependent of one whose are.                                           *)
(***************************************************************************)
YoungKept ==
    \A target \in retention :
        backups[target[1]].age = "old" \/ (backups[target[1]].type = "incremental" /\ backups[target[1]].age = "middle")

=============================================================================
