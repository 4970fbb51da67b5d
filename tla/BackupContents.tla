--------------------------- MODULE BackupContents ---------------------------
(***************************************************************************)
(* What is in a backup: create_backup of app/core/system_ops/backup.py     *)
(* takes a dump of the database, then an inventory of the uploads, then    *)
(* packs them, while the documents change.  restore_backup puts a full     *)
(* backup, or a full one and an incremental one over it, back.             *)
(*                                                                         *)
(* Simplifications                                                         *)
(*   - One backup at a time, as OperationQueue shows; ids are in the order *)
(*     of creation.  Nothing is deleted: see BackupCatalog.                *)
(*   - The inventory looks at one file at a time, and so does tar.  The    *)
(*     walk over the directories meets every file that is there all the    *)
(*     time, and may or may not meet one that appears or vanishes.  Sizes  *)
(*     and digests tell partial from whole; mtime tells a file a restore   *)
(*     wrote from the same file before it.                                 *)
(*   - A restore is one step here and happens while no request is served   *)
(*     and no backup runs; its own steps are those of RestorePipeline.     *)
(***************************************************************************)
EXTENDS Documents

CONSTANTS
    MaxBackups,   \* bound on backups, pre-restore ones included
    MaxRestores   \* bound on restores

ASSUME BoundsAssumption == MaxBackups \in Nat /\ MaxRestores \in Nat

VARIABLES
    mtime,     \* mtime[f]: how many restores there were when f was written
    backups,   \* backups[b]: dump, archive and manifest of backup b
    job,       \* local variables of create_backup
    restores   \* restores so far

vars == <<docVars, mtime, backups, job, restores>>
backupVars == <<mtime, backups, job, restores>>

Backups == 1..MaxBackups
NoBackup == 0

\* content and stamp are uploads.files of the manifest, archive the tar;
\* quiet says that no upload changed from the inventory to the manifest.
Backup == [state: {"none", "running", "done"}, base: Backups \cup {NoBackup},
           dump: [Docs -> Row], content: [Files -> Contents], stamp: [Files -> 0..MaxRestores],
           archive: [Files -> Contents], deleted: SUBSET Files, reported: SUBSET (Files \cup {NoFile}),
           quiet: BOOLEAN]

NoFiles == [f \in Files |-> "none"]
Empty == [state |-> "none", base |-> NoBackup, dump |-> [d \in Docs |-> NoRow], content |-> NoFiles,
          stamp |-> [f \in Files |-> 0], archive |-> NoFiles, deleted |-> {}, reported |-> {}, quiet |-> TRUE]

\* todo: the files the inventory is bound to meet, those tar is to pack.
Job == [step: {"idle", "dumped", "inventory", "archive"}, id: Backups \cup {NoBackup}, todo: SUBSET Files]
NoJob == [step |-> "idle", id |-> NoBackup, todo |-> {}]

\* Types.
TypeOK ==
    /\ DocTypeOK
    /\ mtime \in [Files -> 0..MaxRestores]
    /\ backups \in [Backups -> Backup]
    /\ job \in Job
    /\ job.step # "idle" => job.id \in Backups /\ backups[job.id].state = "running"
    /\ restores \in 0..MaxRestores

Init ==
    /\ DocInit
    /\ mtime = [f \in Files |-> 0]
    /\ backups = [b \in Backups |-> Empty]
    /\ job = NoJob
    /\ restores = 0

Done(b) == backups[b].state = "done"
Present(content) == {f \in Files : content[f] # "none"}

NextBackup(b) == backups[b].state = "none" /\ \A c \in Backups : c < b => Done(c)

\* _latest_full_manifest: full and pre-restore backups are candidates.
FullBackups == {b \in Backups : Done(b) /\ backups[b].base = NoBackup}
LatestFull(b) == b \in FullBackups /\ \A c \in FullBackups : c <= b

\* Active documents in the sense of _backup_reference_consistency.
References(rows) == {rows[d].file : d \in {e \in Docs : rows[e].file # NoFile /\ rows[e].deleted = "no" /\ ~rows[e].purged}}

(***************************************************************************)
(* create_backup                                                           *)
(***************************************************************************)

Running == backups[job.id]

\* No baseline for a full backup, nor where there is no full one to build on.
BackupDump(b, base) ==
    /\ job.step = "idle"
    /\ NextBackup(b)
    /\ base = NoBackup \/ LatestFull(base)
    /\ backups' = [backups EXCEPT ![b] = [Empty EXCEPT !.state = "running", !.dump = docs, !.base = base]]
    /\ job' = [step |-> "dumped", id |-> b, todo |-> {}]
    /\ UNCHANGED <<docVars, mtime, restores>>

InventoryBegin ==
    /\ job.step = "dumped"
    /\ job' = [job EXCEPT !.step = "inventory", !.todo = Present(media)]
    /\ UNCHANGED <<docVars, mtime, backups, restores>>

InventoryFile(f) ==
    /\ job.step = "inventory"
    /\ f \in Present(media) \ Present(Running.content)
    /\ job' = [job EXCEPT !.todo = @ \ {f}]
    /\ backups' = [backups EXCEPT ![job.id] =
          [@ EXCEPT !.content = [Running.content EXCEPT ![f] = media[f]],
                    !.stamp = [Running.stamp EXCEPT ![f] = mtime[f]]]]
    /\ UNCHANGED <<docVars, mtime, restores>>

\* Mutant: a file of the baseline is taken to be the same file.
IncludedByName ==
    IF Running.base = NoBackup THEN Present(Running.content)
    ELSE Present(Running.content) \ Present(backups[Running.base].content)

\* baseline_inventory.get(rel) != meta
Included ==
    IF Running.base = NoBackup THEN Present(Running.content)
    ELSE LET base == backups[Running.base] IN
         {f \in Present(Running.content) : Running.content[f] # base.content[f] \/ Running.stamp[f] # base.stamp[f]}

\* Mutant: what is gone since the baseline is not recorded.
DeletedFilesForgotten == {}

\* set(baseline_inventory) - set(current_inventory)
DeletedFiles ==
    IF Running.base = NoBackup THEN {}
    ELSE Present(backups[Running.base].content) \ Present(Running.content)

ArchiveBegin ==
    /\ job.step = "inventory"
    /\ job.todo \cap Present(media) = {}
    /\ job' = [job EXCEPT !.step = "archive", !.todo = Included]
    /\ backups' = [backups EXCEPT ![job.id] = [@ EXCEPT !.deleted = DeletedFiles]]
    /\ UNCHANGED <<docVars, mtime, restores>>

\* A file that vanished is taken out of included_files and files.
ArchiveFile(f) ==
    /\ job.step = "archive"
    /\ f \in job.todo
    /\ job' = [job EXCEPT !.todo = @ \ {f}]
    /\ backups' = [backups EXCEPT ![job.id] =
          [@ EXCEPT !.archive = [Running.archive EXCEPT ![f] = media[f]],
                    !.content = [g \in Files |-> IF g = f /\ media[f] = "none" THEN "none" ELSE Running.content[g]]]]
    /\ UNCHANGED <<docVars, mtime, restores>>

BackupPublish ==
    /\ job.step = "archive"
    /\ job.todo = {}
    /\ job' = NoJob
    /\ backups' = [backups EXCEPT ![job.id] =
          [@ EXCEPT !.state = "done", !.reported = References(docs) \ Present(Running.content)]]
    /\ UNCHANGED <<docVars, mtime, restores>>

\* Mutant: the exception is not raised again.
BackupFailsAndGoesOn ==
    /\ job.step # "idle"
    /\ backups' = [backups EXCEPT ![job.id] = Empty]
    /\ UNCHANGED <<docVars, mtime, job, restores>>

\* The files of a backup that fails or is killed do not have a manifest.
BackupFails ==
    /\ job.step # "idle"
    /\ job' = NoJob
    /\ backups' = [backups EXCEPT ![job.id] = Empty]
    /\ UNCHANGED <<docVars, mtime, restores>>

(***************************************************************************)
(* restore_backup                                                          *)
(***************************************************************************)

\* _extract_uploads_to_staging
Staging(b) ==
    LET backup == backups[b]
    IN  IF backup.base = NoBackup THEN backup.archive
        ELSE [f \in Files |-> IF f \in backup.deleted THEN "none"
                              ELSE IF backup.archive[f] # "none" THEN backup.archive[f]
                              ELSE backups[backup.base].archive[f]]

\* _verify_uploads_contents, which an empty uploads.files skips.
Verified(b) == backups[b].content \in {NoFiles, Staging(b)}

Quiet == job.step = "idle" /\ \A r \in Requests : At(r, "idle")

PreRestore == [Empty EXCEPT !.state = "done", !.dump = docs, !.content = media, !.stamp = mtime,
                            !.archive = media, !.reported = References(docs) \ Present(media)]

RestoreBegin(b, pre) ==
    /\ Quiet
    /\ Done(b)
    /\ NextBackup(pre)
    /\ backups' = [backups EXCEPT ![pre] = PreRestore]
    /\ UNCHANGED <<named, requests, unlinkErrors, job>>

Restore(b, pre) ==
    /\ RestoreBegin(b, pre)
    /\ Verified(b)
    /\ restores < MaxRestores
    /\ docs' = backups[b].dump
    /\ media' = Staging(b)
    /\ restores' = restores + 1
    /\ mtime' = [f \in Files |-> IF Staging(b)[f] = "none" THEN 0 ELSE restores + 1]

RestoreRefused(b, pre) ==
    /\ RestoreBegin(b, pre)
    /\ ~Verified(b)
    /\ UNCHANGED <<docs, media, mtime, restores>>

(***************************************************************************)
(* Documents change while a backup runs.                                   *)
(***************************************************************************)

Watched ==
    /\ IF job.step \in {"idle", "dumped"} \/ media' = media THEN UNCHANGED backups
       ELSE backups' = [backups EXCEPT ![job.id] = [@ EXCEPT !.quiet = FALSE]]
    /\ UNCHANGED <<mtime, job, restores>>

\* A document is not deleted and 30 days older within one backup.
ExpireInBackup(d) ==
    /\ job.step # "idle" => Running.dump[d].deleted = "recently"
    /\ Expire(d)

DocumentStep ==
    \/ \E r \in Requests : RequestStep(r)
    \/ \E d \in Docs : Delete(d) \/ ExpireInBackup(d) \/ Cleanup(d)

BackupStep ==
    \/ \E b \in Backups, base \in Backups \cup {NoBackup} : BackupDump(b, base)
    \/ \E f \in Files : InventoryFile(f) \/ ArchiveFile(f)
    \/ InventoryBegin
    \/ ArchiveBegin
    \/ BackupPublish
    \/ BackupFails

RestoreStep == \E b, pre \in Backups : Restore(b, pre) \/ RestoreRefused(b, pre)

Next ==
    \/ DocumentStep /\ Watched
    \/ BackupStep
    \/ RestoreStep

Spec == Init /\ [][Next]_vars

(***************************************************************************)
(* Properties                                                              *)
(***************************************************************************)

(***************************************************************************)
(* A document whose row did not change from the dump to the manifest can   *)
(* be had back with its file, whatever other requests did meanwhile        *)
(* (create_backup runs without stopping them).                             *)
(***************************************************************************)
UntouchedDocumentsCovered ==
    [][\A b \in Backups : ~Done(b) /\ Done(b)' =>
         \A d \in Docs : Listed(d) /\ HasFile(d) /\ backups'[b].dump[d] = docs[d] =>
           Staging(b)'[docs[d].file] = "whole"]_vars

(***************************************************************************)
(* What the baseline has, what the incremental archive adds and what its   *)
(* list of deleted files takes away is the inventory again: a backup can be *)
(* restored if no upload changed while it or its baseline was packed.      *)
(***************************************************************************)
QuietBackupsRestorable ==
    \A b \in Backups :
        LET base == backups[b].base
        IN  Done(b) /\ backups[b].quiet /\ (base # NoBackup => backups[base].quiet)
              => Staging(b) = backups[b].content

(***************************************************************************)
(* Between restores, uploads, edits, failures and the cleanup never take   *)
(* the file of a document that users can see (documents/views.py).         *)
(***************************************************************************)
FilesKeptBetweenRestores == [][restores' = restores => KeepsFiles]_vars

(***************************************************************************)
(* Docstring of _backup_reference_consistency: a reference in the dump to  *)
(* a file the uploads of the backup do not have is written to the manifest.*)
(***************************************************************************)
MissingReferencesReported ==
    \A b \in Backups : Done(b) => References(backups[b].dump) \ Present(backups[b].content) \subseteq backups[b].reported

(***************************************************************************)
(* Comment V15-H1 in _create_uploads_archive: the archive has exactly what *)
(* uploads.files of the manifest says.                                     *)
(***************************************************************************)
ArchiveMatchesManifest ==
    \A b \in Backups : Done(b) =>
        \A f \in Present(backups[b].archive) : backups[b].archive[f] = backups[b].content[f]

=============================================================================
