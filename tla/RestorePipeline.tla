--------------------------- MODULE RestorePipeline ---------------------------
(***************************************************************************)
(* A restore: pre-restore backup, staging, load of the database, and the   *)
(* exchange of the uploads by renames inside MEDIA_ROOT, with its rollback *)
(* (app/core/system_ops/restore.py).  What a killed restore leaves there   *)
(* is part of every later backup.                                          *)
(*                                                                         *)
(* Simplifications                                                         *)
(*   - MEDIA_ROOT is a set of entries: all files of one top directory that *)
(*     have the same version are one entry.  There are no empty            *)
(*     directories, but for the holder of the restore that is running.     *)
(*   - Documents change all at once, with the database, and not during a   *)
(*     backup: BackupContents is about that.  A request that the           *)
(*     maintenance mode did not stop may write a file at any time.         *)
(*   - Names of staging directories are random: the model numbers them.    *)
(*     The scheduler is process 1 of its container (deploy/entrypoint.sh): *)
(*     the names of holders differ by their counter only.                  *)
(*   - rmtree with ignore_errors leaves any of the entries, without a word; *)
(*     an entry of which it leaves a part is left.  Top entries of          *)
(*     MEDIA_ROOT are directories.                                          *)
(***************************************************************************)
EXTENDS Naturals, SequencesExt

CONSTANTS
    Dirs,          \* top directories of the uploads
    MaxChanges,    \* bound on changes of the documents
    MaxBackups,    \* bound on backups that are not part of a restore
    MaxRestores,   \* bound on restores
    MaxErrors,     \* bound on failing moves, rmtrees, statements and late requests together
    MaxKills,      \* bound on killed restores
    MaxLate        \* bound on late requests, which write during a restore

VARIABLES
    files,      \* entries below MEDIA_ROOT
    db,         \* version of the documents the database knows
    backups,    \* database and inventory of each backup
    restore,    \* local variables of restore_backup
    before,     \* uploads when the restore began
    last,       \* how the last restore ended, until something else begins
    changes, restores, errors, kills, late

counters == <<changes, restores, errors, kills, late>>
vars == <<files, db, backups, restore, before, last, counters>>

NoDatabase == MaxChanges + 1
Late == MaxChanges + 1
Versions == 0..Late
Holder(n) == <<".restore_old", n>>
Staging(n) == <<".restore_staging", n>>
Internal == {Holder(n) : n \in 0..MaxRestores} \cup {Staging(n) : n \in 0..MaxRestores}

ASSUME PipelineAssumption ==
    /\ {MaxChanges, MaxBackups, MaxRestores, MaxErrors, MaxKills, MaxLate} \subseteq Nat
    /\ Dirs \cap Internal = {}  \* no directory of the uploads has such a name

Names == Dirs \cup Internal

Entry(at, version) == [at |-> at, version |-> version]
IsEntry(e) == Range(e.at) \subseteq Names /\ e.version \in Versions

Steps == {"idle", "load", "loading", "commands", "stash", "place", "remove", "return", "finish"}
Idle == [step |-> "idle", selected |-> 0, staging |-> Staging(0), holder |-> Holder(0),
         todo |-> {}, stashed |-> {}, placed |-> {}, left |-> {}]

\* How a restore ends after its swap: with its success recorded, with an error recorded
\* because a statement after the swap failed, or killed before it recorded anything.
Exchanged == {"success", "denied", "unsaid"}

\* How it ends before: with an error after which nothing or everything was taken back,
\* or a placed directory could not be removed, or the rollback raised; or killed.
Unfinished == {"failed", "littered", "stranded", "killed"}
Results == {"none"} \cup Exchanged \cup Unfinished
None == [result |-> "none", selected |-> 0]

\* Types.
TypeOK ==
    /\ \A e \in files : IsEntry(e)
    /\ db \in 0..NoDatabase
    /\ \A b \in DOMAIN backups : backups[b].db \in 0..MaxChanges /\ \A e \in backups[b].files : IsEntry(e)
    /\ Len(backups) <= MaxBackups + MaxRestores /\ restores <= MaxRestores
    /\ restore.step \in Steps
    /\ restore.selected \in 0..Len(backups)
    /\ restore.staging \in Internal /\ restore.holder \in Internal
    /\ restore.todo \cup restore.stashed \cup restore.placed \cup restore.left \subseteq Names
    /\ before \subseteq {Entry(<<d>>, v) : d \in Dirs, v \in Versions}
    /\ last.result \in Results /\ last.selected \in 0..Len(backups)
    /\ changes <= MaxChanges /\ errors <= MaxErrors /\ kills <= MaxKills /\ late <= MaxLate

Uploads(version) == {Entry(<<d>>, version) : d \in Dirs}

Init ==
    /\ files = Uploads(0)
    /\ db = 0
    /\ backups = <<>>
    /\ restore = Idle
    /\ before = {}
    /\ last = None
    /\ changes = 0 /\ restores = 0 /\ errors = 0 /\ kills = 0 /\ late = 0

(***************************************************************************)
(* The tree                                                                *)
(***************************************************************************)

Under(tree, path) == {e \in tree : IsPrefix(path, e.at)}
Children(tree, path) == {e.at[Len(path) + 1] : e \in Under(tree, path)}
Live(tree) == {e \in tree : Len(e.at) = 1}
Swapping == restore.step \in {"stash", "place", "remove", "return"}
Exists(path) == Under(files, path) # {} \/ (Swapping /\ path = <<restore.holder>>)

Rebased(tree, from, to) ==
    {[e EXCEPT !.at = to \o SubSeq(e.at, Len(from) + 1, Len(e.at))] : e \in Under(tree, from)}

\* shutil.move moves into a directory that exists, if the name is free there.
Destination(from, to) == IF Exists(to) THEN Append(to, Last(from)) ELSE to
CanMove(from, to) == Exists(to) => ~Exists(Append(to, Last(from)))
Moved(from, to) == (files \ Under(files, from)) \cup Rebased(files, from, Destination(from, to))

Removed(path) == files \ Under(files, path)

Fault == errors + late < MaxErrors /\ errors' = errors + 1

\* shutil.rmtree(dir, ignore_errors=True) of these directories.
Discarded(dirs) ==
    LET all == UNION {Under(files, <<d>>) : d \in dirs}
    IN  \E left \in SUBSET all :
            /\ files' = (files \ all) \cup left
            /\ IF left = {} THEN UNCHANGED errors ELSE Fault

(***************************************************************************)
(* Around the restore                                                      *)
(***************************************************************************)

At(step) == restore.step = step

\* Users upload and replace documents.
Change ==
    /\ At("idle") /\ db # NoDatabase /\ changes < MaxChanges
    /\ changes' = changes + 1
    /\ db' = changes'
    /\ files' = (files \ Live(files)) \cup Uploads(changes')
    /\ last' = None
    /\ UNCHANGED <<backups, restore, before, restores, errors, kills, late>>

\* The inventory is of all files below MEDIA_ROOT.
Saved == Append(backups, [db |-> db, files |-> files])

Backup ==
    /\ At("idle") /\ db # NoDatabase /\ Len(backups) - restores < MaxBackups
    /\ backups' = Saved
    /\ UNCHANGED <<files, db, restore, before, last, counters>>

\* A request that was let in before writes its file and makes its directory.
LateUpload(d) ==
    /\ ~At("idle") /\ late < MaxLate /\ errors + late < MaxErrors
    /\ late' = late + 1
    /\ files' = files \cup {Entry(<<d>>, Late)}
    /\ UNCHANGED <<db, backups, restore, before, last, changes, restores, errors, kills>>

(***************************************************************************)
(* restore_backup                                                          *)
(***************************************************************************)

\* Mutant: also when a killed load left no tables.
RestoreBeginAnyway(b) ==
    /\ At("idle") /\ restores < MaxRestores
    /\ restores' = restores + 1
    /\ backups' = Saved
    /\ restore' = [Idle EXCEPT !.step = "load", !.selected = b, !.staging = Staging(restores')]
    /\ UNCHANGED <<files, before, last, db, changes, errors, kills, late>>

\* _extract_uploads_to_staging: the archives of backup b, below the staging
\* directory of the restore that begins.
Extracted(b) == Rebased(backups[b].files, <<>>, <<Staging(restores')>>)

\* Mutant: the backup is made of a site that is already staged.
RestoreBeginUnsaved(b) ==
    /\ At("idle") /\ db # NoDatabase /\ restores < MaxRestores
    /\ restores' = restores + 1
    /\ backups' = Append(backups, [db |-> db, files |-> files \ Live(files)])
    /\ restore' = [Idle EXCEPT !.step = "load", !.selected = b, !.staging = Staging(restores')]
    /\ files' = files \cup Extracted(b)
    /\ before' = Live(files)
    /\ last' = None
    /\ UNCHANGED <<db, changes, errors, kills, late>>

\* The pre-restore backup, then the archives into a staging directory.
RestoreBegin(b) ==
    /\ At("idle") /\ db # NoDatabase /\ restores < MaxRestores
    /\ restores' = restores + 1
    /\ backups' = Saved
    /\ restore' = [Idle EXCEPT !.step = "load", !.selected = b, !.staging = Staging(restores')]
    /\ files' = files \cup Extracted(b)
    /\ before' = Live(files)
    /\ last' = None
    /\ UNCHANGED <<db, changes, errors, kills, late>>

Goto(step) == restore' = [restore EXCEPT !.step = step]

DropTables ==
    /\ At("load")
    /\ db' = NoDatabase
    /\ Goto("loading")
    /\ UNCHANGED <<files, backups, before, last, counters>>

LoadDump ==
    /\ At("loading")
    /\ db' = backups[restore.selected].db
    /\ Goto("commands")
    /\ UNCHANGED <<files, backups, before, last, counters>>

\* Mutant: the old uploads are not moved away first.
SwapBeginWithoutStash ==
    /\ At("commands")
    /\ \E n \in 0..MaxRestores :
          /\ ~Exists(<<Holder(n)>>)
          /\ restore' = [restore EXCEPT !.step = "stash", !.holder = Holder(n)]
    /\ UNCHANGED <<files, db, backups, before, last, counters>>

\* _restore_old_holder_path and list(media_root.iterdir())
SwapBegin ==
    /\ At("commands")
    /\ \E n \in 0..MaxRestores :
          /\ ~Exists(<<Holder(n)>>) /\ \A m \in 0..MaxRestores : m < n => Exists(<<Holder(m)>>)
          /\ restore' = [restore EXCEPT !.step = "stash", !.holder = Holder(n),
                                        !.todo = Children(files, <<>>) \ Internal]
    /\ UNCHANGED <<files, db, backups, before, last, counters>>

Stash(name) ==
    /\ At("stash") /\ name \in restore.todo
    /\ files' = Moved(<<name>>, <<restore.holder, name>>)
    /\ restore' = [restore EXCEPT !.todo = restore.todo \ {name}, !.stashed = restore.stashed \cup {name}]
    /\ UNCHANGED <<db, backups, before, last, counters>>

PlaceBegin ==
    /\ At("stash") /\ restore.todo = {}
    /\ restore' = [restore EXCEPT !.step = "place", !.todo = Children(files, <<restore.staging>>)]
    /\ UNCHANGED <<files, db, backups, before, last, counters>>

Place(name) ==
    /\ At("place") /\ name \in restore.todo
    /\ CanMove(<<restore.staging, name>>, <<name>>)
    /\ files' = Moved(<<restore.staging, name>>, <<name>>)
    /\ restore' = [restore EXCEPT !.todo = restore.todo \ {name}, !.placed = restore.placed \cup {name}]
    /\ UNCHANGED <<db, backups, before, last, counters>>

Ended(result) ==
    /\ restore' = Idle
    /\ last' = [result |-> result, selected |-> restore.selected]

\* The last move is made: the old uploads go.
SwapEnds ==
    /\ At("place") /\ restore.todo = {}
    /\ Discarded({restore.holder, restore.staging})
    /\ Goto("finish")
    /\ UNCHANGED <<db, backups, before, last, changes, restores, kills, late>>

RestoreSucceeds ==
    /\ At("finish")
    /\ Ended("success")
    /\ UNCHANGED <<files, db, backups, before, counters>>

\* The rows, the audit log or the mode cannot be written: the except branch records
\* an error.
FinishFails ==
    /\ At("finish") /\ Fault
    /\ Ended("denied")
    /\ UNCHANGED <<files, db, backups, before, changes, restores, kills, late>>

\* Mutant: a move is noted before it is made.
SwapFailsAfterNote ==
    /\ restore.todo # {} /\ restore.step \in {"stash", "place"} /\ Fault
    /\ \E name \in restore.todo : restore' = [restore EXCEPT !.step = "remove", !.placed = restore.placed \cup {name}]
    /\ UNCHANGED <<files, db, backups, before, last, changes, restores, kills, late>>

SwapFails ==
    /\ \/ restore.todo # {} /\ restore.step \in {"stash", "place"} /\ Fault
       \/ /\ At("place")
          /\ \E name \in restore.todo : ~CanMove(<<restore.staging, name>>, <<name>>)
          /\ UNCHANGED errors
    /\ Goto("remove")
    /\ UNCHANGED <<files, db, backups, before, last, changes, restores, kills, late>>

\* What rmtree leaves of a placed directory takes the place of the old one.
RollbackRemove(name) ==
    /\ At("remove") /\ name \in restore.placed
    /\ Discarded({name})
    /\ restore' = [restore EXCEPT !.placed = restore.placed \ {name},
                                  !.left = @ \cup {n \in {name} : Under(files', <<n>>) # {}}]
    /\ UNCHANGED <<db, backups, before, last, changes, restores, kills, late>>

RollbackReturn(name) ==
    /\ restore.step \in {"remove", "return"} /\ restore.placed = {}
    /\ name \in restore.stashed
    /\ Under(files, <<restore.holder, name>>) # {}
    /\ CanMove(<<restore.holder, name>>, <<name>>)
    /\ files' = Moved(<<restore.holder, name>>, <<name>>)
    /\ restore' = [restore EXCEPT !.step = "return", !.stashed = restore.stashed \ {name}]
    /\ UNCHANGED <<db, backups, before, last, counters>>

\* Mutant: the holder is removed in any case.
RollbackFailsAndCleans ==
    /\ restore.step \in {"remove", "return"} /\ restore.placed = {} /\ restore.stashed # {}
    /\ Fault
    /\ files' = Removed(<<restore.staging>>) \ Under(files, <<restore.holder>>)
    /\ Ended("stranded")
    /\ UNCHANGED <<db, backups, before, changes, restores, kills, late>>

\* An exception in the handler: what was stashed stays in the holder.
RollbackFails ==
    /\ restore.step \in {"remove", "return"} /\ restore.placed = {} /\ restore.stashed # {}
    /\ \/ Fault /\ files' \in {files, Removed(<<restore.staging>>)}
       \/ /\ \E name \in restore.stashed : \/ Under(files, <<restore.holder, name>>) = {}
                                           \/ ~CanMove(<<restore.holder, name>>, <<name>>)
          /\ Discarded({restore.staging})
    /\ Ended("stranded")
    /\ UNCHANGED <<db, backups, before, changes, restores, kills, late>>

RollbackEnds ==
    /\ restore.step \in {"remove", "return"} /\ restore.placed = {} /\ restore.stashed = {}
    /\ Discarded({restore.holder, restore.staging})
    /\ Ended(IF restore.left = {} THEN "failed" ELSE "littered")
    /\ UNCHANGED <<db, backups, before, changes, restores, kills, late>>

\* Verification, extraction, load or commands fail: finally removes staging.
RestoreFails ==
    /\ restore.step \in {"load", "loading", "commands"}
    /\ Discarded({restore.staging})
    /\ Ended("failed")
    /\ UNCHANGED <<db, backups, before, changes, restores, kills, late>>

Killed ==
    /\ ~At("idle") /\ kills < MaxKills
    /\ kills' = kills + 1
    /\ Ended(IF At("finish") THEN "unsaid" ELSE "killed")
    /\ UNCHANGED <<files, db, backups, before, changes, restores, errors, late>>

Swap ==
    \/ SwapBegin
    \/ \E name \in Names : Stash(name) \/ Place(name) \/ RollbackRemove(name) \/ RollbackReturn(name)
    \/ PlaceBegin \/ SwapEnds \/ SwapFails \/ RollbackFails \/ RollbackEnds

Next ==
    \/ Change \/ Backup
    \/ \E d \in Dirs : LateUpload(d)
    \/ \E b \in DOMAIN backups : RestoreBegin(b)
    \/ DropTables \/ LoadDump \/ RestoreFails \/ Killed
    \/ Swap \/ RestoreSucceeds \/ FinishFails

Spec == Init /\ [][Next]_vars

(***************************************************************************)
(* Properties                                                              *)
(***************************************************************************)

\* No backup in the model has what a killed restore left behind.
Clean(b) == Children(backups[b].files, <<>>) \subseteq Dirs

(***************************************************************************)
(* Once the swap is done the database and the uploads are those of the     *)
(* backup that was selected, both, whatever earlier restores left: in a    *)
(* restore that ends with success, and in one that records an error        *)
(* because a statement after the swap failed, or is killed there.          *)
(***************************************************************************)
SuccessIsComplete ==
    last.result \in Exchanged /\ late = 0 =>
        /\ db = backups[last.selected].db
        /\ Live(files) = Live(backups[last.selected].files)

(***************************************************************************)
(* A restore that fails before its swap is done leaves the uploads as they *)
(* were: unless the rollback raises, or rmtree leaves, without raising, a  *)
(* directory that was placed, into which the old one is then moved.        *)
(***************************************************************************)
FailureLeavesUploads ==
    last.result = "failed" /\ late = 0 /\ Clean(last.selected) => Live(files) = before

(***************************************************************************)
(* Until the swap of a clean backup is done, every file that was there is  *)
(* somewhere below MEDIA_ROOT, in a directory of its name: at its place,   *)
(* in the holder, or in a leftover of the same name.  Moves and rmtrees    *)
(* may fail, requests come between and the restore be killed.              *)
(***************************************************************************)
Somewhere(e) == \E f \in files : f.version = e.version /\ e.at[1] \in Range(f.at)

OldUploadsExist ==
    /\ restore.step \notin {"idle", "finish"} /\ Clean(restore.selected) => \A e \in before : Somewhere(e)
    /\ last.result \in Unfinished /\ At("idle") /\ Clean(last.selected)
         => \A e \in before : Somewhere(e)

(***************************************************************************)
(* Docstring of _swap_staging_to_media: "Staging is inside MEDIA_ROOT, so  *)
(* every move is a cheap rename".  While no call fails and nobody writes,  *)
(* no move of the swap is refused because its name is taken.               *)
(***************************************************************************)
SwapNeverBlocked ==
    At("place") /\ errors + late = 0 => \A name \in restore.todo : CanMove(<<restore.staging, name>>, <<name>>)

-----------------------------------------------------------------------------

\* While a restore runs users see what its pre-restore backup holds.
Outcome ==
    INSTANCE RestoreOutcome WITH
        Databases <- 0..MaxChanges,
        Contents <- SUBSET {Entry(<<d>>, v) : d \in Dirs, v \in Versions},
        site <- IF At("idle") THEN [db |-> db, uploads |-> Live(files)]
                ELSE [db |-> Last(backups).db, uploads |-> before],
        saved <- [b \in DOMAIN backups |->
                    [db |-> backups[b].db, uploads |-> Live(backups[b].files), pure |-> Clean(b)]],
        selected <- restore.selected,
        outcome <- last.result,
        disturbed <- late > 0

(***************************************************************************)
(* The many steps of a restore come down to one for its reader: a backup   *)
(* of the site as it was, nothing that happens between counts, and it ends *)
(* in one of three ways, of which the result page only tells the success   *)
(* from the others: the site is the backup's, the uploads are as before,   *)
(* or they are neither.                                                    *)
(***************************************************************************)
ImplementsOutcome == Outcome!OutcomeSpec

=============================================================================
