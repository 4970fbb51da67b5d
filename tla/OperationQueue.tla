--------------------------- MODULE OperationQueue ---------------------------
(***************************************************************************)
(* The queue of backup and restore operations of app/core/system_ops: the  *)
(* BackupRun and RestoreRun rows, the maintenance mode of the SystemState  *)
(* singleton, the scheduler processes with their advisory lock and         *)
(* heartbeat, the management commands, the web handlers that enqueue,      *)
(* recover and switch the mode, and what reloading a database dump does to *)
(* all of these.                                                           *)
(*                                                                         *)
(* Simplifications                                                         *)
(*   - Time is three events: a heartbeat older than SCHEDULER_WARN_SECONDS *)
(*     (HeartbeatExpires), a started_at older than SCHEDULER_STALE_AGE_    *)
(*     MINUTES (RowAges), a schedule whose next_run_at has passed          *)
(*     (ScheduleFallsDue).  A row does not age while its worker is at one  *)
(*     of PromptSteps, the few statements between a claim and the first    *)
(*     dump or after a failure, which take next to no time.                *)
(*   - A row keeps its kind, its status, the age of started_at while it    *)
(*     runs, and for a restore the backup whose database dump it loads.    *)
(*     The keys of the two tables are disjoint sets, and BackupIds and     *)
(*     RestoreIds bound the rows each has at a time.  A reloaded dump      *)
(*     brings back its AUTO_INCREMENT, so that a key may be given out      *)
(*     again while a worker still holds it.  No row is ever deleted but    *)
(*     with its database.                                                  *)
(*   - A backup is known by its manifest, whose name has the time in it:   *)
(*     manifests are numbered, and MaxBackups bounds them.                 *)
(*   - Full and incremental backups behave alike here: what distinguishes  *)
(*     them are the files, and those are the subject of BackupCatalog.     *)
(*   - Uploads are the subject of RestorePipeline; a step of restore_backup*)
(*     that only touches files is one that can fail and nothing more.      *)
(***************************************************************************)
EXTENDS Naturals

CONSTANTS
    BackupIds,      \* primary keys of BackupRun rows
    RestoreIds,     \* primary keys of RestoreRun rows
    MaxBackups,     \* bound on the manifests written
    NoId,           \* a null foreign key or variable
    Schedulers,     \* run_scheduler processes
    Clis,           \* create_backup and restore_backup commands
    NoProc,         \* nobody holds the advisory lock
    PageModes,      \* modes somebody may choose on the system page
    CommandModes,   \* modes somebody may give to the set_maintenance command
    LockMayBeLost,  \* whether MySQL may drop the connection of the lock
    MaxCrashes,     \* bound on process crashes
    MaxDbErrors     \* bound on statements that MySQL fails outside of a try block

VARIABLES
    rows,       \* rows[i]: the BackupRun or RestoreRun row i
    mode,       \* SystemState.mode
    fresh,      \* scheduler_heartbeat_at is at most SCHEDULER_WARN_SECONDS old
    due,        \* an enabled BackupSchedule has next_run_at in the past
    db,         \* whether the tables are there
    onDisk,     \* backups whose manifest is in the backup directory
    image,      \* image[b]: the database dump of backup b
    named,      \* manifests written so far
    lock,       \* holder of GET_LOCK('coal_shipments_scheduler')
    pc,         \* pc[p]: where process p is
    task,       \* task[p]: local variables of the operation p executes
    pending,    \* the mode a system_maintenance request is about to write
    faults      \* crashes and database errors so far

vars == <<rows, mode, fresh, due, db, onDisk, image, named, lock, pc, task, pending,
          faults>>

Ids == BackupIds \cup RestoreIds
Names == 1..MaxBackups

Workers == Schedulers \cup Clis

Modes == {"normal", "admin_only", "restore_running"}
Kinds == {"backup", "pre_restore", "restore"}
Statuses == {"absent", "queued", "running", "success", "error"}
Ages == {"unset", "recent", "stale"}
Row == [kind : Kinds, status : Statuses, age : Ages, from : Names \cup {NoId}]

\* Every row is in its table.
Keys(kind) == IF kind = "restore" THEN RestoreIds ELSE BackupIds
Tables == {rs \in [Ids -> Row] : \A i \in Ids : rs[i].status = "absent" \/ i \in Keys(rs[i].kind)}
Image == [rows : Tables, mode : Modes]

\* pre_restore is the BackupRun that restore_backup itself creates (source "restore").
NoRow == [kind |-> "backup", status |-> "absent", age |-> "unset", from |-> NoId]
NoImage == [rows |-> [i \in Ids |-> NoRow], mode |-> "normal"]

\* The variables of create_backup (run, the dump, the manifest) and of restore_backup
\* (restore_run, pre_restore and the status the latter has in memory).
Task == [op : Ids \cup {NoId}, kind : Kinds, from : Names \cup {NoId},
         pre : BackupIds \cup {NoId}, preStatus : Statuses, dump : Image,
         name : Names \cup {NoId}]
NoTask == [op |-> NoId, kind |-> "backup", from |-> NoId, pre |-> NoId, preStatus |-> "absent",
           dump |-> NoImage, name |-> NoId]

BackupSteps == {"backup_begin", "backup_dump", "backup_archive", "backup_save"}
RestoreSteps == {"restore_begin", "restore_mode", "restore_check", "restore_verify",
                 "restore_load", "restore_loading", "restore_reassert", "restore_post",
                 "restore_success", "restore_leave", "restore_fail", "restore_leave_error"}
PromptSteps == {"backup_begin", "restore_begin", "restore_mode", "restore_check", "restore_fail"}
OperationSteps == BackupSteps \cup RestoreSteps
Steps == {"down", "idle", "tick"} \cup OperationSteps

ASSUME ConstantsAssumption ==
    /\ Ids \subseteq Nat
    /\ BackupIds \cap RestoreIds = {}
    /\ MaxBackups \in Nat
    /\ NoId \notin Ids \cup Names
    /\ NoProc \notin Schedulers \cup Clis
    /\ Schedulers \cap Clis = {}
    /\ PageModes \cup CommandModes \subseteq {"normal", "admin_only"}
    /\ LockMayBeLost \in BOOLEAN
    /\ MaxCrashes \in Nat
    /\ MaxDbErrors \in Nat

TypeOK ==
    /\ rows \in Tables
    /\ mode \in Modes
    /\ fresh \in BOOLEAN
    /\ due \in BOOLEAN
    /\ db \in {"ready", "loading", "wrecked"}
    /\ onDisk \in SUBSET Names
    /\ image \in [Names -> Image]
    /\ named \in 0..MaxBackups
    /\ lock \in Schedulers \cup {NoProc}
    /\ pc \in [Workers -> Steps]
    /\ task \in [Workers -> Task]
    /\ pending \in {"none", "normal", "admin_only"}
    /\ faults \in [crash : 0..MaxCrashes, db : 0..MaxDbErrors]

-----------------------------------------------------------------------------
(* Queries on the rows. *)

ActiveIn(rs) == {i \in Ids : rs[i].status \in {"queued", "running"}}
Active == ActiveIn(rows)

\* Mutant: restores are forgotten.
HasActiveBackup == \E i \in Active : rows[i].kind # "restore"
HasActiveOperation == Active # {}
HasActiveOperationBut(i) == Active \ {i} # {}

Running == {i \in Ids : rows[i].status = "running"}
Queued(kinds) == {i \in Ids : rows[i].status = "queued" /\ rows[i].kind \in kinds}

\* _stale_running_filter: no started_at, or one that is too old.
StaleRunning == {i \in Running : rows[i].age \in {"unset", "stale"}}

\* AUTO_INCREMENT: above the key of every row the table has now, whatever keys it had
\* before it was reloaded.
FreeIds(kind) ==
    {i \in Keys(kind) : \A j \in Keys(kind) : rows[j].status # "absent" => j < i}

NextId(kind) == {i \in FreeIds(kind) : \A j \in FreeIds(kind) : i <= j}

QueuedRow(kind, from) == [kind |-> kind, status |-> "queued", age |-> "unset", from |-> from]

Started(row) == [row EXCEPT !.status = "running", !.age = "recent"]

\* started_at only matters while the row runs.
Ended(row, status) == [row EXCEPT !.status = status, !.age = "unset"]

\* Mutant: a status of its own for what was interrupted.
MarkInterrupted(rs, marked) ==
    [i \in Ids |-> IF i \in marked THEN Ended(rs[i], "interrupted") ELSE rs[i]]

MarkError(rs, marked) ==
    [i \in Ids |-> IF i \in marked THEN Ended(rs[i], "error") ELSE rs[i]]

-----------------------------------------------------------------------------
Init ==
    /\ rows = [i \in Ids |-> NoRow]
    /\ mode = "normal"
    /\ fresh = FALSE
    /\ due = FALSE
    /\ db = "ready"
    /\ onDisk = {}
    /\ image = [b \in Names |-> NoImage]
    /\ named = 0
    /\ lock = NoProc
    /\ pc = [p \in Workers |-> "down"]
    /\ task = [p \in Workers |-> NoTask]
    /\ pending = "none"
    /\ faults = [crash |-> 0, db |-> 0]

procVars == <<lock, pc, task>>
diskVars == <<onDisk, image, named>>

-----------------------------------------------------------------------------
(* Web handlers. *)

\* core.views.start_backup, the row of the singleton locked.
StartBackup ==
    /\ db = "ready"
    /\ mode = "admin_only"
    /\ ~HasActiveOperation
    /\ \E i \in NextId("backup") : rows' = [rows EXCEPT ![i] = QueuedRow("backup", NoId)]
    /\ UNCHANGED <<mode, fresh, due, db, diskVars, procVars, pending, faults>>

\* core.views.start_restore of the dump of backup b.
StartRestore(b) ==
    /\ db = "ready"
    /\ mode = "admin_only"
    /\ ~HasActiveOperation
    /\ b \in onDisk
    /\ \E i \in NextId("restore") : rows' = [rows EXCEPT ![i] = QueuedRow("restore", b)]
    /\ UNCHANGED <<mode, fresh, due, db, diskVars, procVars, pending, faults>>

\* Mutant: the heartbeat is not looked at.
RecoverRestoreRegardless ==
    LET marked == Queued(Kinds) \cup StaleRunning
    IN  /\ db = "ready"
        /\ marked # {}
        /\ rows' = MarkError(rows, marked)
        /\ mode' = "admin_only"
        /\ UNCHANGED <<fresh, due, db, diskVars, procVars, pending, faults>>

\* core.views.recover_restore looks before it calls the recovery.
SomethingToRecover == mode = "restore_running" \/ HasActiveOperation

\* core.views.recover_restore and recover_interrupted_restore without force.
RecoverRestore ==
    LET marked == Queued(Kinds) \cup StaleRunning
        stuck == mode = "restore_running" /\ ~HasActiveOperation
    IN  /\ db = "ready"
        /\ SomethingToRecover
        /\ ~(fresh /\ HasActiveOperation)
        /\ marked # {} \/ stuck
        /\ rows' = MarkError(rows, marked)
        /\ mode' = "admin_only"
        /\ UNCHANGED <<fresh, due, db, diskVars, procVars, pending, faults>>

\* MaintenanceModeMiddleware, for an administrator: in restore_running only the
\* status page and recover_restore are served.
Admitted == mode # "restore_running"

\* core.views.system_maintenance reads the mode (once more before "normal") ...
RequestMode(m) ==
    /\ db = "ready"
    /\ pending = "none"
    /\ Admitted
    /\ pending' = m
    /\ UNCHANGED <<rows, mode, fresh, due, db, diskVars, procVars, faults>>

\* ... and writes it later with set_system_mode, which takes no lock.
ApplyMode ==
    /\ db = "ready"
    /\ pending # "none"
    /\ mode' = pending
    /\ pending' = "none"
    /\ UNCHANGED <<rows, fresh, due, db, diskVars, procVars, faults>>

\* The set_maintenance command: set_system_mode without any check.
SetMaintenance(m) ==
    /\ db = "ready"
    /\ mode' = m
    /\ UNCHANGED <<rows, fresh, due, db, diskVars, procVars, pending, faults>>

-----------------------------------------------------------------------------
(* The loop of run_scheduler. *)

\* Mutant: the mode is only reset together with a restore that is marked.
SchedulerStartKeepsMode(s) ==
    /\ pc[s] = "down"
    /\ lock = NoProc
    /\ db = "ready"
    /\ ~(fresh /\ HasActiveOperation)
    /\ rows' = MarkError(rows, StaleRunning)
    /\ mode' = IF \E i \in StaleRunning : rows[i].kind = "restore"
               THEN "admin_only" ELSE mode
    /\ lock' = s
    /\ pc' = [pc EXCEPT ![s] = "idle"]
    /\ UNCHANGED <<fresh, due, db, diskVars, task, pending, faults>>

\* Take the advisory lock, then recover_stale_running_operations_on_scheduler_start.
\* Where the heartbeat is fresh and something is active the process exits at once
\* and releases the lock: that leaves no trace and is no step of the model.
SchedulerStart(s) ==
    /\ pc[s] = "down"
    /\ lock = NoProc
    /\ db = "ready"
    /\ ~(fresh /\ HasActiveOperation)
    /\ rows' = MarkError(rows, StaleRunning)
    /\ mode' = IF mode = "restore_running" \/ \E i \in StaleRunning : rows[i].kind = "restore"
               THEN "admin_only" ELSE mode
    /\ lock' = s
    /\ pc' = [pc EXCEPT ![s] = "idle"]
    /\ UNCHANGED <<fresh, due, db, diskVars, task, pending, faults>>

\* The loop checks that the lock is still its own, then run_scheduler_tick
\* touches the heartbeat and does its maintenance.
Tick(s) ==
    /\ pc[s] = "idle"
    /\ lock = s
    /\ db = "ready"
    /\ fresh' = TRUE
    /\ pc' = [pc EXCEPT ![s] = "tick"]
    /\ UNCHANGED <<rows, mode, due, db, diskVars, lock, task, pending, faults>>

ExitWithoutLock(s) ==
    /\ pc[s] = "idle"
    /\ lock # s
    /\ pc' = [pc EXCEPT ![s] = "down"]
    /\ UNCHANGED <<rows, mode, fresh, due, db, diskVars, lock, task, pending, faults>>

Perform(p, i, rs) ==
    /\ rows' = [rs EXCEPT ![i] = Started(rs[i])]
    /\ task' = [task EXCEPT ![p] = [NoTask EXCEPT !.op = i, !.kind = rs[i].kind,
                                                  !.from = rs[i].from]]
    /\ pc' = [pc EXCEPT ![p] = IF rs[i].kind = "restore"
                               THEN "restore_begin" ELSE "backup_begin"]

\* claim_scheduler_operation where a schedule is due and nothing is active: the
\* run it creates is the only one in the queue and is claimed at once.
ClaimScheduled(s) ==
    /\ pc[s] = "tick"
    /\ db = "ready"
    /\ due
    /\ ~HasActiveOperation
    /\ \E i \in NextId("backup") : Perform(s, i, [rows EXCEPT ![i] = QueuedRow("backup", NoId)])
    /\ due' = FALSE
    /\ UNCHANGED <<mode, fresh, db, diskVars, lock, pending, faults>>

\* Mutants: what runs does not block the queue; what is queued blocks it.
ClaimQueuedWhileRunning(s) ==
    /\ pc[s] = "tick"
    /\ db = "ready"
    /\ \E i \in Queued(Kinds) :
          /\ rows[i].kind = "restore" \/ Queued({"restore"}) = {}
          /\ Perform(s, i, rows)
    /\ UNCHANGED <<mode, fresh, due, db, diskVars, lock, pending, faults>>

ClaimQueuedWhenIdle(s) ==
    /\ pc[s] = "tick"
    /\ db = "ready"
    /\ ~HasActiveOperation
    /\ \E i \in Queued(Kinds) : Perform(s, i, rows)
    /\ UNCHANGED <<mode, fresh, due, db, diskVars, lock, pending, faults>>

\* claim_scheduler_operation from the queue: restores before backups.
ClaimQueued(s) ==
    /\ pc[s] = "tick"
    /\ db = "ready"
    /\ Running = {}
    /\ \E i \in Queued(Kinds) :
          /\ rows[i].kind = "restore" \/ Queued({"restore"}) = {}
          /\ Perform(s, i, rows)
    /\ UNCHANGED <<mode, fresh, due, db, diskVars, lock, pending, faults>>

\* Nothing to claim, or something runs: the tick ends.
ClaimNothing(s) ==
    /\ pc[s] = "tick"
    /\ db = "ready" => /\ Running # {} \/ Queued(Kinds) = {}
                       /\ HasActiveOperation \/ ~due \/ NextId("backup") = {}
    /\ pc' = [pc EXCEPT ![s] = "idle"]
    /\ UNCHANGED <<rows, mode, fresh, due, db, diskVars, lock, task, pending, faults>>

-----------------------------------------------------------------------------
(* The management commands. *)

\* create_backup --type ...
CliBackup(c) ==
    /\ pc[c] = "down"
    /\ db = "ready"
    /\ ~HasActiveOperation
    /\ \E i \in NextId("backup") : Perform(c, i, [rows EXCEPT ![i] = QueuedRow("backup", NoId)])
    /\ UNCHANGED <<mode, fresh, due, db, diskVars, lock, pending, faults>>

\* create_backup --run-id i.
CliBackupQueued(c, i) ==
    /\ pc[c] = "down"
    /\ db = "ready"
    /\ i \in Queued({"backup", "pre_restore"})
    /\ ~HasActiveOperationBut(i)
    /\ Perform(c, i, rows)
    /\ UNCHANGED <<mode, fresh, due, db, diskVars, lock, pending, faults>>

\* restore_backup --restore-run-id i; the command leaves started_at as it is.
CliRestore(c, i) ==
    /\ pc[c] = "down"
    /\ db = "ready"
    /\ i \in Queued({"restore"})
    /\ ~HasActiveOperationBut(i)
    /\ rows' = [rows EXCEPT ![i].status = "running"]
    /\ task' = [task EXCEPT ![c] = [NoTask EXCEPT !.op = i, !.kind = "restore",
                                                  !.from = rows[i].from]]
    /\ pc' = [pc EXCEPT ![c] = "restore_begin"]
    /\ UNCHANGED <<mode, fresh, due, db, diskVars, lock, pending, faults>>

-----------------------------------------------------------------------------
(* create_backup, as an operation of its own or inside restore_backup. *)

Nested(p) == task[p].pre # NoId
Job(p) == IF Nested(p) THEN task[p].pre ELSE task[p].op

\* The operation returns or raises: a command ends, and the scheduler, whose
\* _run_with_scheduler_heartbeat touches the heartbeat last, goes on with its loop.
EndTask(p) ==
    /\ pc' = [pc EXCEPT ![p] = IF p \in Schedulers THEN "idle" ELSE "down"]
    /\ task' = [task EXCEPT ![p] = NoTask]
    /\ fresh' = (fresh \/ p \in Schedulers)

Goto(p, step) == pc' = [pc EXCEPT ![p] = step]

\* _run_with_scheduler_heartbeat touches the heartbeat before the operation runs.
Touched(p) == fresh \/ (p \in Schedulers /\ ~Nested(p))

\* run.save(update_fields=...) raises where the row is gone.
BackupBegin(p) ==
    /\ pc[p] = "backup_begin"
    /\ db = "ready"
    /\ IF rows[Job(p)].status # "absent"
       THEN /\ rows' = [rows EXCEPT ![Job(p)] = Started(@)]
            /\ Goto(p, "backup_dump")
            /\ fresh' = Touched(p)
            /\ UNCHANGED task
       ELSE /\ IF Nested(p) THEN /\ Goto(p, "restore_fail")
                                 /\ task' = [task EXCEPT ![p].preStatus = "running"]
                                 /\ UNCHANGED fresh
                            ELSE EndTask(p)
            /\ UNCHANGED rows
    /\ UNCHANGED <<mode, due, db, diskVars, lock, pending, faults>>

\* _dump_database: the rows as they are now, this run still running.
BackupDump(p) ==
    /\ pc[p] = "backup_dump"
    /\ db = "ready"
    /\ task' = [task EXCEPT ![p].dump = [rows |-> rows, mode |-> mode]]
    /\ Goto(p, "backup_archive")
    /\ UNCHANGED <<rows, mode, fresh, due, db, diskVars, lock, pending, faults>>

\* Uploads archive, then the manifest that makes the backup visible.
BackupWriteManifest(p) ==
    /\ pc[p] = "backup_archive"
    /\ named < MaxBackups
    /\ named' = named + 1
    /\ onDisk' = onDisk \cup {named'}
    /\ image' = [image EXCEPT ![named'] = task[p].dump]
    /\ task' = [task EXCEPT ![p] = [@ EXCEPT !.dump = NoImage, !.name = named']]
    /\ Goto(p, "backup_save")
    /\ UNCHANGED <<rows, mode, fresh, due, db, lock, pending, faults>>

\* run.save() of every field: inserts the row again where it has gone.
BackupSucceed(p) ==
    /\ pc[p] = "backup_save"
    /\ db = "ready"
    /\ rows' = [rows EXCEPT ![Job(p)] =
                  [kind |-> IF Nested(p) THEN "pre_restore" ELSE task[p].kind,
                   status |-> "success", age |-> "unset", from |-> NoId]]
    /\ IF Nested(p) THEN /\ Goto(p, "restore_verify")
                         /\ task' = [task EXCEPT ![p] =
                                     [@ EXCEPT !.preStatus = "success", !.name = NoId]]
                         /\ UNCHANGED fresh
                    ELSE EndTask(p)
    /\ UNCHANGED <<mode, due, db, diskVars, lock, pending, faults>>

\* The except branch: the row becomes an error and the files go, unless the
\* row has gone and the save raises again.
BackupFail(p) ==
    /\ pc[p] \in {"backup_dump", "backup_archive", "backup_save"}
    /\ db = "ready"
    /\ IF rows[Job(p)].status # "absent"
       THEN /\ rows' = [rows EXCEPT ![Job(p)] = Ended(@, "error")]
            /\ onDisk' = onDisk \ {task[p].name}
            /\ image' = [b \in Names |-> IF b = task[p].name THEN NoImage ELSE image[b]]
       ELSE UNCHANGED <<rows, onDisk, image>>
    /\ IF Nested(p) THEN /\ Goto(p, "restore_fail")
                         /\ task' = [task EXCEPT ![p] =
                                     [@ EXCEPT !.preStatus = "error", !.dump = NoImage,
                                               !.name = NoId]]
                         /\ UNCHANGED fresh
                    ELSE EndTask(p)
    /\ UNCHANGED <<mode, due, db, named, lock, pending, faults>>

-----------------------------------------------------------------------------
(* restore_backup. *)

RestoreBegin(p) ==
    /\ pc[p] = "restore_begin"
    /\ db = "ready"
    /\ IF rows[task[p].op].status # "absent"
       THEN /\ rows' = [rows EXCEPT ![task[p].op] = Started(@)]
            /\ Goto(p, "restore_mode")
            /\ fresh' = Touched(p)
            /\ UNCHANGED task
       ELSE /\ EndTask(p)
            /\ UNCHANGED rows
    /\ UNCHANGED <<mode, due, db, diskVars, lock, pending, faults>>

EnterRestoreMode(p) ==
    /\ pc[p] = "restore_mode"
    /\ db = "ready"
    /\ mode' = "restore_running"
    /\ Goto(p, "restore_check")
    /\ UNCHANGED <<rows, fresh, due, db, diskVars, lock, task, pending, faults>>

\* Manifests and versions are accepted; the pre-restore BackupRun is created.
CreatePreRestore(p) ==
    /\ pc[p] = "restore_check"
    /\ db = "ready"
    /\ task[p].from \in onDisk
    /\ \E i \in NextId("pre_restore") :
          /\ rows' = [rows EXCEPT ![i] = QueuedRow("pre_restore", NoId)]
          /\ task' = [task EXCEPT ![p] = [@ EXCEPT !.pre = i, !.preStatus = "queued"]]
    /\ Goto(p, "backup_begin")
    /\ UNCHANGED <<mode, fresh, due, db, diskVars, lock, pending, faults>>

\* The dump and the archives match the manifest and the uploads are staged.
RestoreVerify(p) ==
    /\ pc[p] = "restore_verify"
    /\ db = "ready"
    /\ rows[task[p].op].status # "absent"
    /\ task[p].from \in onDisk
    /\ Goto(p, "restore_load")
    /\ UNCHANGED <<rows, mode, fresh, due, db, diskVars, lock, task, pending, faults>>

\* mysql drops every table and reads the dump; the heartbeat thread is paused.
LoadBegin(p) ==
    /\ pc[p] = "restore_load"
    /\ db = "ready"
    /\ db' = "loading"
    /\ Goto(p, "restore_loading")
    /\ UNCHANGED <<rows, mode, fresh, due, diskVars, lock, task, pending, faults>>

\* The tables are those of the dump: rows younger than the backup are gone and their
\* keys free again, the backup's own run is running again, mode, heartbeat and
\* schedules are old.
LoadEnd(p) ==
    /\ pc[p] = "restore_loading"
    /\ db' = "ready"
    /\ rows' = image[task[p].from].rows
    /\ mode' = image[task[p].from].mode
    /\ fresh' \in BOOLEAN
    /\ due' \in BOOLEAN
    /\ Goto(p, "restore_reassert")
    /\ UNCHANGED <<diskVars, lock, task, pending, faults>>

\* mysql fails before it has read the preamble, or half-way: then the tables the
\* failure handler wants to write are missing, it raises, and nothing is recorded.
LoadFail(p) ==
    /\ pc[p] = "restore_loading"
    /\ \/ /\ db' = "ready"
          /\ Goto(p, "restore_fail")
          /\ UNCHANGED <<task, fresh>>
       \/ /\ db' = "wrecked"
          /\ EndTask(p)
    /\ UNCHANGED <<rows, mode, due, diskVars, lock, pending, faults>>

\* _reassert_restore_running_after_database_restore.
Reassert(p) ==
    /\ pc[p] = "restore_reassert"
    /\ db = "ready"
    /\ mode' = "restore_running"
    /\ Goto(p, "restore_post")
    /\ UNCHANGED <<rows, fresh, due, db, diskVars, lock, task, pending, faults>>

\* _run_post_restore_commands and _swap_staging_to_media.
PostCommandsAndSwap(p) ==
    /\ pc[p] = "restore_post"
    /\ db = "ready"
    /\ Goto(p, "restore_success")
    /\ UNCHANGED <<rows, mode, fresh, due, db, diskVars, lock, task, pending, faults>>

\* _finalize_restore_run: both rows are written back under the keys they had, inserted
\* where there is none and over whatever row has got the key since the load.
WrittenBack(rs, p, status) ==
    [i \in Ids |->
        IF i = task[p].op
        THEN [kind |-> "restore", status |-> status, age |-> "unset", from |-> task[p].from]
        ELSE IF i = task[p].pre
        THEN [kind |-> "pre_restore", status |-> task[p].preStatus,
              age |-> IF task[p].preStatus = "running" THEN "recent" ELSE "unset",
              from |-> NoId]
        ELSE rs[i]]

\* ... after _mark_stale_active_operations where the restore succeeded.
FinalizeSuccess(p) ==
    /\ pc[p] = "restore_success"
    /\ db = "ready"
    /\ rows' = WrittenBack(MarkError(rows, Active \ {task[p].op, task[p].pre}), p, "success")
    /\ Goto(p, "restore_leave")
    /\ UNCHANGED <<mode, fresh, due, db, diskVars, lock, task, pending, faults>>

\* Any statement of the try block may raise.
RestoreFail(p) ==
    /\ pc[p] \in {"restore_check", "restore_verify", "restore_load", "restore_reassert",
                  "restore_post", "restore_success", "restore_leave"}
    /\ Goto(p, "restore_fail")
    /\ UNCHANGED <<rows, mode, fresh, due, db, diskVars, lock, task, pending, faults>>

FinalizeError(p) ==
    /\ pc[p] = "restore_fail"
    /\ db = "ready"
    /\ rows' = WrittenBack(rows, p, "error")
    /\ Goto(p, "restore_leave_error")
    /\ UNCHANGED <<mode, fresh, due, db, diskVars, lock, task, pending, faults>>

LeaveRestoreMode(p) ==
    /\ pc[p] \in {"restore_leave", "restore_leave_error"}
    /\ db = "ready"
    /\ mode' = "admin_only"
    /\ EndTask(p)
    /\ UNCHANGED <<rows, due, db, diskVars, lock, pending, faults>>

-----------------------------------------------------------------------------
(* Time and faults. *)

\* The heartbeat thread of a scheduler that executes an operation, unless paused.
Beating(s) ==
    pc[s] \in OperationSteps \ {"backup_begin", "restore_begin", "restore_loading"}
    \/ (pc[s] = "backup_begin" /\ Nested(s))

HeartbeatTouch(s) ==
    /\ Beating(s)
    /\ db = "ready"
    /\ ~fresh
    /\ fresh' = TRUE
    /\ UNCHANGED <<rows, mode, due, db, diskVars, procVars, pending, faults>>

\* No one has touched the heartbeat for long; an idle scheduler may be busy with
\* maintenance, for which it has no heartbeat thread.
HeartbeatExpires ==
    /\ fresh
    /\ \A s \in Schedulers : ~Beating(s)
    /\ fresh' = FALSE
    /\ UNCHANGED <<rows, mode, due, db, diskVars, procVars, pending, faults>>

RowAges(i) ==
    /\ rows[i].status = "running"
    /\ rows[i].age = "recent"
    /\ \A p \in Workers : pc[p] \in PromptSteps => i \notin {task[p].op, task[p].pre}
    /\ rows' = [rows EXCEPT ![i].age = "stale"]
    /\ UNCHANGED <<mode, fresh, due, db, diskVars, procVars, pending, faults>>

ScheduleFallsDue ==
    /\ ~due
    /\ due' = TRUE
    /\ UNCHANGED <<rows, mode, fresh, db, diskVars, procVars, pending, faults>>

LoseLock ==
    /\ LockMayBeLost
    /\ lock # NoProc
    /\ lock' = NoProc
    /\ UNCHANGED <<rows, mode, fresh, due, db, diskVars, pc, task, pending, faults>>

\* A process is killed, or stops on SIGTERM between two ticks; a half-loaded
\* database stays half-loaded.
Crash(p) ==
    /\ faults.crash < MaxCrashes
    /\ pc[p] # "down"
    /\ faults' = [faults EXCEPT !.crash = @ + 1]
    /\ pc' = [pc EXCEPT ![p] = "down"]
    /\ task' = [task EXCEPT ![p] = NoTask]
    /\ lock' = IF lock = p THEN NoProc ELSE lock
    /\ db' = IF pc[p] = "restore_loading" THEN "wrecked" ELSE db
    /\ UNCHANGED <<rows, mode, fresh, due, diskVars, pending>>

\* MySQL fails a statement that no except clause covers, or one inside such a
\* clause: the operation ends where it is and the scheduler goes on.
Raise(p) ==
    /\ faults.db < MaxDbErrors
    /\ pc[p] \in BackupSteps \cup {"restore_begin", "restore_mode", "restore_fail",
                                   "restore_leave_error"}
    /\ faults' = [faults EXCEPT !.db = @ + 1]
    /\ IF pc[p] \in BackupSteps /\ Nested(p)
       THEN /\ Goto(p, "restore_fail")
            /\ task' = [task EXCEPT ![p] = [@ EXCEPT !.dump = NoImage, !.name = NoId, !.preStatus =
                           IF pc[p] = "backup_begin" THEN "running" ELSE "error"]]
            /\ UNCHANGED fresh
       ELSE EndTask(p)
    /\ UNCHANGED <<rows, mode, due, db, diskVars, lock, pending>>

-----------------------------------------------------------------------------
Web ==
    \/ StartBackup
    \/ \E b \in Names : StartRestore(b)
    \/ RecoverRestore
    \/ \E m \in PageModes : RequestMode(m)
    \/ ApplyMode
    \/ \E m \in CommandModes : SetMaintenance(m)

SchedulerLoop(s) ==
    SchedulerStart(s) \/ Tick(s) \/ ClaimScheduled(s) \/ ClaimQueued(s)
    \/ ClaimNothing(s) \/ ExitWithoutLock(s)

Commands(c) ==
    CliBackup(c) \/ \E i \in Ids : CliBackupQueued(c, i) \/ CliRestore(c, i)

Operation(p) ==
    \/ BackupBegin(p) \/ BackupDump(p) \/ BackupWriteManifest(p) \/ BackupSucceed(p)
    \/ BackupFail(p)
    \/ RestoreBegin(p) \/ EnterRestoreMode(p) \/ CreatePreRestore(p) \/ RestoreVerify(p)
    \/ LoadBegin(p) \/ LoadEnd(p) \/ LoadFail(p) \/ Reassert(p) \/ PostCommandsAndSwap(p)
    \/ FinalizeSuccess(p) \/ RestoreFail(p) \/ FinalizeError(p) \/ LeaveRestoreMode(p)

Environment ==
    \/ \E s \in Schedulers : HeartbeatTouch(s)
    \/ HeartbeatExpires
    \/ \E i \in Ids : RowAges(i)
    \/ ScheduleFallsDue
    \/ LoseLock
    \/ \E p \in Workers : Crash(p) \/ Raise(p)

Next ==
    \/ Web
    \/ \E s \in Schedulers : SchedulerLoop(s)
    \/ \E c \in Clis : Commands(c)
    \/ \E p \in Workers : Operation(p)
    \/ Environment

Spec == Init /\ [][Next]_vars

\* The container runs run_scheduler and starts it again when it has ended, the
\* loop never stops by itself, an operation goes on or fails, and clocks advance:
\* a heartbeat nobody touches gets old, and so does the start of a running row.
NoSchedulerAlive == \A s \in Schedulers : pc[s] = "down"

Fairness ==
    /\ \A s \in Schedulers : /\ WF_vars(SchedulerStart(s))
                             /\ WF_vars(Tick(s))
                             /\ WF_vars(ClaimScheduled(s) \/ ClaimQueued(s) \/ ClaimNothing(s))
                             /\ WF_vars(ExitWithoutLock(s))
    /\ \A p \in Workers : WF_vars(Operation(p))
    /\ WF_vars(NoSchedulerAlive /\ HeartbeatExpires)
    /\ \A i \in Ids : WF_vars(RowAges(i))

FairSpec == Spec /\ Fairness

\* ... and a MySQL that may drop the session of the lock again and again, but not
\* for ever.
LockKeptAtLast == <>[][~LoseLock]_vars
FairSpecWithLostLocks == FairSpec /\ LockKeptAtLast

\* ... and an administrator who presses the recovery button again and again, and
\* hits any moment that keeps coming back.
FairSpecWithAdministrator == FairSpec /\ SF_vars(RecoverRestore)

-----------------------------------------------------------------------------
(* Properties. *)

ExclusiveIn(rs) ==
    \A i, j \in ActiveIn(rs) :
        rs[i].kind # "pre_restore" /\ rs[j].kind # "pre_restore" => i = j

\* At most one operation is queued or running, the pre-restore backup of a
\* restore apart: what the has_active_operation checks under the lock of the
\* singleton are for.  No interleaving of web handlers, scheduler restarts,
\* recoveries and reloaded databases breaks it, nor the two properties below, as
\* long as the commands are not used and MySQL does not drop the connection of
\* the advisory lock while a scheduler executes an operation.
AtMostOneActive == ExclusiveIn(rows)

\* An operation that has ended is never queued or running again, except that
\* reloading a dump brings back the rows as they were when it was taken.
FinishedStaysFinished ==
    [][\A i \in Ids :
         /\ rows[i].status \in {"success", "error"}
         /\ rows'[i].status \in {"queued", "running"}
         => db = "loading"]_vars

\* Recovery, by an administrator or by another scheduler that starts, never
\* marks as failed the operation that a live scheduler is executing: only a
\* step of that scheduler itself ends the operation or its pre-restore backup.
\* The exceptions are a restore that already failed while the heartbeat was paused, and
\* one that has loaded its dump and not yet written its rows back: what is there under
\* their keys meanwhile are rows of the dump, or younger ones.
RecoverySparesLiveScheduler ==
    [][\A s \in Schedulers : \A i \in Ids \cap {task[s].op, task[s].pre} :
         /\ rows[i].status = "running"
         /\ rows'[i].status = "error"
         /\ pc[s] \notin {"restore_reassert", "restore_post", "restore_success", "restore_fail"}
         => pc'[s] # pc[s]]_vars

\* A request for a backup or a restore is always answered: what is queued is
\* executed, or recovered as an error, or lost with the database it was in.
QueuedOperationsLeaveTheQueue ==
    \A i \in Ids :
        (rows[i].status = "queued" /\ rows[i].kind # "pre_restore" /\ db = "ready")
        ~> (rows[i].status # "queued" \/ db # "ready")

\* However a restore ends, a crash of its scheduler included, the users are not
\* locked out for ever as long as the database is there.
RestoreModeEnds ==
    mode = "restore_running" /\ db = "ready" ~> mode # "restore_running" \/ db # "ready"

\* What app/templates/core/system.html tells the administrator: an operation
\* that a restart of the server interrupted can have its status reset.
InterruptedOperationsCanBeReset ==
    \A i \in Ids :
        (rows[i].status = "running" /\ \A p \in Workers : i \notin {task[p].op, task[p].pre})
        ~> rows[i].status # "running" \/ db # "ready"

\* What core.views.system_maintenance refuses: leaving restore_running by hand.
\* Only the end of the restore, a recovery or a reloaded dump may do it.
NormalModeNotDuringRestore ==
    [][mode = "restore_running" /\ mode' = "normal" => db = "loading"]_vars

=============================================================================
