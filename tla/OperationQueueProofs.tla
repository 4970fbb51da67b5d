------------------------- MODULE OperationQueueProofs -------------------------
(***************************************************************************)
(* What TLAPS proves of OperationQueue, for every number of rows and of    *)
(* scheduler processes.                                                    *)
(***************************************************************************)
EXTENDS OperationOwners, TLAPS

Rows == Tables

\* What TypeOK needs besides itself: a worker that executes an operation knows
\* its row, in the table of its kind, and one that loads a dump knows which.
TaskOK ==
    \A p \in Workers :
        /\ pc[p] \in OperationSteps => task[p].op \in Ids
        /\ pc[p] \in RestoreSteps \/ Nested(p) => task[p].op \in RestoreIds
        /\ pc[p] \in BackupSteps /\ ~Nested(p) => task[p].op \in BackupIds /\ task[p].kind # "restore"
        /\ pc[p] \in {"restore_load", "restore_loading"} => task[p].from \in Names

TypeInv == TypeOK /\ TaskOK

-----------------------------------------------------------------------------
(* Rows.         *)

LEMMA NoIdsOutside == NoId \notin Ids /\ NoId \notin Names /\ Ids \subseteq Nat
BY ConstantsAssumption

LEMMA NoRowType == NoRow \in Row
BY DEF NoRow, Row, Kinds, Statuses, Ages

LEMMA NoImageType == NoImage \in Image
BY NoRowType DEF NoImage, Image, Tables, Modes, NoRow

LEMMA NoTaskType == NoTask \in Task
BY NoImageType DEF NoTask, Task, Kinds, Statuses

LEMMA QueuedRowType ==
    ASSUME NEW kind \in Kinds, NEW from \in Names \cup {NoId}
    PROVE  QueuedRow(kind, from) \in Row
BY DEF QueuedRow, Row, Statuses, Ages

\* A row is put where its kind belongs.
LEMMA PutType ==
    ASSUME NEW rs \in Rows, NEW i \in Ids, NEW row \in Row,
           row.status = "absent" \/ i \in Keys(row.kind)
    PROVE  [rs EXCEPT ![i] = row] \in Rows
BY DEF Rows, Tables

\* A new key is one of its table that has no row.
LEMMA NextKey ==
    ASSUME NEW kind \in Kinds, NEW i \in NextId(kind)
    PROVE  i \in Ids /\ i \in Keys(kind) /\ rows[i].status = "absent"
<1>1. i \in Keys(kind) /\ \A j \in Keys(kind) : rows[j].status # "absent" => j < i
  BY DEF NextId, FreeIds
<1>2. i \in Ids
  BY <1>1 DEF Keys, Ids
<1>3. ~(i < i)
  BY <1>2, NoIdsOutside
<1> QED BY <1>1, <1>2, <1>3

LEMMA NewRowType ==
    ASSUME NEW rs \in Rows, NEW kind \in Kinds, NEW i \in NextId(kind), NEW from \in Names \cup {NoId}
    PROVE  [rs EXCEPT ![i] = QueuedRow(kind, from)] \in Rows
<1>1. QueuedRow(kind, from).kind = kind
  BY DEF QueuedRow
<1> QED BY <1>1, NextKey, QueuedRowType, PutType

LEMMA StartedType ==
    ASSUME NEW row \in Row
    PROVE  /\ Started(row) \in Row
           /\ Started(row).status = "running"
           /\ Started(row).age = "recent"
           /\ Started(row).kind = row.kind
BY DEF Started, Row, Statuses, Ages

LEMMA EndedType ==
    ASSUME NEW row \in Row, NEW status \in Statuses
    PROVE  /\ Ended(row, status) \in Row
           /\ Ended(row, status).status = status
           /\ Ended(row, status).kind = row.kind
BY DEF Ended, Row, Ages

LEMMA MarkErrorType ==
    ASSUME NEW rs \in Rows, NEW marked, \A i \in Ids \cap marked : rs[i].status # "absent"
    PROVE  MarkError(rs, marked) \in Rows
<1>1. ASSUME NEW i \in Ids
      PROVE  /\ MarkError(rs, marked)[i] \in Row
             /\ MarkError(rs, marked)[i].kind = rs[i].kind
  BY EndedType DEF MarkError, Rows, Tables, Statuses
<1>2. ASSUME NEW i \in Ids
      PROVE  MarkError(rs, marked)[i].status = "absent" \/ i \in Keys(rs[i].kind)
  <2>1. CASE i \in marked
    BY <2>1 DEF Rows, Tables
  <2>2. CASE i \notin marked
    BY <2>2 DEF MarkError, Rows, Tables
  <2> QED BY <2>1, <2>2
<1>3. MarkError(rs, marked) \in [Ids -> Row]
  BY <1>1 DEF MarkError
<1> QED BY <1>1, <1>2, <1>3 DEF Rows, Tables

LEMMA WrittenBackType ==
    ASSUME NEW rs \in Rows, NEW p \in Workers, NEW status \in Statuses,
           task \in [Workers -> Task], task[p].op \in RestoreIds
    PROVE  WrittenBack(rs, p, status) \in Rows
<1>1. task[p].from \in Names \cup {NoId} /\ task[p].preStatus \in Statuses
  BY DEF Task
<1>2. ASSUME NEW i \in Ids
      PROVE  /\ WrittenBack(rs, p, status)[i] \in Row
             /\ WrittenBack(rs, p, status)[i].status = "absent"
                \/ i \in Keys(WrittenBack(rs, p, status)[i].kind)
  <2>1. CASE i = task[p].op
    BY <1>1, <2>1 DEF WrittenBack, Row, Kinds, Ages, Keys
  <2>2. CASE i # task[p].op /\ i = task[p].pre
    <3>1. i \in BackupIds
      BY <2>2, NoIdsOutside DEF Task, Ids
    <3>2. QED
      BY <1>1, <2>2, <3>1 DEF WrittenBack, Row, Kinds, Ages, Keys
  <2>3. CASE i # task[p].op /\ i # task[p].pre
    BY <2>3 DEF WrittenBack, Rows, Tables
  <2>4. QED
    BY <2>1, <2>2, <2>3
<1>3. WrittenBack(rs, p, status) \in [Ids -> Row]
  BY <1>2 DEF WrittenBack
<1>4. QED
  BY <1>2, <1>3 DEF Rows, Tables

-----------------------------------------------------------------------------
(* Typing. *)

THEOREM TypeInit == Init => TypeInv
<1>1. SUFFICES ASSUME Init PROVE TypeInv
  OBVIOUS
<1>2. rows \in Rows
  <2>1. rows = NoImage.rows
    BY <1>1 DEF Init, NoImage
  <2>2. QED
    BY <2>1, NoImageType DEF Image, Rows
<1>3. image \in [Names -> Image]
  BY <1>1, NoImageType DEF Init
<1>4. task \in [Workers -> Task]
  BY <1>1, NoTaskType DEF Init
<1>5. pc \in [Workers -> Steps] /\ TaskOK
  BY <1>1 DEF Init, Steps, TaskOK, NoTask, Nested, OperationSteps, BackupSteps, RestoreSteps
<1>6. /\ mode \in Modes /\ faults \in [crash : 0..MaxCrashes, db : 0..MaxDbErrors]
      /\ named \in 0..MaxBackups
  BY <1>1, ConstantsAssumption DEF Init, Modes
<1>7. QED
  BY <1>1, <1>2, <1>3, <1>4, <1>5, <1>6 DEF Init, TypeInv, TypeOK, Rows, Tables

LEMMA WebType == TypeInv /\ Web => TypeInv'
<1>1. SUFFICES ASSUME TypeInv, Web PROVE TypeInv'
  OBVIOUS
<1>2. UNCHANGED <<fresh, due, db, diskVars, procVars, faults>>
  BY <1>1 DEF Web, StartBackup, StartRestore, RecoverRestore, RequestMode, ApplyMode,
              SetMaintenance, diskVars, procVars
<1>3. rows' \in Rows
  <2>0. rows \in Rows
    BY <1>1 DEF TypeInv, TypeOK, Rows
  <2>a. "backup" \in Kinds /\ "restore" \in Kinds
    BY DEF Kinds
  <2>1. CASE StartBackup
    <3>1. PICK i \in NextId("backup") : rows' = [rows EXCEPT ![i] = QueuedRow("backup", NoId)]
      BY <2>1 DEF StartBackup
    <3>2. QED
      BY <2>0, <2>a, <3>1, NewRowType
  <2>2. CASE \E b \in Names : StartRestore(b)
    <3>1. PICK b \in Names : StartRestore(b)
      BY <2>2
    <3>2. PICK i \in NextId("restore") : rows' = [rows EXCEPT ![i] = QueuedRow("restore", b)]
      BY <3>1 DEF StartRestore
    <3>3. QED
      BY <2>0, <2>a, <3>2, NewRowType
  <2>3. CASE RecoverRestore
    <3>1. \A i \in Ids \cap (Queued(Kinds) \cup StaleRunning) : rows[i].status # "absent"
      BY DEF Queued, StaleRunning, Running
    <3>2. QED
      BY <2>0, <2>3, <3>1, MarkErrorType DEF RecoverRestore
  <2>4. CASE UNCHANGED rows
    BY <1>1, <2>4 DEF TypeInv, TypeOK, Rows, Tables
  <2>5. QED
    BY <1>1, <2>1, <2>2, <2>3, <2>4
       DEF Web, RequestMode, ApplyMode, SetMaintenance
<1>4. mode' \in Modes /\ pending' \in {"none", "normal", "admin_only"}
  BY <1>1, ConstantsAssumption
     DEF Web, StartBackup, StartRestore, RecoverRestore, RequestMode, ApplyMode,
         SetMaintenance, TypeInv, TypeOK, Modes
<1>5. QED
  BY <1>1, <1>2, <1>3, <1>4 DEF TypeInv, TypeOK, TaskOK, Nested, Rows, diskVars, procVars

\* Perform gives worker p the row i and makes it run.
LEMMA PerformType ==
    ASSUME TypeInv, NEW p \in Workers, NEW i \in Ids, NEW rs \in Rows, Perform(p, i, rs),
           rs[i].status # "absent"
    PROVE  /\ rows' \in Rows
           /\ task' \in [Workers -> Task]
           /\ pc' \in [Workers -> Steps]
           /\ TaskOK'
<1>1. /\ rs[i] \in Row /\ rs[i].from \in Names \cup {NoId} /\ rs[i].kind \in Kinds
      /\ i \in Keys(rs[i].kind)
  BY DEF Rows, Tables, Row
<1>2. rows' \in Rows
  BY <1>1, StartedType, PutType DEF Perform
<1>3. [NoTask EXCEPT !.op = i, !.kind = rs[i].kind, !.from = rs[i].from] \in Task
  BY <1>1, NoTaskType DEF Task
<1>4. /\ task' \in [Workers -> Task] /\ task'[p].op = i /\ task'[p].pre = NoId
      /\ task'[p].kind = rs[i].kind /\ \A q \in Workers \ {p} : task'[q] = task[q]
  BY <1>3, NoTaskType DEF Perform, TypeInv, TypeOK, Task, NoTask
<1>5. /\ pc' \in [Workers -> Steps]
      /\ pc'[p] = (IF rs[i].kind = "restore" THEN "restore_begin" ELSE "backup_begin")
      /\ \A q \in Workers \ {p} : pc'[q] = pc[q]
  BY DEF Perform, TypeInv, TypeOK, Steps, OperationSteps, BackupSteps, RestoreSteps
<1>6. TaskOK'
  BY <1>1, <1>4, <1>5 DEF TypeInv, TaskOK, Nested, Keys, BackupSteps, RestoreSteps
<1>7. QED
  BY <1>2, <1>4, <1>5, <1>6

LEMMA EndTaskType ==
    ASSUME TypeInv, NEW p \in Workers, EndTask(p)
    PROVE  /\ task' \in [Workers -> Task]
           /\ pc' \in [Workers -> Steps]
           /\ fresh' \in BOOLEAN
           /\ TaskOK'
<1>1. task' \in [Workers -> Task]
  BY NoTaskType DEF EndTask, TypeInv, TypeOK
<1>2. pc' \in [Workers -> Steps] /\ pc'[p] \in {"idle", "down"}
  BY DEF EndTask, TypeInv, TypeOK, Steps
<1>3. TaskOK'
  BY <1>2 DEF EndTask, TypeInv, TypeOK, TaskOK, Nested, NoTask, OperationSteps, BackupSteps,
              RestoreSteps
<1>4. fresh' \in BOOLEAN
  BY DEF EndTask
<1>5. QED
  BY <1>1, <1>2, <1>3, <1>4

LEMMA LoopType ==
    ASSUME TypeInv, NEW s \in Schedulers, SchedulerLoop(s)
    PROVE  TypeInv'
<1>1. s \in Workers
  BY DEF Workers
<1>2. CASE SchedulerStart(s)
  <2>1. rows' \in Rows
    <3>1. \A i \in Ids \cap StaleRunning : rows[i].status # "absent"
      BY DEF StaleRunning, Running
    <3>2. QED
      BY <1>2, <3>1, MarkErrorType DEF SchedulerStart, TypeInv, TypeOK, Rows
  <2>2. pc' \in [Workers -> Steps] /\ TaskOK'
    BY <1>1, <1>2 DEF SchedulerStart, TypeInv, TypeOK, TaskOK, Nested, Steps, OperationSteps,
                      BackupSteps, RestoreSteps
  <2>3. QED
    BY <1>2, <2>1, <2>2 DEF SchedulerStart, TypeInv, TypeOK, Rows, Tables, Modes, diskVars
<1>3. CASE Tick(s) \/ ClaimNothing(s) \/ ExitWithoutLock(s)
  <2>1. pc' \in [Workers -> Steps] /\ TaskOK'
    BY <1>1, <1>3 DEF Tick, ClaimNothing, ExitWithoutLock, TypeInv, TypeOK, TaskOK, Nested, Steps,
                      OperationSteps, BackupSteps, RestoreSteps
  <2>2. UNCHANGED <<rows, mode, due, db, diskVars, lock, task, pending, faults>>
        /\ fresh' \in BOOLEAN
    BY <1>3 DEF Tick, ClaimNothing, ExitWithoutLock, TypeInv, TypeOK
  <2>3. QED
    BY <2>1, <2>2 DEF TypeInv, TypeOK, diskVars
<1>4. CASE ClaimScheduled(s)
  <2>1. PICK i \in NextId("backup") : Perform(s, i, [rows EXCEPT ![i] = QueuedRow("backup", NoId)])
    BY <1>4 DEF ClaimScheduled
  <2>2. /\ i \in Ids /\ [rows EXCEPT ![i] = QueuedRow("backup", NoId)] \in Rows
        /\ [rows EXCEPT ![i] = QueuedRow("backup", NoId)][i].status # "absent"
    <3>1. rows \in Rows /\ "backup" \in Kinds
      BY DEF TypeInv, TypeOK, Rows, Kinds
    <3>2. i \in Ids /\ [rows EXCEPT ![i] = QueuedRow("backup", NoId)] \in Rows
      BY <3>1, NextKey, NewRowType
    <3>3. QED
      BY <3>1, <3>2 DEF Rows, Tables, QueuedRow
  <2>3. rows' \in Rows /\ task' \in [Workers -> Task] /\ pc' \in [Workers -> Steps] /\ TaskOK'
    BY <1>1, <2>1, <2>2, PerformType
  <2>4. QED
    BY <1>4, <2>3 DEF ClaimScheduled, TypeInv, TypeOK, Rows, Tables, diskVars
<1>5. CASE ClaimQueued(s)
  <2>1. PICK i \in Ids : Perform(s, i, rows) /\ rows[i].status = "queued"
    BY <1>5 DEF ClaimQueued, Queued
  <2>2. rows' \in Rows /\ task' \in [Workers -> Task] /\ pc' \in [Workers -> Steps] /\ TaskOK'
    BY <1>1, <2>1, PerformType DEF TypeInv, TypeOK, Rows, Tables
  <2>3. QED
    BY <1>5, <2>2 DEF ClaimQueued, TypeInv, TypeOK, Rows, Tables, diskVars
<1>6. QED
  BY <1>2, <1>3, <1>4, <1>5 DEF SchedulerLoop

LEMMA CommandsType ==
    ASSUME TypeInv, NEW c \in Clis, Commands(c)
    PROVE  TypeInv'
<1>1. c \in Workers
  BY DEF Workers
<1>2. CASE CliBackup(c)
  <2>1. PICK i \in NextId("backup") : Perform(c, i, [rows EXCEPT ![i] = QueuedRow("backup", NoId)])
    BY <1>2 DEF CliBackup
  <2>2. /\ i \in Ids /\ [rows EXCEPT ![i] = QueuedRow("backup", NoId)] \in Rows
        /\ [rows EXCEPT ![i] = QueuedRow("backup", NoId)][i].status # "absent"
    <3>1. rows \in Rows /\ "backup" \in Kinds
      BY DEF TypeInv, TypeOK, Rows, Kinds
    <3>2. i \in Ids /\ [rows EXCEPT ![i] = QueuedRow("backup", NoId)] \in Rows
      BY <3>1, NextKey, NewRowType
    <3>3. QED
      BY <3>1, <3>2 DEF Rows, Tables, QueuedRow
  <2>3. rows' \in Rows /\ task' \in [Workers -> Task] /\ pc' \in [Workers -> Steps] /\ TaskOK'
    BY <1>1, <2>1, <2>2, PerformType
  <2>4. QED
    BY <1>2, <2>3 DEF CliBackup, TypeInv, TypeOK, Rows, Tables, diskVars
<1>3. ASSUME NEW i \in Ids, CliBackupQueued(c, i)
      PROVE  TypeInv'
  <2>1. rows' \in Rows /\ task' \in [Workers -> Task] /\ pc' \in [Workers -> Steps] /\ TaskOK'
    BY <1>1, <1>3, PerformType DEF CliBackupQueued, Queued, TypeInv, TypeOK, Rows
  <2>2. QED
    BY <1>3, <2>1 DEF CliBackupQueued, TypeInv, TypeOK, Rows, Tables, diskVars
<1>4. ASSUME NEW i \in Ids, CliRestore(c, i)
      PROVE  TypeInv'
  <2>1. rows' \in Rows /\ rows[i].from \in Names \cup {NoId}
    <3>1. rows \in Rows /\ rows[i] \in Row /\ [rows[i] EXCEPT !.status = "running"] \in Row
      BY DEF TypeInv, TypeOK, Rows, Tables, Row, Statuses
    <3>2. i \in Keys(rows[i].kind)
      BY <1>4, <3>1 DEF CliRestore, Queued, Rows, Tables
    <3>3. rows' = [rows EXCEPT ![i] = [rows[i] EXCEPT !.status = "running"]]
      BY <1>4 DEF CliRestore
    <3>4. [rows[i] EXCEPT !.status = "running"].kind = rows[i].kind
      BY <3>1 DEF Row
    <3>5. QED
      BY <3>1, <3>2, <3>3, <3>4, PutType DEF Row
  <2>2. [NoTask EXCEPT !.op = i, !.kind = "restore", !.from = rows[i].from] \in Task
    BY <2>1, NoTaskType DEF Task, Kinds
  <2>3. /\ task' \in [Workers -> Task] /\ task'[c].op = i /\ task'[c].pre = NoId
        /\ \A q \in Workers \ {c} : task'[q] = task[q]
    BY <1>1, <1>4, <2>2, NoTaskType DEF CliRestore, TypeInv, TypeOK, Task, NoTask
  <2>4. /\ pc' \in [Workers -> Steps] /\ pc'[c] = "restore_begin"
        /\ \A q \in Workers \ {c} : pc'[q] = pc[q]
    BY <1>1, <1>4 DEF CliRestore, TypeInv, TypeOK, Steps, OperationSteps, RestoreSteps
  <2>5. TaskOK'
    <3>1. i \in RestoreIds
      BY <1>4 DEF CliRestore, Queued, TypeInv, TypeOK, Tables, Keys
    <3>2. QED
      BY <2>3, <2>4, <3>1 DEF TypeInv, TaskOK, Nested, BackupSteps, RestoreSteps
  <2>6. QED
    BY <1>4, <2>1, <2>3, <2>4, <2>5 DEF CliRestore, TypeInv, TypeOK, Rows, Tables, diskVars
<1>5. QED
  BY <1>2, <1>3, <1>4 DEF Commands

LEMMA JobType ==
    ASSUME TypeInv, NEW p \in Workers, pc[p] \in BackupSteps
    PROVE  Job(p) \in BackupIds /\ Job(p) \in Ids
<1>1. Job(p) \in BackupIds
  BY DEF TypeInv, TypeOK, TaskOK, Job, Nested, Task
<1> QED BY <1>1 DEF Ids

\* What names the operation of each worker and its table.
SameTask == \A q \in Workers : /\ task'[q].op = task[q].op /\ task'[q].kind = task[q].kind
                               /\ task'[q].from = task[q].from /\ task'[q].pre = task[q].pre

\* A worker goes on with its operation.
LEMMA GoOnType ==
    ASSUME TypeInv, NEW p \in Workers, NEW step \in OperationSteps, Goto(p, step), SameTask,
           pc[p] \in OperationSteps,
           step \in BackupSteps => pc[p] \in BackupSteps,
           step \in RestoreSteps => pc[p] \in RestoreSteps \/ Nested(p),
           step \in {"restore_load", "restore_loading"} => task[p].from \in Names
    PROVE  pc' \in [Workers -> Steps] /\ TaskOK'
<1>1. /\ pc' \in [Workers -> Steps] /\ pc'[p] = step /\ \A q \in Workers \ {p} : pc'[q] = pc[q]
      /\ \A q \in Workers : Nested(q)' = Nested(q)
  BY DEF Goto, SameTask, Nested, TypeInv, TypeOK, Steps
<1>2. ASSUME NEW q \in Workers
      PROVE  /\ pc'[q] \in OperationSteps => task'[q].op \in Ids
             /\ pc'[q] \in RestoreSteps \/ Nested(q)' => task'[q].op \in RestoreIds
             /\ pc'[q] \in BackupSteps /\ ~Nested(q)'
                => task'[q].op \in BackupIds /\ task'[q].kind # "restore"
             /\ pc'[q] \in {"restore_load", "restore_loading"} => task'[q].from \in Names
  <2>1. CASE q = p
    BY <1>1, <2>1 DEF SameTask, TypeInv, TaskOK
  <2>2. CASE q # p
    BY <1>1, <2>2 DEF SameTask, TypeInv, TaskOK
  <2> QED BY <2>1, <2>2
<1> QED BY <1>1, <1>2 DEF TaskOK

LEMMA BackupType ==
    ASSUME TypeInv, NEW p \in Workers,
           BackupBegin(p) \/ BackupDump(p) \/ BackupWriteManifest(p) \/ BackupSucceed(p)
           \/ BackupFail(p)
    PROVE  TypeInv'
<1>1. Job(p) \in Ids /\ Job(p) \in BackupIds
  BY JobType DEF BackupBegin, BackupDump, BackupWriteManifest, BackupSucceed, BackupFail,
                 BackupSteps
<1>a. rows \in Rows /\ rows[Job(p)] \in Row
      /\ (rows[Job(p)].status # "absent" => Job(p) \in Keys(rows[Job(p)].kind))
  BY <1>1 DEF TypeInv, TypeOK, Rows, Tables
<1>2. CASE BackupBegin(p)
  <2>1. rows' \in Rows
    BY <1>1, <1>a, <1>2, StartedType, PutType DEF BackupBegin
  <2>2. /\ task' \in [Workers -> Task]
        /\ pc' \in [Workers -> Steps]
        /\ fresh' \in BOOLEAN
        /\ TaskOK'
    <3>1. CASE EndTask(p)
      BY <3>1, EndTaskType
    <3>2. CASE /\ Goto(p, "backup_dump")
               /\ fresh' = Touched(p)
               /\ UNCHANGED task
      <4>1. SameTask /\ task' \in [Workers -> Task] /\ fresh' \in BOOLEAN
        BY <3>2 DEF SameTask, Touched, TypeInv, TypeOK
      <4>2. QED
        BY <1>2, <3>2, <4>1, GoOnType DEF BackupBegin, OperationSteps, BackupSteps, RestoreSteps
    <3>3. CASE /\ Goto(p, "restore_fail")
               /\ task' = [task EXCEPT ![p].preStatus = "running"]
               /\ UNCHANGED fresh
               /\ Nested(p)
      <4>1. SameTask /\ task' \in [Workers -> Task] /\ fresh' \in BOOLEAN
        BY <3>3 DEF SameTask, TypeInv, TypeOK, Task, Statuses
      <4>2. QED
        BY <1>2, <3>3, <4>1, GoOnType DEF BackupBegin, OperationSteps, BackupSteps, RestoreSteps
    <3>4. QED
      BY <1>2, <3>1, <3>2, <3>3 DEF BackupBegin
  <2>3. QED
    BY <1>2, <2>1, <2>2 DEF BackupBegin, TypeInv, TypeOK, Rows, Tables, diskVars
<1>3. CASE BackupDump(p)
  <2>1. [rows |-> rows, mode |-> mode] \in Image
    BY DEF TypeInv, TypeOK, Image
  <2>2. task' \in [Workers -> Task]
    BY <1>3, <2>1 DEF BackupDump, TypeInv, TypeOK, Task
  <2>a. SameTask
    BY <1>3 DEF BackupDump, SameTask, TypeInv, TypeOK, Task
  <2>3. pc' \in [Workers -> Steps] /\ TaskOK'
    BY <1>3, <2>a, GoOnType DEF BackupDump, OperationSteps, BackupSteps, RestoreSteps
  <2>4. QED
    BY <1>3, <2>2, <2>3 DEF BackupDump, TypeInv, TypeOK, diskVars
<1>4. CASE BackupWriteManifest(p)
  <2>1. task[p].dump \in Image
    BY DEF TypeInv, TypeOK, Task
  <2>a. named \in Nat /\ named' = named + 1 /\ named' \in Names /\ named' \in 0..MaxBackups
    BY <1>4, ConstantsAssumption DEF BackupWriteManifest, TypeInv, TypeOK, Names
  <2>2. onDisk' \in SUBSET Names /\ image' \in [Names -> Image]
    BY <1>4, <2>1, <2>a DEF BackupWriteManifest, TypeInv, TypeOK
  <2>b. [task[p] EXCEPT !.dump = NoImage, !.name = named'] \in Task
    BY <2>a, NoImageType DEF TypeInv, TypeOK, Task
  <2>3. task' \in [Workers -> Task] /\ SameTask
    BY <1>4, <2>b DEF BackupWriteManifest, SameTask, TypeInv, TypeOK, Task
  <2>4. pc' \in [Workers -> Steps] /\ TaskOK'
    BY <1>4, <2>3, GoOnType DEF BackupWriteManifest, OperationSteps, BackupSteps, RestoreSteps
  <2>5. QED
    BY <1>4, <2>a, <2>2, <2>3, <2>4 DEF BackupWriteManifest, TypeInv, TypeOK
<1>5. CASE BackupSucceed(p)
  <2>1. rows' \in Rows
    <3> DEFINE kind == IF Nested(p) THEN "pre_restore" ELSE task[p].kind
               row == [kind |-> kind, status |-> "success", age |-> "unset", from |-> NoId]
    <3>1. kind \in Kinds /\ kind # "restore"
      BY <1>5 DEF BackupSucceed, TypeInv, TypeOK, TaskOK, Task, Kinds, BackupSteps
    <3>2. row \in Row /\ Job(p) \in Keys(row.kind)
      BY <1>1, <3>1 DEF Row, Statuses, Ages, Keys
    <3>3. rows' = [rows EXCEPT ![Job(p)] = row]
      BY <1>5 DEF BackupSucceed
    <3> HIDE DEF row
    <3>4. QED
      BY <1>1, <1>a, <3>2, <3>3, PutType
  <2>2. /\ task' \in [Workers -> Task]
        /\ pc' \in [Workers -> Steps]
        /\ fresh' \in BOOLEAN
        /\ TaskOK'
    <3>1. CASE EndTask(p)
      BY <3>1, EndTaskType
    <3>2. CASE /\ Goto(p, "restore_verify")
               /\ task' = [task EXCEPT ![p] = [@ EXCEPT !.preStatus = "success", !.name = NoId]]
               /\ UNCHANGED fresh
               /\ Nested(p)
      <4>1. [task[p] EXCEPT !.preStatus = "success", !.name = NoId] \in Task
        BY DEF TypeInv, TypeOK, Task, Statuses
      <4>2. SameTask /\ task' \in [Workers -> Task] /\ fresh' \in BOOLEAN
        BY <3>2, <4>1 DEF SameTask, TypeInv, TypeOK, Task
      <4>3. QED
        BY <1>5, <3>2, <4>2, GoOnType DEF BackupSucceed, OperationSteps, BackupSteps, RestoreSteps
    <3>3. QED
      BY <1>5, <3>1, <3>2 DEF BackupSucceed
  <2>3. QED
    BY <1>5, <2>1, <2>2 DEF BackupSucceed, TypeInv, TypeOK, Rows, Tables, diskVars
<1>6. CASE BackupFail(p)
  <2>1. rows' \in Rows
    <3>1. CASE rows' = [rows EXCEPT ![Job(p)] = Ended(rows[Job(p)], "error")]
               /\ rows[Job(p)].status # "absent"
      BY <1>1, <1>a, <3>1, EndedType, PutType DEF Statuses
    <3>2. CASE rows' = rows
      BY <1>a, <3>2
    <3>3. QED
      BY <1>6, <3>1, <3>2 DEF BackupFail
  <2>a. onDisk' \in SUBSET Names /\ image' \in [Names -> Image]
    BY <1>6, NoImageType DEF BackupFail, TypeInv, TypeOK
  <2>2. /\ task' \in [Workers -> Task]
        /\ pc' \in [Workers -> Steps]
        /\ fresh' \in BOOLEAN
        /\ TaskOK'
    <3>1. CASE EndTask(p)
      BY <3>1, EndTaskType
    <3>2. CASE /\ Goto(p, "restore_fail")
               /\ task' = [task EXCEPT ![p] =
                            [@ EXCEPT !.preStatus = "error", !.dump = NoImage, !.name = NoId]]
               /\ UNCHANGED fresh
               /\ Nested(p)
      <4>a. [task[p] EXCEPT !.preStatus = "error", !.dump = NoImage, !.name = NoId] \in Task
        BY NoImageType DEF TypeInv, TypeOK, Task, Statuses
      <4>1. SameTask /\ task' \in [Workers -> Task]
        BY <3>2, <4>a DEF SameTask, TypeInv, TypeOK, Task
      <4>2. pc' \in [Workers -> Steps] /\ TaskOK'
        BY <1>6, <3>2, <4>1, GoOnType DEF BackupFail, OperationSteps, BackupSteps, RestoreSteps
      <4>3. QED
        BY <3>2, <4>1, <4>2 DEF TypeInv, TypeOK
    <3>3. QED
      BY <1>6, <3>1, <3>2 DEF BackupFail
  <2>3. QED
    BY <1>6, <2>1, <2>a, <2>2 DEF BackupFail, TypeInv, TypeOK, Rows
<1>7. QED
  BY <1>2, <1>3, <1>4, <1>5, <1>6

\* Steps of restore_backup that change at most the mode, the mode of the database
\* and their own place.
Passing(p) ==
    EnterRestoreMode(p) \/ RestoreVerify(p) \/ LoadBegin(p) \/ Reassert(p)
    \/ PostCommandsAndSwap(p) \/ RestoreFail(p)

LEMMA RestoreType ==
    ASSUME TypeInv, NEW p \in Workers,
           \/ Passing(p) \/ RestoreBegin(p) \/ CreatePreRestore(p) \/ LoadEnd(p)
           \/ LoadFail(p) \/ FinalizeSuccess(p) \/ FinalizeError(p) \/ LeaveRestoreMode(p)
    PROVE  TypeInv'
<1>1. CASE Passing(p)
  <2>1. pc' \in [Workers -> Steps] /\ TaskOK'
    <3>1. SameTask /\ task' \in [Workers -> Task]
      BY <1>1 DEF Passing, EnterRestoreMode, RestoreVerify, LoadBegin, Reassert,
                  PostCommandsAndSwap, RestoreFail, SameTask, TypeInv, TypeOK
    <3>2. task[p].from \in onDisk \/ pc[p] \in {"restore_load", "restore_loading"}
          => task[p].from \in Names
      BY DEF TypeInv, TypeOK, TaskOK
    <3>3. QED
      BY <1>1, <3>1, <3>2, GoOnType
         DEF Passing, EnterRestoreMode, RestoreVerify, LoadBegin, Reassert,
             PostCommandsAndSwap, RestoreFail, OperationSteps, BackupSteps, RestoreSteps
  <2>2. /\ UNCHANGED <<rows, fresh, due, diskVars, lock, task, pending, faults>>
        /\ mode' \in Modes
        /\ db' \in {"ready", "loading", "wrecked"}
    BY <1>1 DEF Passing, EnterRestoreMode, RestoreVerify, LoadBegin, Reassert,
                PostCommandsAndSwap, RestoreFail, TypeInv, TypeOK, Modes
  <2>3. QED
    BY <2>1, <2>2 DEF TypeInv, TypeOK, diskVars
<1>2. CASE RestoreBegin(p)
  <2>1. task[p].op \in Ids
    BY <1>2 DEF RestoreBegin, TypeInv, TaskOK, OperationSteps, RestoreSteps
  <2>2. rows' \in Rows
    <3>1. rows \in Rows /\ rows[task[p].op] \in Row
          /\ (rows[task[p].op].status # "absent" => task[p].op \in Keys(rows[task[p].op].kind))
      BY <2>1 DEF TypeInv, TypeOK, Rows, Tables
    <3>2. QED
      BY <1>2, <2>1, <3>1, StartedType, PutType DEF RestoreBegin
  <2>3. /\ task' \in [Workers -> Task]
        /\ pc' \in [Workers -> Steps]
        /\ fresh' \in BOOLEAN
        /\ TaskOK'
    <3>1. CASE EndTask(p)
      BY <3>1, EndTaskType
    <3>2. CASE Goto(p, "restore_mode") /\ fresh' = Touched(p) /\ UNCHANGED task
      <4>1. SameTask /\ task' \in [Workers -> Task] /\ fresh' \in BOOLEAN
        BY <3>2 DEF SameTask, Touched, TypeInv, TypeOK
      <4>2. QED
        BY <1>2, <3>2, <4>1, GoOnType DEF RestoreBegin, OperationSteps, BackupSteps, RestoreSteps
    <3>3. QED
      BY <1>2, <3>1, <3>2 DEF RestoreBegin
  <2>4. QED
    BY <1>2, <2>2, <2>3 DEF RestoreBegin, TypeInv, TypeOK, Rows, Tables, diskVars
<1>3. CASE CreatePreRestore(p)
  <2>1. PICK i \in NextId("pre_restore") :
          /\ rows' = [rows EXCEPT ![i] = QueuedRow("pre_restore", NoId)]
          /\ task' = [task EXCEPT ![p] = [@ EXCEPT !.pre = i, !.preStatus = "queued"]]
    BY <1>3 DEF CreatePreRestore
  <2>a. rows \in Rows /\ "pre_restore" \in Kinds
    BY DEF TypeInv, TypeOK, Rows, Kinds
  <2>2. i \in BackupIds
    BY <2>a, NextKey DEF Keys
  <2>3. rows' \in Rows
    BY <2>1, <2>a, NewRowType
  <2>b. [task[p] EXCEPT !.pre = i, !.preStatus = "queued"] \in Task
    BY <2>2 DEF TypeInv, TypeOK, Task, Statuses
  <2>4. /\ task' \in [Workers -> Task]
        /\ task'[p].op = task[p].op /\ task'[p].pre = i
        /\ \A q \in Workers \ {p} : task'[q] = task[q]
    BY <2>1, <2>b DEF TypeInv, TypeOK, Task
  <2>5. /\ pc' \in [Workers -> Steps] /\ pc'[p] = "backup_begin"
        /\ \A q \in Workers \ {p} : pc'[q] = pc[q]
    BY <1>3 DEF CreatePreRestore, Goto, TypeInv, TypeOK, Steps, OperationSteps, BackupSteps
  <2>c. TaskOK'
    <3>1. i # NoId /\ task[p].op \in RestoreIds /\ task[p].op \in Ids
      BY <1>3, <2>2, NoIdsOutside DEF CreatePreRestore, TypeInv, TaskOK, RestoreSteps, Ids
    <3>2. QED
      BY <2>4, <2>5, <3>1 DEF TypeInv, TaskOK, Nested, BackupSteps, RestoreSteps
  <2>6. QED
    BY <1>3, <2>3, <2>4, <2>5, <2>c DEF CreatePreRestore, TypeInv, TypeOK, Rows, diskVars
<1>4. CASE LoadEnd(p)
  <2>1. task[p].from \in Names
    BY <1>4 DEF LoadEnd, TypeInv, TaskOK
  <2>2. image[task[p].from].rows \in Rows /\ image[task[p].from].mode \in Modes
    BY <2>1 DEF TypeInv, TypeOK, Image, Rows
  <2>a. SameTask
    BY <1>4 DEF LoadEnd, SameTask
  <2>3. pc' \in [Workers -> Steps] /\ TaskOK'
    BY <1>4, <2>a, GoOnType DEF LoadEnd, OperationSteps, BackupSteps, RestoreSteps
  <2>4. QED
    BY <1>4, <2>2, <2>3 DEF LoadEnd, TypeInv, TypeOK, Rows, diskVars
<1>5. CASE LoadFail(p)
  <2>1. /\ task' \in [Workers -> Task]
        /\ pc' \in [Workers -> Steps]
        /\ fresh' \in BOOLEAN
        /\ TaskOK'
    <3>1. CASE EndTask(p)
      BY <3>1, EndTaskType
    <3>2. CASE Goto(p, "restore_fail") /\ UNCHANGED <<task, fresh>>
      <4>1. SameTask /\ task' \in [Workers -> Task] /\ fresh' \in BOOLEAN
        BY <3>2 DEF SameTask, TypeInv, TypeOK
      <4>2. QED
        BY <1>5, <3>2, <4>1, GoOnType DEF LoadFail, OperationSteps, BackupSteps, RestoreSteps
    <3>3. QED
      BY <1>5, <3>1, <3>2 DEF LoadFail
  <2>2. QED
    BY <1>5, <2>1 DEF LoadFail, TypeInv, TypeOK, diskVars
<1>6. CASE FinalizeSuccess(p) \/ FinalizeError(p)
  <2>1. rows' \in Rows
    <3>1. /\ rows \in Rows
          /\ task \in [Workers -> Task]
          /\ "success" \in Statuses /\ "error" \in Statuses
      BY DEF TypeInv, TypeOK, Rows, Statuses
    <3>a. task[p].op \in RestoreIds
      BY <1>6 DEF FinalizeSuccess, FinalizeError, TypeInv, TaskOK, RestoreSteps
    <3>2. CASE FinalizeSuccess(p)
      <4>1. MarkError(rows, Active \ {task[p].op, task[p].pre}) \in Rows
        BY <3>1, MarkErrorType DEF Active, ActiveIn
      <4>2. QED
        BY <3>1, <3>2, <3>a, <4>1, WrittenBackType DEF FinalizeSuccess
    <3>3. CASE FinalizeError(p)
      BY <3>1, <3>3, <3>a, WrittenBackType DEF FinalizeError
    <3>4. QED
      BY <1>6, <3>2, <3>3
  <2>2. pc' \in [Workers -> Steps] /\ TaskOK'
    <3>1. SameTask
      BY <1>6 DEF FinalizeSuccess, FinalizeError, SameTask
    <3>2. QED
      BY <1>6, <3>1, GoOnType DEF FinalizeSuccess, FinalizeError, OperationSteps, BackupSteps,
                                  RestoreSteps
  <2>3. QED
    BY <1>6, <2>1, <2>2 DEF FinalizeSuccess, FinalizeError, TypeInv, TypeOK, Rows, diskVars
<1>7. CASE LeaveRestoreMode(p)
  <2>1. EndTask(p) /\ mode' \in Modes
    BY <1>7 DEF LeaveRestoreMode, Modes
  <2>2. QED
    BY <1>7, <2>1, EndTaskType DEF LeaveRestoreMode, TypeInv, TypeOK, diskVars
<1>8. QED
  BY <1>1, <1>2, <1>3, <1>4, <1>5, <1>6, <1>7

LEMMA EnvironmentType == TypeInv /\ Environment => TypeInv'
<1>1. SUFFICES ASSUME TypeInv, Environment PROVE TypeInv'
  OBVIOUS
<1>2. CASE HeartbeatExpires \/ ScheduleFallsDue \/ LoseLock
           \/ \E s \in Schedulers : HeartbeatTouch(s)
  BY <1>1, <1>2 DEF HeartbeatExpires, ScheduleFallsDue, LoseLock, HeartbeatTouch, TypeInv,
                    TypeOK, TaskOK, Nested, diskVars, procVars
<1>3. ASSUME NEW i \in Ids, RowAges(i)
      PROVE  TypeInv'
  <2>1. rows' \in Rows
    <3>1. rows \in Rows /\ rows[i] \in Row /\ i \in Keys(rows[i].kind)
      BY <1>1, <1>3 DEF RowAges, TypeInv, TypeOK, Rows, Tables
    <3>2. /\ [rows[i] EXCEPT !.age = "stale"] \in Row
          /\ [rows[i] EXCEPT !.age = "stale"].kind = rows[i].kind
      BY <3>1 DEF Row, Ages
    <3>3. rows' = [rows EXCEPT ![i] = [rows[i] EXCEPT !.age = "stale"]]
      BY <1>3 DEF RowAges
    <3>4. QED
      BY <3>1, <3>2, <3>3, PutType
  <2>2. QED
    BY <1>1, <1>3, <2>1 DEF RowAges, TypeInv, TypeOK, TaskOK, Nested, Rows, diskVars, procVars
<1>4. ASSUME NEW p \in Workers, Crash(p)
      PROVE  TypeInv'
  <2>1. task' \in [Workers -> Task]
    BY <1>1, <1>4, NoTaskType DEF Crash, TypeInv, TypeOK
  <2>2. pc' \in [Workers -> Steps] /\ TaskOK'
    BY <1>1, <1>4 DEF Crash, TypeInv, TypeOK, TaskOK, NoTask, Nested, Steps, OperationSteps,
                      BackupSteps, RestoreSteps
  <2>3. faults' \in [crash : 0..MaxCrashes, db : 0..MaxDbErrors]
    BY <1>1, <1>4, ConstantsAssumption DEF Crash, TypeInv, TypeOK
  <2>4. QED
    BY <1>1, <1>4, <2>1, <2>2, <2>3 DEF Crash, TypeInv, TypeOK, diskVars
<1>5. ASSUME NEW p \in Workers, Raise(p)
      PROVE  TypeInv'
  <2>1. faults' \in [crash : 0..MaxCrashes, db : 0..MaxDbErrors]
    BY <1>1, <1>5, ConstantsAssumption DEF Raise, TypeInv, TypeOK
  <2>2. /\ task' \in [Workers -> Task]
        /\ pc' \in [Workers -> Steps]
        /\ fresh' \in BOOLEAN
        /\ TaskOK'
    <3>1. CASE EndTask(p)
      BY <1>1, <3>1, EndTaskType
    <3>2. CASE pc[p] \in BackupSteps /\ Nested(p)
      <4> DEFINE status == IF pc[p] = "backup_begin" THEN "running" ELSE "error"
                 new == [task[p] EXCEPT !.dump = NoImage, !.name = NoId, !.preStatus = status]
      <4>a. status \in Statuses
        BY DEF Statuses
      <4>b. /\ new \in Task /\ new.op = task[p].op /\ new.from = task[p].from
            /\ new.kind = task[p].kind /\ new.pre = task[p].pre
        <5>1. task[p] \in Task
          BY <1>1, <1>5 DEF TypeInv, TypeOK
        <5>2. QED
          BY <4>a, <5>1, NoImageType DEF Task
      <4>c. task' = [task EXCEPT ![p] = new]
        BY <1>5, <3>2 DEF Raise
      <4>1. task' \in [Workers -> Task] /\ SameTask
        BY <1>1, <1>5, <4>b, <4>c DEF SameTask, TypeInv, TypeOK
      <4>2. pc' \in [Workers -> Steps] /\ TaskOK'
        BY <1>1, <1>5, <3>2, <4>1, GoOnType DEF Raise, OperationSteps, BackupSteps, RestoreSteps
      <4>3. QED
        BY <1>1, <1>5, <3>2, <4>1, <4>2 DEF Raise, TypeInv, TypeOK
    <3>3. QED
      BY <1>5, <3>1, <3>2 DEF Raise
  <2>3. QED
    BY <1>1, <1>5, <2>1, <2>2 DEF Raise, TypeInv, TypeOK, diskVars
<1>6. QED
  BY <1>1, <1>2, <1>3, <1>4, <1>5 DEF Environment

LEMMA TypeStep == TypeInv /\ [Next]_vars => TypeInv'
<1>1. SUFFICES ASSUME TypeInv, [Next]_vars PROVE TypeInv'
  OBVIOUS
<1>2. CASE UNCHANGED vars
  BY <1>1, <1>2 DEF vars, TypeInv, TypeOK, TaskOK, Nested
<1>3. CASE \E p \in Workers : Operation(p)
  BY <1>1, <1>3, BackupType, RestoreType DEF Operation, Passing
<1>4. QED
  BY <1>1, <1>2, <1>3, WebType, LoopType, CommandsType, EnvironmentType DEF Next

\* The variables keep their types, whatever crashes, is lost or is reloaded.
THEOREM Typing == Spec => []TypeOK
<1>1. TypeInv => TypeOK
  BY DEF TypeInv
<1>2. QED
  BY <1>1, TypeInit, TypeStep, PTL DEF Spec


-----------------------------------------------------------------------------
(* Exclusion.  AtMostOneActive is not inductive: a reloaded dump must be   *)
(* exclusive too, and so must the dump a worker still has in its hands;    *)
(* the first save of an operation must find the row it was claimed with,   *)
(* or it would make an operation that has ended active again.  That        *)
(* nothing comes between a claim and this save is the work of the lock.    *)

\* Only the process that holds the advisory lock is up.
OnlyLockHolderUp == \A s \in Schedulers : pc[s] # "down" => lock = s

ExclusiveImages == \A b \in Names : ExclusiveIn(image[b].rows)

ExclusiveDumps == \A s \in Schedulers : ExclusiveIn(task[s].dump.rows)

\* A row that is claimed and not yet saved by its worker is still as claimed.
ClaimHolds ==
    \A s \in Schedulers :
        pc[s] = "restore_begin" \/ (pc[s] = "backup_begin" /\ ~Nested(s))
        => rows[task[s].op].status = "running" /\ rows[task[s].op].age = "recent"

PreRestoreHolds ==
    \A s \in Schedulers :
        pc[s] = "backup_begin" /\ Nested(s)
        => /\ rows[task[s].pre].kind = "pre_restore"
           /\ rows[task[s].pre].status # "absent"

ExclusionInv ==
    /\ TypeInv
    /\ OnlyLockHolderUp
    /\ AtMostOneActive
    /\ ExclusiveImages
    /\ ExclusiveDumps
    /\ ClaimHolds
    /\ PreRestoreHolds

\* rs2 has no active operation that rs does not have.
NoneAdded(rs, rs2) ==
    \A i \in ActiveIn(rs2) :
        rs2[i].kind = "pre_restore" \/ (i \in ActiveIn(rs) /\ rs2[i].kind = rs[i].kind)

LEMMA NoneAddedExclusive ==
    ASSUME NEW rs, NEW rs2, ExclusiveIn(rs), NoneAdded(rs, rs2)
    PROVE  ExclusiveIn(rs2)
BY DEF ExclusiveIn, NoneAdded

LEMMA FirstExclusive ==
    ASSUME NEW rs \in Rows, ActiveIn(rs) = {}, NEW i \in Ids, NEW row
    PROVE  ExclusiveIn([rs EXCEPT ![i] = row])
BY DEF ExclusiveIn, ActiveIn, Rows, Tables

\* Saving a row of the same kind that was active, or one that is not, adds nothing.
LEMMA SaveAddsNone ==
    ASSUME NEW rs \in Rows, NEW i \in Ids, NEW row \in Row,
           \/ row.kind = "pre_restore"
           \/ row.status \notin {"queued", "running"}
           \/ i \in ActiveIn(rs) /\ row.kind = rs[i].kind
    PROVE  NoneAdded(rs, [rs EXCEPT ![i] = row])
BY DEF NoneAdded, ActiveIn, Rows, Tables

LEMMA MarkedRow ==
    ASSUME NEW rs \in Rows, NEW marked, NEW i \in Ids
    PROVE  /\ MarkError(rs, marked)[i].kind = rs[i].kind
           /\ i \in marked => MarkError(rs, marked)[i].status = "error"
           /\ i \notin marked => MarkError(rs, marked)[i] = rs[i]
<1>1. MarkError(rs, marked)[i] = IF i \in marked THEN Ended(rs[i], "error") ELSE rs[i]
  BY DEF MarkError
<1>2. Ended(rs[i], "error").status = "error" /\ Ended(rs[i], "error").kind = rs[i].kind
  BY EndedType DEF Rows, Tables, Statuses
<1>3. QED
  BY <1>1, <1>2

LEMMA MarkErrorAddsNone ==
    ASSUME NEW rs \in Rows, NEW marked
    PROVE  NoneAdded(rs, MarkError(rs, marked))
BY MarkedRow DEF NoneAdded, ActiveIn

LEMMA WrittenBackAddsNone ==
    ASSUME NEW rs \in Rows, NEW p \in Workers, NEW status \in {"success", "error"}
    PROVE  NoneAdded(rs, WrittenBack(rs, p, status))
BY DEF NoneAdded, ActiveIn, WrittenBack

LEMMA NothingExclusive == ExclusiveIn(NoImage.rows)
BY DEF ExclusiveIn, ActiveIn, NoImage, NoRow

\* No commands, and no connection with a lock is dropped.
NoOverlap == Clis = {} /\ LockMayBeLost = FALSE

LEMMA OthersDown ==
    ASSUME OnlyLockHolderUp, NEW p \in Schedulers, pc[p] # "down", NEW s \in Schedulers, s # p
    PROVE  pc[s] = "down"
BY DEF OnlyLockHolderUp

THEOREM ExclusionInit == Init => ExclusionInv
<1>1. SUFFICES ASSUME Init PROVE ExclusionInv
  OBVIOUS
<1>2. TypeInv
  BY <1>1, TypeInit
<1>3. \A s \in Schedulers : pc[s] = "down" /\ task[s] = NoTask
  BY <1>1 DEF Init, Workers
<1>4. OnlyLockHolderUp /\ ClaimHolds /\ PreRestoreHolds
  BY <1>3 DEF OnlyLockHolderUp, ClaimHolds, PreRestoreHolds
<1>5. AtMostOneActive
  BY <1>1 DEF Init, AtMostOneActive, ExclusiveIn, ActiveIn, NoRow
<1>6. ExclusiveImages
  BY <1>1, NothingExclusive DEF Init, ExclusiveImages
<1>7. ExclusiveDumps
  BY <1>3, NothingExclusive DEF ExclusiveDumps, NoTask
<1>8. QED
  BY <1>2, <1>4, <1>5, <1>6, <1>7 DEF ExclusionInv

LEMMA WebExclusion == ExclusionInv /\ Web => ExclusionInv'
<1>1. SUFFICES ASSUME ExclusionInv, Web PROVE ExclusionInv'
  OBVIOUS
<1>2. UNCHANGED <<diskVars, procVars>>
  BY <1>1 DEF Web, StartBackup, StartRestore, RecoverRestore, RequestMode, ApplyMode,
              SetMaintenance, diskVars, procVars
<1>3. TypeInv' /\ rows \in Rows
  BY <1>1, WebType DEF ExclusionInv, TypeInv, TypeOK, Rows, Tables
<1>4. OnlyLockHolderUp' /\ ExclusiveImages' /\ ExclusiveDumps'
  BY <1>1, <1>2 DEF ExclusionInv, OnlyLockHolderUp, ExclusiveImages, ExclusiveDumps,
                    ExclusiveIn, ActiveIn, diskVars, procVars
<1>5. \A s \in Schedulers : /\ pc[s] \in OperationSteps => task[s].op \in Ids
                            /\ task[s].pre \in Ids \cup {NoId}
  BY <1>1 DEF ExclusionInv, TypeInv, TypeOK, TaskOK, Task, Ids, Workers
<1>6. ASSUME NEW kind \in Kinds, NEW i \in NextId(kind), NEW from \in Names \cup {NoId},
             ActiveIn(rows) = {}, rows' = [rows EXCEPT ![i] = QueuedRow(kind, from)]
      PROVE  ExclusionInv'
  <2>1. i \in Ids /\ rows[i].status = "absent"
    BY <1>6, NextKey
  <2>2. AtMostOneActive'
    BY <1>3, <1>6, <2>1, FirstExclusive DEF AtMostOneActive
  <2>3. \A j \in Ids \ {i} : rows'[j] = rows[j]
    BY <1>3, <1>6 DEF Rows, Tables
  <2>4. ClaimHolds'
    BY <1>1, <1>2, <1>5, <2>1, <2>3
       DEF ExclusionInv, ClaimHolds, procVars, OperationSteps, BackupSteps, RestoreSteps, Nested
  <2>5. PreRestoreHolds'
    BY <1>1, <1>2, <1>5, <2>1, <2>3 DEF ExclusionInv, PreRestoreHolds, procVars, Nested
  <2>6. QED
    BY <1>3, <1>4, <2>2, <2>4, <2>5 DEF ExclusionInv
<1>7. CASE StartBackup
  <2>1. PICK i \in NextId("backup") : rows' = [rows EXCEPT ![i] = QueuedRow("backup", NoId)]
    BY <1>7 DEF StartBackup
  <2>2. ActiveIn(rows) = {} /\ "backup" \in Kinds
    BY <1>7 DEF StartBackup, HasActiveOperation, Active, Kinds
  <2>3. QED
    BY <1>6, <2>1, <2>2
<1>8. CASE \E b \in Names : StartRestore(b)
  <2>1. PICK b \in Names : StartRestore(b)
    BY <1>8
  <2>2. PICK i \in NextId("restore") : rows' = [rows EXCEPT ![i] = QueuedRow("restore", b)]
    BY <2>1 DEF StartRestore
  <2>3. ActiveIn(rows) = {} /\ "restore" \in Kinds
    BY <2>1 DEF StartRestore, HasActiveOperation, Active, Kinds
  <2>4. QED
    BY <1>6, <2>2, <2>3
<1>9. CASE RecoverRestore
  <2>1. PICK marked : marked = Queued(Kinds) \cup StaleRunning /\ rows' = MarkError(rows, marked)
    BY <1>9 DEF RecoverRestore
  <2>2. AtMostOneActive'
    BY <1>1, <1>3, <2>1, MarkErrorAddsNone, NoneAddedExclusive
       DEF ExclusionInv, AtMostOneActive
  <2>3. ClaimHolds'
    <3>1. SUFFICES ASSUME NEW s \in Schedulers,
                          pc[s] = "restore_begin" \/ (pc[s] = "backup_begin" /\ ~Nested(s))
                   PROVE  rows'[task[s].op] = rows[task[s].op]
      BY <1>1, <1>2 DEF ExclusionInv, ClaimHolds, procVars, Nested
    <3>2. task[s].op \in Ids
      BY <1>5, <3>1 DEF OperationSteps, BackupSteps, RestoreSteps
    <3>3. rows[task[s].op].status = "running" /\ rows[task[s].op].age = "recent"
      BY <1>1, <3>1 DEF ExclusionInv, ClaimHolds
    <3>4. task[s].op \notin marked
      BY <2>1, <3>3 DEF Queued, StaleRunning
    <3>5. MarkError(rows, marked)[task[s].op] = rows[task[s].op]
      BY <1>3, <3>2, <3>4, MarkedRow
    <3>6. QED
      BY <2>1, <3>5
  <2>4. PreRestoreHolds'
    <3>1. \A i \in Ids : /\ MarkError(rows, marked)[i].kind = rows[i].kind
                         /\ rows[i].status # "absent" => MarkError(rows, marked)[i].status # "absent"
      BY <1>3, MarkedRow
    <3>2. QED
      BY <1>1, <1>2, <1>5, <2>1, <3>1 DEF ExclusionInv, PreRestoreHolds, procVars, Nested
  <2>5. QED
    BY <1>3, <1>4, <2>2, <2>3, <2>4 DEF ExclusionInv
<1>10. CASE UNCHANGED rows
  BY <1>1, <1>2, <1>3, <1>4, <1>10
     DEF ExclusionInv, AtMostOneActive, ExclusiveIn, ActiveIn, ClaimHolds, PreRestoreHolds,
         Nested, procVars
<1>11. QED
  BY <1>1, <1>3, <1>4, <1>7, <1>8, <1>9, <1>10
     DEF Web, RequestMode, ApplyMode, SetMaintenance, ExclusionInv

\* A worker that claims an operation finds it as it claimed it.
LEMMA PerformExclusion ==
    ASSUME ExclusionInv, TypeInv', NEW s \in Schedulers, pc[s] # "down", NEW i \in Ids,
           NEW rs \in Rows, Perform(s, i, rs), UNCHANGED <<lock, diskVars>>, AtMostOneActive'
    PROVE  ExclusionInv'
<1>1. s \in Workers /\ task \in [Workers -> Task] /\ pc \in [Workers -> Steps]
  BY DEF ExclusionInv, TypeInv, TypeOK, Workers
<1>2. \A q \in Schedulers : q # s => pc[q] = "down" /\ pc'[q] = "down" /\ task'[q] = task[q]
  BY <1>1, OthersDown DEF ExclusionInv, Perform, Workers
<1>3. /\ pc'[s] \in {"restore_begin", "backup_begin"}
      /\ task'[s] = [NoTask EXCEPT !.op = i, !.kind = rs[i].kind, !.from = rs[i].from]
      /\ rows'[i] = Started(rs[i])
  BY <1>1 DEF Perform, Rows, Tables
<1>4. task'[s].op = i /\ task'[s].pre = NoId /\ task'[s].dump = NoImage
  BY <1>3 DEF NoTask
<1>5. rows'[i].status = "running" /\ rows'[i].age = "recent"
  BY <1>3, StartedType DEF Rows, Tables
<1>6. OnlyLockHolderUp'
  BY <1>2 DEF ExclusionInv, OnlyLockHolderUp
<1>7. ExclusiveImages'
  BY DEF ExclusionInv, ExclusiveImages, ExclusiveIn, ActiveIn, diskVars
<1>8. ExclusiveDumps'
  BY <1>2, <1>4, NothingExclusive DEF ExclusionInv, ExclusiveDumps, ExclusiveIn, ActiveIn
<1>9. ClaimHolds'
  BY <1>2, <1>4, <1>5 DEF ClaimHolds, Nested
<1>10. PreRestoreHolds'
  BY <1>2, <1>4 DEF PreRestoreHolds, Nested
<1>11. QED
  BY <1>6, <1>7, <1>8, <1>9, <1>10 DEF ExclusionInv

LEMMA LoopExclusion ==
    ASSUME ExclusionInv, NEW s \in Schedulers, SchedulerLoop(s)
    PROVE  ExclusionInv'
<1>1. TypeInv'
  BY LoopType DEF ExclusionInv
<1>2. s \in Workers /\ rows \in Rows /\ pc \in [Workers -> Steps]
  BY DEF ExclusionInv, TypeInv, TypeOK, Rows, Tables, Workers
<1>3. CASE SchedulerStart(s) \/ Tick(s) \/ ClaimNothing(s) \/ ExitWithoutLock(s)
  <2>1. UNCHANGED <<diskVars, task>> /\ pc'[s] \in {"idle", "tick", "down"}
    BY <1>2, <1>3 DEF SchedulerStart, Tick, ClaimNothing, ExitWithoutLock
  <2>2. \A q \in Schedulers : q # s => pc[q] = "down" /\ pc'[q] = "down"
    <3>1. CASE lock = NoProc
      BY <1>2, <1>3, <3>1, ConstantsAssumption
         DEF ExclusionInv, OnlyLockHolderUp, SchedulerStart, Tick, ClaimNothing,
             ExitWithoutLock, Workers
    <3>2. CASE pc[s] # "down"
      BY <1>2, <1>3, <3>2, OthersDown
         DEF ExclusionInv, SchedulerStart, Tick, ClaimNothing, ExitWithoutLock, Workers
    <3>3. QED
      BY <1>3, <3>1, <3>2 DEF SchedulerStart, Tick, ClaimNothing, ExitWithoutLock
  <2>3. OnlyLockHolderUp'
    BY <1>2, <1>3, <2>2
       DEF ExclusionInv, OnlyLockHolderUp, SchedulerStart, Tick, ClaimNothing, ExitWithoutLock
  <2>4. AtMostOneActive'
    <3>1. CASE rows' = MarkError(rows, StaleRunning)
      BY <1>2, <3>1, MarkErrorAddsNone, NoneAddedExclusive DEF ExclusionInv, AtMostOneActive
    <3>2. CASE UNCHANGED rows
      BY <3>2 DEF ExclusionInv, AtMostOneActive, ExclusiveIn, ActiveIn
    <3>3. QED
      BY <1>3, <3>1, <3>2 DEF SchedulerStart, Tick, ClaimNothing, ExitWithoutLock
  <2>5. ExclusiveImages' /\ ExclusiveDumps'
    BY <2>1 DEF ExclusionInv, ExclusiveImages, ExclusiveDumps, ExclusiveIn, ActiveIn, diskVars
  <2>6. ClaimHolds' /\ PreRestoreHolds'
    BY <2>1, <2>2 DEF ClaimHolds, PreRestoreHolds
  <2>7. QED
    BY <1>1, <2>3, <2>4, <2>5, <2>6 DEF ExclusionInv
<1>4. CASE ClaimScheduled(s)
  <2>1. PICK i \in NextId("backup") : Perform(s, i, [rows EXCEPT ![i] = QueuedRow("backup", NoId)])
    BY <1>4 DEF ClaimScheduled
  <2> DEFINE rs == [rows EXCEPT ![i] = QueuedRow("backup", NoId)]
  <2>2. i \in Ids /\ rs \in Rows
    BY <1>2, NextKey, NewRowType DEF Kinds
  <2>3. rows' = [rows EXCEPT ![i] = Started(rs[i])]
    BY <1>2, <2>1, <2>2 DEF Perform, Rows, Tables
  <2>4. AtMostOneActive'
    BY <1>2, <1>4, <2>2, <2>3, FirstExclusive
       DEF ClaimScheduled, HasActiveOperation, Active, AtMostOneActive
  <2>5. QED
    BY <1>1, <1>4, <2>1, <2>2, <2>4, PerformExclusion DEF ClaimScheduled
<1>5. CASE ClaimQueued(s)
  <2>1. PICK i \in Queued(Kinds) : Perform(s, i, rows)
    BY <1>5 DEF ClaimQueued
  <2>2. i \in Ids /\ i \in ActiveIn(rows)
    BY DEF Queued, ActiveIn
  <2>3. Started(rows[i]) \in Row /\ Started(rows[i]).kind = rows[i].kind
    BY <1>2, <2>2, StartedType DEF Rows, Tables
  <2>4. NoneAdded(rows, rows')
    BY <1>2, <2>1, <2>2, <2>3, SaveAddsNone DEF Perform
  <2>5. AtMostOneActive'
    BY <2>4, NoneAddedExclusive DEF ExclusionInv, AtMostOneActive
  <2>6. QED
    BY <1>1, <1>2, <1>5, <2>1, <2>2, <2>5, PerformExclusion DEF ClaimQueued
<1>6. QED
  BY <1>3, <1>4, <1>5 DEF SchedulerLoop

\* A step of the one worker that is up, which leaves the lock alone and does not
\* lead to a first save, preserves the invariant if it adds no operation to the
\* rows, to the images and to what the worker has dumped.
LEMMA WorkerExclusion ==
    ASSUME ExclusionInv, TypeInv', NEW p \in Schedulers, pc[p] # "down", UNCHANGED lock,
           \A q \in Schedulers : q # p => pc'[q] = pc[q] /\ task'[q] = task[q],
           pc'[p] # "restore_begin",
           pc'[p] = "backup_begin" => /\ task'[p].pre # NoId
                                      /\ rows'[task'[p].pre].kind = "pre_restore"
                                      /\ rows'[task'[p].pre].status # "absent",
           ExclusiveIn(rows'),
           \A b \in Names : image'[b] = image[b] \/ ExclusiveIn(image'[b].rows),
           task'[p].dump = task[p].dump \/ ExclusiveIn(task'[p].dump.rows)
    PROVE  ExclusionInv'
<1>1. \A q \in Schedulers : q # p => pc[q] = "down" /\ pc'[q] = "down"
  BY OthersDown DEF ExclusionInv
<1>2. OnlyLockHolderUp'
  BY <1>1 DEF ExclusionInv, OnlyLockHolderUp
<1>3. AtMostOneActive'
  BY DEF AtMostOneActive, ExclusiveIn, ActiveIn
<1>4. ExclusiveImages'
  BY DEF ExclusionInv, ExclusiveImages, ExclusiveIn, ActiveIn
<1>5. ExclusiveDumps'
  BY DEF ExclusionInv, ExclusiveDumps, ExclusiveIn, ActiveIn
<1>6. ClaimHolds' /\ PreRestoreHolds'
  BY <1>1 DEF ClaimHolds, PreRestoreHolds, Nested
<1>7. QED
  BY <1>2, <1>3, <1>4, <1>5, <1>6 DEF ExclusionInv

\* The end of a task, with rows to which nothing was added.
LEMMA EndTaskExclusion ==
    ASSUME ExclusionInv, TypeInv', NEW p \in Schedulers, pc[p] # "down", UNCHANGED lock,
           EndTask(p), NoneAdded(rows, rows'),
           \A b \in Names : image'[b] = image[b] \/ ExclusiveIn(image'[b].rows)
    PROVE  ExclusionInv'
<1>1. task \in [Workers -> Task] /\ pc \in [Workers -> Steps] /\ p \in Workers
  BY DEF ExclusionInv, TypeInv, TypeOK, Workers
<1>2. /\ pc'[p] = "idle"
      /\ task'[p].dump = NoImage
      /\ \A q \in Schedulers : q # p => pc'[q] = pc[q] /\ task'[q] = task[q]
  BY <1>1 DEF EndTask, NoTask, Workers
<1>3. ExclusiveIn(rows')
  BY NoneAddedExclusive DEF ExclusionInv, AtMostOneActive
<1>4. QED
  BY <1>2, <1>3, NothingExclusive, WorkerExclusion

LEMMA BackupExclusion ==
    ASSUME ExclusionInv, NEW p \in Schedulers,
           BackupBegin(p) \/ BackupDump(p) \/ BackupWriteManifest(p) \/ BackupSucceed(p)
           \/ BackupFail(p)
    PROVE  ExclusionInv'
<1>1. p \in Workers /\ rows \in Rows /\ pc \in [Workers -> Steps] /\ task \in [Workers -> Task]
      /\ image \in [Names -> Image]
  BY DEF ExclusionInv, TypeInv, TypeOK, Rows, Tables, Workers
<1>2. TypeInv' /\ pc[p] \in BackupSteps /\ pc[p] # "down"
  BY <1>1, BackupType DEF ExclusionInv, BackupBegin, BackupDump, BackupWriteManifest,
                          BackupSucceed, BackupFail, BackupSteps
<1>3. Job(p) \in Ids
  BY <1>1, <1>2, JobType DEF ExclusionInv
<1>4. ExclusiveIn(rows) /\ ExclusiveIn(task[p].dump.rows)
  BY DEF ExclusionInv, AtMostOneActive, ExclusiveDumps
<1>5. NoneAdded(rows, rows)
  BY DEF NoneAdded
<1>6. CASE BackupBegin(p)
  <2>1. CASE rows[Job(p)].status = "absent"
    <3>1. UNCHANGED <<rows, image, lock>>
      BY <1>6, <2>1 DEF BackupBegin, diskVars
    <3>2. CASE EndTask(p)
      BY <1>2, <1>5, <3>1, <3>2, EndTaskExclusion
    <3>3. CASE /\ Goto(p, "restore_fail")
               /\ task' = [task EXCEPT ![p].preStatus = "running"]
      BY <1>1, <1>2, <1>4, <3>1, <3>3, WorkerExclusion DEF Goto, Task
    <3>4. QED
      BY <1>6, <2>1, <3>2, <3>3 DEF BackupBegin
  <2>2. CASE rows[Job(p)].status # "absent"
    <3>1. /\ rows' = [rows EXCEPT ![Job(p)] = Started(rows[Job(p)])]
          /\ Goto(p, "backup_dump")
          /\ UNCHANGED <<image, lock, task>>
      BY <1>1, <1>6, <2>2 DEF BackupBegin, diskVars
    <3>2. Started(rows[Job(p)]) \in Row /\ Started(rows[Job(p)]).kind = rows[Job(p)].kind
      BY <1>1, <1>3, StartedType DEF Rows, Tables
    <3>3. CASE Nested(p)
      <4>1. rows[Job(p)].kind = "pre_restore"
        BY <1>6, <3>3 DEF ExclusionInv, PreRestoreHolds, BackupBegin, Job
      <4>2. NoneAdded(rows, rows')
        BY <1>1, <1>3, <3>1, <3>2, <4>1, SaveAddsNone
      <4>3. ExclusiveIn(rows')
        BY <1>4, <4>2, NoneAddedExclusive
      <4>4. pc'[p] = "backup_dump" /\ \A q \in Schedulers : q # p => pc'[q] = pc[q]
        BY <1>1, <3>1 DEF Goto
      <4>5. QED
        BY <1>2, <3>1, <4>3, <4>4, WorkerExclusion
    <3>4. CASE ~Nested(p)
      <4>1. Job(p) \in ActiveIn(rows)
        BY <1>3, <1>6, <3>4 DEF ExclusionInv, ClaimHolds, BackupBegin, Job, ActiveIn
      <4>2. NoneAdded(rows, rows')
        BY <1>1, <1>3, <3>1, <3>2, <4>1, SaveAddsNone
      <4>3. ExclusiveIn(rows')
        BY <1>4, <4>2, NoneAddedExclusive
      <4>4. pc'[p] = "backup_dump" /\ \A q \in Schedulers : q # p => pc'[q] = pc[q]
        BY <1>1, <3>1 DEF Goto
      <4>5. QED
        BY <1>2, <3>1, <4>3, <4>4, WorkerExclusion
    <3>5. QED
      BY <3>3, <3>4
  <2>3. QED
    BY <2>1, <2>2
<1>7. CASE BackupDump(p)
  <2>1. task'[p].dump.rows = rows
    BY <1>1, <1>7 DEF BackupDump, Task
  <2>2. QED
    BY <1>1, <1>2, <1>4, <1>7, <2>1, WorkerExclusion DEF BackupDump, Goto, diskVars
<1>8. CASE BackupWriteManifest(p)
  <2>1. \A b \in Names : image'[b] = image[b] \/ image'[b] = task[p].dump
    BY <1>1, <1>8 DEF BackupWriteManifest
  <2>2. task'[p].dump = NoImage
    BY <1>1, <1>8 DEF BackupWriteManifest, Task
  <2>3. QED
    BY <1>1, <1>2, <1>4, <1>8, <2>1, <2>2, NothingExclusive, WorkerExclusion
       DEF BackupWriteManifest, Goto
<1>9. CASE BackupSucceed(p)
  <2> DEFINE row == [kind |-> IF Nested(p) THEN "pre_restore" ELSE task[p].kind,
                     status |-> "success", age |-> "unset", from |-> NoId]
  <2>1. row \in Row /\ row.status = "success"
    BY <1>1 DEF Row, Kinds, Statuses, Ages, Task
  <2>2. NoneAdded(rows, rows')
    BY <1>1, <1>3, <1>9, <2>1, SaveAddsNone DEF BackupSucceed
  <2>3. UNCHANGED <<image, lock>>
    BY <1>9 DEF BackupSucceed, diskVars
  <2>4. CASE EndTask(p)
    BY <1>2, <2>2, <2>3, <2>4, EndTaskExclusion
  <2>5. CASE /\ Goto(p, "restore_verify")
             /\ task' = [task EXCEPT ![p] = [@ EXCEPT !.preStatus = "success", !.name = NoId]]
    BY <1>1, <1>2, <1>4, <2>2, <2>3, <2>5, NoneAddedExclusive, WorkerExclusion DEF Goto, Task
  <2>6. QED
    BY <1>9, <2>4, <2>5 DEF BackupSucceed
<1>10. CASE BackupFail(p)
  <2>1. NoneAdded(rows, rows')
    <3>1. CASE rows' = [rows EXCEPT ![Job(p)] = Ended(rows[Job(p)], "error")]
      <4>1. /\ Ended(rows[Job(p)], "error") \in Row
            /\ Ended(rows[Job(p)], "error").status = "error"
        BY <1>1, <1>3, EndedType DEF Rows, Tables, Statuses
      <4>2. QED
        BY <1>1, <1>3, <3>1, <4>1, SaveAddsNone
    <3>2. CASE UNCHANGED rows
      BY <1>5, <3>2
    <3>3. QED
      BY <1>1, <1>10, <3>1, <3>2 DEF BackupFail
  <2>2. UNCHANGED lock /\ \A b \in Names : image'[b] = image[b] \/ image'[b] = NoImage
    BY <1>1, <1>3, <1>10 DEF BackupFail, diskVars
  <2>3. CASE EndTask(p)
    BY <1>2, <2>1, <2>2, <2>3, NothingExclusive, EndTaskExclusion
  <2>4. CASE /\ Goto(p, "restore_fail")
             /\ task' = [task EXCEPT ![p] =
                            [@ EXCEPT !.preStatus = "error", !.dump = NoImage, !.name = NoId]]
    <3>1. task'[p].dump = NoImage
      BY <1>1, <2>4 DEF Task
    <3>2. QED
      BY <1>1, <1>2, <1>4, <2>1, <2>2, <2>4, <3>1, NothingExclusive, NoneAddedExclusive,
         WorkerExclusion DEF Goto
  <2>5. QED
    BY <1>10, <2>3, <2>4 DEF BackupFail
<1>11. QED
  BY <1>6, <1>7, <1>8, <1>9, <1>10

LEMMA RestoreExclusion ==
    ASSUME ExclusionInv, NEW p \in Schedulers,
           \/ Passing(p) \/ RestoreBegin(p) \/ CreatePreRestore(p) \/ LoadEnd(p)
           \/ LoadFail(p) \/ FinalizeSuccess(p) \/ FinalizeError(p) \/ LeaveRestoreMode(p)
    PROVE  ExclusionInv'
<1>1. p \in Workers /\ rows \in Rows /\ pc \in [Workers -> Steps] /\ task \in [Workers -> Task]
      /\ image \in [Names -> Image]
  BY DEF ExclusionInv, TypeInv, TypeOK, Rows, Tables, Workers
<1>2. pc[p] \in RestoreSteps
  BY DEF Passing, RestoreBegin, CreatePreRestore, LoadEnd, LoadFail, FinalizeSuccess,
         FinalizeError, LeaveRestoreMode, EnterRestoreMode, RestoreVerify, LoadBegin,
         Reassert, PostCommandsAndSwap, RestoreFail, RestoreSteps
<1>3. TypeInv' /\ pc[p] # "down" /\ task[p].op \in Ids
  BY <1>1, <1>2, RestoreType DEF ExclusionInv, TypeInv, TaskOK, OperationSteps, RestoreSteps
<1>4. ExclusiveIn(rows) /\ NoneAdded(rows, rows)
  BY DEF ExclusionInv, AtMostOneActive, NoneAdded
<1>5. CASE Passing(p)
  <2>1. /\ UNCHANGED <<rows, image, lock, task>>
        /\ pc'[p] \notin {"restore_begin", "backup_begin"}
        /\ \A q \in Schedulers : q # p => pc'[q] = pc[q]
    BY <1>1, <1>5 DEF Passing, EnterRestoreMode, RestoreVerify, LoadBegin, Reassert,
                      PostCommandsAndSwap, RestoreFail, Goto, diskVars, Workers
  <2>2. QED
    BY <1>3, <1>4, <2>1, WorkerExclusion
<1>6. CASE RestoreBegin(p)
  <2>1. CASE EndTask(p) /\ UNCHANGED rows
    BY <1>3, <1>4, <1>6, <2>1, EndTaskExclusion DEF RestoreBegin, diskVars
  <2>2. CASE /\ rows' = [rows EXCEPT ![task[p].op] = Started(@)]
             /\ Goto(p, "restore_mode")
             /\ UNCHANGED task
    <3> DEFINE row == Started(rows[task[p].op])
    <3>1. row \in Row /\ row.kind = rows[task[p].op].kind
      BY <1>1, <1>3, StartedType DEF Rows, Tables
    <3>2. task[p].op \in ActiveIn(rows)
      BY <1>3, <1>6 DEF ExclusionInv, ClaimHolds, RestoreBegin, ActiveIn
    <3>3. rows' = [rows EXCEPT ![task[p].op] = row]
      BY <1>1, <2>2
    <3>4. NoneAdded(rows, rows')
      BY <1>1, <1>3, <3>1, <3>2, <3>3, SaveAddsNone
    <3>5. ExclusiveIn(rows')
      BY <1>4, <3>4, NoneAddedExclusive
    <3>6. pc'[p] = "restore_mode" /\ \A q \in Schedulers : q # p => pc'[q] = pc[q]
      BY <1>1, <2>2 DEF Goto, Workers
    <3>7. QED
      BY <1>3, <1>6, <2>2, <3>5, <3>6, WorkerExclusion DEF RestoreBegin, diskVars
  <2>3. QED
    BY <1>6, <2>1, <2>2 DEF RestoreBegin
<1>7. CASE CreatePreRestore(p)
  <2>1. PICK i \in NextId("pre_restore") :
          /\ rows' = [rows EXCEPT ![i] = QueuedRow("pre_restore", NoId)]
          /\ task' = [task EXCEPT ![p] = [@ EXCEPT !.pre = i, !.preStatus = "queued"]]
    BY <1>7 DEF CreatePreRestore
  <2>2. i \in Ids /\ i # NoId
    BY NextKey, NoIdsOutside DEF Kinds
  <2>3. /\ QueuedRow("pre_restore", NoId) \in Row
        /\ QueuedRow("pre_restore", NoId).kind = "pre_restore"
        /\ QueuedRow("pre_restore", NoId).status = "queued"
    BY QueuedRowType DEF Kinds, QueuedRow
  <2>4. ExclusiveIn(rows') /\ rows'[i].kind = "pre_restore" /\ rows'[i].status # "absent"
    BY <1>1, <1>4, <2>1, <2>2, <2>3, SaveAddsNone, NoneAddedExclusive DEF Rows, Tables
  <2>5. task'[p].pre = i /\ task'[p].dump = task[p].dump
    BY <1>1, <2>1 DEF Task
  <2>6. /\ pc'[p] = "backup_begin"
        /\ \A q \in Schedulers : q # p => pc'[q] = pc[q] /\ task'[q] = task[q]
    BY <1>1, <1>7, <2>1 DEF CreatePreRestore, Goto, Workers
  <2>7. QED
    BY <1>3, <1>7, <2>2, <2>4, <2>5, <2>6, WorkerExclusion DEF CreatePreRestore, diskVars
<1>8. CASE LoadEnd(p)
  <2>1. ExclusiveIn(rows')
    BY <1>8 DEF LoadEnd, ExclusionInv, TypeInv, TaskOK, ExclusiveImages, Workers
  <2>2. pc'[p] = "restore_reassert" /\ \A q \in Schedulers : q # p => pc'[q] = pc[q]
    BY <1>1, <1>8 DEF LoadEnd, Goto
  <2>3. QED
    BY <1>3, <1>8, <2>1, <2>2, WorkerExclusion DEF LoadEnd, diskVars
<1>9. CASE LoadFail(p)
  <2>1. UNCHANGED <<rows, image, lock>>
    BY <1>9 DEF LoadFail, diskVars
  <2>2. CASE EndTask(p)
    BY <1>3, <1>4, <2>1, <2>2, EndTaskExclusion
  <2>3. CASE Goto(p, "restore_fail") /\ UNCHANGED task
    BY <1>1, <1>3, <1>4, <2>1, <2>3, WorkerExclusion DEF Goto
  <2>4. QED
    BY <1>9, <2>2, <2>3 DEF LoadFail
<1>10. CASE FinalizeSuccess(p) \/ FinalizeError(p)
  <2>1. ExclusiveIn(rows')
    <3>1. CASE FinalizeSuccess(p)
      <4> DEFINE rs == MarkError(rows, Active \ {task[p].op, task[p].pre})
      <4>1. rs \in Rows /\ ExclusiveIn(rs)
        BY <1>1, <1>4, MarkErrorType, MarkErrorAddsNone, NoneAddedExclusive DEF Active, ActiveIn
      <4>2. NoneAdded(rs, WrittenBack(rs, p, "success"))
        BY <1>1, <4>1, WrittenBackAddsNone
      <4>3. QED
        BY <3>1, <4>1, <4>2, NoneAddedExclusive DEF FinalizeSuccess
    <3>2. CASE FinalizeError(p)
      BY <1>1, <1>4, <3>2, WrittenBackAddsNone, NoneAddedExclusive DEF FinalizeError
    <3>3. QED
      BY <1>10, <3>1, <3>2
  <2>2. /\ UNCHANGED <<image, lock, task>>
        /\ pc'[p] \in {"restore_leave", "restore_leave_error"}
        /\ \A q \in Schedulers : q # p => pc'[q] = pc[q]
    BY <1>1, <1>10 DEF FinalizeSuccess, FinalizeError, Goto, diskVars, Workers
  <2>3. QED
    BY <1>3, <2>1, <2>2, WorkerExclusion
<1>11. CASE LeaveRestoreMode(p)
  BY <1>3, <1>4, <1>11, EndTaskExclusion DEF LeaveRestoreMode, diskVars
<1>12. QED
  BY <1>5, <1>6, <1>7, <1>8, <1>9, <1>10, <1>11

LEMMA EnvironmentExclusion == ExclusionInv /\ NoOverlap /\ Environment => ExclusionInv'
<1>1. SUFFICES ASSUME ExclusionInv, NoOverlap, Environment PROVE ExclusionInv'
  OBVIOUS
<1>2. TypeInv'
  BY <1>1, EnvironmentType DEF ExclusionInv
<1>3. /\ rows \in Rows /\ pc \in [Workers -> Steps] /\ task \in [Workers -> Task]
      /\ Workers = Schedulers
  BY <1>1 DEF ExclusionInv, NoOverlap, TypeInv, TypeOK, Rows, Tables, Workers
<1>4. CASE HeartbeatExpires \/ ScheduleFallsDue \/ \E s \in Schedulers : HeartbeatTouch(s)
  <2>1. UNCHANGED <<rows, image, lock, pc, task>>
    BY <1>4 DEF HeartbeatExpires, ScheduleFallsDue, HeartbeatTouch, diskVars, procVars
  <2>2. QED
    BY <1>1, <1>2, <2>1
       DEF ExclusionInv, OnlyLockHolderUp, AtMostOneActive, ExclusiveImages, ExclusiveDumps,
           ExclusiveIn, ActiveIn, ClaimHolds, PreRestoreHolds, Nested
<1>5. CASE LoseLock
  BY <1>1, <1>5 DEF LoseLock, NoOverlap
<1>6. ASSUME NEW i \in Ids, RowAges(i)
      PROVE  ExclusionInv'
  <2>1. /\ UNCHANGED <<image, lock, pc, task>>
        /\ rows[i].status = "running"
        /\ rows' = [rows EXCEPT ![i].age = "stale"]
    BY <1>6 DEF RowAges, diskVars, procVars
  <2>2. /\ \A j \in Ids \ {i} : rows'[j] = rows[j]
        /\ rows'[i].kind = rows[i].kind
        /\ rows'[i].status = rows[i].status
    BY <1>3, <2>1 DEF Rows, Tables, Row
  <2>3. AtMostOneActive'
    BY <1>1, <2>2 DEF ExclusionInv, AtMostOneActive, ExclusiveIn, ActiveIn
  <2>4. ClaimHolds'
    <3>1. SUFFICES ASSUME NEW s \in Schedulers,
                          pc[s] = "restore_begin" \/ (pc[s] = "backup_begin" /\ ~Nested(s))
                   PROVE  rows'[task[s].op] = rows[task[s].op]
      BY <1>1, <2>1 DEF ExclusionInv, ClaimHolds, Nested
    <3>2. task[s].op \in Ids \ {i}
      BY <1>1, <1>3, <1>6, <3>1
         DEF RowAges, PromptSteps, ExclusionInv, TypeInv, TaskOK, OperationSteps, BackupSteps,
             RestoreSteps
    <3>3. QED
      BY <2>2, <3>2
  <2>5. PreRestoreHolds'
    BY <1>1, <1>3, <2>1, <2>2
       DEF ExclusionInv, PreRestoreHolds, Nested, TypeInv, TypeOK, Task
  <2>6. QED
    BY <1>1, <1>2, <2>1, <2>3, <2>4, <2>5
       DEF ExclusionInv, OnlyLockHolderUp, ExclusiveImages, ExclusiveDumps, ExclusiveIn, ActiveIn
<1>7. ASSUME NEW p \in Workers, Crash(p)
      PROVE  ExclusionInv'
  <2>1. /\ UNCHANGED <<rows, image>>
        /\ pc[p] # "down" /\ pc'[p] = "down" /\ task'[p].dump = NoImage
        /\ \A q \in Schedulers : q # p => pc'[q] = pc[q] /\ task'[q] = task[q]
    BY <1>3, <1>7 DEF Crash, diskVars, NoTask
  <2>2. \A q \in Schedulers : pc'[q] = "down"
    BY <1>1, <1>3, <2>1, OthersDown DEF ExclusionInv
  <2>3. OnlyLockHolderUp' /\ ClaimHolds' /\ PreRestoreHolds'
    BY <2>2 DEF OnlyLockHolderUp, ClaimHolds, PreRestoreHolds
  <2>4. AtMostOneActive' /\ ExclusiveImages' /\ ExclusiveDumps'
    BY <1>1, <2>1, NothingExclusive
       DEF ExclusionInv, AtMostOneActive, ExclusiveImages, ExclusiveDumps, ExclusiveIn, ActiveIn
  <2>5. QED
    BY <1>2, <2>3, <2>4 DEF ExclusionInv
<1>8. ASSUME NEW p \in Workers, Raise(p)
      PROVE  ExclusionInv'
  <2>1. UNCHANGED <<rows, image, lock>> /\ pc[p] # "down" /\ NoneAdded(rows, rows')
    BY <1>8 DEF Raise, diskVars, BackupSteps, NoneAdded
  <2>2. CASE EndTask(p)
    BY <1>1, <1>2, <1>3, <2>1, <2>2, EndTaskExclusion
  <2>3. CASE pc[p] \in BackupSteps /\ Nested(p)
    <3> DEFINE status == IF pc[p] = "backup_begin" THEN "running" ELSE "error"
               new == [task[p] EXCEPT !.dump = NoImage, !.name = NoId, !.preStatus = status]
    <3>1. task' = [task EXCEPT ![p] = new] /\ Goto(p, "restore_fail")
      BY <1>8, <2>3 DEF Raise
    <3>2. new.dump = NoImage
      BY <1>3 DEF Task
    <3>3. /\ pc'[p] = "restore_fail" /\ task'[p].dump = NoImage
          /\ \A q \in Schedulers : q # p => pc'[q] = pc[q] /\ task'[q] = task[q]
      BY <1>3, <3>1, <3>2 DEF Goto
    <3>4. ExclusiveIn(rows')
      BY <1>1, <2>1, NoneAddedExclusive DEF ExclusionInv, AtMostOneActive
    <3>5. QED
      BY <1>1, <1>2, <1>3, <2>1, <3>3, <3>4, NothingExclusive, WorkerExclusion
  <2>4. QED
    BY <1>8, <2>2, <2>3 DEF Raise
<1>9. QED
  BY <1>1, <1>4, <1>5, <1>6, <1>7, <1>8 DEF Environment

LEMMA ExclusionStep == ExclusionInv /\ NoOverlap /\ [Next]_vars => ExclusionInv'
<1>1. SUFFICES ASSUME ExclusionInv, NoOverlap, [Next]_vars PROVE ExclusionInv'
  OBVIOUS
<1>2. CASE UNCHANGED vars
  <2>1. TypeInv'
    BY <1>1, <1>2, TypeStep DEF ExclusionInv
  <2>2. QED
    BY <1>1, <1>2, <2>1
       DEF vars, ExclusionInv, OnlyLockHolderUp, AtMostOneActive, ExclusiveImages,
           ExclusiveDumps, ExclusiveIn, ActiveIn, ClaimHolds, PreRestoreHolds, Nested
<1>3. CASE \E p \in Workers : Operation(p)
  <2>1. PICK p \in Schedulers : Operation(p)
    BY <1>1, <1>3 DEF NoOverlap, Workers
  <2>2. QED
    BY <1>1, <2>1, BackupExclusion, RestoreExclusion DEF Operation, Passing
<1>4. CASE \E c \in Clis : Commands(c)
  BY <1>1, <1>4 DEF NoOverlap
<1>5. QED
  BY <1>1, <1>2, <1>3, <1>4, WebExclusion, LoopExclusion, EnvironmentExclusion DEF Next

\* Without the management commands, and as long as MySQL does not drop the
\* connection that holds the advisory lock, at most one operation is queued or
\* running, through restarts, recoveries and reloaded databases.
THEOREM Exclusion ==
    ASSUME NoOverlap
    PROVE  Spec => []AtMostOneActive
<1>1. ExclusionInv /\ [Next]_vars => ExclusionInv'
  BY ExclusionStep
<1>2. ExclusionInv => AtMostOneActive
  BY DEF ExclusionInv
<1>3. QED
  BY <1>1, <1>2, ExclusionInit, PTL DEF Spec

\* ... and at most one scheduler process is at work.
THEOREM OneScheduler ==
    ASSUME NoOverlap
    PROVE  Spec => []OnlyLockHolderUp
<1>1. ExclusionInv /\ [Next]_vars => ExclusionInv'
  BY ExclusionStep
<1>2. ExclusionInv => OnlyLockHolderUp
  BY DEF ExclusionInv
<1>3. QED
  BY <1>1, <1>2, ExclusionInit, PTL DEF Spec

-----------------------------------------------------------------------------
(* FinishedStaysFinished and RecoverySparesLiveScheduler.  Both rest on    *)
(* what protects an operation from recovery at each of its steps: first    *)
(* the age of its row, then the heartbeat its scheduler keeps fresh, then  *)
(* the loading of the dump.  After it nothing protects the rows under the  *)
(* keys of the restore until it writes its own back, as ended.             *)

\* Steps at which the heartbeat thread runs and recovery would find the row.
Guarded(s) ==
    \/ pc[s] \in {"backup_dump", "backup_archive", "backup_save", "restore_mode",
                  "restore_check", "restore_verify", "restore_load"}
    \/ pc[s] = "backup_begin" /\ Nested(s)

GuardHolds(s) == Guarded(s) => fresh /\ rows[task[s].op].status = "running"

\* The pre-restore backup has not begun, so its row is still queued, also where
\* the first statement about it failed.
PreQueued(s) ==
    /\ pc[s] = "backup_begin" /\ Nested(s) => rows[task[s].pre].status = "queued"
    /\ pc[s] = "restore_fail" /\ task[s].preStatus = "running"
       => /\ fresh
          /\ rows[task[s].op].status = "running"
          /\ task[s].pre \in Ids => rows[task[s].pre].status = "queued"

\* What a worker knows of its operation and of its pre-restore backup.
TaskHolds(s) ==
    /\ pc[s] \notin OperationSteps => task[s].op = NoId /\ task[s].pre = NoId
    /\ pc[s] \in {"restore_begin", "restore_mode", "restore_check"}
       => task[s].pre = NoId /\ task[s].preStatus = "absent"
    /\ pc[s] \in {"restore_verify", "restore_load", "restore_loading", "restore_reassert",
                  "restore_post", "restore_success", "restore_leave"}
       => task[s].preStatus = "success"
    /\ pc[s] \in {"restore_fail", "restore_leave_error"} => task[s].preStatus # "queued"
    /\ task[s].op \in Ids => task[s].op # task[s].pre

\* Once the rows are written back none of them is running, unless a failure has
\* written the pre-restore backup back as running.
LoadedHolds(s) ==
    /\ pc[s] = "restore_loading" => db = "loading"
    /\ pc[s] \in {"restore_leave", "restore_leave_error"}
       => \A i \in Ids \cap {task[s].op, task[s].pre} :
             rows[i].status = "running" => fresh /\ pc[s] = "restore_leave_error"

WorkerHolds(s) == GuardHolds(s) /\ PreQueued(s) /\ TaskHolds(s) /\ LoadedHolds(s)

\* A dump never has a queued operation in it: the operation that dumps is running.
NoneQueued(rs) == \A i \in Ids : rs[i].status = "queued" => rs[i].kind = "pre_restore"

DumpsNotQueued ==
    /\ \A b \in Names : NoneQueued(image[b].rows)
    /\ \A s \in Schedulers : NoneQueued(task[s].dump.rows)

\* An operation that is queued is the only active one.
QueuedAloneIn(rs) ==
    \A i \in Ids :
        rs[i].status = "queued" /\ rs[i].kind # "pre_restore" => ActiveIn(rs) = {i}

FinishedInv ==
    /\ ExclusionInv
    /\ \A s \in Schedulers : WorkerHolds(s)
    /\ DumpsNotQueued
    /\ QueuedAloneIn(rows)

\* No operation of rs2 is active that is not active in rs, and none is queued again.
NoneReturns(rs, rs2) ==
    \A i \in Ids :
        \/ rs2[i] = rs[i]
        \/ /\ rs2[i].status # "queued"
           /\ rs2[i].status = "running" => i \in ActiveIn(rs)

LEMMA NoneReturnsAlone ==
    ASSUME NEW rs, NEW rs2, QueuedAloneIn(rs), NoneReturns(rs, rs2)
    PROVE  QueuedAloneIn(rs2)
<1>1. SUFFICES ASSUME NEW i \in Ids, rs2[i].status = "queued", rs2[i].kind # "pre_restore"
               PROVE  ActiveIn(rs2) = {i}
  BY DEF QueuedAloneIn
<1>2. rs2[i] = rs[i]
  BY <1>1 DEF NoneReturns
<1>3. ActiveIn(rs) = {i}
  BY <1>1, <1>2 DEF QueuedAloneIn
<1>4. ActiveIn(rs2) \subseteq ActiveIn(rs)
  BY DEF NoneReturns, ActiveIn
<1>5. i \in ActiveIn(rs2)
  BY <1>1 DEF ActiveIn
<1>6. QED
  BY <1>3, <1>4, <1>5

\* Where an operation of a worker runs nothing else is queued.
LEMMA RunningNoneQueued ==
    ASSUME NEW i \in Ids, rows[i].status = "running", QueuedAloneIn(rows)
    PROVE  NoneQueued(rows)
<1>1. SUFFICES ASSUME NEW j \in Ids, rows[j].status = "queued", rows[j].kind # "pre_restore"
               PROVE  FALSE
  BY DEF NoneQueued
<1>2. ActiveIn(rows) = {j} /\ i \in ActiveIn(rows)
  BY <1>1 DEF QueuedAloneIn, ActiveIn
<1>3. QED
  BY <1>1, <1>2

LEMMA MarkErrorNoneReturns ==
    ASSUME NEW rs \in Rows, NEW marked
    PROVE  NoneReturns(rs, MarkError(rs, marked))
BY MarkedRow DEF NoneReturns

LEMMA SaveNoneReturns ==
    ASSUME NEW rs \in Rows, NEW i \in Ids, NEW row, row.status # "queued",
           row.status = "running" => i \in ActiveIn(rs)
    PROVE  NoneReturns(rs, [rs EXCEPT ![i] = row])
BY DEF NoneReturns, Rows, Tables

LEMMA NothingQueued == NoneQueued(NoImage.rows)
BY DEF NoneQueued, NoImage, NoRow

\* A process that executes no operation holds nothing.
LEMMA IdleHolds ==
    \A r \in Schedulers :
        pc[r] \notin OperationSteps /\ task[r].op = NoId /\ task[r].pre = NoId => WorkerHolds(r)
BY NoIdsOutside
   DEF WorkerHolds, GuardHolds, Guarded, PreQueued, TaskHolds, LoadedHolds, OperationSteps, BackupSteps, RestoreSteps

LEMMA IdleHoldsNext ==
    (\A r \in Schedulers :
        pc[r] \notin OperationSteps /\ task[r].op = NoId /\ task[r].pre = NoId
        => WorkerHolds(r))'
BY IdleHolds, PTL

\* Where one scheduler is up the others hold nothing.
LEMMA OthersHold ==
    ASSUME FinishedInv, NEW p \in Schedulers, pc[p] # "down", NEW s \in Schedulers, s # p
    PROVE  pc[s] = "down" /\ task[s].op = NoId /\ task[s].pre = NoId
<1>1. pc[s] = "down"
  BY OthersDown DEF FinishedInv, ExclusionInv
<1>2. pc[s] \notin OperationSteps /\ TaskHolds(s)
  BY <1>1 DEF OperationSteps, BackupSteps, RestoreSteps, FinishedInv, WorkerHolds
<1>3. QED
  BY <1>1, <1>2 DEF TaskHolds

\* A step of the one worker that is up.
LEMMA WorkerFinished ==
    ASSUME FinishedInv, ExclusionInv', NEW p \in Schedulers, pc[p] # "down",
           \A q \in Schedulers : q # p => pc'[q] = pc[q] /\ task'[q] = task[q],
           WorkerHolds(p)',
           \A b \in Names : image'[b] = image[b] \/ NoneQueued(image'[b].rows),
           task'[p].dump = task[p].dump \/ NoneQueued(task'[p].dump.rows),
           QueuedAloneIn(rows')
    PROVE  FinishedInv'
<1>1. \A q \in Schedulers : WorkerHolds(q)'
  <2>1. SUFFICES ASSUME NEW q \in Schedulers, q # p PROVE WorkerHolds(q)'
    OBVIOUS
  <2>2. pc'[q] \notin OperationSteps /\ task'[q].op = NoId /\ task'[q].pre = NoId
    BY <2>1, OthersHold DEF OperationSteps, BackupSteps, RestoreSteps
  <2>3. QED
    BY <2>2, IdleHoldsNext
<1>2. DumpsNotQueued'
  BY DEF FinishedInv, DumpsNotQueued, NoneQueued
<1>3. QueuedAloneIn(rows)'
  BY DEF QueuedAloneIn, ActiveIn
<1>4. QED
  BY <1>1, <1>2, <1>3 DEF FinishedInv

\* A step of others that leaves the rows of the workers as they are.
LEMMA WorkersUntouched ==
    ASSUME FinishedInv, UNCHANGED <<db, diskVars, procVars>>, fresh => fresh',
           \A s \in Schedulers : \A i \in Ids \cap {task[s].op, task[s].pre} :
              \/ rows'[i].status = rows[i].status
              \/ rows[i].status = "absent" /\ rows'[i].status = "queued"
    PROVE  \A s \in Schedulers : WorkerHolds(s)'
<1>1. SUFFICES ASSUME NEW s \in Schedulers PROVE WorkerHolds(s)'
  OBVIOUS
<1>2. UNCHANGED <<pc, task, image>> /\ WorkerHolds(s)
  BY DEF procVars, diskVars, FinishedInv
<1>3. /\ pc[s] \in OperationSteps => task[s].op \in Ids
      /\ task[s].pre \in Ids \cup {NoId}
  BY DEF FinishedInv, ExclusionInv, TypeInv, TypeOK, TaskOK, Task, Ids, Workers
<1>4. \A i \in Ids \cap {task[s].op, task[s].pre} :
         \/ rows'[i].status = rows[i].status
         \/ rows[i].status = "absent" /\ rows'[i].status = "queued"
  OBVIOUS
<1>5. GuardHolds(s)'
  BY <1>2, <1>3, <1>4
     DEF WorkerHolds, GuardHolds, Guarded, Nested, OperationSteps, BackupSteps, RestoreSteps
<1>6. PreQueued(s)'
  BY <1>2, <1>3, <1>4
     DEF WorkerHolds, PreQueued, Nested, OperationSteps, BackupSteps, RestoreSteps
<1>7. TaskHolds(s)' /\ LoadedHolds(s)'
  BY <1>2, <1>4 DEF WorkerHolds, TaskHolds, LoadedHolds, Nested
<1>8. QED
  BY <1>5, <1>6, <1>7 DEF WorkerHolds

LEMMA RecoveryRefused ==
    ASSUME RecoverRestore, fresh, NEW i \in Ids, rows[i].status = "running"
    PROVE  FALSE
BY DEF RecoverRestore, HasActiveOperation, Active, ActiveIn

\* A restore without its rows: it has failed, or the dump it has loaded does not
\* have them.
LoadedSteps == {"restore_reassert", "restore_post", "restore_success", "restore_fail"}

\* The recovery button does not touch a running row of a live worker whose
\* restore has not failed.
LEMMA RecoverySpares ==
    ASSUME FinishedInv, RecoverRestore, NEW s \in Schedulers,
           NEW i \in Ids \cap {task[s].op, task[s].pre}, rows[i].status = "running",
           pc[s] \notin LoadedSteps
    PROVE  rows'[i] = rows[i]
<1>1. WorkerHolds(s) /\ rows \in Rows /\ i # NoId
  BY NoIdsOutside DEF FinishedInv, ExclusionInv, TypeInv, TypeOK, Rows, Tables
<1>2. pc[s] \in OperationSteps
  BY <1>1 DEF WorkerHolds, TaskHolds
<1>3. task[s].op \in Ids
  BY <1>2 DEF FinishedInv, ExclusionInv, TypeInv, TaskOK, Workers
<1>4. ~Guarded(s)
  BY <1>1, <1>3, RecoveryRefused DEF WorkerHolds, GuardHolds
<1>5. pc[s] # "restore_loading"
  BY <1>1 DEF WorkerHolds, LoadedHolds, RecoverRestore
<1>6. pc[s] \notin {"restore_leave", "restore_leave_error"}
  BY <1>1, RecoveryRefused DEF WorkerHolds, LoadedHolds
<1>7. pc[s] = "restore_begin" \/ (pc[s] = "backup_begin" /\ ~Nested(s))
  BY <1>2, <1>4, <1>5, <1>6 DEF LoadedSteps, Guarded, OperationSteps, BackupSteps, RestoreSteps
<1>8. i = task[s].op
  BY <1>1, <1>7 DEF WorkerHolds, TaskHolds, Nested
<1>9. rows[i].status = "running" /\ rows[i].age = "recent"
  BY <1>7, <1>8 DEF FinishedInv, ExclusionInv, ClaimHolds
<1>10. PICK marked : marked = Queued(Kinds) \cup StaleRunning /\ rows' = MarkError(rows, marked)
  BY DEF RecoverRestore
<1>11. i \notin marked
  BY <1>9, <1>10 DEF Queued, StaleRunning
<1>12. QED
  BY <1>1, <1>10, <1>11, MarkedRow

LEMMA RecoverFinished == FinishedInv /\ RecoverRestore => FinishedInv'
<1>1. SUFFICES ASSUME FinishedInv, RecoverRestore PROVE FinishedInv'
  OBVIOUS
<1>2. ExclusionInv'
  BY <1>1, WebExclusion DEF FinishedInv, Web
<1>3. /\ UNCHANGED <<fresh, db, pc, task, image>>
      /\ rows \in Rows
  BY <1>1 DEF RecoverRestore, procVars, diskVars, FinishedInv, ExclusionInv, TypeInv, TypeOK, Rows, Tables
<1>4. PICK marked : rows' = MarkError(rows, marked)
  BY <1>1 DEF RecoverRestore
<1>5. NoneReturns(rows, rows')
  BY <1>3, <1>4, MarkErrorNoneReturns
<1>6. \A i \in Ids : rows'[i] = rows[i] \/ rows'[i].status = "error"
  BY <1>3, <1>4, MarkedRow
<1>7. ASSUME NEW s \in Schedulers
      PROVE  WorkerHolds(s)'
  <2>1. WorkerHolds(s) /\ (pc[s] \in OperationSteps => task[s].op \in Ids)
    BY <1>1 DEF FinishedInv, ExclusionInv, TypeInv, TaskOK, Workers
  <2>2. ~Guarded(s) /\ ~(pc[s] = "restore_fail" /\ task[s].preStatus = "running")
    BY <1>1, <2>1, RecoveryRefused
       DEF WorkerHolds, GuardHolds, PreQueued, Guarded, OperationSteps, BackupSteps, RestoreSteps
  <2>3. GuardHolds(s)' /\ PreQueued(s)'
    BY <1>3, <2>2 DEF GuardHolds, PreQueued, Guarded, Nested
  <2>4. TaskHolds(s)'
    BY <1>3, <2>1 DEF WorkerHolds, TaskHolds, Nested
  <2>5. LoadedHolds(s)'
    BY <1>3, <1>6, <2>1 DEF WorkerHolds, LoadedHolds
  <2>6. QED
    BY <2>3, <2>4, <2>5 DEF WorkerHolds
<1>8. QueuedAloneIn(rows)'
  <2>1. QueuedAloneIn(rows')
    BY <1>1, <1>5, NoneReturnsAlone DEF FinishedInv
  <2>2. QED
    BY <2>1 DEF QueuedAloneIn, ActiveIn
<1>9. DumpsNotQueued'
  BY <1>1, <1>3 DEF FinishedInv, DumpsNotQueued, NoneQueued
<1>10. QED
  BY <1>2, <1>7, <1>8, <1>9 DEF FinishedInv

LEMMA WebFinished == FinishedInv /\ Web => FinishedInv'
<1>1. SUFFICES ASSUME FinishedInv, Web PROVE FinishedInv'
  OBVIOUS
<1>2. ExclusionInv'
  BY <1>1, WebExclusion DEF FinishedInv
<1>3. UNCHANGED <<fresh, db, diskVars, procVars>> /\ rows \in Rows
  BY <1>1 DEF Web, StartBackup, StartRestore, RecoverRestore, RequestMode, ApplyMode,
              SetMaintenance, diskVars, procVars, FinishedInv, ExclusionInv, TypeInv, TypeOK, Rows, Tables
<1>4. DumpsNotQueued'
  BY <1>1, <1>3 DEF FinishedInv, DumpsNotQueued, NoneQueued, diskVars, procVars
<1>5. ASSUME NEW kind \in Kinds, NEW i \in NextId(kind), NEW from \in Names \cup {NoId},
             ActiveIn(rows) = {}, rows' = [rows EXCEPT ![i] = QueuedRow(kind, from)]
      PROVE  FinishedInv'
  <2>1. i \in Ids /\ rows[i].status = "absent"
    BY <1>5, NextKey
  <2>2. \A j \in Ids \ {i} : rows'[j] = rows[j] /\ rows'[j].status \notin {"queued", "running"}
    BY <1>3, <1>5 DEF Rows, Tables, ActiveIn
  <2>3. rows'[i] = QueuedRow(kind, from)
    BY <1>3, <1>5, <2>1 DEF Rows, Tables
  <2>4. rows'[i].status = "queued"
    BY <2>3 DEF QueuedRow
  <2>5. \A s \in Schedulers : WorkerHolds(s)'
    <3>1. \A s \in Schedulers : \A j \in Ids \cap {task[s].op, task[s].pre} :
             \/ rows'[j].status = rows[j].status
             \/ rows[j].status = "absent" /\ rows'[j].status = "queued"
      BY <2>1, <2>2, <2>4
    <3>2. QED
      BY <1>1, <1>3, <3>1, WorkersUntouched
  <2>6. QueuedAloneIn(rows)'
    BY <2>1, <2>2, <2>4 DEF QueuedAloneIn, ActiveIn
  <2>7. QED
    BY <1>2, <1>4, <2>5, <2>6 DEF FinishedInv
<1>6. CASE StartBackup
  <2>1. PICK i \in NextId("backup") : rows' = [rows EXCEPT ![i] = QueuedRow("backup", NoId)]
    BY <1>6 DEF StartBackup
  <2>2. ActiveIn(rows) = {} /\ "backup" \in Kinds
    BY <1>6 DEF StartBackup, HasActiveOperation, Active, Kinds
  <2>3. QED
    BY <1>5, <2>1, <2>2
<1>7. CASE \E b \in Names : StartRestore(b)
  <2>1. PICK b \in Names : StartRestore(b)
    BY <1>7
  <2>2. PICK i \in NextId("restore") : rows' = [rows EXCEPT ![i] = QueuedRow("restore", b)]
    BY <2>1 DEF StartRestore
  <2>3. ActiveIn(rows) = {} /\ "restore" \in Kinds
    BY <2>1 DEF StartRestore, HasActiveOperation, Active, Kinds
  <2>4. QED
    BY <1>5, <2>2, <2>3
<1>8. CASE UNCHANGED rows
  <2>1. \A s \in Schedulers : WorkerHolds(s)'
    BY <1>1, <1>3, <1>8, WorkersUntouched
  <2>2. QueuedAloneIn(rows)'
    BY <1>1, <1>3, <1>8 DEF FinishedInv, QueuedAloneIn, ActiveIn, diskVars
  <2>3. QED
    BY <1>2, <1>4, <2>1, <2>2 DEF FinishedInv
<1>9. QED
  BY <1>1, <1>6, <1>7, <1>8, RecoverFinished DEF Web, RequestMode, ApplyMode, SetMaintenance

LEMMA PerformFinished ==
    ASSUME FinishedInv, ExclusionInv', NEW s \in Schedulers, pc[s] # "down", NEW i \in Ids,
           NEW rs \in Rows, Perform(s, i, rs), UNCHANGED diskVars,
           QueuedAloneIn(rows')
    PROVE  FinishedInv'
<1>1. task \in [Workers -> Task] /\ pc \in [Workers -> Steps] /\ s \in Workers
  BY DEF FinishedInv, ExclusionInv, TypeInv, TypeOK, Workers
<1>2. /\ pc'[s] = IF rs[i].kind = "restore" THEN "restore_begin" ELSE "backup_begin"
      /\ task'[s] = [NoTask EXCEPT !.op = i, !.kind = rs[i].kind, !.from = rs[i].from]
      /\ \A q \in Schedulers : q # s => pc'[q] = pc[q] /\ task'[q] = task[q]
      /\ UNCHANGED image
  BY <1>1 DEF Perform, Workers, diskVars
<1>3. /\ task'[s].op = i
      /\ task'[s].from = rs[i].from
      /\ task'[s].pre = NoId
      /\ task'[s].preStatus = "absent"
      /\ task'[s].dump = NoImage
      /\ i # NoId
  BY <1>2, NoIdsOutside DEF NoTask
<1>4. GuardHolds(s)' /\ PreQueued(s)' /\ TaskHolds(s)' /\ LoadedHolds(s)'
  BY <1>2, <1>3
     DEF GuardHolds, Guarded, PreQueued, TaskHolds, LoadedHolds, Nested, OperationSteps,
         BackupSteps, RestoreSteps
<1>5. WorkerHolds(s)'
  BY <1>4 DEF WorkerHolds
<1>6. QED
  BY <1>2, <1>3, <1>5, NothingQueued, WorkerFinished

LEMMA LoopFinished ==
    ASSUME FinishedInv, NEW s \in Schedulers, SchedulerLoop(s)
    PROVE  FinishedInv'
<1>1. ExclusionInv'
  BY LoopExclusion DEF FinishedInv
<1>2. /\ s \in Workers /\ rows \in Rows /\ pc \in [Workers -> Steps]
      /\ task \in [Workers -> Task]
  BY DEF FinishedInv, ExclusionInv, TypeInv, TypeOK, Rows, Tables, Workers
<1>3. UNCHANGED <<db, diskVars>>
  BY DEF SchedulerLoop, SchedulerStart, Tick, ClaimScheduled, ClaimQueued, ClaimNothing,
         ExitWithoutLock
<1>4. CASE SchedulerStart(s) \/ Tick(s) \/ ClaimNothing(s) \/ ExitWithoutLock(s)
  <2>1. UNCHANGED task /\ pc[s] \notin OperationSteps /\ pc'[s] \notin OperationSteps
    BY <1>2, <1>4
       DEF SchedulerStart, Tick, ClaimNothing, ExitWithoutLock, OperationSteps, BackupSteps,
           RestoreSteps
  <2>2. \A q \in Schedulers : q # s => pc[q] = "down" /\ pc'[q] = "down"
    <3>1. CASE lock = NoProc
      BY <1>2, <1>4, <3>1, ConstantsAssumption
         DEF FinishedInv, ExclusionInv, OnlyLockHolderUp, SchedulerStart, Tick, ClaimNothing,
             ExitWithoutLock, Workers
    <3>2. CASE pc[s] # "down"
      BY <1>2, <1>4, <3>2, OthersDown
         DEF FinishedInv, ExclusionInv, SchedulerStart, Tick, ClaimNothing, ExitWithoutLock,
             Workers
    <3>3. QED
      BY <1>4, <3>1, <3>2 DEF SchedulerStart, Tick, ClaimNothing, ExitWithoutLock
  <2>3. \A q \in Schedulers : pc[q] \notin OperationSteps /\ pc'[q] \notin OperationSteps
    BY <2>1, <2>2 DEF OperationSteps, BackupSteps, RestoreSteps
  <2>4. \A q \in Schedulers : task'[q].op = NoId /\ task'[q].pre = NoId
    BY <2>1, <2>3 DEF FinishedInv, WorkerHolds, TaskHolds
  <2>6. \A q \in Schedulers : WorkerHolds(q)'
    BY <2>3, <2>4, IdleHoldsNext
  <2>7. NoneReturns(rows, rows')
    <3>1. CASE rows' = MarkError(rows, StaleRunning)
      BY <1>2, <3>1, MarkErrorNoneReturns
    <3>2. CASE UNCHANGED rows
      BY <3>2 DEF NoneReturns
    <3>3. QED
      BY <1>4, <3>1, <3>2 DEF SchedulerStart, Tick, ClaimNothing, ExitWithoutLock
  <2>8. QueuedAloneIn(rows')
    BY <1>3, <2>7, NoneReturnsAlone DEF FinishedInv, diskVars
  <2>9. DumpsNotQueued'
    BY <1>3, <2>1 DEF FinishedInv, DumpsNotQueued, NoneQueued, diskVars
  <2>10. QED
    BY <1>1, <2>6, <2>8, <2>9 DEF FinishedInv, QueuedAloneIn, ActiveIn
<1>5. CASE ClaimScheduled(s)
  <2>1. PICK i \in NextId("backup") : Perform(s, i, [rows EXCEPT ![i] = QueuedRow("backup", NoId)])
    BY <1>5 DEF ClaimScheduled
  <2> DEFINE rs == [rows EXCEPT ![i] = QueuedRow("backup", NoId)]
  <2>2. i \in Ids /\ rs \in Rows
    BY <1>2, NextKey, NewRowType DEF Kinds
  <2>3. rs[i].kind = "backup"
    BY <1>2, <2>2 DEF Rows, Tables, QueuedRow
  <2>4. /\ rows'[i].status = "running"
        /\ \A j \in Ids \ {i} : rows'[j] = rows[j]
    BY <1>2, <2>1, <2>2, StartedType DEF Perform, Rows, Tables
  <2>5. \A j \in Ids : rows'[j].status # "queued"
    BY <1>5, <2>4 DEF ClaimScheduled, HasActiveOperation, Active, ActiveIn
  <2>6. QueuedAloneIn(rows')
    BY <2>5 DEF QueuedAloneIn
  <2>7. Perform(s, i, rs) /\ pc[s] # "down" /\ rs[i].kind # "restore"
    BY <1>5, <2>1, <2>3 DEF ClaimScheduled
  <2> HIDE DEF rs
  <2>8. QED
    BY <1>1, <1>3, <2>2, <2>6, <2>7, PerformFinished
<1>6. CASE ClaimQueued(s)
  <2>1. PICK i \in Queued(Kinds) : Perform(s, i, rows)
    BY <1>6 DEF ClaimQueued
  <2>2. i \in Ids /\ i \in ActiveIn(rows) /\ rows[i].status = "queued"
    BY DEF Queued, ActiveIn
  <2>3. NoneReturns(rows, rows')
    <3>1. Started(rows[i]).status # "queued"
      BY <1>2, <2>2, StartedType DEF Rows, Tables
    <3>2. QED
      BY <1>2, <2>1, <2>2, <3>1, SaveNoneReturns DEF Perform
  <2>4. QueuedAloneIn(rows')
    BY <1>3, <2>3, NoneReturnsAlone DEF FinishedInv, diskVars
  <2>5. pc[s] # "down"
    BY <1>6 DEF ClaimQueued
  <2>6. QED
    BY <1>1, <1>2, <1>3, <2>1, <2>2, <2>4, <2>5, PerformFinished
<1>7. QED
  BY <1>4, <1>5, <1>6 DEF SchedulerLoop

LEMMA EndTaskFinished ==
    ASSUME FinishedInv, ExclusionInv', NEW p \in Schedulers, pc[p] # "down", EndTask(p),
           NoneReturns(rows, rows'), \A b \in Names : image'[b] = image[b] \/ image'[b] = NoImage
    PROVE  FinishedInv'
<1>1. task \in [Workers -> Task] /\ pc \in [Workers -> Steps] /\ p \in Workers
  BY DEF FinishedInv, ExclusionInv, TypeInv, TypeOK, Workers
<1>2. /\ pc'[p] = "idle" /\ task'[p] = NoTask
      /\ \A q \in Schedulers : q # p => pc'[q] = pc[q] /\ task'[q] = task[q]
  BY <1>1 DEF EndTask, Workers
<1>3. task'[p].op = NoId /\ task'[p].pre = NoId /\ task'[p].dump = NoImage
  BY <1>2 DEF NoTask
<1>4. WorkerHolds(p)'
  BY <1>2, <1>3, IdleHoldsNext DEF OperationSteps, BackupSteps, RestoreSteps
<1>5. QueuedAloneIn(rows')
  BY NoneReturnsAlone DEF FinishedInv
<1>6. QED
  BY <1>2, <1>3, <1>4, <1>5, NothingQueued, WorkerFinished

LEMMA BackupFinished ==
    ASSUME FinishedInv, NEW p \in Schedulers,
           BackupBegin(p) \/ BackupDump(p) \/ BackupWriteManifest(p) \/ BackupSucceed(p)
           \/ BackupFail(p)
    PROVE  FinishedInv' /\ NoneReturns(rows, rows') /\ pc'[p] # pc[p]
<1>1. ExclusionInv'
  BY BackupExclusion DEF FinishedInv
<1>2. /\ p \in Workers /\ rows \in Rows /\ pc \in [Workers -> Steps] /\ task \in [Workers -> Task]
      /\ image \in [Names -> Image]
  BY DEF FinishedInv, ExclusionInv, TypeInv, TypeOK, Rows, Tables, Workers
<1>3. pc[p] \in BackupSteps /\ pc[p] # "down" /\ pc[p] \in OperationSteps
  BY DEF BackupBegin, BackupDump, BackupWriteManifest, BackupSucceed, BackupFail, BackupSteps,
         OperationSteps
<1>4. Job(p) \in Ids /\ task[p].op \in Ids
  BY <1>2, <1>3, JobType DEF FinishedInv, ExclusionInv, TypeInv, TaskOK
<1>5. WorkerHolds(p)
  BY DEF FinishedInv
<1>6. task[p].op # task[p].pre /\ (Nested(p) => Job(p) # task[p].op)
  BY <1>4, <1>5 DEF WorkerHolds, TaskHolds, Job
<1>7. NoneReturns(rows, rows)
  BY DEF NoneReturns
<1>8. CASE BackupBegin(p)
  <2>1. rows[Job(p)].status \in {"queued", "running"}
    <3>1. CASE Nested(p)
      BY <1>5, <1>8, <3>1 DEF WorkerHolds, PreQueued, BackupBegin, Job
    <3>2. CASE ~Nested(p)
      BY <1>8, <3>2 DEF FinishedInv, ExclusionInv, ClaimHolds, BackupBegin, Job
    <3>3. QED
      BY <3>1, <3>2
  <2>2. /\ rows' = [rows EXCEPT ![Job(p)] = Started(rows[Job(p)])]
        /\ Goto(p, "backup_dump")
        /\ fresh' = Touched(p)
        /\ UNCHANGED <<task, db, image>>
        /\ pc[p] = "backup_begin"
    BY <1>2, <1>8, <2>1 DEF BackupBegin, diskVars
  <2>3. rows'[Job(p)].status = "running" /\ \A i \in Ids \ {Job(p)} : rows'[i] = rows[i]
    BY <1>2, <1>4, <2>2, StartedType DEF Rows, Tables
  <2>4. NoneReturns(rows, rows')
    BY <1>4, <2>1, <2>3 DEF NoneReturns, ActiveIn
  <2>5. pc'[p] = "backup_dump" /\ \A q \in Schedulers : q # p => pc'[q] = pc[q]
    BY <1>2, <2>2 DEF Goto, Workers
  <2>6. GuardHolds(p)'
    <3>1. CASE Nested(p)
      BY <1>4, <1>5, <1>6, <2>2, <2>3, <3>1 DEF WorkerHolds, GuardHolds, Guarded, Touched
    <3>2. CASE ~Nested(p)
      BY <1>4, <2>2, <2>3, <3>2 DEF GuardHolds, Touched, Job
    <3>3. QED
      BY <3>1, <3>2
  <2>7. PreQueued(p)' /\ TaskHolds(p)' /\ LoadedHolds(p)'
    BY <1>6, <2>2, <2>5
       DEF PreQueued, TaskHolds, LoadedHolds, OperationSteps, BackupSteps
  <2>8. WorkerHolds(p)'
    BY <2>6, <2>7 DEF WorkerHolds
  <2>9. FinishedInv'
    BY <1>1, <1>3, <2>2, <2>4, <2>5, <2>8, NoneReturnsAlone, WorkerFinished DEF FinishedInv
  <2>10. QED
    BY <2>2, <2>4, <2>5, <2>9
<1>9. CASE pc[p] # "backup_begin"
  <2>1. pc[p] \in {"backup_dump", "backup_archive", "backup_save"} /\ Guarded(p)
    BY <1>3, <1>9 DEF BackupSteps, Guarded
  <2>2. fresh /\ rows[task[p].op].status = "running"
    BY <1>5, <2>1 DEF WorkerHolds, GuardHolds
  <2>3. NoneQueued(rows)
    BY <1>4, <2>2, RunningNoneQueued DEF FinishedInv
  <2>4. CASE BackupDump(p)
    <3>1. /\ task'[p] = [task[p] EXCEPT !.dump = [rows |-> rows, mode |-> mode]]
          /\ pc'[p] = "backup_archive"
          /\ \A q \in Schedulers : q # p => pc'[q] = pc[q] /\ task'[q] = task[q]
          /\ UNCHANGED <<rows, fresh, db, image>>
      BY <1>2, <2>4 DEF BackupDump, Goto, diskVars, Workers
    <3>2. /\ task'[p].op = task[p].op /\ task'[p].pre = task[p].pre
          /\ task'[p].from = task[p].from /\ task'[p].dump.rows = rows
      BY <1>2, <3>1 DEF Task
    <3>3. WorkerHolds(p)'
      BY <1>3, <1>5, <1>6, <2>2, <3>1, <3>2
         DEF WorkerHolds, GuardHolds, PreQueued, TaskHolds, LoadedHolds, Nested, OperationSteps, BackupSteps
    <3>4. QueuedAloneIn(rows')
      BY <3>1 DEF FinishedInv, QueuedAloneIn, ActiveIn
    <3>5. FinishedInv'
      BY <1>1, <1>3, <2>3, <3>1, <3>2, <3>3, <3>4, WorkerFinished
    <3>6. QED
      BY <1>7, <2>4, <3>1, <3>5 DEF BackupDump
  <2>5. CASE BackupWriteManifest(p)
    <3>1. /\ task'[p] = [task[p] EXCEPT !.dump = NoImage, !.name = named']
          /\ pc'[p] = "backup_save"
          /\ \A q \in Schedulers : q # p => pc'[q] = pc[q] /\ task'[q] = task[q]
          /\ image' = [image EXCEPT ![named'] = task[p].dump]
          /\ UNCHANGED <<rows, fresh, db>>
      BY <1>2, <2>5 DEF BackupWriteManifest, Goto, Workers
    <3>2. /\ task'[p].op = task[p].op /\ task'[p].pre = task[p].pre
          /\ task'[p].from = task[p].from /\ task'[p].dump = NoImage
      BY <1>2, <3>1 DEF Task
    <3>3. WorkerHolds(p)'
      BY <1>6, <2>2, <3>1, <3>2
         DEF WorkerHolds, GuardHolds, PreQueued, TaskHolds, LoadedHolds, OperationSteps,
             BackupSteps
    <3>4. QueuedAloneIn(rows')
      BY <2>3, <3>1 DEF FinishedInv, QueuedAloneIn, ActiveIn, NoneQueued
    <3>5. \A b \in Names : image'[b] = image[b] \/ NoneQueued(image'[b].rows)
      BY <1>2, <3>1 DEF FinishedInv, DumpsNotQueued
    <3>6. FinishedInv'
      BY <1>1, <1>3, <3>1, <3>2, <3>3, <3>4, <3>5, NothingQueued, WorkerFinished
    <3>7. QED
      BY <1>7, <2>5, <3>1, <3>6 DEF BackupWriteManifest
  <2>6. CASE BackupSucceed(p)
    <3>1. /\ rows'[Job(p)].status = "success"
          /\ \A i \in Ids \ {Job(p)} : rows'[i] = rows[i]
          /\ UNCHANGED <<db, image>>
      BY <1>2, <1>4, <2>6 DEF BackupSucceed, diskVars, Rows, Tables
    <3>2. NoneReturns(rows, rows')
      BY <3>1 DEF NoneReturns
    <3>3. CASE EndTask(p)
      <4>1. pc'[p] # pc[p]
        BY <1>2, <1>3, <3>3 DEF EndTask, BackupSteps
      <4>2. QED
        BY <1>1, <1>3, <3>1, <3>2, <3>3, <4>1, EndTaskFinished
    <3>4. CASE /\ Nested(p)
               /\ Goto(p, "restore_verify")
               /\ task' = [task EXCEPT ![p] = [@ EXCEPT !.preStatus = "success", !.name = NoId]]
               /\ UNCHANGED fresh
      <4>1. /\ pc'[p] = "restore_verify"
            /\ task'[p].op = task[p].op /\ task'[p].pre = task[p].pre
            /\ task'[p].from = task[p].from /\ task'[p].preStatus = "success"
            /\ task'[p].dump = task[p].dump
            /\ \A q \in Schedulers : q # p => pc'[q] = pc[q] /\ task'[q] = task[q]
        BY <1>2, <3>4 DEF Goto, Task, Workers
      <4>2. GuardHolds(p)'
        BY <1>4, <1>6, <2>2, <3>1, <3>4, <4>1 DEF GuardHolds
      <4>3. WorkerHolds(p)'
        BY <1>6, <4>1, <4>2
           DEF WorkerHolds, PreQueued, TaskHolds, LoadedHolds, OperationSteps, RestoreSteps
      <4>4. QueuedAloneIn(rows')
        BY <3>1, <3>2, NoneReturnsAlone DEF FinishedInv
      <4>5. FinishedInv'
        BY <1>1, <1>3, <3>1, <4>1, <4>3, <4>4, WorkerFinished
      <4>6. QED
        BY <2>1, <3>2, <4>1, <4>5
    <3>5. QED
      BY <2>6, <3>3, <3>4 DEF BackupSucceed
  <2>7. CASE BackupFail(p)
    <3>1. NoneReturns(rows, rows')
      <4>1. CASE rows' = [rows EXCEPT ![Job(p)] = Ended(rows[Job(p)], "error")]
        <5>1. Ended(rows[Job(p)], "error").status = "error"
          BY <1>2, <1>4, EndedType DEF Rows, Tables, Statuses
        <5>2. QED
          BY <1>2, <1>4, <4>1, <5>1, SaveNoneReturns
      <4>2. QED
        BY <1>2, <1>7, <2>7, <4>1 DEF BackupFail
    <3>2. \A b \in Names : image'[b] = image[b] \/ image'[b] = NoImage
      BY <1>2, <1>4, <2>7 DEF BackupFail, diskVars
    <3>3. CASE EndTask(p)
      <4>1. pc'[p] # pc[p]
        BY <1>2, <1>3, <3>3 DEF EndTask, BackupSteps
      <4>2. QED
        BY <1>1, <1>3, <3>1, <3>2, <3>3, <4>1, EndTaskFinished
    <3>4. CASE /\ Goto(p, "restore_fail")
               /\ task' = [task EXCEPT ![p] =
                              [@ EXCEPT !.preStatus = "error", !.dump = NoImage,
                                        !.name = NoId]]
      <4>1. /\ pc'[p] = "restore_fail"
            /\ task'[p].op = task[p].op /\ task'[p].pre = task[p].pre
            /\ task'[p].preStatus = "error" /\ task'[p].dump = NoImage
            /\ \A q \in Schedulers : q # p => pc'[q] = pc[q] /\ task'[q] = task[q]
        BY <1>2, <3>4 DEF Goto, Task, Workers
      <4>2. WorkerHolds(p)'
        BY <1>6, <4>1
           DEF WorkerHolds, GuardHolds, Guarded, PreQueued, TaskHolds, LoadedHolds, OperationSteps, BackupSteps, RestoreSteps
      <4>3. QueuedAloneIn(rows')
        BY <3>1, <3>2, NoneReturnsAlone DEF FinishedInv
      <4>4. FinishedInv'
        BY <1>1, <1>3, <3>2, <4>1, <4>2, <4>3, NothingQueued, WorkerFinished
      <4>5. QED
        BY <2>1, <3>1, <4>1, <4>4
    <3>5. QED
      BY <2>7, <3>3, <3>4 DEF BackupFail
  <2>8. QED
    BY <1>9, <2>4, <2>5, <2>6, <2>7 DEF BackupBegin
<1>10. QED
  BY <1>8, <1>9 DEF BackupDump, BackupWriteManifest, BackupSucceed, BackupFail

\* What has ended is not active again.
NoneRevived ==
    \A i \in Ids :
        rows[i].status \in {"success", "error"} => rows'[i].status \notin {"queued", "running"}

LEMMA NoneReturnsRevived ==
    ASSUME NoneReturns(rows, rows')
    PROVE  NoneRevived
BY DEF NoneReturns, NoneRevived, ActiveIn

LEMMA WrittenBackRow ==
    ASSUME NEW rs \in Rows, NEW p \in Workers, NEW status, NEW i \in Ids
    PROVE  /\ i = task[p].op => WrittenBack(rs, p, status)[i].status = status
           /\ i # task[p].op /\ i = task[p].pre
              => WrittenBack(rs, p, status)[i].status = task[p].preStatus
           /\ i \notin {task[p].op, task[p].pre} => WrittenBack(rs, p, status)[i] = rs[i]
BY DEF WrittenBack

LEMMA RestoreFinished ==
    ASSUME FinishedInv, NEW p \in Schedulers,
           \/ Passing(p) \/ RestoreBegin(p) \/ CreatePreRestore(p) \/ LoadEnd(p)
           \/ LoadFail(p) \/ FinalizeSuccess(p) \/ FinalizeError(p) \/ LeaveRestoreMode(p)
    PROVE  FinishedInv' /\ (db = "loading" \/ NoneRevived) /\ pc'[p] # pc[p]
<1>1. ExclusionInv'
  BY RestoreExclusion DEF FinishedInv
<1>2. /\ p \in Workers /\ rows \in Rows /\ pc \in [Workers -> Steps] /\ task \in [Workers -> Task]
      /\ image \in [Names -> Image]
  BY DEF FinishedInv, ExclusionInv, TypeInv, TypeOK, Rows, Tables, Workers
<1>3. pc[p] \in RestoreSteps /\ pc[p] # "down" /\ pc[p] \in OperationSteps
  BY DEF Passing, RestoreBegin, CreatePreRestore, LoadEnd, LoadFail, FinalizeSuccess,
         FinalizeError, LeaveRestoreMode, EnterRestoreMode, RestoreVerify, LoadBegin,
         Reassert, PostCommandsAndSwap, RestoreFail, RestoreSteps, OperationSteps
<1>4. task[p].op \in Ids
  BY <1>2, <1>3 DEF FinishedInv, ExclusionInv, TypeInv, TaskOK
<1>5. WorkerHolds(p) /\ task[p].op # task[p].pre
  BY <1>4 DEF FinishedInv, WorkerHolds, TaskHolds
<1>6. NoneReturns(rows, rows)
  BY DEF NoneReturns
<1>7. CASE Passing(p)
  <2>1. /\ UNCHANGED <<rows, image, task, fresh>>
        /\ \A q \in Schedulers : q # p => pc'[q] = pc[q]
    BY <1>2, <1>7 DEF Passing, EnterRestoreMode, RestoreVerify, LoadBegin, Reassert,
                      PostCommandsAndSwap, RestoreFail, Goto, diskVars, Workers
  <2>2. QueuedAloneIn(rows')
    BY <2>1 DEF FinishedInv, QueuedAloneIn, ActiveIn
  <2>3. WorkerHolds(p)' /\ pc'[p] # pc[p]
    <3>1. CASE EnterRestoreMode(p)
      <4>1. pc[p] = "restore_mode" /\ pc'[p] = "restore_check"
        BY <1>2, <3>1 DEF EnterRestoreMode, Goto
      <4>2. QED
        BY <1>5, <2>1, <4>1
           DEF WorkerHolds, GuardHolds, Guarded, PreQueued, TaskHolds, LoadedHolds, OperationSteps, RestoreSteps
    <3>2. CASE RestoreVerify(p)
      <4>1. pc[p] = "restore_verify" /\ pc'[p] = "restore_load"
        BY <1>2, <3>2 DEF RestoreVerify, Goto
      <4>2. QED
        BY <1>5, <2>1, <4>1
           DEF WorkerHolds, GuardHolds, Guarded, PreQueued, TaskHolds, LoadedHolds, OperationSteps, RestoreSteps
    <3>3. CASE LoadBegin(p)
      <4>1. pc[p] = "restore_load" /\ pc'[p] = "restore_loading" /\ db' = "loading"
        BY <1>2, <3>3 DEF LoadBegin, Goto
      <4>2. QED
        BY <1>5, <2>1, <4>1
           DEF WorkerHolds, GuardHolds, Guarded, PreQueued, TaskHolds, LoadedHolds, OperationSteps, RestoreSteps
    <3>4. CASE Reassert(p) \/ PostCommandsAndSwap(p)
      <4>1. \/ pc[p] = "restore_reassert" /\ pc'[p] = "restore_post"
            \/ pc[p] = "restore_post" /\ pc'[p] = "restore_success"
        BY <1>2, <3>4 DEF Reassert, PostCommandsAndSwap, Goto
      <4>2. QED
        BY <1>5, <2>1, <4>1
           DEF WorkerHolds, GuardHolds, Guarded, PreQueued, TaskHolds, LoadedHolds, OperationSteps, BackupSteps, RestoreSteps
    <3>5. CASE RestoreFail(p)
      <4>1. /\ pc[p] \in {"restore_check", "restore_verify", "restore_load", "restore_reassert",
                          "restore_post", "restore_success", "restore_leave"}
            /\ pc'[p] = "restore_fail"
        BY <1>2, <3>5 DEF RestoreFail, Goto
      <4>2. task[p].preStatus \in {"absent", "success"}
        BY <1>5, <4>1 DEF WorkerHolds, TaskHolds
      <4>3. QED
        BY <1>5, <2>1, <4>1, <4>2
           DEF WorkerHolds, GuardHolds, Guarded, PreQueued, TaskHolds, LoadedHolds, OperationSteps, BackupSteps, RestoreSteps
    <3>6. QED
      BY <1>7, <3>1, <3>2, <3>3, <3>4, <3>5 DEF Passing
  <2>4. FinishedInv'
    BY <1>1, <1>3, <2>1, <2>2, <2>3, WorkerFinished
  <2>5. QED
    BY <1>6, <2>1, <2>3, <2>4, NoneReturnsRevived
<1>8. CASE RestoreBegin(p)
  <2>1. pc[p] = "restore_begin" /\ rows[task[p].op].status = "running"
    BY <1>8 DEF FinishedInv, ExclusionInv, ClaimHolds, RestoreBegin
  <2>2. /\ rows' = [rows EXCEPT ![task[p].op] = Started(rows[task[p].op])]
        /\ pc'[p] = "restore_mode"
        /\ \A q \in Schedulers : q # p => pc'[q] = pc[q]
        /\ fresh' = Touched(p)
        /\ UNCHANGED <<task, db, image>>
    BY <1>2, <1>8, <2>1 DEF RestoreBegin, diskVars, Goto, Workers
  <2>3. rows'[task[p].op].status = "running" /\ \A i \in Ids \ {task[p].op} : rows'[i] = rows[i]
    BY <1>2, <1>4, <2>2, StartedType DEF Rows, Tables
  <2>4. NoneReturns(rows, rows')
    BY <1>4, <2>1, <2>3 DEF NoneReturns, ActiveIn
  <2>5. fresh' /\ task[p].pre = NoId /\ task[p].preStatus = "absent"
    BY <1>5, <2>1, <2>2 DEF WorkerHolds, TaskHolds, Touched, Nested
  <2>6. WorkerHolds(p)'
    BY <1>5, <2>2, <2>3, <2>5
       DEF WorkerHolds, GuardHolds, PreQueued, TaskHolds, LoadedHolds, OperationSteps,
           RestoreSteps
  <2>7. QueuedAloneIn(rows')
    BY <2>2, <2>4, NoneReturnsAlone DEF FinishedInv
  <2>8. FinishedInv'
    BY <1>1, <1>3, <2>2, <2>6, <2>7, WorkerFinished
  <2>9. QED
    BY <2>1, <2>2, <2>4, <2>8, NoneReturnsRevived
<1>9. CASE CreatePreRestore(p)
  <2>1. PICK i \in NextId("pre_restore") :
          /\ rows' = [rows EXCEPT ![i] = QueuedRow("pre_restore", NoId)]
          /\ task' = [task EXCEPT ![p] = [@ EXCEPT !.pre = i, !.preStatus = "queued"]]
    BY <1>9 DEF CreatePreRestore
  <2>2. /\ i \in Ids /\ i # NoId /\ i # task[p].op /\ rows[i].status = "absent"
    <3>1. i \in Ids /\ i \in BackupIds /\ rows[i].status = "absent"
      BY NextKey DEF Kinds, Keys
    <3>2. task[p].op \in RestoreIds
      BY <1>2, <1>3 DEF FinishedInv, ExclusionInv, TypeInv, TaskOK
    <3>3. QED
      BY <3>1, <3>2, NoIdsOutside, ConstantsAssumption
  <2>3. /\ pc[p] = "restore_check" /\ pc'[p] = "backup_begin" /\ task[p].from \in onDisk
        /\ task'[p].pre = i /\ task'[p].op = task[p].op /\ task'[p].from = task[p].from
        /\ task'[p].dump = task[p].dump
        /\ \A q \in Schedulers : q # p => pc'[q] = pc[q] /\ task'[q] = task[q]
        /\ UNCHANGED <<fresh, db, image>>
    <3>1. /\ pc[p] = "restore_check" /\ task[p].from \in onDisk /\ pc' = [pc EXCEPT ![p] = "backup_begin"]
          /\ UNCHANGED <<fresh, db, image>>
      BY <1>9 DEF CreatePreRestore, Goto, diskVars
    <3>2. /\ p \in Workers /\ task[p] \in Task /\ task \in [Workers -> Task] /\ pc \in [Workers -> Steps]
          /\ Schedulers \subseteq Workers
      BY <1>2 DEF Workers
    <3>3. /\ task'[p] = [task[p] EXCEPT !.pre = i, !.preStatus = "queued"] /\ pc'[p] = "backup_begin"
          /\ \A q \in Schedulers : q # p => pc'[q] = pc[q] /\ task'[q] = task[q]
      BY <2>1, <3>1, <3>2
    <3>4. /\ task'[p].pre = i /\ task'[p].op = task[p].op /\ task'[p].from = task[p].from
          /\ task'[p].dump = task[p].dump
      BY <3>2, <3>3 DEF Task
    <3> QED BY <3>1, <3>3, <3>4
  <2>4. /\ rows'[i].status = "queued" /\ rows'[i].kind = "pre_restore"
        /\ \A j \in Ids \ {i} : rows'[j] = rows[j]
    BY <1>2, <2>1, <2>2 DEF Rows, Tables, QueuedRow
  <2>5. fresh /\ rows[task[p].op].status = "running"
    BY <1>5, <2>3 DEF WorkerHolds, GuardHolds, Guarded
  <2>6. NoneQueued(rows)
    BY <1>4, <2>5, RunningNoneQueued DEF FinishedInv
  <2>7. QueuedAloneIn(rows')
    BY <2>4, <2>6 DEF QueuedAloneIn, NoneQueued
  <2>8. GuardHolds(p)' /\ PreQueued(p)'
    BY <1>4, <2>2, <2>3, <2>4, <2>5 DEF GuardHolds, PreQueued
  <2>9. TaskHolds(p)' /\ LoadedHolds(p)'
    BY <2>2, <2>3 DEF TaskHolds, LoadedHolds, OperationSteps, BackupSteps
  <2>10. FinishedInv'
    <3>1. WorkerHolds(p)'
      BY <2>8, <2>9 DEF WorkerHolds
    <3>2. QED
      BY <1>1, <1>3, <2>3, <2>7, <3>1, WorkerFinished
  <2>11. QED
    BY <2>2, <2>3, <2>4, <2>10 DEF NoneRevived
<1>10. CASE LoadEnd(p)
  <2>1. /\ pc[p] = "restore_loading" /\ pc'[p] = "restore_reassert"
        /\ rows' = image[task[p].from].rows
        /\ \A q \in Schedulers : q # p => pc'[q] = pc[q]
        /\ UNCHANGED <<task, image>>
    BY <1>2, <1>10 DEF LoadEnd, Goto, diskVars, Workers
  <2>2. task[p].from \in Names /\ db = "loading"
    BY <1>2, <1>5, <2>1
       DEF FinishedInv, ExclusionInv, TypeInv, TaskOK, WorkerHolds, LoadedHolds
  <2>3. NoneQueued(rows')
    BY <2>1, <2>2 DEF FinishedInv, DumpsNotQueued
  <2>4. QueuedAloneIn(rows')
    BY <2>3 DEF QueuedAloneIn, NoneQueued
  <2>6. task[p].preStatus = "success"
    BY <1>5, <2>1 DEF WorkerHolds, TaskHolds
  <2>7. WorkerHolds(p)'
    BY <1>5, <2>1, <2>6
       DEF WorkerHolds, GuardHolds, Guarded, PreQueued, TaskHolds, LoadedHolds, OperationSteps, BackupSteps, RestoreSteps
  <2>8. FinishedInv'
    BY <1>1, <1>3, <2>1, <2>4, <2>7, WorkerFinished
  <2>9. QED
    BY <2>1, <2>2, <2>8
<1>11. CASE LoadFail(p)
  <2>1. UNCHANGED <<rows, image>> /\ pc[p] = "restore_loading"
    BY <1>11 DEF LoadFail, diskVars
  <2>2. CASE EndTask(p)
    <3>1. pc'[p] # pc[p]
      BY <1>2, <2>1, <2>2 DEF EndTask
    <3>2. QED
      BY <1>1, <1>3, <1>6, <2>1, <2>2, <3>1, EndTaskFinished, NoneReturnsRevived
  <2>3. CASE Goto(p, "restore_fail") /\ UNCHANGED task
    <3>1. /\ pc'[p] = "restore_fail"
          /\ \A q \in Schedulers : q # p => pc'[q] = pc[q]
      BY <1>2, <2>3 DEF Goto, Workers
    <3>2. task[p].preStatus = "success"
      BY <1>5, <2>1 DEF WorkerHolds, TaskHolds
    <3>3. WorkerHolds(p)'
      BY <1>5, <2>3, <3>1, <3>2
         DEF WorkerHolds, GuardHolds, Guarded, PreQueued, TaskHolds, LoadedHolds, OperationSteps, BackupSteps, RestoreSteps
    <3>4. QueuedAloneIn(rows')
      BY <2>1 DEF FinishedInv, QueuedAloneIn, ActiveIn
    <3>5. FinishedInv'
      BY <1>1, <1>3, <2>1, <2>3, <3>1, <3>3, <3>4, WorkerFinished
    <3>6. QED
      BY <1>6, <2>1, <3>1, <3>5, NoneReturnsRevived
  <2>4. QED
    BY <1>11, <2>2, <2>3 DEF LoadFail
<1>12. CASE FinalizeSuccess(p)
  <2> DEFINE rs == MarkError(rows, Active \ {task[p].op, task[p].pre})
  <2>1. /\ pc[p] = "restore_success" /\ pc'[p] = "restore_leave"
        /\ rows' = WrittenBack(rs, p, "success")
        /\ \A q \in Schedulers : q # p => pc'[q] = pc[q]
        /\ UNCHANGED <<task, image, fresh>>
    BY <1>2, <1>12 DEF FinalizeSuccess, Goto, diskVars, Workers
  <2>2. rs \in Rows /\ \A i \in Ids : rs[i] = rows[i] \/ rs[i].status = "error"
    BY <1>2, MarkErrorType, MarkedRow DEF Active, ActiveIn
  <2> HIDE DEF rs
  <2>3. task[p].preStatus = "success"
    BY <1>5, <2>1 DEF WorkerHolds, TaskHolds
  <2>4. /\ \A i \in Ids \cap {task[p].op, task[p].pre} : rows'[i].status = "success"
        /\ \A i \in Ids \ {task[p].op, task[p].pre} : rows'[i] = rs[i]
    BY <1>2, <2>1, <2>2, <2>3, WrittenBackRow
  <2>5. NoneReturns(rows, rows')
    BY <2>2, <2>4 DEF NoneReturns
  <2>6. WorkerHolds(p)'
    BY <1>5, <2>1, <2>3, <2>4
       DEF WorkerHolds, GuardHolds, Guarded, PreQueued, TaskHolds, LoadedHolds, OperationSteps, BackupSteps, RestoreSteps
  <2>7. QueuedAloneIn(rows')
    BY <2>1, <2>5, NoneReturnsAlone DEF FinishedInv
  <2>8. FinishedInv'
    BY <1>1, <1>3, <2>1, <2>6, <2>7, WorkerFinished
  <2>9. QED
    BY <2>1, <2>5, <2>8, NoneReturnsRevived
<1>13. CASE FinalizeError(p)
  <2>1. /\ pc[p] = "restore_fail" /\ pc'[p] = "restore_leave_error"
        /\ rows' = WrittenBack(rows, p, "error")
        /\ \A q \in Schedulers : q # p => pc'[q] = pc[q]
        /\ UNCHANGED <<task, image, fresh>>
    BY <1>2, <1>13 DEF FinalizeError, Goto, diskVars, Workers
  <2>2. /\ task[p].preStatus # "queued"
        /\ task[p].preStatus = "running"
           => fresh /\ (task[p].pre \in Ids => rows[task[p].pre].status = "queued")
    BY <1>5, <2>1 DEF WorkerHolds, TaskHolds, PreQueued
  <2>3. /\ rows'[task[p].op].status = "error"
        /\ task[p].pre \in Ids => rows'[task[p].pre].status = task[p].preStatus
        /\ \A i \in Ids \ {task[p].op, task[p].pre} : rows'[i] = rows[i]
    BY <1>2, <1>4, <1>5, <2>1, WrittenBackRow
  <2>4. NoneReturns(rows, rows')
    BY <2>2, <2>3 DEF NoneReturns, ActiveIn
  <2>5. LoadedHolds(p)'
    BY <2>1, <2>2, <2>3 DEF LoadedHolds
  <2>6. WorkerHolds(p)'
    BY <1>5, <2>1, <2>2, <2>5
       DEF WorkerHolds, GuardHolds, Guarded, PreQueued, TaskHolds,
           OperationSteps, BackupSteps, RestoreSteps
  <2>7. QueuedAloneIn(rows')
    BY <2>1, <2>4, NoneReturnsAlone DEF FinishedInv
  <2>8. FinishedInv'
    BY <1>1, <1>3, <2>1, <2>6, <2>7, WorkerFinished
  <2>9. QED
    BY <2>1, <2>4, <2>8, NoneReturnsRevived
<1>14. CASE LeaveRestoreMode(p)
  <2>1. EndTask(p) /\ UNCHANGED <<rows, image>>
    BY <1>14 DEF LeaveRestoreMode, diskVars
  <2>2. pc'[p] # pc[p]
    BY <1>2, <1>3, <2>1 DEF EndTask, RestoreSteps
  <2>3. QED
    BY <1>1, <1>3, <1>6, <2>1, <2>2, EndTaskFinished, NoneReturnsRevived
<1>15. QED
  BY <1>7, <1>8, <1>9, <1>10, <1>11, <1>12, <1>13, <1>14

LEMMA EnvironmentFinished ==
    FinishedInv /\ NoOverlap /\ Environment => FinishedInv' /\ NoneRevived
<1>1. SUFFICES ASSUME FinishedInv, NoOverlap, Environment
               PROVE  FinishedInv' /\ NoneRevived
  OBVIOUS
<1>2. ExclusionInv'
  BY <1>1, EnvironmentExclusion DEF FinishedInv
<1>3. /\ rows \in Rows /\ pc \in [Workers -> Steps] /\ task \in [Workers -> Task]
      /\ Workers = Schedulers
  BY <1>1 DEF FinishedInv, ExclusionInv, NoOverlap, TypeInv, TypeOK, Rows, Tables, Workers
<1>4. NoneReturns(rows, rows)
  BY DEF NoneReturns
<1>5. ASSUME UNCHANGED <<diskVars, procVars>>, NoneReturns(rows, rows'),
             \A s \in Schedulers : WorkerHolds(s)'
      PROVE  FinishedInv' /\ NoneRevived
  <2>1. QueuedAloneIn(rows')
    BY <1>1, <1>5, NoneReturnsAlone DEF FinishedInv, diskVars
  <2>2. DumpsNotQueued'
    BY <1>1, <1>5 DEF FinishedInv, DumpsNotQueued, NoneQueued, diskVars, procVars
  <2>3. QED
    BY <1>2, <1>5, <2>1, <2>2, NoneReturnsRevived DEF FinishedInv, QueuedAloneIn, ActiveIn
<1>6. CASE ScheduleFallsDue \/ \E s \in Schedulers : HeartbeatTouch(s)
  <2>1. UNCHANGED <<rows, db, diskVars, procVars>> /\ (fresh => fresh')
    BY <1>6 DEF ScheduleFallsDue, HeartbeatTouch
  <2>2. \A s \in Schedulers : WorkerHolds(s)'
    BY <1>1, <2>1, WorkersUntouched
  <2>3. QED
    BY <1>4, <1>5, <2>1, <2>2
<1>7. CASE HeartbeatExpires
  <2>1. UNCHANGED <<rows, db, diskVars, procVars>> /\ \A s \in Schedulers : ~Beating(s)
    BY <1>7 DEF HeartbeatExpires
  <2>2. ASSUME NEW s \in Schedulers
        PROVE  WorkerHolds(s)'
    <3>1. UNCHANGED <<pc, task, image>> /\ WorkerHolds(s) /\ ~Beating(s)
      BY <1>1, <2>1 DEF FinishedInv, procVars, diskVars
    <3>2. /\ pc[s] \notin {"restore_fail", "restore_leave_error"}
          /\ ~Guarded(s)
      BY <3>1 DEF Beating, Guarded, OperationSteps, BackupSteps, RestoreSteps
    <3>3. GuardHolds(s)' /\ PreQueued(s)'
      BY <2>1, <3>1, <3>2 DEF GuardHolds, PreQueued, Guarded, Nested
    <3>4. TaskHolds(s)' /\ LoadedHolds(s)'
      BY <2>1, <3>1, <3>2
         DEF WorkerHolds, TaskHolds, LoadedHolds, Nested
    <3>5. QED
      BY <3>3, <3>4 DEF WorkerHolds
  <2>3. QED
    BY <1>4, <1>5, <2>1, <2>2
<1>8. CASE LoseLock
  BY <1>1, <1>8 DEF LoseLock, NoOverlap
<1>9. ASSUME NEW i \in Ids, RowAges(i)
      PROVE  FinishedInv' /\ NoneRevived
  <2>1. /\ UNCHANGED <<fresh, db, diskVars, procVars>>
        /\ rows[i].status = "running"
        /\ rows' = [rows EXCEPT ![i].age = "stale"]
    BY <1>9 DEF RowAges
  <2>2. \A j \in Ids : rows'[j].status = rows[j].status /\ (j # i => rows'[j] = rows[j])
    BY <1>3, <2>1 DEF Rows, Tables, Row
  <2>3. NoneReturns(rows, rows')
    BY <2>1, <2>2 DEF NoneReturns, ActiveIn
  <2>4. \A s \in Schedulers : WorkerHolds(s)'
    BY <1>1, <2>1, <2>2, WorkersUntouched
  <2>5. QED
    BY <1>5, <2>1, <2>3, <2>4
<1>10. ASSUME NEW p \in Workers, Crash(p)
       PROVE  FinishedInv' /\ NoneRevived
  <2>1. /\ UNCHANGED <<rows, image>>
        /\ pc[p] # "down" /\ pc'[p] = "down" /\ task'[p] = NoTask
        /\ \A q \in Schedulers : q # p => pc'[q] = pc[q] /\ task'[q] = task[q]
    BY <1>3, <1>10 DEF Crash, diskVars
  <2>2. task'[p].op = NoId /\ task'[p].pre = NoId /\ task'[p].dump = NoImage
    BY <2>1 DEF NoTask
  <2>3. WorkerHolds(p)'
    BY <1>3, <2>1, <2>2, IdleHoldsNext DEF OperationSteps, BackupSteps, RestoreSteps
  <2>4. QueuedAloneIn(rows')
    BY <1>1, <2>1 DEF FinishedInv, QueuedAloneIn, ActiveIn
  <2>5. QED
    BY <1>1, <1>2, <1>3, <1>4, <2>1, <2>2, <2>3, <2>4, NothingQueued, WorkerFinished,
       NoneReturnsRevived
<1>11. ASSUME NEW p \in Workers, Raise(p)
       PROVE  FinishedInv' /\ NoneRevived
  <2>1. UNCHANGED <<rows, image>> /\ pc[p] # "down"
    BY <1>11 DEF Raise, diskVars, BackupSteps
  <2>2. CASE EndTask(p)
    BY <1>1, <1>2, <1>3, <1>4, <2>1, <2>2, EndTaskFinished, NoneReturnsRevived
  <2>3. CASE pc[p] \in BackupSteps /\ Nested(p)
    <3> DEFINE status == IF pc[p] = "backup_begin" THEN "running" ELSE "error"
               new == [task[p] EXCEPT !.dump = NoImage, !.name = NoId, !.preStatus = status]
    <3>1. task' = [task EXCEPT ![p] = new] /\ Goto(p, "restore_fail") /\ UNCHANGED fresh
      BY <1>11, <2>3 DEF Raise
    <3>2. new.dump = NoImage /\ new.op = task[p].op /\ new.pre = task[p].pre
          /\ new.preStatus = status
      BY <1>3 DEF Task
    <3>3. /\ pc'[p] = "restore_fail" /\ task'[p].dump = NoImage /\ task'[p].op = task[p].op
          /\ task'[p].pre = task[p].pre /\ task'[p].preStatus = status
          /\ \A q \in Schedulers : q # p => pc'[q] = pc[q] /\ task'[q] = task[q]
      BY <1>3, <3>1, <3>2 DEF Goto
    <3>4. WorkerHolds(p) /\ p \in Schedulers
      BY <1>1, <1>3 DEF FinishedInv
    <3>5. PreQueued(p)'
      BY <2>1, <2>3, <3>1, <3>3, <3>4
         DEF WorkerHolds, PreQueued, GuardHolds, Guarded
    <3>6. WorkerHolds(p)'
      BY <3>3, <3>4, <3>5
         DEF WorkerHolds, GuardHolds, Guarded, TaskHolds, LoadedHolds, OperationSteps, BackupSteps, RestoreSteps
    <3>7. QueuedAloneIn(rows')
      BY <1>1, <2>1 DEF FinishedInv, QueuedAloneIn, ActiveIn
    <3>8. QED
      BY <1>1, <1>2, <1>4, <2>1, <3>3, <3>4, <3>6, <3>7, NothingQueued, WorkerFinished,
         NoneReturnsRevived
  <2>4. QED
    BY <1>11, <2>2, <2>3 DEF Raise
<1>12. QED
  BY <1>1, <1>6, <1>7, <1>8, <1>9, <1>10, <1>11 DEF Environment

\* What the web handlers and the loop of the scheduler do to the rows.
LEMMA RequestsRevive ==
    ASSUME FinishedInv, Web \/ \E s \in Schedulers : SchedulerLoop(s)
    PROVE  NoneRevived
<1>1. rows \in Rows
  BY DEF FinishedInv, ExclusionInv, TypeInv, TypeOK, Rows, Tables
<1>2. ASSUME NEW i \in Ids, rows[i].status \notin {"success", "error"},
             NEW row, rows' = [rows EXCEPT ![i] = row]
      PROVE  NoneRevived
  BY <1>1, <1>2 DEF NoneRevived, Rows, Tables
<1>3. ASSUME NEW marked, rows' = MarkError(rows, marked)
      PROVE  NoneRevived
  BY <1>1, <1>3, MarkErrorNoneReturns, NoneReturnsRevived
<1>4. CASE UNCHANGED rows
  BY <1>4 DEF NoneRevived
<1>5. CASE Web
  <2>1. CASE StartBackup
    BY <1>2, <2>1, NextKey DEF StartBackup, Kinds
  <2>2. CASE \E b \in Names : StartRestore(b)
    BY <1>2, <2>2, NextKey DEF StartRestore, Kinds
  <2>3. CASE RecoverRestore
    BY <1>3, <2>3 DEF RecoverRestore
  <2>4. QED
    BY <1>4, <1>5, <2>1, <2>2, <2>3 DEF Web, RequestMode, ApplyMode, SetMaintenance
<1>6. ASSUME NEW s \in Schedulers, SchedulerLoop(s)
      PROVE  NoneRevived
  <2>1. CASE SchedulerStart(s)
    BY <1>3, <2>1 DEF SchedulerStart
  <2>2. CASE ClaimScheduled(s)
    <3>1. PICK i \in NextId("backup") : Perform(s, i, [rows EXCEPT ![i] = QueuedRow("backup", NoId)])
      BY <2>2 DEF ClaimScheduled
    <3>2. i \in Ids /\ rows[i].status = "absent"
      BY NextKey DEF Kinds
    <3>3. PICK row : rows' = [[rows EXCEPT ![i] = QueuedRow("backup", NoId)] EXCEPT ![i] = row]
      BY <3>1 DEF Perform
    <3>4. rows' = [rows EXCEPT ![i] = row]
      BY <1>1, <3>2, <3>3 DEF Rows, Tables
    <3>5. QED
      BY <1>2, <3>2, <3>4
  <2>3. CASE ClaimQueued(s)
    BY <1>2, <2>3 DEF ClaimQueued, Queued, Perform
  <2>4. QED
    BY <1>4, <1>6, <2>1, <2>2, <2>3 DEF SchedulerLoop, Tick, ClaimNothing, ExitWithoutLock
<1>7. QED
  BY <1>5, <1>6

LEMMA OperationFinished ==
    ASSUME FinishedInv, NEW p \in Schedulers, Operation(p)
    PROVE  FinishedInv' /\ (db = "loading" \/ NoneRevived) /\ pc'[p] # pc[p]
<1>1. CASE \/ BackupBegin(p) \/ BackupDump(p) \/ BackupWriteManifest(p) \/ BackupSucceed(p)
           \/ BackupFail(p)
  BY <1>1, BackupFinished, NoneReturnsRevived
<1>2. QED
  BY <1>1, RestoreFinished DEF Operation, Passing

LEMMA FinishedStep ==
    FinishedInv /\ NoOverlap /\ [Next]_vars => FinishedInv' /\ (db = "loading" \/ NoneRevived)
<1>1. SUFFICES ASSUME FinishedInv, NoOverlap, [Next]_vars
               PROVE  FinishedInv' /\ (db = "loading" \/ NoneRevived)
  OBVIOUS
<1>2. CASE UNCHANGED vars
  <2>1. ExclusionInv'
    BY <1>1, <1>2, ExclusionStep DEF FinishedInv
  <2>2. \A s \in Schedulers : WorkerHolds(s)'
    BY <1>1, <1>2, WorkersUntouched DEF vars, diskVars, procVars
  <2>3. DumpsNotQueued' /\ QueuedAloneIn(rows)' /\ NoneRevived
    BY <1>1, <1>2
       DEF vars, FinishedInv, DumpsNotQueued, NoneQueued, QueuedAloneIn, ActiveIn, NoneRevived
  <2>4. QED
    BY <2>1, <2>2, <2>3 DEF FinishedInv
<1>3. CASE \E p \in Workers : Operation(p)
  BY <1>1, <1>3, OperationFinished DEF NoOverlap, Workers
<1>4. CASE \E c \in Clis : Commands(c)
  BY <1>1, <1>4 DEF NoOverlap
<1>5. CASE Web
  BY <1>1, <1>5, WebFinished, RequestsRevive
<1>6. CASE \E s \in Schedulers : SchedulerLoop(s)
  BY <1>1, <1>6, LoopFinished, RequestsRevive
<1>7. CASE Environment
  BY <1>1, <1>7, EnvironmentFinished
<1>8. QED
  BY <1>1, <1>2, <1>3, <1>4, <1>5, <1>6, <1>7 DEF Next

LEMMA FinishedInit == Init => FinishedInv
<1>1. SUFFICES ASSUME Init PROVE FinishedInv
  OBVIOUS
<1>2. ExclusionInv
  BY <1>1, ExclusionInit
<1>3. \A s \in Schedulers : pc[s] = "down" /\ task[s] = NoTask
  BY <1>1 DEF Init, Workers
<1>4. \A s \in Schedulers : WorkerHolds(s)
  BY <1>3, IdleHolds DEF NoTask, OperationSteps, BackupSteps, RestoreSteps
<1>5. DumpsNotQueued
  BY <1>1, <1>3, NothingQueued DEF Init, DumpsNotQueued, NoTask
<1>6. QueuedAloneIn(rows)
  BY <1>1 DEF Init, QueuedAloneIn, NoRow
<1>7. QED
  BY <1>2, <1>4, <1>5, <1>6 DEF FinishedInv

\* Without the management commands, and as long as MySQL does not drop the
\* connection that holds the advisory lock, an operation that has ended stays so
\* until a dump is reloaded: neither the first save of an operation, nor a
\* recovery, nor the rows that restore_backup writes back make it active again.
THEOREM FinishedStays ==
    ASSUME NoOverlap
    PROVE  Spec => FinishedStaysFinished
<1>1. FinishedInv /\ [Next]_vars => FinishedInv' /\ (db = "loading" \/ NoneRevived)
  BY FinishedStep
<1>2. FinishedInv /\ [Next]_vars
      => [\A i \in Ids :
            /\ rows[i].status \in {"success", "error"}
            /\ rows'[i].status \in {"queued", "running"}
            => db = "loading"]_vars
  BY <1>1 DEF NoneRevived
<1>3. QED
  BY <1>1, <1>2, FinishedInit, PTL DEF Spec, FinishedStaysFinished

\* A step that leaves a scheduler where it is does not mark its operation as failed.
LEMMA SparesStep ==
    ASSUME FinishedInv, NoOverlap, Next, NEW s \in Schedulers,
           NEW i \in Ids \cap {task[s].op, task[s].pre}, rows[i].status = "running",
           rows'[i].status = "error", pc[s] \notin LoadedSteps
    PROVE  pc'[s] # pc[s]
<1>1. WorkerHolds(s) /\ i # NoId /\ rows \in Rows
  BY NoIdsOutside DEF FinishedInv, ExclusionInv, TypeInv, TypeOK, Rows, Tables
<1>2. pc[s] \in OperationSteps
  BY <1>1 DEF WorkerHolds, TaskHolds
<1>3. pc[s] \notin {"down", "idle", "tick"}
  BY <1>2 DEF OperationSteps, BackupSteps, RestoreSteps
<1>4. \A q \in Schedulers : q # s => pc[q] = "down"
  BY <1>3, OthersHold
<1>5. CASE Web
  <2>1. CASE RecoverRestore
    BY <2>1, RecoverySpares
  <2>2. CASE StartBackup \/ \E b \in Names : StartRestore(b)
    BY <1>1, <2>2 DEF StartBackup, StartRestore, HasActiveOperation, Active, ActiveIn
  <2>3. QED
    BY <1>5, <2>1, <2>2 DEF Web, RequestMode, ApplyMode, SetMaintenance
<1>6. CASE \E q \in Schedulers : SchedulerLoop(q)
  <2>1. PICK q \in Schedulers : SchedulerLoop(q)
    BY <1>6
  <2>2. lock = s /\ s # NoProc
    BY <1>3, ConstantsAssumption DEF FinishedInv, ExclusionInv, OnlyLockHolderUp
  <2>3. QED
    BY <1>3, <1>4, <2>1, <2>2
       DEF SchedulerLoop, SchedulerStart, Tick, ClaimScheduled, ClaimQueued, ClaimNothing,
           ExitWithoutLock
<1>7. CASE \E q \in Workers : Operation(q)
  <2>1. PICK q \in Schedulers : Operation(q)
    BY <1>7 DEF NoOverlap, Workers
  <2>2. q = s
    BY <1>4, <2>1
       DEF Operation, BackupBegin, BackupDump, BackupWriteManifest, BackupSucceed, BackupFail,
           RestoreBegin, EnterRestoreMode, CreatePreRestore, RestoreVerify, LoadBegin, LoadEnd,
           LoadFail, Reassert, PostCommandsAndSwap, FinalizeSuccess, RestoreFail, FinalizeError,
           LeaveRestoreMode
  <2>3. QED
    BY <2>1, <2>2, OperationFinished
<1>8. CASE Environment
  <2>1. CASE UNCHANGED rows
    BY <2>1
  <2>2. ASSUME NEW j \in Ids, RowAges(j)
        PROVE  FALSE
    BY <1>1, <2>2 DEF RowAges, Rows, Tables, Row
  <2>3. QED
    BY <1>8, <2>1, <2>2
       DEF Environment, HeartbeatTouch, HeartbeatExpires, ScheduleFallsDue, LoseLock, Crash, Raise
<1>9. QED
  BY <1>5, <1>6, <1>7, <1>8 DEF Next, NoOverlap

\* Under the same assumptions no recovery marks as failed what a live scheduler
\* executes, whatever the two clocks of recovery say, as long as its restore has
\* not failed already and its rows are not away with the database they were in.
THEOREM RecoverySparesTheWorker ==
    ASSUME NoOverlap
    PROVE  Spec => RecoverySparesLiveScheduler
<1>1. FinishedInv /\ [Next]_vars => FinishedInv'
  BY FinishedStep
<1>2. FinishedInv /\ [Next]_vars
      => [\A s \in Schedulers : \A i \in Ids \cap {task[s].op, task[s].pre} :
            /\ rows[i].status = "running"
            /\ rows'[i].status = "error"
            /\ pc[s] \notin LoadedSteps
            => pc'[s] # pc[s]]_vars
  BY SparesStep
<1>3. QED
  BY <1>1, <1>2, FinishedInit, PTL DEF Spec, RecoverySparesLiveScheduler, LoadedSteps


-----------------------------------------------------------------------------
(* Who executes what (OperationOwners). *)

\* The row of the restore runs and cannot be recovered now.
Sheltered(p) ==
    /\ task[p].op \notin overtaken
    /\ rows[task[p].op].status = "running" /\ rows[task[p].op].age = "recent"

\* Of what a worker holds, only the backup a restore has created and not begun is in
\* the queue, and the running restore keeps others from taking it.
QueuedOnlyBefore(p) ==
    \A i \in Held(p) \ overtaken :
        rows[i].status = "queued" =>
            i = task[p].pre /\ pc[p] \in {"backup_begin", "restore_fail"} /\ Sheltered(p)

\* ... and a reload apart no row goes, so that its key is nobody else's.
Present(p) == \A i \in Held(p) \ overtaken : rows[i].status # "absent"

ExposedRuns(p) == pc[p] \in ExposedSteps /\ task[p].op \notin overtaken => Sheltered(p)

\* What a restore writes back of its backup is not that it is queued.
PreSettled(p) ==
    task[p].pre # NoId =>
        /\ task[p].pre # task[p].op
        /\ pc[p] \notin BackupSteps => task[p].preStatus \in {"running", "success", "error"}

OwnOK(p) == QueuedOnlyBefore(p) /\ Present(p) /\ ExposedRuns(p) /\ PreSettled(p)

OwnersInv == TypeInv /\ OwnersDistinct /\ \A p \in Workers : OwnOK(p)

\* Of what is held after a step, the same has been overtaken as before.
OvertakenKept == \A q \in Workers : \A i \in Held(q)' : i \in overtaken' <=> i \in overtaken

LEMMA OwnersInitInv == OwnersInit => OwnersInv
<1> SUFFICES ASSUME OwnersInit PROVE OwnersInv
  OBVIOUS
<1>1. TypeInv
  BY TypeInit DEF OwnersInit
<1>2. \A p \in Workers : task[p] = NoTask /\ pc[p] = "down"
  BY DEF OwnersInit, Init
<1>3. \A p \in Workers : Held(p) = {} /\ task[p].pre = NoId
  BY <1>2 DEF Held, NoTask
<1> QED BY <1>1, <1>2, <1>3 DEF OwnersInv, OwnersDistinct, OwnOK, QueuedOnlyBefore, Present, ExposedRuns,
                                ExposedSteps, PreSettled

LEMMA HeldType ==
    ASSUME TypeInv, NEW p \in Workers
    PROVE  Held(p) \subseteq Ids /\ task[p].op \in Ids \cup {NoId} /\ task[p].pre \in Ids \cup {NoId}
BY DEF TypeInv, TypeOK, Task, Ids, Held

\* Steps that neither reload, nor end others, nor create a backup overtake nothing.
LEMMA NoneOvertaken ==
    ASSUME NEW p \in Workers, \A q \in Workers \ {p} : pc'[q] = pc[q],
           ~Reloads(p), ~EndsOthers(p), ~CreatesBackup(p),
           overtaken' = (overtaken \cup OvertakenNow) \cap HeldByAny'
    PROVE  OvertakenKept
<1>1. \A q \in Workers : ~Reloads(q) /\ ~EndsOthers(q) /\ ~CreatesBackup(q)
  BY DEF Reloads, EndsOthers, CreatesBackup
<1>2. OvertakenNow = {}
  BY <1>1 DEF OvertakenNow
<1> QED BY <1>2 DEF OvertakenKept, HeldByAny

LEMMA NoneOvertakenAtRest ==
    ASSUME pc' = pc, overtaken' = (overtaken \cup OvertakenNow) \cap HeldByAny'
    PROVE  OvertakenKept
<1>1. \A q \in Workers : ~Reloads(q) /\ ~EndsOthers(q) /\ ~CreatesBackup(q)
  BY DEF Reloads, EndsOthers, CreatesBackup
<1>2. OvertakenNow = {}
  BY <1>1 DEF OvertakenNow
<1> QED BY <1>2 DEF OvertakenKept, HeldByAny

\* Only at these steps may something that is held be in the queue, and none may be gone.
LEMMA NoneQueuedElsewhere ==
    ASSUME OwnersInv, NEW p \in Workers, pc[p] \notin {"backup_begin", "restore_fail"},
           NEW i \in Held(p) \ overtaken
    PROVE  rows[i].status \notin {"queued", "absent"}
BY DEF OwnersInv, OwnOK, QueuedOnlyBefore, Present

\* A new key has no row, and who still holds it has been overtaken.
LEMMA FreshId ==
    ASSUME OwnersInv, NEW kind \in Kinds, NEW i \in NextId(kind)
    PROVE  i \in Ids /\ \A p \in Workers : i \in Held(p) => i \in overtaken
BY NextKey DEF OwnersInv, OwnOK, Present

\* An operation in the queue while no other one runs is not executed.
LEMMA QueuedNotHeld ==
    ASSUME OwnersInv, NEW i \in Ids, rows[i].status = "queued",
           \A j \in Ids : rows[j].status = "running" => j = i
    PROVE  \A p \in Workers : i \in Held(p) => i \in overtaken
<1>1. ASSUME NEW p \in Workers, i \in Held(p), i \notin overtaken PROVE FALSE
  <2>1. i = task[p].pre /\ pc[p] \in {"backup_begin", "restore_fail"} /\ rows[task[p].op].status = "running"
    BY <1>1 DEF OwnersInv, OwnOK, QueuedOnlyBefore, Sheltered
  <2>2. task[p].op \in Ids
    BY <2>1 DEF OwnersInv, TypeInv, TaskOK, OperationSteps, BackupSteps, RestoreSteps
  <2>3. task[p].pre # task[p].op
    BY <1>1, <2>1, NoIdsOutside DEF OwnersInv, OwnOK, PreSettled
  <2> QED BY <2>1, <2>2, <2>3
<1> QED BY <1>1

\* Rows change, and no worker moves.
LEMMA RowsOwners ==
    ASSUME OwnersInv, UNCHANGED <<pc, task>>, OvertakenKept,
           \A p \in Workers : \A i \in Held(p) \ overtaken :
               /\ rows'[i].status = "queued" => rows[i].status = "queued"
               /\ rows'[i].status = "absent" => rows[i].status = "absent",
           \A p \in Workers : pc[p] \in PromptSteps /\ Sheltered(p) =>
               rows'[task[p].op].status = "running" /\ rows'[task[p].op].age = "recent"
    PROVE  OwnersDistinct' /\ \A p \in Workers : OwnOK(p)'
<1>0. \A p \in Workers : /\ Held(p)' = Held(p) /\ task'[p] = task[p] /\ pc'[p] = pc[p]
                         /\ \A i \in Held(p) : i \in overtaken' <=> i \in overtaken
  BY DEF Held, OvertakenKept
<1>1. OwnersDistinct'
  BY <1>0 DEF OwnersInv, OwnersDistinct
<1>2. ASSUME NEW p \in Workers PROVE OwnOK(p)'
  <2>1. pc[p] \in PromptSteps => task[p].op \in Held(p)
    BY NoIdsOutside
       DEF OwnersInv, TypeInv, TaskOK, Held, PromptSteps, OperationSteps, BackupSteps, RestoreSteps
  <2>2. pc[p] \in PromptSteps /\ Sheltered(p) => Sheltered(p)'
    BY <1>0, <2>1 DEF Sheltered
  <2>3. OwnOK(p)
    BY DEF OwnersInv
  <2>4. QueuedOnlyBefore(p)' /\ Present(p)'
    BY <1>0, <2>2, <2>3 DEF OwnOK, QueuedOnlyBefore, Present, PromptSteps
  <2>5. ExposedRuns(p)'
    BY <1>0, <2>1, <2>2, <2>3 DEF OwnOK, ExposedRuns, ExposedSteps, PromptSteps
  <2>6. PreSettled(p)'
    BY <1>0, <2>3 DEF OwnOK, PreSettled
  <2> QED BY <2>4, <2>5, <2>6 DEF OwnOK
<1> QED BY <1>1, <1>2

\* A worker that writes no rows but those it holds, and takes nothing new, disturbs
\* no other worker.
LEMMA WorkerOwners ==
    ASSUME OwnersInv, NEW p \in Workers,
           \A q \in Workers \ {p} : task'[q] = task[q] /\ pc'[q] = pc[q],
           \A i \in Ids \ Held(p) : rows'[i] = rows[i],
           Held(p)' \subseteq Held(p), OvertakenKept, OwnOK(p)'
    PROVE  OwnersDistinct' /\ \A q \in Workers : OwnOK(q)'
<1> USE DEF OwnersInv
<1>1. \A q \in Workers \ {p} : /\ Held(q)' = Held(q)
                               /\ \A i \in Held(q) : i \in overtaken' <=> i \in overtaken
  BY DEF Held, OvertakenKept
<1>2. OwnersDistinct'
  BY <1>1 DEF OwnersDistinct, OvertakenKept
<1>3. ASSUME NEW q \in Workers \ {p} PROVE OwnOK(q)'
  <2>1. \A i \in Held(q) \ overtaken : rows'[i] = rows[i]
    BY HeldType DEF OwnersDistinct
  <2>2. ASSUME pc[q] \in OperationSteps, Sheltered(q) PROVE Sheltered(q)'
    <3>1. task[q].op \in Held(q) \ overtaken
      BY <2>2, NoIdsOutside DEF TypeInv, TaskOK, Held, Sheltered
    <3> QED BY <1>1, <2>1, <2>2, <3>1 DEF Sheltered
  <2>3. QueuedOnlyBefore(q)' /\ Present(q)'
    BY <1>1, <2>1, <2>2 DEF OwnOK, QueuedOnlyBefore, Present, OperationSteps, BackupSteps, RestoreSteps
  <2>4. ExposedRuns(q)'
    <3>1. pc[q] \in ExposedSteps => task[q].op \in Held(q)
      BY NoIdsOutside DEF TypeInv, TaskOK, Held, ExposedSteps, OperationSteps, RestoreSteps
    <3> QED BY <1>1, <2>2, <3>1 DEF OwnOK, ExposedRuns, ExposedSteps, OperationSteps, RestoreSteps
  <2>5. PreSettled(q)'
    BY DEF OwnOK, PreSettled
  <2> QED BY <2>3, <2>4, <2>5 DEF OwnOK
<1> QED BY <1>2, <1>3

\* A worker takes an operation that no other one executes.
LEMMA ClaimOwners ==
    ASSUME OwnersInv, NEW p \in Workers, NEW i \in Ids,
           \A q \in Workers \ {p} : task'[q] = task[q] /\ pc'[q] = pc[q],
           \A q \in Workers : i \in Held(q) => i \in overtaken,
           \A j \in Ids \ {i} : rows'[j] = rows[j], rows'[i].status = "running",
           task'[p].op = i, task'[p].pre = NoId, pc'[p] \in {"restore_begin", "backup_begin"},
           OvertakenKept
    PROVE  OwnersDistinct' /\ \A q \in Workers : OwnOK(q)'
<1> USE DEF OwnersInv
<1>1. \A q \in Workers \ {p} : /\ Held(q)' = Held(q)
                               /\ \A j \in Held(q) : j \in overtaken' <=> j \in overtaken
  BY DEF Held, OvertakenKept
<1>2. Held(p)' = {i}
  BY NoIdsOutside DEF Held
<1>3. OwnersDistinct'
  BY <1>1, <1>2 DEF OwnersDistinct, OvertakenKept
<1>4. ASSUME NEW q \in Workers \ {p} PROVE OwnOK(q)'
  <2>1. \A j \in Held(q) \ overtaken : rows'[j] = rows[j]
    BY HeldType
  <2>2. ASSUME pc[q] \in OperationSteps, Sheltered(q) PROVE Sheltered(q)'
    <3>1. task[q].op \in Held(q) \ overtaken
      BY <2>2, NoIdsOutside DEF TypeInv, TaskOK, Held, Sheltered
    <3> QED BY <1>1, <2>1, <2>2, <3>1 DEF Sheltered
  <2>3. QueuedOnlyBefore(q)' /\ Present(q)'
    BY <1>1, <2>1, <2>2 DEF OwnOK, QueuedOnlyBefore, Present, OperationSteps, BackupSteps, RestoreSteps
  <2>4. ExposedRuns(q)'
    <3>1. pc[q] \in ExposedSteps => task[q].op \in Held(q)
      BY NoIdsOutside DEF TypeInv, TaskOK, Held, ExposedSteps, OperationSteps, RestoreSteps
    <3> QED BY <1>1, <2>2, <3>1 DEF OwnOK, ExposedRuns, ExposedSteps, OperationSteps, RestoreSteps
  <2>5. PreSettled(q)'
    BY DEF OwnOK, PreSettled
  <2> QED BY <2>3, <2>4, <2>5 DEF OwnOK
<1>5. OwnOK(p)'
  BY <1>2 DEF OwnOK, QueuedOnlyBefore, Present, ExposedRuns, ExposedSteps, PreSettled
<1> QED BY <1>3, <1>4, <1>5

\* A restore that reloads the rows, or ends those of the others, has overtaken what
\* is in the queue, what has gone and what is exposed.
LEMMA OvertakingOwners ==
    ASSUME OwnersInv, NEW p \in Workers, task' = task,
           \A q \in Workers \ {p} : pc'[q] = pc[q],
           pc'[p] \notin ExposedSteps \cup BackupSteps, pc[p] \notin BackupSteps,
           \/ Reloads(p)
           \/ EndsOthers(p) /\ \A i \in Ids : /\ rows'[i].status # "queued"
                                              /\ rows'[i].status = "absent" => rows[i].status = "absent",
           overtaken' = (overtaken \cup OvertakenNow) \cap HeldByAny'
    PROVE  OwnersDistinct' /\ \A q \in Workers : OwnOK(q)'
<1> USE DEF OwnersInv
<1>1. \A q \in Workers : /\ Held(q)' = Held(q) /\ Held(q) \subseteq Ids
                         /\ \A i \in Held(q) : i \in overtaken' <=> i \in overtaken \cup OvertakenNow
  BY HeldType DEF Held, HeldByAny
<1>2. OwnersDistinct'
  BY <1>1 DEF OwnersDistinct
<1>3. ASSUME NEW q \in Workers, NEW i \in Held(q) \ overtaken'
      PROVE  rows'[i].status \notin {"queued", "absent"}
  <2>1. i \in Ids /\ i \notin overtaken /\ i \notin OvertakenNow
    BY <1>1
  <2>2. rows[i].status # "absent"
    BY <2>1 DEF OwnOK, Present
  <2>3. CASE Reloads(p)
    BY <2>1, <2>3 DEF OvertakenNow
  <2>4. CASE EndsOthers(p)
    BY <2>1, <2>2, <2>4 DEF Reloads, EndsOthers
  <2> QED BY <2>3, <2>4
<1>4. \A q \in Workers : pc'[q] \in ExposedSteps => task[q].op \in overtaken'
  <2>1. ASSUME NEW q \in Workers, pc'[q] \in ExposedSteps PROVE task[q].op \in overtaken'
    <3>1. q # p /\ pc[q] \in ExposedSteps
      BY <2>1
    <3>2. task[q].op \in Ids /\ task[q].op \in Held(q)
      BY <3>1, NoIdsOutside DEF TypeInv, TaskOK, Held, ExposedSteps, OperationSteps, RestoreSteps
    <3> QED BY <1>1, <3>1, <3>2 DEF OvertakenNow
  <2> QED BY <2>1
<1>5. ASSUME NEW q \in Workers PROVE OwnOK(q)'
  <2>1. QueuedOnlyBefore(q)' /\ Present(q)'
    BY <1>1, <1>3 DEF QueuedOnlyBefore, Present
  <2>2. ExposedRuns(q)'
    BY <1>4 DEF ExposedRuns
  <2>3. PreSettled(q)'
    BY DEF OwnOK, PreSettled
  <2> QED BY <2>1, <2>2, <2>3 DEF OwnOK
<1> QED BY <1>2, <1>5

LEMMA WebOwners ==
    ASSUME OwnersInv, Web, OvertakenKept
    PROVE  OwnersDistinct' /\ \A p \in Workers : OwnOK(p)'
<1> USE DEF OwnersInv
<1>1. UNCHANGED <<pc, task>>
  BY DEF Web, StartBackup, StartRestore, RecoverRestore, RequestMode, ApplyMode, SetMaintenance, procVars
<1>2. CASE UNCHANGED rows
  BY <1>1, <1>2, RowsOwners DEF Sheltered
<1>3. ASSUME NEW kind \in Kinds, NEW i \in NextId(kind), NEW row, rows' = [rows EXCEPT ![i] = row]
      PROVE  OwnersDistinct' /\ \A p \in Workers : OwnOK(p)'
  <2>1. \A p \in Workers : \A j \in Held(p) \ overtaken : rows'[j] = rows[j]
    BY <1>3, FreshId, HeldType DEF TypeInv, TypeOK, Tables
  <2>2. \A p \in Workers : pc[p] \in PromptSteps => task[p].op \in Held(p)
    BY NoIdsOutside DEF TypeInv, TaskOK, Held, PromptSteps, OperationSteps, BackupSteps, RestoreSteps
  <2> QED BY <1>1, <2>1, <2>2, RowsOwners DEF Sheltered
<1>4. CASE RecoverRestore
  <2> DEFINE marked == Queued(Kinds) \cup StaleRunning
  <2>1. rows' = MarkError(rows, marked)
    BY <1>4 DEF RecoverRestore
  <2>2. \A i \in Ids : rows'[i] = IF i \in marked THEN Ended(rows[i], "error") ELSE rows[i]
    BY <2>1 DEF MarkError
  <2>3. \A i \in Ids : /\ rows'[i].status = "queued" => rows[i].status = "queued"
                       /\ rows'[i].status = "absent" => rows[i].status = "absent"
    <3> HIDE DEF marked
    <3> QED BY <2>2, EndedType DEF TypeInv, TypeOK, Rows, Tables, Statuses
  <2>4. \A i \in Ids : rows[i].status = "running" /\ rows[i].age = "recent" => i \notin marked
    BY DEF Queued, StaleRunning, Running
  <2>5. \A p \in Workers : Held(p) \subseteq Ids
    BY HeldType
  <2>6. \A p \in Workers : pc[p] \in PromptSteps => task[p].op \in Ids
    BY DEF TypeInv, TaskOK, PromptSteps, OperationSteps, BackupSteps, RestoreSteps
  <2> HIDE DEF marked
  <2>7. \A p \in Workers : \A i \in Held(p) \ overtaken :
           /\ rows'[i].status = "queued" => rows[i].status = "queued"
           /\ rows'[i].status = "absent" => rows[i].status = "absent"
    BY <2>3, <2>5
  <2>8. \A p \in Workers : pc[p] \in PromptSteps /\ Sheltered(p) =>
           rows'[task[p].op].status = "running" /\ rows'[task[p].op].age = "recent"
    BY <2>2, <2>4, <2>6 DEF Sheltered
  <2> QED BY <1>1, <2>7, <2>8, RowsOwners
<1>5. CASE StartBackup
  BY <1>3, <1>5 DEF StartBackup, Kinds
<1>6. CASE \E b \in Names : StartRestore(b)
  BY <1>3, <1>6 DEF StartRestore, Kinds
<1> QED BY <1>2, <1>4, <1>5, <1>6 DEF Web, RequestMode, ApplyMode, SetMaintenance

LEMMA PerformOwners ==
    ASSUME OwnersInv, NEW p \in Workers, NEW i \in Ids, NEW rs \in [Ids -> Row], Perform(p, i, rs),
           \A j \in Ids \ {i} : rs[j] = rows[j], \A q \in Workers : i \in Held(q) => i \in overtaken,
           OvertakenKept
    PROVE  OwnersDistinct' /\ \A q \in Workers : OwnOK(q)'
<1>0. pc \in [Workers -> Steps] /\ task \in [Workers -> Task]
  BY DEF OwnersInv, TypeInv, TypeOK
<1>1. /\ rows' = [rs EXCEPT ![i] = Started(rs[i])]
      /\ task' = [task EXCEPT ![p] = [NoTask EXCEPT !.op = i, !.kind = rs[i].kind, !.from = rs[i].from]]
      /\ pc' = [pc EXCEPT ![p] = IF rs[i].kind = "restore" THEN "restore_begin" ELSE "backup_begin"]
  BY DEF Perform
<1>2. /\ rows'[i].status = "running" /\ \A j \in Ids \ {i} : rows'[j] = rows[j]
  BY <1>1, StartedType
<1>3. task'[p].op = i /\ task'[p].pre = NoId /\ pc'[p] \in {"restore_begin", "backup_begin"}
  BY <1>0, <1>1 DEF NoTask
<1>4. \A q \in Workers \ {p} : task'[q] = task[q] /\ pc'[q] = pc[q]
  BY <1>0, <1>1
<1> QED BY <1>2, <1>3, <1>4, ClaimOwners

LEMMA FreshOwners ==
    ASSUME OwnersInv, NEW p \in Workers, OvertakenKept,
           \E i \in NextId("backup") : Perform(p, i, [rows EXCEPT ![i] = QueuedRow("backup", NoId)])
    PROVE  OwnersDistinct' /\ \A q \in Workers : OwnOK(q)'
<1>1. PICK i \in NextId("backup") : Perform(p, i, [rows EXCEPT ![i] = QueuedRow("backup", NoId)])
  OBVIOUS
<1>2. i \in Ids /\ \A q \in Workers : i \in Held(q) => i \in overtaken
  BY FreshId DEF Kinds
<1>3. rows \in [Ids -> Row]
  BY DEF OwnersInv, TypeInv, TypeOK, Tables
<1>4. [rows EXCEPT ![i] = QueuedRow("backup", NoId)] \in [Ids -> Row]
  BY <1>2, <1>3, QueuedRowType DEF Kinds
<1>5. \A j \in Ids \ {i} : [rows EXCEPT ![i] = QueuedRow("backup", NoId)][j] = rows[j]
  BY <1>3
<1> QED BY <1>1, <1>2, <1>4, <1>5, PerformOwners

LEMMA QueueOwners ==
    ASSUME OwnersInv, NEW p \in Workers, OvertakenKept,
           NEW i \in Ids, rows[i].status = "queued", \A j \in Ids : rows[j].status = "running" => j = i,
           Perform(p, i, rows)
    PROVE  OwnersDistinct' /\ \A q \in Workers : OwnOK(q)'
<1>1. rows \in [Ids -> Row]
  BY DEF OwnersInv, TypeInv, TypeOK, Tables
<1> QED BY <1>1, QueuedNotHeld, PerformOwners

\* Another scheduler takes only the lock, or an operation from the queue.
LEMMA LoopOwners ==
    ASSUME OwnersInv, NEW s \in Schedulers, SchedulerLoop(s), OvertakenKept
    PROVE  OwnersDistinct' /\ \A p \in Workers : OwnOK(p)'
<1> USE DEF OwnersInv
<1>0. s \in Workers /\ pc \in [Workers -> Steps] /\ task \in [Workers -> Task] /\ rows \in [Ids -> Row]
  BY DEF Workers, TypeInv, TypeOK, Tables
<1>1. CASE SchedulerStart(s) \/ Tick(s) \/ ExitWithoutLock(s) \/ ClaimNothing(s)
  <2>1. /\ task' = task /\ pc[s] \in {"down", "idle", "tick"} /\ pc'[s] \in {"down", "idle", "tick"}
        /\ \A q \in Workers \ {s} : pc'[q] = pc[q]
    BY <1>0, <1>1 DEF SchedulerStart, Tick, ExitWithoutLock, ClaimNothing
  <2>2. rows' = rows \/ rows' = MarkError(rows, StaleRunning)
    BY <1>1 DEF SchedulerStart, Tick, ExitWithoutLock, ClaimNothing
  <2>3. ASSUME NEW i \in Ids
        PROVE  /\ rows'[i].status = "queued" => rows[i].status = "queued"
               /\ rows'[i].status = "absent" => rows[i].status = "absent"
               /\ rows[i].status = "running" /\ rows[i].age = "recent" => rows'[i] = rows[i]
    <3>1. rows'[i] = rows[i] \/ (i \in StaleRunning /\ rows'[i] = Ended(rows[i], "error"))
      BY <2>2 DEF MarkError
    <3>2. Ended(rows[i], "error").status = "error"
      BY <1>0, EndedType DEF Statuses
    <3> QED BY <3>1, <3>2 DEF StaleRunning
  <2>4. \A q \in Workers : /\ Held(q)' = Held(q) /\ Held(q) \subseteq Ids
                           /\ \A i \in Held(q) : i \in overtaken' <=> i \in overtaken
    BY <2>1, HeldType DEF Held, OvertakenKept
  <2>5. OwnersDistinct'
    BY <2>1, <2>4 DEF OwnersDistinct
  <2>6. ASSUME NEW q \in Workers PROVE OwnOK(q)'
    <3>1. ASSUME pc[q] \in PromptSteps, Sheltered(q) PROVE Sheltered(q)'
      <4>1. task[q].op \in Ids /\ task[q].op \in Held(q)
        BY <3>1, NoIdsOutside
           DEF TypeInv, TaskOK, Held, PromptSteps, OperationSteps, BackupSteps, RestoreSteps
      <4> QED BY <2>1, <2>3, <2>4, <3>1, <4>1 DEF Sheltered
    <3>2. pc'[q] = pc[q] \/ (q = s /\ pc[q] \notin PromptSteps /\ pc'[q] \notin PromptSteps)
      BY <2>1 DEF PromptSteps
    <3>3. QueuedOnlyBefore(q)' /\ Present(q)'
      BY <2>1, <2>3, <2>4, <3>1, <3>2 DEF OwnOK, QueuedOnlyBefore, Present, PromptSteps
    <3>4. ExposedRuns(q)'
      <4>1. pc[q] \in ExposedSteps => task[q].op \in Held(q)
        BY NoIdsOutside DEF TypeInv, TaskOK, Held, ExposedSteps, OperationSteps, RestoreSteps
      <4> QED BY <2>1, <2>4, <3>1, <3>2, <4>1 DEF OwnOK, ExposedRuns, ExposedSteps, PromptSteps
    <3>5. PreSettled(q)'
      BY <2>1, <3>2 DEF OwnOK, PreSettled, BackupSteps
    <3> QED BY <3>3, <3>4, <3>5 DEF OwnOK
  <2> QED BY <2>5, <2>6
<1>3. CASE ClaimScheduled(s)
  BY <1>0, <1>3, FreshOwners DEF ClaimScheduled
<1>4. CASE ClaimQueued(s)
  <2>1. PICK i \in Queued(Kinds) : Perform(s, i, rows)
    BY <1>4 DEF ClaimQueued
  <2>2. i \in Ids /\ rows[i].status = "queued" /\ \A j \in Ids : rows[j].status # "running"
    BY <1>4 DEF ClaimQueued, Queued, Running
  <2> QED BY <1>0, <2>1, <2>2, QueueOwners
<1> QED BY <1>1, <1>3, <1>4 DEF SchedulerLoop

LEMMA CommandsOwners ==
    ASSUME OwnersInv, NEW c \in Clis, Commands(c), OvertakenKept
    PROVE  OwnersDistinct' /\ \A p \in Workers : OwnOK(p)'
<1> USE DEF OwnersInv
<1>0. c \in Workers /\ pc \in [Workers -> Steps] /\ task \in [Workers -> Task] /\ rows \in [Ids -> Row]
  BY DEF Workers, TypeInv, TypeOK, Tables
<1>1. ASSUME NEW i \in Ids, i \in Queued(Kinds), ~HasActiveOperationBut(i)
      PROVE  rows[i].status = "queued" /\ \A j \in Ids : rows[j].status = "running" => j = i
  BY <1>1 DEF Queued, HasActiveOperationBut, Active, ActiveIn
<1>2. CASE CliBackup(c)
  BY <1>0, <1>2, FreshOwners DEF CliBackup
<1>3. ASSUME NEW i \in Ids, CliBackupQueued(c, i) PROVE OwnersDistinct' /\ \A p \in Workers : OwnOK(p)'
  <2>1. i \in Queued(Kinds) /\ ~HasActiveOperationBut(i) /\ Perform(c, i, rows)
    BY <1>3 DEF CliBackupQueued, Queued, Kinds
  <2> QED BY <1>0, <1>1, <2>1, QueueOwners
<1>4. ASSUME NEW i \in Ids, CliRestore(c, i) PROVE OwnersDistinct' /\ \A p \in Workers : OwnOK(p)'
  <2>1. i \in Queued(Kinds) /\ ~HasActiveOperationBut(i)
    BY <1>4 DEF CliRestore, Queued, Kinds
  <2>2. \A q \in Workers : i \in Held(q) => i \in overtaken
    BY <1>1, <2>1, QueuedNotHeld
  <2>3. /\ rows' = [rows EXCEPT ![i].status = "running"]
        /\ task' = [task EXCEPT ![c] = [NoTask EXCEPT !.op = i, !.kind = "restore", !.from = rows[i].from]]
        /\ pc' = [pc EXCEPT ![c] = "restore_begin"]
    BY <1>4 DEF CliRestore
  <2>4. \A j \in Ids \ {i} : rows'[j] = rows[j]
    BY <1>0, <2>3
  <2>5. rows'[i].status = "running"
    BY <1>0, <2>3 DEF Row
  <2>6. task'[c].op = i /\ task'[c].pre = NoId /\ pc'[c] \in {"restore_begin", "backup_begin"}
    BY <1>0, <2>3 DEF NoTask
  <2>7. \A q \in Workers \ {c} : task'[q] = task[q] /\ pc'[q] = pc[q]
    BY <1>0, <2>3
  <2> QED BY <1>0, <2>2, <2>4, <2>5, <2>6, <2>7, ClaimOwners
<1> QED BY <1>2, <1>3, <1>4 DEF Commands

\* An operation that ends leaves nothing in the memory of its worker.
LEMMA LetGoOwners ==
    ASSUME OwnersInv, NEW p \in Workers, task' = [task EXCEPT ![p] = NoTask],
           \A q \in Workers \ {p} : pc'[q] = pc[q], pc'[p] \in {"idle", "down"},
           \A i \in Ids \ Held(p) : rows'[i] = rows[i], OvertakenKept
    PROVE  OwnersDistinct' /\ \A q \in Workers : OwnOK(q)'
<1>0. task \in [Workers -> Task]
  BY DEF OwnersInv, TypeInv, TypeOK
<1>1. task'[p] = NoTask /\ \A q \in Workers \ {p} : task'[q] = task[q]
  BY <1>0
<1>2. Held(p)' = {} /\ task'[p].pre = NoId
  BY <1>1 DEF Held, NoTask
<1>3. OwnOK(p)'
  <2>1. pc'[p] \notin ExposedSteps
    BY DEF ExposedSteps
  <2> QED BY <1>2, <2>1 DEF OwnOK, QueuedOnlyBefore, Present, ExposedRuns, PreSettled
<1> QED BY <1>1, <1>2, <1>3, WorkerOwners

\* An operation goes on: it keeps what it holds, writes no other rows, and puts
\* nothing into the queue.
LEMMA GoOnOwners ==
    ASSUME OwnersInv, TypeInv', NEW p \in Workers,
           \A q \in Workers \ {p} : task'[q] = task[q] /\ pc'[q] = pc[q],
           task'[p].op = task[p].op, task'[p].pre = task[p].pre,
           \A i \in Ids \ Held(p) : rows'[i] = rows[i], OvertakenKept,
           \A i \in Held(p) \ overtaken : rows'[i].status \notin {"queued", "absent"},
           pc'[p] \in ExposedSteps /\ task[p].op \notin overtaken =>
               rows'[task[p].op].status = "running" /\ rows'[task[p].op].age = "recent",
           task[p].pre # NoId /\ pc'[p] \notin BackupSteps =>
               task'[p].preStatus \in {"running", "success", "error"}
    PROVE  OwnersDistinct' /\ \A q \in Workers : OwnOK(q)'
<1>1. Held(p)' = Held(p) /\ \A i \in Held(p) : i \in overtaken' <=> i \in overtaken
  BY DEF Held, OvertakenKept
<1>2. pc'[p] \in ExposedSteps /\ task[p].op \notin overtaken' => task[p].op \notin overtaken
  <2>1. ASSUME pc'[p] \in ExposedSteps PROVE task[p].op \in Held(p)
    BY <2>1, NoIdsOutside DEF TypeInv, TaskOK, Held, ExposedSteps, OperationSteps, RestoreSteps
  <2> QED BY <1>1, <2>1
<1>3. QueuedOnlyBefore(p)' /\ Present(p)'
  BY <1>1 DEF QueuedOnlyBefore, Present
<1>4. ExposedRuns(p)' /\ PreSettled(p)'
  BY <1>2 DEF OwnersInv, OwnOK, ExposedRuns, Sheltered, PreSettled
<1>5. OwnOK(p)'
  BY <1>3, <1>4 DEF OwnOK
<1> QED BY <1>1, <1>5, WorkerOwners

\* The worker of a backup has its row in memory.
LEMMA JobHeld ==
    ASSUME OwnersInv, NEW p \in Workers, pc[p] \in BackupSteps
    PROVE  Job(p) \in Held(p) /\ Job(p) \in Ids
BY NoIdsOutside, HeldType DEF OwnersInv, TypeInv, TaskOK, Job, Nested, Held, OperationSteps

\* What a backup holds, its own row apart, is not in the queue.
LEMMA JobOnlyQueued ==
    ASSUME OwnersInv, NEW p \in Workers, pc[p] \in BackupSteps,
           NEW i \in Held(p) \ overtaken, i # Job(p)
    PROVE  rows[i].status \notin {"queued", "absent"}
<1>1. i # NoId
  BY DEF Held
<1> QED BY <1>1 DEF OwnersInv, OwnOK, QueuedOnlyBefore, Present, Job, Nested

LEMMA BackupOwners ==
    ASSUME OwnersInv, TypeInv', NEW p \in Workers, OvertakenKept,
           BackupBegin(p) \/ BackupDump(p) \/ BackupWriteManifest(p) \/ BackupSucceed(p) \/ BackupFail(p)
    PROVE  OwnersDistinct' /\ \A q \in Workers : OwnOK(q)'
<1>0. /\ pc \in [Workers -> Steps] /\ task \in [Workers -> Task] /\ rows \in [Ids -> Row]
      /\ pc[p] \in BackupSteps /\ task[p] \in Task
  BY DEF OwnersInv, TypeInv, TypeOK, Tables, BackupBegin, BackupDump, BackupWriteManifest, BackupSucceed, BackupFail,
         BackupSteps
<1>1. Job(p) \in Held(p) /\ Job(p) \in Ids
  BY <1>0, JobHeld
<1>2. \A q \in Workers \ {p} : task'[q] = task[q] /\ pc'[q] = pc[q]
  BY <1>0 DEF BackupBegin, BackupDump, BackupWriteManifest, BackupSucceed, BackupFail, Goto, EndTask
<1>3. \A i \in Ids \ {Job(p)} : rows'[i] = rows[i]
  BY <1>0 DEF BackupBegin, BackupDump, BackupWriteManifest, BackupSucceed, BackupFail
<1>4. \A i \in Ids \ Held(p) : rows'[i] = rows[i]
  BY <1>1, <1>3
<1>5. Job(p) \in overtaken \/ rows'[Job(p)].status \notin {"queued", "absent"}
  <2>1. CASE BackupBegin(p) /\ rows[Job(p)].status # "absent"
    BY <1>0, <1>1, <2>1, StartedType DEF BackupBegin
  <2>2. CASE BackupBegin(p) /\ rows[Job(p)].status = "absent"
    BY <1>0, <1>1, <2>2 DEF OwnersInv, OwnOK, Present
  <2>3. CASE BackupSucceed(p)
    BY <1>0, <1>1, <2>3 DEF BackupSucceed
  <2>4. CASE BackupFail(p) /\ rows[Job(p)].status # "absent"
    BY <1>0, <1>1, <2>4, EndedType DEF BackupFail, Statuses
  <2>5. CASE UNCHANGED rows /\ pc[p] # "backup_begin"
    BY <1>0, <1>1, <2>5, NoneQueuedElsewhere DEF BackupSteps
  <2>6. BackupFail(p) => pc[p] # "backup_begin" /\ (rows[Job(p)].status = "absent" => UNCHANGED rows)
    BY DEF BackupFail
  <2> QED BY <2>1, <2>2, <2>3, <2>4, <2>5, <2>6 DEF BackupDump, BackupWriteManifest
<1>6. \A i \in Held(p) \ overtaken : rows'[i].status \notin {"queued", "absent"}
  BY <1>0, <1>3, <1>5, JobOnlyQueued, HeldType DEF OwnersInv
<1>7. CASE EndTask(p)
  BY <1>2, <1>4, <1>7, <1>0, LetGoOwners DEF EndTask
<1>8. CASE /\ task'[p].op = task[p].op /\ task'[p].pre = task[p].pre
           /\ pc'[p] \in BackupSteps \cup {"restore_verify", "restore_fail"}
           /\ task[p].pre # NoId /\ pc'[p] \notin BackupSteps =>
                  task'[p].preStatus \in {"running", "success", "error"}
  BY <1>2, <1>4, <1>6, <1>8, GoOnOwners DEF ExposedSteps, BackupSteps
<1>9. ASSUME ~EndTask(p)
      PROVE  /\ task'[p].op = task[p].op /\ task'[p].pre = task[p].pre
             /\ pc'[p] \in BackupSteps \cup {"restore_verify", "restore_fail"}
             /\ task[p].pre # NoId /\ pc'[p] \notin BackupSteps =>
                    task'[p].preStatus \in {"running", "success", "error"}
  <2>1. CASE BackupBegin(p)
    BY <1>0, <1>9, <2>1 DEF BackupBegin, Goto, Task, BackupSteps
  <2>2. CASE BackupDump(p)
    <3>1. task'[p] = [task[p] EXCEPT !.dump = [rows |-> rows, mode |-> mode]] /\ pc'[p] = "backup_archive"
      BY <1>0, <2>2 DEF BackupDump, Goto
    <3>2. task'[p].op = task[p].op /\ task'[p].pre = task[p].pre
      BY <1>0, <3>1 DEF Task
    <3> QED BY <3>1, <3>2 DEF BackupSteps
  <2>5. CASE BackupWriteManifest(p)
    <3>1. task'[p] = [task[p] EXCEPT !.dump = NoImage, !.name = named'] /\ pc'[p] = "backup_save"
      BY <1>0, <2>5 DEF BackupWriteManifest, Goto
    <3>2. task'[p].op = task[p].op /\ task'[p].pre = task[p].pre
      BY <1>0, <3>1 DEF Task
    <3> QED BY <3>1, <3>2 DEF BackupSteps
  <2>3. CASE BackupSucceed(p)
    <3>1. /\ task' = [task EXCEPT ![p] = [@ EXCEPT !.preStatus = "success", !.name = NoId]]
          /\ pc' = [pc EXCEPT ![p] = "restore_verify"]
      BY <1>9, <2>3 DEF BackupSucceed, Goto
    <3>2. task'[p] = [task[p] EXCEPT !.preStatus = "success", !.name = NoId] /\ pc'[p] = "restore_verify"
      BY <1>0, <3>1
    <3>3. task'[p].op = task[p].op /\ task'[p].pre = task[p].pre /\ task'[p].preStatus = "success"
      BY <1>0, <3>2 DEF Task
    <3> QED BY <3>2, <3>3
  <2>4. CASE BackupFail(p)
    <3>1. /\ task' = [task EXCEPT ![p] = [@ EXCEPT !.preStatus = "error", !.dump = NoImage, !.name = NoId]]
          /\ pc' = [pc EXCEPT ![p] = "restore_fail"]
      BY <1>9, <2>4 DEF BackupFail, Goto
    <3>2. /\ task'[p] = [task[p] EXCEPT !.preStatus = "error", !.dump = NoImage, !.name = NoId]
          /\ pc'[p] = "restore_fail"
      BY <1>0, <3>1
    <3>3. task'[p].op = task[p].op /\ task'[p].pre = task[p].pre /\ task'[p].preStatus = "error"
      BY <1>0, <3>2 DEF Task
    <3> QED BY <3>2, <3>3
  <2> QED BY <2>1, <2>2, <2>3, <2>4, <2>5
<1> QED BY <1>7, <1>8, <1>9

\* Others hold the new backup only where they are overtaken; where its restore is
\* overtaken, so is it.
LEMMA CreateOwners ==
    ASSUME OwnersInv, NEW p \in Workers, CreatePreRestore(p),
           overtaken' = (overtaken \cup OvertakenNow) \cap HeldByAny'
    PROVE  OwnersDistinct' /\ \A q \in Workers : OwnOK(q)'
<1> USE DEF OwnersInv
<1>0. /\ pc \in [Workers -> Steps] /\ task \in [Workers -> Task] /\ rows \in [Ids -> Row]
      /\ pc[p] = "restore_check" /\ task[p].op \in Ids /\ task[p].op \in RestoreIds
  BY DEF TypeInv, TypeOK, Tables, TaskOK, CreatePreRestore, OperationSteps, RestoreSteps
<1>1. PICK i \in NextId("pre_restore") :
          /\ rows' = [rows EXCEPT ![i] = QueuedRow("pre_restore", NoId)]
          /\ task' = [task EXCEPT ![p] = [@ EXCEPT !.pre = i, !.preStatus = "queued"]]
  BY DEF CreatePreRestore
<1>2. /\ i \in Ids /\ i # NoId /\ task[p].op # i
      /\ \A q \in Workers : i \in Held(q) => i \in overtaken
  <2>1. i \in BackupIds
    BY NextKey DEF Keys, Kinds
  <2>2. i \in Ids /\ \A q \in Workers : i \in Held(q) => i \in overtaken
    BY FreshId DEF Kinds
  <2> QED BY <1>0, <2>1, <2>2, NoIdsOutside, ConstantsAssumption
<1>3. /\ \A q \in Workers \ {p} : task'[q] = task[q] /\ pc'[q] = pc[q] /\ Held(q)' = Held(q)
      /\ pc'[p] = "backup_begin" /\ task'[p].op = task[p].op /\ task'[p].pre = i
      /\ \A j \in Ids \ {i} : rows'[j] = rows[j]
  <2>1. task'[p] = [task[p] EXCEPT !.pre = i, !.preStatus = "queued"]
    BY <1>0, <1>1
  <2>2. task'[p].op = task[p].op /\ task'[p].pre = i
    BY <1>0, <2>1 DEF Task
  <2>3. \A q \in Workers \ {p} : task'[q] = task[q]
    BY <1>0, <1>1
  <2>4. pc'[p] = "backup_begin" /\ \A q \in Workers \ {p} : pc'[q] = pc[q]
    BY <1>0 DEF CreatePreRestore, Goto
  <2>5. \A q \in Workers \ {p} : Held(q)' = Held(q)
    BY <2>3 DEF Held
  <2>6. \A j \in Ids \ {i} : rows'[j] = rows[j]
    BY <1>0, <1>1
  <2> QED BY <2>2, <2>3, <2>4, <2>5, <2>6
<1>4. Held(p)' = {task[p].op, i} /\ task[p].op # i
  BY <1>0, <1>2, <1>3, NoIdsOutside DEF Held
<1>5. \A j \in HeldByAny' : j \in overtaken' <=> j \in overtaken \/ (task[p].op \in overtaken /\ j = i)
  <2>1. \A q \in Workers : /\ ~Reloads(q) /\ ~EndsOthers(q)
                           /\ CreatesBackup(q) <=> q = p
    BY <1>0, <1>3 DEF Reloads, EndsOthers, CreatesBackup
  <2>2. OvertakenNow = {j \in Ids : task[p].op \in overtaken /\ j = i}
    BY <1>3, <2>1 DEF OvertakenNow
  <2> QED BY <1>2, <2>2
<1>6. \A q \in Workers : \A j \in Held(q)' : j \in HeldByAny'
  BY DEF HeldByAny
<1>7. OwnersDistinct'
  BY <1>0, <1>2, <1>3, <1>4, <1>5, <1>6 DEF OwnersDistinct, Held
<1>8. ASSUME NEW q \in Workers \ {p} PROVE OwnOK(q)'
  <2>1. \A j \in Held(q) : /\ j \in overtaken' <=> j \in overtaken
                           /\ j \notin overtaken => j # i /\ rows'[j] = rows[j]
    BY <1>2, <1>3, <1>5, <1>6, HeldType
  <2>2. ASSUME pc[q] \in OperationSteps PROVE task[q].op \in Held(q)
    BY <2>2, NoIdsOutside DEF TypeInv, TaskOK, Held
  <2>3. ASSUME pc[q] \in OperationSteps, Sheltered(q) PROVE Sheltered(q)'
    BY <1>3, <2>1, <2>2, <2>3 DEF Sheltered
  <2>4. OwnOK(q)
    OBVIOUS
  <2>5. QueuedOnlyBefore(q)' /\ Present(q)'
    BY <1>3, <2>1, <2>3, <2>4
       DEF OwnOK, QueuedOnlyBefore, Present, OperationSteps, BackupSteps, RestoreSteps
  <2>6. ExposedRuns(q)'
    BY <1>3, <2>1, <2>2, <2>3, <2>4 DEF OwnOK, ExposedRuns, ExposedSteps, OperationSteps, RestoreSteps
  <2>7. PreSettled(q)'
    BY <1>3, <2>4 DEF OwnOK, PreSettled
  <2> QED BY <2>5, <2>6, <2>7 DEF OwnOK
<1>9. OwnOK(p)'
  <2>1. ASSUME task[p].op \notin overtaken'
        PROVE  rows'[task[p].op] = rows[task[p].op] /\ Sheltered(p)'
    <3>1. task[p].op \notin overtaken
      BY <1>4, <1>5, <1>6, <2>1
    <3>2. Sheltered(p)
      BY <1>0, <3>1 DEF OwnOK, ExposedRuns, ExposedSteps
    <3> QED BY <1>0, <1>3, <1>4, <2>1, <3>2 DEF Sheltered
  <2>2. rows'[i].status = "queued"
    BY <1>0, <1>1, <1>2 DEF QueuedRow
  <2>3. i \notin overtaken' => task[p].op \notin overtaken'
    BY <1>4, <1>5, <1>6
  <2>4. QueuedOnlyBefore(p)'
    BY <1>3, <1>4, <2>1, <2>3 DEF QueuedOnlyBefore, Sheltered
  <2>5. Present(p)'
    BY <1>3, <1>4, <2>1, <2>2 DEF Present, Sheltered
  <2>6. ExposedRuns(p)'
    BY <1>3 DEF ExposedRuns, ExposedSteps
  <2>7. PreSettled(p)'
    BY <1>3, <1>4 DEF PreSettled, BackupSteps
  <2> QED BY <2>4, <2>5, <2>6, <2>7 DEF OwnOK
<1> QED BY <1>7, <1>8, <1>9

LEMMA RestoreOwners ==
    ASSUME OwnersInv, TypeInv', NEW p \in Workers,
           overtaken' = (overtaken \cup OvertakenNow) \cap HeldByAny',
           \/ RestoreBegin(p) \/ EnterRestoreMode(p) \/ RestoreVerify(p) \/ LoadBegin(p) \/ LoadFail(p)
           \/ Reassert(p) \/ PostCommandsAndSwap(p) \/ RestoreFail(p) \/ FinalizeError(p)
           \/ LeaveRestoreMode(p)
    PROVE  OwnersDistinct' /\ \A q \in Workers : OwnOK(q)'
<1>0. /\ pc \in [Workers -> Steps] /\ task \in [Workers -> Task] /\ rows \in [Ids -> Row]
      /\ pc[p] \in RestoreSteps /\ task[p] \in Task /\ task[p].op \in Ids /\ task[p].op \in Held(p)
      /\ OwnOK(p) /\ pc[p] \notin BackupSteps
  BY NoIdsOutside
     DEF OwnersInv, TypeInv, TypeOK, Tables, TaskOK, OperationSteps, Held, RestoreBegin, EnterRestoreMode, RestoreVerify,
         LoadBegin, LoadFail, Reassert, PostCommandsAndSwap, RestoreFail, FinalizeError, LeaveRestoreMode,
         RestoreSteps, BackupSteps
<1>1. \A q \in Workers \ {p} : task'[q] = task[q] /\ pc'[q] = pc[q]
  BY <1>0 DEF RestoreBegin, EnterRestoreMode, RestoreVerify, LoadBegin, LoadFail, Reassert, PostCommandsAndSwap,
              RestoreFail, FinalizeError, LeaveRestoreMode, Goto, EndTask
<1>2. \A i \in Ids \ Held(p) : rows'[i] = rows[i]
  BY <1>0, NoIdsOutside
     DEF RestoreBegin, EnterRestoreMode, RestoreVerify, LoadBegin, LoadFail, Reassert, PostCommandsAndSwap,
         RestoreFail, FinalizeError, LeaveRestoreMode, WrittenBack, Held
<1>3. OvertakenKept
  <2>1. ~Reloads(p) /\ ~EndsOthers(p) /\ ~CreatesBackup(p)
    BY <1>0 DEF RestoreBegin, EnterRestoreMode, RestoreVerify, LoadBegin, LoadFail, Reassert,
                PostCommandsAndSwap, RestoreFail, FinalizeError, LeaveRestoreMode, Goto, EndTask,
                Reloads, EndsOthers, CreatesBackup
  <2> QED BY <1>1, <2>1, NoneOvertaken
<1>4. CASE EndTask(p)
  BY <1>0, <1>1, <1>2, <1>3, <1>4, LetGoOwners DEF EndTask
<1>5. ASSUME ~EndTask(p)
      PROVE  task' = task /\ pc'[p] \in RestoreSteps
  BY <1>0, <1>5
     DEF RestoreBegin, EnterRestoreMode, RestoreVerify, LoadBegin, LoadFail, Reassert, PostCommandsAndSwap,
         RestoreFail, FinalizeError, LeaveRestoreMode, Goto, RestoreSteps
<1>6. task[p].pre # NoId => task[p].preStatus \in {"running", "success", "error"}
  BY <1>0 DEF OwnOK, PreSettled
<1>7. \A i \in Held(p) \ overtaken : rows'[i].status \notin {"queued", "absent"}
  <2>1. CASE FinalizeError(p)
    <3>1. \A i \in Held(p) : WrittenBack(rows, p, "error")[i].status \notin {"queued", "absent"}
      BY <1>0, <1>6, HeldType DEF OwnersInv, Held, WrittenBack
    <3> QED BY <2>1, <3>1 DEF FinalizeError
  <2>2. CASE UNCHANGED rows /\ pc[p] # "restore_fail"
    BY <1>0, <2>2, NoneQueuedElsewhere DEF BackupSteps
  <2>3. CASE RestoreBegin(p) /\ rows' = [rows EXCEPT ![task[p].op] = Started(@)]
    BY <1>0, <2>3, NoneQueuedElsewhere, StartedType, HeldType DEF OwnersInv, RestoreBegin
  <2> QED BY <2>1, <2>2, <2>3
          DEF RestoreBegin, EnterRestoreMode, RestoreVerify, LoadBegin, LoadFail, Reassert,
              PostCommandsAndSwap, RestoreFail, LeaveRestoreMode
<1>8. pc'[p] \in ExposedSteps /\ task[p].op \notin overtaken =>
          rows'[task[p].op].status = "running" /\ rows'[task[p].op].age = "recent"
  <2>1. CASE RestoreBegin(p) /\ pc'[p] \in ExposedSteps
    BY <1>0, <2>1, StartedType DEF RestoreBegin, EndTask, ExposedSteps
  <2>2. CASE EnterRestoreMode(p)
    BY <1>0, <2>2 DEF EnterRestoreMode, OwnOK, ExposedRuns, ExposedSteps, Sheltered
  <2>3. CASE ~RestoreBegin(p) /\ ~EnterRestoreMode(p)
    BY <1>0, <2>3
       DEF RestoreVerify, LoadBegin, LoadFail, Reassert, PostCommandsAndSwap, RestoreFail, FinalizeError,
           LeaveRestoreMode, Goto, EndTask, ExposedSteps
  <2> QED BY <2>1, <2>2, <2>3
<1>9. CASE ~EndTask(p)
  BY <1>1, <1>2, <1>3, <1>5, <1>6, <1>7, <1>8, <1>9, GoOnOwners DEF RestoreSteps, BackupSteps
<1> QED BY <1>4, <1>9

LEMMA ReloadOwners ==
    ASSUME OwnersInv, NEW p \in Workers, LoadEnd(p),
           overtaken' = (overtaken \cup OvertakenNow) \cap HeldByAny'
    PROVE  OwnersDistinct' /\ \A q \in Workers : OwnOK(q)'
<1>1. pc \in [Workers -> Steps]
  BY DEF OwnersInv, TypeInv, TypeOK
<1>2. /\ task' = task /\ pc[p] = "restore_loading" /\ pc'[p] = "restore_reassert"
      /\ \A q \in Workers \ {p} : pc'[q] = pc[q]
  BY <1>1 DEF LoadEnd, Goto
<1> QED BY <1>2, OvertakingOwners DEF Reloads, ExposedSteps, BackupSteps

LEMMA FinalizeOwners ==
    ASSUME OwnersInv, NEW p \in Workers, FinalizeSuccess(p),
           overtaken' = (overtaken \cup OvertakenNow) \cap HeldByAny'
    PROVE  OwnersDistinct' /\ \A q \in Workers : OwnOK(q)'
<1> DEFINE marked == MarkError(rows, Active \ {task[p].op, task[p].pre})
<1>1. pc \in [Workers -> Steps] /\ rows \in [Ids -> Row] /\ OwnOK(p)
  BY DEF OwnersInv, TypeInv, TypeOK, Tables
<1>2. /\ task' = task /\ pc[p] = "restore_success" /\ pc'[p] = "restore_leave"
      /\ \A q \in Workers \ {p} : pc'[q] = pc[q]
  BY <1>1 DEF FinalizeSuccess, Goto
<1>3. ASSUME NEW i \in Ids
      PROVE  /\ rows'[i].status # "queued"
             /\ rows'[i].status = "absent" => rows[i].status = "absent"
  <2>1. i \notin {task[p].op, task[p].pre}
        => /\ marked[i].status # "queued"
           /\ marked[i].status = "absent" => rows[i].status = "absent"
    BY <1>1, EndedType DEF MarkError, Active, ActiveIn, Statuses
  <2>2. i = task[p].pre => task[p].preStatus \notin {"queued", "absent"}
    BY <1>1, <1>2, NoIdsOutside DEF OwnOK, PreSettled, BackupSteps
  <2> HIDE DEF marked
  <2>3. rows' = WrittenBack(marked, p, "success")
    BY DEF FinalizeSuccess, marked
  <2> QED BY <2>1, <2>2, <2>3 DEF WrittenBack
<1> QED BY <1>2, <1>3, OvertakingOwners DEF EndsOthers, ExposedSteps, BackupSteps

\* A nested backup that raises before its row runs leaves it in the queue, and the
\* restore fails at once: nobody takes the backup before that.
LEMMA RaiseOwners ==
    ASSUME OwnersInv, NEW p \in Workers, Raise(p), OvertakenKept
    PROVE  OwnersDistinct' /\ \A q \in Workers : OwnOK(q)'
<1>0. /\ pc \in [Workers -> Steps] /\ task \in [Workers -> Task] /\ rows' = rows /\ OwnOK(p)
  BY DEF OwnersInv, TypeInv, TypeOK, Raise
<1>1. CASE EndTask(p)
  BY <1>0, <1>1, LetGoOwners DEF EndTask
<1>2. CASE ~EndTask(p)
  <2>1. /\ pc[p] \in BackupSteps /\ Goto(p, "restore_fail")
        /\ task' = [task EXCEPT ![p] = [@ EXCEPT !.dump = NoImage, !.name = NoId, !.preStatus =
                        IF pc[p] = "backup_begin" THEN "running" ELSE "error"]]
    BY <1>2 DEF Raise
  <2>2. /\ task'[p].op = task[p].op /\ task'[p].pre = task[p].pre
        /\ task'[p].preStatus \in {"running", "error"} /\ pc'[p] = "restore_fail"
    BY <1>0, <2>1 DEF Goto, Task
  <2>3. \A q \in Workers \ {p} : task'[q] = task[q] /\ pc'[q] = pc[q]
    BY <1>0, <2>1 DEF Goto
  <2>4. Held(p)' = Held(p) /\ \A i \in Held(p) : i \in overtaken' <=> i \in overtaken
    BY <2>2 DEF Held, OvertakenKept
  <2>5. \A i \in Held(p) \ overtaken : rows[i].status = "queued" => i = task[p].pre /\ Sheltered(p)
    BY <1>0 DEF OwnOK, QueuedOnlyBefore
  <2>6. task[p].op \in Held(p)
    BY <2>1, NoIdsOutside DEF OwnersInv, TypeInv, TaskOK, OperationSteps, Held
  <2>7. QueuedOnlyBefore(p)' /\ Present(p)'
    BY <1>0, <2>2, <2>4, <2>5, <2>6 DEF OwnOK, QueuedOnlyBefore, Present, Sheltered
  <2>8. ExposedRuns(p)' /\ PreSettled(p)'
    BY <1>0, <2>2 DEF OwnOK, ExposedRuns, ExposedSteps, PreSettled
  <2>9. OwnOK(p)'
    BY <2>7, <2>8 DEF OwnOK
  <2> QED BY <1>0, <2>2, <2>3, <2>4, <2>9, WorkerOwners
<1> QED BY <1>1, <1>2

LEMMA EnvironmentOwners ==
    ASSUME OwnersInv, Environment,
           overtaken' = (overtaken \cup OvertakenNow) \cap HeldByAny'
    PROVE  OwnersDistinct' /\ \A q \in Workers : OwnOK(q)'
<1>0. pc \in [Workers -> Steps] /\ task \in [Workers -> Task] /\ rows \in [Ids -> Row]
  BY DEF OwnersInv, TypeInv, TypeOK, Tables
<1>1. CASE UNCHANGED <<pc, task, rows>>
  <2>1. OvertakenKept
    BY <1>1, NoneOvertakenAtRest
  <2> QED BY <1>1, <2>1, RowsOwners DEF Sheltered
<1>2. ASSUME NEW i \in Ids, RowAges(i) PROVE OwnersDistinct' /\ \A q \in Workers : OwnOK(q)'
  <2>1. UNCHANGED <<pc, task>> /\ rows' = [rows EXCEPT ![i].age = "stale"]
    BY <1>2 DEF RowAges, procVars
  <2>2. OvertakenKept
    BY <2>1, NoneOvertakenAtRest
  <2>3. \A j \in Ids : rows'[j].status = rows[j].status /\ (j # i => rows'[j] = rows[j])
    BY <1>0, <2>1 DEF Row
  <2>4. \A q \in Workers : Held(q) \subseteq Ids
    BY HeldType DEF OwnersInv
  <2>5. \A q \in Workers : pc[q] \in PromptSteps => task[q].op \in Ids /\ task[q].op # i
    BY <1>2 DEF RowAges, OwnersInv, TypeInv, TaskOK, PromptSteps, OperationSteps, BackupSteps, RestoreSteps
  <2> QED BY <2>1, <2>2, <2>3, <2>4, <2>5, RowsOwners DEF Sheltered
<1>3. ASSUME NEW p \in Workers, Crash(p) PROVE OwnersDistinct' /\ \A q \in Workers : OwnOK(q)'
  <2>1. /\ task' = [task EXCEPT ![p] = NoTask] /\ pc'[p] = "down" /\ rows' = rows
        /\ \A q \in Workers \ {p} : pc'[q] = pc[q]
    BY <1>0, <1>3 DEF Crash
  <2>2. OvertakenKept
    BY <2>1, NoneOvertaken DEF Reloads, EndsOthers, CreatesBackup
  <2> QED BY <2>1, <2>2, LetGoOwners
<1>4. ASSUME NEW p \in Workers, Raise(p) PROVE OwnersDistinct' /\ \A q \in Workers : OwnOK(q)'
  <2>1. pc'[p] \in {"idle", "down", "restore_fail"} /\ \A q \in Workers \ {p} : pc'[q] = pc[q]
    BY <1>0, <1>4 DEF Raise, Goto, EndTask
  <2>2. OvertakenKept
    BY <2>1, NoneOvertaken DEF Reloads, EndsOthers, CreatesBackup
  <2> QED BY <1>4, <2>2, RaiseOwners
<1> QED BY <1>1, <1>2, <1>3, <1>4
        DEF Environment, HeartbeatTouch, HeartbeatExpires, ScheduleFallsDue, LoseLock, procVars

LEMMA OwnersStep == OwnersInv /\ [OwnersNext]_ownersVars => OwnersInv'
<1> SUFFICES ASSUME OwnersInv, [OwnersNext]_ownersVars PROVE OwnersInv'
  OBVIOUS
<1>0. TypeInv' /\ pc \in [Workers -> Steps]
  BY TypeStep DEF OwnersInv, OwnersNext, ownersVars, TypeInv, TypeOK
<1>1. CASE UNCHANGED ownersVars
  <2>1. UNCHANGED <<pc, task, rows, overtaken>>
    BY <1>1 DEF ownersVars, vars
  <2>2. OvertakenKept
    BY <2>1 DEF OvertakenKept
  <2> QED BY <1>0, <2>1, <2>2, RowsOwners DEF OwnersInv, Sheltered
<1>2. CASE OwnersNext
  <2>0. overtaken' = (overtaken \cup OvertakenNow) \cap HeldByAny'
    BY <1>2 DEF OwnersNext
  <2>1. CASE Web
    <3>1. pc' = pc
      BY <2>1 DEF Web, StartBackup, StartRestore, RecoverRestore, RequestMode, ApplyMode, SetMaintenance, procVars
    <3>2. OvertakenKept
      BY <2>0, <3>1, NoneOvertakenAtRest
    <3> QED BY <1>0, <2>1, <3>2, WebOwners DEF OwnersInv
  <2>2. ASSUME NEW s \in Schedulers, SchedulerLoop(s) PROVE OwnersInv'
    <3>1. /\ pc[s] \in {"down", "idle", "tick"} /\ pc'[s] # "restore_reassert" /\ s \in Workers
          /\ \A q \in Workers \ {s} : pc'[q] = pc[q]
      BY <1>0, <2>2 DEF SchedulerLoop, SchedulerStart, Tick, ExitWithoutLock, ClaimNothing, ClaimScheduled,
                        ClaimQueued, Perform, Workers
    <3>2. OvertakenKept
      BY <2>0, <3>1, NoneOvertaken DEF Reloads, EndsOthers, CreatesBackup
    <3> QED BY <1>0, <2>2, <3>2, LoopOwners DEF OwnersInv
  <2>3. ASSUME NEW c \in Clis, Commands(c) PROVE OwnersInv'
    <3>1. pc[c] = "down" /\ c \in Workers /\ \A q \in Workers \ {c} : pc'[q] = pc[q]
      BY <1>0, <2>3 DEF Commands, CliBackup, CliBackupQueued, CliRestore, Perform, Workers
    <3>2. OvertakenKept
      BY <2>0, <3>1, NoneOvertaken DEF Reloads, EndsOthers, CreatesBackup
    <3> QED BY <1>0, <2>3, <3>2, CommandsOwners DEF OwnersInv
  <2>4. ASSUME NEW p \in Workers, Operation(p) PROVE OwnersInv'
    <3>1. CASE BackupBegin(p) \/ BackupDump(p) \/ BackupWriteManifest(p) \/ BackupSucceed(p) \/ BackupFail(p)
      <4>1. pc[p] \in BackupSteps /\ \A q \in Workers \ {p} : pc'[q] = pc[q]
        BY <1>0, <3>1 DEF BackupBegin, BackupDump, BackupWriteManifest, BackupSucceed, BackupFail, Goto,
                          EndTask, BackupSteps
      <4>2. OvertakenKept
        BY <2>0, <4>1, NoneOvertaken DEF Reloads, EndsOthers, CreatesBackup, BackupSteps
      <4> QED BY <1>0, <3>1, <4>2, BackupOwners DEF OwnersInv
    <3>2. CASE CreatePreRestore(p)
      BY <1>0, <2>0, <3>2, CreateOwners DEF OwnersInv
    <3>3. CASE LoadEnd(p)
      BY <1>0, <2>0, <3>3, ReloadOwners DEF OwnersInv
    <3>4. CASE FinalizeSuccess(p)
      BY <1>0, <2>0, <3>4, FinalizeOwners DEF OwnersInv
    <3> QED BY <1>0, <2>0, <2>4, <3>1, <3>2, <3>3, <3>4, RestoreOwners DEF Operation, OwnersInv
  <2>5. CASE Environment
    BY <1>0, <2>0, <2>5, EnvironmentOwners DEF OwnersInv
  <2> QED BY <1>2, <2>1, <2>2, <2>3, <2>4, <2>5 DEF OwnersNext, Next
<1> QED BY <1>1, <1>2

\* However schedulers that lose their lock, commands, recoveries and reloaded dumps
\* interleave: no operation is executed by two workers at once, nor is the
\* pre-restore backup of one restore that of another, but for operations that
\* a restore has overtaken.  For every number of operations, schedulers and commands.
THEOREM OwnersAreDistinct == OwnersSpec => []OwnersDistinct
<1>1. OwnersInv => OwnersDistinct
  BY DEF OwnersInv
<1>2. QED
  BY <1>1, OwnersInitInv, OwnersStep, PTL DEF OwnersSpec
==============================================================================
