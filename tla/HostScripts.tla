----------------------------- MODULE HostScripts -----------------------------
(***************************************************************************)
(* The scripts of the host for when the containers cannot be used:         *)
(* deploy/backup.sh, run by cron, and deploy/restore.sh, run by hand. Each *)
(* may fail at a command (set -e ends it there) or be killed.              *)
(*                                                                         *)
(* Simplifications. A backup is known by its day, one a day. The staging   *)
(* directory of a restore, removed by a trap or at worst left behind, has  *)
(* no effect on the rest and is left out, and so is a kill in the middle   *)
(* of rm -rf. Both scripts are given the same name of the uploads          *)
(* directory; their defaults differ, and with them restore.sh refuses what *)
(* backup.sh makes.                                                        *)
(***************************************************************************)
EXTENDS Naturals

CONSTANTS
    MaxDay,    \* bound on the clock
    KeepDays,  \* KEEP_DAYS
    Pids       \* process identifiers ($$)

ASSUME HostAssumption == KeepDays \in Nat /\ MaxDay \in Nat

VARIABLES
    today,       \* the clock, in days
    hostFiles,   \* files of the backup directory
    backupSh,    \* the run of backup.sh
    restoreSh,   \* the run of restore.sh
    hostDb,      \* "whole" or "mixed"
    uploadsDir,  \* the uploads directory, or "none"
    asides,      \* [Pids -> the directory .restore_old.$$]
    everPair,    \* history: a whole backup has been made
    reused       \* history: a restore had the identifier of a killed one

hostVars == <<today, hostFiles, backupSh, restoreSh, hostDb, uploadsDir, asides, everPair, reused>>

Archives == {"good", "unsafe", "truncated", "not asked"}
NoBackupSh == [pc |-> "idle", day |-> 0]
NoRestoreSh == [pc |-> "idle", pid |-> 0, archive |-> "not asked"]

HostInit ==
    /\ today = 0 /\ hostFiles = {} /\ backupSh = NoBackupSh /\ restoreSh = NoRestoreSh
    /\ hostDb = "whole" /\ uploadsDir = "current" /\ asides = [p \in Pids |-> "none"]
    /\ everPair = FALSE /\ reused = FALSE

\* A run of backup.sh takes less than a day.
DayPasses ==
    /\ today < MaxDay /\ backupSh.pc = "idle"
    /\ today' = today + 1
    /\ UNCHANGED <<hostFiles, backupSh, restoreSh, hostDb, uploadsDir, asides, everPair, reused>>

-----------------------------------------------------------------------------
(* backup.sh                                                               *)

BackupFile(kind, whole) == [kind |-> kind, day |-> backupSh.day, whole |-> whole]

\* A pair of files one run made.
WholePair(files) == \E day \in 0..MaxDay : \A kind \in {"db", "uploads"} : [kind |-> kind, day |-> day, whole |-> TRUE] \in files

\* The file grows from here on: what a failed dump leaves is not removed.
BackupShStarts ==
    /\ backupSh.pc = "idle" /\ \A file \in hostFiles : file.day # today
    /\ backupSh' = [pc |-> "dump", day |-> today]
    /\ hostFiles' = hostFiles \cup {[kind |-> "db", day |-> today, whole |-> FALSE]}
    /\ UNCHANGED <<today, restoreSh, hostDb, uploadsDir, asides, everPair, reused>>

Dumped ==
    /\ backupSh.pc = "dump"
    /\ backupSh' = [backupSh EXCEPT !.pc = "tar"]
    /\ hostFiles' = (hostFiles \ {BackupFile("db", FALSE)}) \cup {BackupFile("db", TRUE), BackupFile("uploads", FALSE)}
    /\ UNCHANGED <<today, restoreSh, hostDb, uploadsDir, asides, everPair, reused>>

\* tar needs the directory, which a restore moves away for a moment.
Tarred ==
    /\ backupSh.pc = "tar" /\ uploadsDir # "none"
    /\ backupSh' = [backupSh EXCEPT !.pc = "prune db"]
    /\ hostFiles' = (hostFiles \ {BackupFile("uploads", FALSE)}) \cup {BackupFile("uploads", TRUE)}
    /\ everPair' = TRUE
    /\ UNCHANGED <<today, restoreSh, hostDb, uploadsDir, asides, reused>>

\* Mutant: old files go before the new ones are whole.
PruneEarly(kind) ==
    /\ backupSh.pc = IF kind = "db" THEN "tar" ELSE "prune uploads"
    /\ hostFiles' = {file \in hostFiles : file.kind = kind => today - file.day <= KeepDays}
    /\ backupSh' = IF kind = "db" THEN backupSh ELSE NoBackupSh
    /\ UNCHANGED <<today, restoreSh, hostDb, uploadsDir, asides, everPair, reused>>

\* find -mtime +KEEP_DAYS -delete, the dumps first.
Prune(kind) ==
    /\ backupSh.pc = IF kind = "db" THEN "prune db" ELSE "prune uploads"
    /\ hostFiles' = {file \in hostFiles : file.kind = kind => today - file.day <= KeepDays}
    /\ backupSh' = IF kind = "db" THEN [backupSh EXCEPT !.pc = "prune uploads"] ELSE NoBackupSh
    /\ UNCHANGED <<today, restoreSh, hostDb, uploadsDir, asides, everPair, reused>>

BackupShEnds ==
    /\ backupSh.pc # "idle"
    /\ backupSh' = NoBackupSh
    /\ UNCHANGED <<today, hostFiles, restoreSh, hostDb, uploadsDir, asides, everPair, reused>>

-----------------------------------------------------------------------------
(* restore.sh                                                              *)

\* With the flag of confirmation, for the database, for the uploads, or for both.
RestoreShStarts(pid, archive, db) ==
    /\ restoreSh.pc = "idle" /\ (db \/ archive # "not asked")
    /\ restoreSh' = [pc |-> IF db THEN "load" ELSE "check", pid |-> pid, archive |-> archive]
    /\ hostDb' = IF db THEN "mixed" ELSE hostDb
    /\ UNCHANGED <<today, hostFiles, backupSh, uploadsDir, asides, everPair, reused>>

DbLoaded ==
    /\ restoreSh.pc = "load"
    /\ hostDb' = "whole"
    /\ restoreSh' = IF restoreSh.archive = "not asked" THEN NoRestoreSh ELSE [restoreSh EXCEPT !.pc = "check"]
    /\ UNCHANGED <<today, hostFiles, backupSh, uploadsDir, asides, everPair, reused>>

\* The names and the types of the entries; an archive that cannot be read to its
\* end fails here too.
ArchiveChecked ==
    /\ restoreSh.pc = "check"
    /\ restoreSh' = IF restoreSh.archive = "good" THEN [restoreSh EXCEPT !.pc = "extract"] ELSE NoRestoreSh
    /\ UNCHANGED <<today, hostFiles, backupSh, hostDb, uploadsDir, asides, everPair, reused>>

\* rm -rf of what a run with the same identifier left, then tar -x.
Extract ==
    /\ restoreSh.pc = "extract"
    /\ reused' = (reused \/ asides[restoreSh.pid] # "none")
    /\ asides' = [asides EXCEPT ![restoreSh.pid] = "none"]
    /\ restoreSh' = [restoreSh EXCEPT !.pc = "aside"]
    /\ UNCHANGED <<today, hostFiles, backupSh, hostDb, uploadsDir, everPair>>

MoveAside ==
    /\ restoreSh.pc = "aside"
    /\ asides' = [asides EXCEPT ![restoreSh.pid] = uploadsDir]
    /\ uploadsDir' = "none"
    /\ restoreSh' = [restoreSh EXCEPT !.pc = "in"]
    /\ UNCHANGED <<today, hostFiles, backupSh, hostDb, everPair, reused>>

MoveIn ==
    /\ restoreSh.pc = "in"
    /\ uploadsDir' = "restored"
    /\ restoreSh' = [restoreSh EXCEPT !.pc = "clean"]
    /\ UNCHANGED <<today, hostFiles, backupSh, hostDb, asides, everPair, reused>>

\* Mutant: what was moved aside is removed as the staging directory is.
MoveInFailsAndCleans(back) ==
    /\ restoreSh.pc = "in"
    /\ asides' = [asides EXCEPT ![restoreSh.pid] = "none"]
    /\ restoreSh' = NoRestoreSh
    /\ UNCHANGED <<today, hostFiles, backupSh, hostDb, uploadsDir, everPair, reused>>

\* The old directory is moved back, if that works.
MoveInFails(back) ==
    /\ restoreSh.pc = "in"
    /\ uploadsDir' = IF back THEN asides[restoreSh.pid] ELSE "none"
    /\ asides' = [asides EXCEPT ![restoreSh.pid] = IF back THEN "none" ELSE @]
    /\ restoreSh' = NoRestoreSh
    /\ UNCHANGED <<today, hostFiles, backupSh, hostDb, everPair, reused>>

RemoveAside ==
    /\ restoreSh.pc = "clean"
    /\ asides' = [asides EXCEPT ![restoreSh.pid] = "none"]
    /\ restoreSh' = NoRestoreSh
    /\ UNCHANGED <<today, hostFiles, backupSh, hostDb, uploadsDir, everPair, reused>>

\* A command fails where nothing is put right, or the script is killed.
RestoreShEnds ==
    /\ restoreSh.pc # "idle"
    /\ restoreSh' = NoRestoreSh
    /\ UNCHANGED <<today, hostFiles, backupSh, hostDb, uploadsDir, asides, everPair, reused>>

HostNext ==
    \/ DayPasses
    \/ BackupShStarts \/ Dumped \/ Tarred \/ BackupShEnds
    \/ \E kind \in {"db", "uploads"} : Prune(kind)
    \/ \E pid \in Pids, archive \in Archives, db \in BOOLEAN : RestoreShStarts(pid, archive, db)
    \/ DbLoaded \/ ArchiveChecked \/ Extract \/ MoveAside \/ MoveIn \/ RemoveAside \/ RestoreShEnds
    \/ \E back \in BOOLEAN : MoveInFails(back)

HostSpec == HostInit /\ [][HostNext]_hostVars

-----------------------------------------------------------------------------

\* Types.
HostTypeOK ==
    /\ today \in 0..MaxDay
    /\ hostFiles \subseteq [kind : {"db", "uploads"}, day : 0..MaxDay, whole : BOOLEAN]
    /\ hostDb \in {"whole", "mixed"} /\ uploadsDir \in {"current", "restored", "none"}
    /\ asides \in [Pids -> {"current", "restored", "none"}]

\* However many runs of backup.sh fail or are killed, a whole pair of a dump and
\* an archive remains once there has been one.
HostBackupRemains == everPair => WholePair(hostFiles)

\* However restore.sh ends, a whole uploads directory is in place or beside it,
\* unless a later run had the process identifier of the one that was killed: it
\* removes the only copy before it extracts.
HostUploadsRemain == uploadsDir # "none" \/ reused \/ \E p \in Pids : asides[p] # "none"

\* The two promises the scripts make by the order of their commands.
HostDataRemains == HostBackupRemains /\ HostUploadsRemain
=============================================================================
