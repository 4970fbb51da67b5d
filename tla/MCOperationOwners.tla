-------------------------- MODULE MCOperationOwners --------------------------
(* Small instances of OperationOwners for TLC: two schedulers that lose their *)
(* lock, with three operations; and a scheduler beside a command whose        *)
(* restore was recovered as abandoned, with the five that two restores need.  *)
EXTENDS OperationOwners, TLC

VARIABLE scenario

Row1(kind, status, age, from) == [kind |-> kind, status |-> status, age |-> age, from |-> from]
Table(known) == [i \in Ids |-> IF i \in DOMAIN known THEN known[i] ELSE NoRow]

Backup == Row1("backup", "success", "unset", NoId)
DumpOf1 == [rows |-> Table(1 :> Row1("backup", "running", "recent", NoId)), mode |-> "admin_only"]
DumpOf2 ==
    [rows |-> Table(1 :> Backup @@ 2 :> Row1("pre_restore", "running", "recent", NoId)
                    @@ 11 :> Row1("restore", "running", "recent", 1)),
     mode |-> "restore_running"]

\* The command has restore 11 of the first backup and made the second one, of row 2,
\* as its pre-restore backup; its row got stale and was recovered.
AbandonedRestore ==
    /\ rows = Table(1 :> Backup @@ 2 :> Row1("pre_restore", "success", "unset", NoId)
                    @@ 11 :> Row1("restore", "error", "unset", 1))
    /\ mode = "admin_only" /\ fresh = FALSE /\ due = FALSE /\ db = "ready"
    /\ onDisk = {1, 2} /\ named = 2
    /\ image = [b \in Names |-> CASE b = 1 -> DumpOf1 [] b = 2 -> DumpOf2 [] OTHER -> NoImage]
    /\ lock = NoProc /\ pending = "none" /\ faults = [crash |-> 0, db |-> 0]
    /\ pc = [p \in Workers |-> IF p \in Clis THEN "restore_verify" ELSE "down"]
    /\ task = [p \in Workers |->
          IF p \in Clis
          THEN [NoTask EXCEPT !.op = 11, !.kind = "restore", !.from = 1, !.pre = 2, !.preStatus = "success"]
          ELSE NoTask]
    /\ overtaken = {}

MCInit ==
    \/ scenario \in {"lost lock", "command"} /\ OwnersInit
    \/ scenario = "two restores" /\ AbandonedRestore

\* The mode is only set by the command, and there is no schedule. Two schedulers run no
\* commands; beside a command there is one scheduler, which keeps its lock; and where
\* the command starts with a restore it ends with it.
MCNext ==
    /\ OwnersNext /\ ~due' /\ UNCHANGED scenario
    /\ scenario = "lost lock" => \A c \in Clis : pc'[c] = "down"
    /\ scenario # "lost lock" =>
           /\ \E s \in Schedulers : \A t \in Schedulers \ {s} : pc'[t] = "down"
           /\ lock' = NoProc => lock = NoProc
    /\ scenario = "two restores" => \A c \in Clis : pc[c] = "down" => pc'[c] = "down"
    /\ scenario # "two restores" => \A i \in {3, 12} : rows'[i].status = "absent"

MCSpec == MCInit /\ [][MCNext]_<<ownersVars, scenario>>

Symmetric == Permutations(Schedulers)
=============================================================================
