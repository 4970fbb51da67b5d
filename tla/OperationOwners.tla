--------------------------- MODULE OperationOwners ---------------------------
(***************************************************************************)
(* Who executes which operation of OperationQueue, with a history of the   *)
(* operations that a restore has overtaken: it reloads the rows of all of   *)
(* them (LoadEnd) and ends those of the others (FinalizeSuccess), whatever  *)
(* their workers are doing.                                                 *)
(***************************************************************************)
EXTENDS OperationQueue

VARIABLE overtaken  \* history: keys a worker holds that a restore may have freed for others

ownersVars == <<vars, overtaken>>

\* The operations in the memory of a worker.
Held(p) == {task[p].op, task[p].pre} \ {NoId}
HeldByAny == UNION {Held(p) : p \in Workers}

\* A restore runs and has not created its pre-restore backup: nothing but its own
\* row keeps others from taking that backup out of the queue.
ExposedSteps == {"restore_mode", "restore_check"}

Reloads(p) == pc[p] = "restore_loading" /\ pc'[p] = "restore_reassert"
EndsOthers(p) == pc[p] = "restore_success" /\ pc'[p] = "restore_leave"
CreatesBackup(p) == pc[p] = "restore_check" /\ pc'[p] = "backup_begin"

\* What a reloaded dump does not have, so that its key is given out again, or has in
\* the queue; restores whose row another restore replaces or ends before they have
\* created their backup; and that backup.
OvertakenNow ==
    {i \in Ids :
        \/ rows'[i].status \in {"absent", "queued"} /\ \E p \in Workers : Reloads(p)
        \/ \E p, q \in Workers : /\ p # q
                                 /\ Reloads(p) \/ EndsOthers(p)
                                 /\ pc[q] \in ExposedSteps /\ i = task[q].op
        \/ \E p \in Workers : CreatesBackup(p) /\ task[p].op \in overtaken /\ i = task'[p].pre}

OwnersInit == Init /\ overtaken = {}
OwnersNext == Next /\ overtaken' = (overtaken \cup OvertakenNow) \cap HeldByAny'
OwnersSpec == OwnersInit /\ [][OwnersNext]_ownersVars

-----------------------------------------------------------------------------

\* The commands and a scheduler that lost its lock may overlap with another
\* worker, but no operation is ever executed by two workers at once, nor is the
\* pre-restore backup of one restore that of another: two workers hold the same key
\* only if a restore has reloaded or ended its row since one of them took it.  A
\* reload frees keys in the middle of operations, those of the restore itself
\* included, and the next operation gets them: then both workers write one row.
OwnersDistinct ==
    \A p, q \in Workers : p # q => Held(p) \cap Held(q) \subseteq overtaken
=============================================================================
