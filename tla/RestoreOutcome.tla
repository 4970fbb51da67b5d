---------------------------- MODULE RestoreOutcome ----------------------------
(***************************************************************************)
(* What a restore promises to the person who starts it: a backup of the    *)
(* site as it was, and then one step after which the site is that of the   *)
(* backup, or the uploads are as they were, or help is needed              *)
(* (restore_backup and the run it ends, app/core/system_ops/restore.py).   *)
(* The run that it ends says less: the status is success after a success   *)
(* only, and error in all the other cases, those after which the site is   *)
(* that of the backup included.                                            *)
(***************************************************************************)
EXTENDS Naturals, Sequences

CONSTANTS
    Databases,     \* contents of the database
    NoDatabase,    \* a database without tables
    Contents       \* contents of MEDIA_ROOT

VARIABLES
    site,         \* what users see; while a restore runs, what they saw before
    saved,        \* the backups: the site, and whether a killed restore left anything in it
    selected,     \* the backup that is being restored, 0 for none
    outcome,      \* how the last restore ended
    disturbed     \* requests wrote while a restore ran

outcomeVars == <<site, saved, selected, outcome, disturbed>>

Sites == [db : Databases \cup {NoDatabase}, uploads : Contents]
Copy(pure) == [db |-> site.db, uploads |-> site.uploads, pure |-> pure]

OutcomeInit ==
    /\ site \in Sites /\ site.db # NoDatabase
    /\ saved = <<>> /\ selected = 0 /\ outcome = "none" /\ disturbed = FALSE

Working == selected = 0 /\ site.db # NoDatabase

Use ==
    /\ Working
    /\ site' \in Sites
    /\ outcome' = "none"
    /\ UNCHANGED <<saved, selected, disturbed>>

Save ==
    /\ Working
    /\ \E pure \in BOOLEAN : saved' = Append(saved, Copy(pure))
    /\ UNCHANGED <<site, selected, outcome, disturbed>>

Begin(b) ==
    /\ Working
    /\ selected' = b
    /\ \E pure \in BOOLEAN : saved' = Append(saved, Copy(pure))
    /\ outcome' = "none"
    /\ UNCHANGED <<site, disturbed>>

Disturb ==
    /\ selected # 0
    /\ disturbed' = TRUE
    /\ UNCHANGED <<site, saved, selected, outcome>>

End(result) ==
    /\ selected # 0 /\ selected' = 0
    /\ outcome' = result
    /\ site' \in Sites
    /\ UNCHANGED <<saved, disturbed>>

\* Also where the success could not be recorded.
Succeed ==
    /\ \E result \in {"success", "denied", "unsaid"} : End(result)
    /\ ~disturbed => /\ site'.db = saved[selected].db
                     /\ site'.uploads = saved[selected].uploads

Fail ==
    /\ End("failed")
    /\ ~disturbed /\ saved[selected].pure => site'.uploads = site.uploads

Break == \E result \in {"littered", "stranded", "killed"} : End(result)

OutcomeNext ==
    \/ Use \/ Save \/ Disturb
    \/ \E b \in DOMAIN saved : Begin(b)
    \/ Succeed \/ Fail \/ Break

OutcomeSpec == OutcomeInit /\ [][OutcomeNext]_outcomeVars
=============================================================================
