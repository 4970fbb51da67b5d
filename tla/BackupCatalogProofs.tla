------------------------- MODULE BackupCatalogProofs -------------------------
(***************************************************************************)
(* Proofs about BackupCatalog, for every number of backups, restores and   *)
(* interruptions.                                                          *)
(***************************************************************************)
EXTENDS BackupCatalog, TLAPS

IsMade(b) == backups[b].type # "none"

\* Ids are taken in order, and only incremental backups have a baseline.
InOrder ==
    /\ \A b, c \in Backups : IsMade(b) /\ c < b => IsMade(c)
    /\ \A b \in Backups : backups[b].base # NoBackup => backups[b].type = "incremental"

\* create_backup works alone, on the next id.
JobOK ==
    job # NoJob =>
        /\ restore.step = "none"
        /\ job.id \in Backups
        /\ ~IsMade(job.id)
        /\ \A c \in Backups : c < job.id => IsMade(c)
        /\ job.new.type \in {"full", "incremental"}
        /\ job.new.age = "young"
        /\ job.new.base # NoBackup => job.new.type = "incremental"

RestoreOK ==
    /\ choice # Nothing => choice.full \in Backups
    /\ restore.step # "none" => restore.selected.full \in Backups
    /\ restore.step \in {"prepared", "loaded"} => restore.pre \in Backups /\ IsMade(restore.pre)

\* A database that is put back knows only backups that were made.
SnapshotsOK ==
    /\ \A b \in Backups : \A c \in backups[b].known : IsMade(c)
    /\ job.new.known \subseteq Backups /\ \A c \in job.new.known : IsMade(c)

\* What is about to be unlinked was made, and a later one of its type too.
TargetsOK ==
    \A target \in deletion \cup retention :
        /\ IsMade(target[1])
        /\ backups[target[1]].type \in BaselineTypes
             => \E c \in Backups : c > target[1] /\ backups[c].type = backups[target[1]].type

CatalogInv == TypeOK /\ InOrder /\ JobOK /\ RestoreOK /\ SnapshotsOK /\ TargetsOK /\ NewestKept /\ YoungKept

(***************************************************************************)
(* Steps that make a backup: of the others nothing changes.                *)
(***************************************************************************)

LEMMA NewBackup ==
    ASSUME CatalogInv, NEW b \in Backups, NEW new \in Backup,
           ~IsMade(b), \A c \in Backups : c < b => IsMade(c),
           new.type # "none", new.age = "young",
           new.base # NoBackup => new.type = "incremental",
           \A c \in new.known : IsMade(c),
           backups' = [backups EXCEPT ![b] = new],
           disk' = [disk EXCEPT ![b] = Parts],
           UNCHANGED <<deletion, retention>>
    PROVE  /\ backups' \in [Backups -> Backup]
           /\ disk' \in [Backups -> SUBSET Parts]
           /\ \A c \in Backups : IsMade(c) => backups'[c] = backups[c] /\ IsMade(c)'
           /\ IsMade(b)'
           /\ \A c \in Backups : disk'[c] # {} => IsMade(c)'
           /\ InOrder' /\ (\A c \in Backups : \A k \in backups'[c].known : IsMade(k)')
           /\ TargetsOK' /\ NewestKept' /\ YoungKept'
<1>1. backups' \in [Backups -> Backup] /\ disk' \in [Backups -> SUBSET Parts]
  BY DEF CatalogInv, TypeOK
<1>2. \A c \in Backups : c # b => backups'[c] = backups[c] /\ disk'[c] = disk[c]
  BY DEF CatalogInv, TypeOK
<1>3. backups'[b] = new /\ disk'[b] = Parts
  BY DEF CatalogInv, TypeOK
<1>4. \A c \in Backups : IsMade(c) => backups'[c] = backups[c] /\ IsMade(c)'
  BY <1>2 DEF IsMade
<1>5. IsMade(b)'
  BY <1>3 DEF IsMade
<1>6. \A c \in Backups : disk'[c] # {} => IsMade(c)'
  BY <1>2, <1>4, <1>5 DEF CatalogInv, TypeOK, IsMade
<1>7. \A c \in Backups : \A k \in backups'[c].known : k \in Backups /\ IsMade(k)'
  BY <1>1, <1>2, <1>3, <1>4 DEF CatalogInv, TypeOK, SnapshotsOK, Backup
<1>8. InOrder'
  <2>1. \A c, d \in Backups : IsMade(c)' /\ d < c => IsMade(d)'
    <3> SUFFICES ASSUME NEW c \in Backups, NEW d \in Backups, IsMade(c)', d < c
                 PROVE  IsMade(d)'
      OBVIOUS
    <3>1. CASE c = b BY <3>1, <1>4
    <3>2. CASE c # b BY <3>2, <1>2, <1>4 DEF CatalogInv, InOrder, IsMade
    <3> QED BY <3>1, <3>2
  <2>2. \A c \in Backups : backups'[c].base # NoBackup => backups'[c].type = "incremental"
    BY <1>2, <1>3 DEF CatalogInv, InOrder
  <2> QED BY <2>1, <2>2 DEF InOrder
<1>9. TargetsOK'
  <2> SUFFICES ASSUME NEW target \in deletion \cup retention
               PROVE  /\ IsMade(target[1])'
                      /\ backups'[target[1]].type \in BaselineTypes
                           => \E c \in Backups : c > target[1] /\ backups'[c].type = backups'[target[1]].type
    BY DEF TargetsOK
  <2>1. target[1] \in Backups /\ IsMade(target[1])
    BY DEF CatalogInv, TypeOK, TargetsOK, Targets
  <2>2. ASSUME backups[target[1]].type \in BaselineTypes
        PROVE  \E c \in Backups : c > target[1] /\ backups'[c].type = backups[target[1]].type
    <3>1. PICK c \in Backups : c > target[1] /\ backups[c].type = backups[target[1]].type
      BY <2>2 DEF CatalogInv, TargetsOK
    <3> QED BY <3>1, <2>1, <1>4 DEF IsMade
  <2> QED BY <2>1, <2>2, <1>4
<1>10. NewestKept'
  <2> SUFFICES ASSUME NEW c \in Backups, NEW t \in BaselineTypes, NewestOf(c, Made(t))'
               PROVE  disk'[c] = Parts
    BY DEF NewestKept
  <2>1. CASE c = b BY <2>1, <1>3
  <2>2. CASE c # b
    <3>1. NewestOf(c, Made(t))
      BY <2>2, <1>2, <1>4 DEF NewestOf, Made, OfType, IsMade, BaselineTypes
    <3> QED BY <3>1, <2>2, <1>2 DEF CatalogInv, NewestKept
  <2> QED BY <2>1, <2>2
<1>11. YoungKept'
  <2>1. \A target \in retention : target[1] \in Backups /\ IsMade(target[1])
    BY DEF CatalogInv, TypeOK, TargetsOK, Targets
  <2> QED BY <2>1, <1>4 DEF CatalogInv, YoungKept
<1> QED BY <1>1, <1>4, <1>5, <1>6, <1>7, <1>8, <1>9, <1>10, <1>11

(***************************************************************************)
(* create_backup                                                           *)
(***************************************************************************)

LEMMA BackupStartStep ==
    ASSUME CatalogInv, NEW b \in Backups, BackupStart(b)
    PROVE  CatalogInv'
<1>1. /\ restore.step = "none" /\ ~IsMade(b) /\ \A c \in Backups : c < b => IsMade(c)
      /\ UNCHANGED <<backups, disk, known, restore, choice, deletion, retention, interruptions>>
  BY DEF BackupStart, OperationActive, NextBackup, IsMade
<1>2. PICK type \in {"full", "incremental"}, base \in Backups \cup {NoBackup} :
        /\ job' = [id |-> b, new |-> New(type, base)]
        /\ base # NoBackup => type = "incremental"
  BY DEF BackupStart, LatestBaseline, NewestOf, OfType
<1>3. /\ job'.id = b /\ job'.new \in Backup /\ job'.new.type = type /\ job'.new.base = base
      /\ job'.new.age = "young" /\ job'.new.known = known
  BY <1>2 DEF New, Backup, Types, Ages, CatalogInv, TypeOK
<1>t. TypeOK' BY <1>1, <1>3 DEF CatalogInv, TypeOK
<1>a. InOrder' BY <1>1 DEF CatalogInv, InOrder, IsMade
<1>b. JobOK' BY <1>1, <1>2, <1>3 DEF JobOK, IsMade
<1>c. RestoreOK' BY <1>1 DEF CatalogInv, RestoreOK, IsMade
<1>d. SnapshotsOK' BY <1>1, <1>3 DEF CatalogInv, TypeOK, SnapshotsOK, IsMade
<1>e. TargetsOK' BY <1>1 DEF CatalogInv, TargetsOK, IsMade
<1>f. NewestKept' /\ YoungKept' BY <1>1 DEF CatalogInv, NewestKept, YoungKept, NewestOf, Made, OfType
<1> QED BY <1>t, <1>a, <1>b, <1>c, <1>d, <1>e, <1>f DEF CatalogInv

LEMMA PublishedStep ==
    ASSUME CatalogInv, Published, known' \in {known, known \cup {job.id}},
           interruptions' \in 0..MaxInterruptions
    PROVE  CatalogInv'
<1>1. /\ restore.step = "none" /\ job.id \in Backups /\ ~IsMade(job.id)
      /\ \A c \in Backups : c < job.id => IsMade(c)
      /\ job.new.type \in {"full", "incremental"} /\ job.new.age = "young" /\ job.new \in Backup
      /\ (job.new.base # NoBackup => job.new.type = "incremental")
      /\ \A c \in job.new.known : IsMade(c)
  BY DEF Published, CatalogInv, JobOK, TypeOK, SnapshotsOK
<1>2. PICK i \in Backups, new \in Backup : i = job.id /\ new = job.new
  BY <1>1
<1>3. /\ backups' = [backups EXCEPT ![i] = new]
      /\ disk' = [disk EXCEPT ![i] = Parts]
      /\ job' = NoJob
      /\ UNCHANGED <<restore, choice, deletion, retention>>
  BY <1>2 DEF Published
<1>4. /\ backups' \in [Backups -> Backup]
      /\ disk' \in [Backups -> SUBSET Parts]
      /\ \A c \in Backups : IsMade(c) => backups'[c] = backups[c] /\ IsMade(c)'
      /\ IsMade(i)'
      /\ \A c \in Backups : disk'[c] # {} => IsMade(c)'
      /\ InOrder' /\ (\A c \in Backups : \A k \in backups'[c].known : IsMade(k)')
      /\ TargetsOK' /\ NewestKept' /\ YoungKept'
  <2>1. new.type # "none" BY <1>1, <1>2
  <2> QED BY <1>1, <1>2, <1>3, <2>1, NewBackup
<1>5. NoJob.id = NoBackup /\ NoJob.new \in Backup /\ NoJob.new.known = {}
  BY DEF NoJob, Missing, Backup, Types, Ages
<1>t. TypeOK'
  <2>1. \A b \in known' : b \in Backups /\ IsMade(b)' BY <1>2, <1>4 DEF CatalogInv, TypeOK, IsMade
  <2> QED BY <1>3, <1>4, <1>5, <2>1 DEF CatalogInv, TypeOK, IsMade
<1>b. JobOK' BY <1>3 DEF JobOK
<1>c. RestoreOK' BY <1>1, <1>3, <1>4 DEF CatalogInv, RestoreOK
<1>d. SnapshotsOK' BY <1>3, <1>4, <1>5 DEF SnapshotsOK
<1> QED BY <1>t, <1>b, <1>c, <1>d, <1>4 DEF CatalogInv

LEMMA BackupFailsStep ==
    ASSUME CatalogInv, BackupFails
    PROVE  CatalogInv'
<1>1. job' = NoJob /\ UNCHANGED <<backups, disk, known, restore, choice, deletion, retention, interruptions>>
  BY DEF BackupFails
<1>2. NoJob.id = NoBackup /\ NoJob.new \in Backup /\ NoJob.new.known = {}
  BY DEF NoJob, Missing, Backup, Types, Ages
<1>t. TypeOK' BY <1>1, <1>2 DEF CatalogInv, TypeOK
<1>a. InOrder' /\ RestoreOK' BY <1>1 DEF CatalogInv, InOrder, RestoreOK, IsMade
<1>b. JobOK' BY <1>1 DEF JobOK
<1>d. SnapshotsOK' BY <1>1, <1>2 DEF CatalogInv, SnapshotsOK, IsMade
<1>e. TargetsOK' BY <1>1 DEF CatalogInv, TargetsOK, IsMade
<1>f. NewestKept' /\ YoungKept' BY <1>1 DEF CatalogInv, NewestKept, YoungKept, NewestOf, Made, OfType
<1> QED BY <1>t, <1>a, <1>b, <1>d, <1>e, <1>f DEF CatalogInv

(***************************************************************************)
(* Deletions, by the page and by the retention                             *)
(***************************************************************************)

\* Of the files only those of targets change, and targets only become less.
LEMMA TargetsStep ==
    ASSUME CatalogInv,
           UNCHANGED <<backups, known, job, restore, choice>>,
           interruptions' \in 0..MaxInterruptions,
           deletion' \in Targets, retention' \in Targets,
           TargetsOK', YoungKept',
           disk' \in [Backups -> SUBSET Parts],
           \A b \in Backups : disk'[b] \subseteq disk[b],
           \A b \in Backups : disk'[b] = disk[b] \/ \E part \in Parts : <<b, part>> \in deletion \cup retention
    PROVE  CatalogInv'
<1>t. TypeOK' BY DEF CatalogInv, TypeOK
<1>a. InOrder' /\ JobOK' /\ RestoreOK' /\ SnapshotsOK'
  BY DEF CatalogInv, InOrder, JobOK, RestoreOK, SnapshotsOK, IsMade
<1>f. NewestKept'
  <2> SUFFICES ASSUME NEW b \in Backups, NEW t \in BaselineTypes, NewestOf(b, Made(t))
               PROVE  disk'[b] = Parts
    BY DEF NewestKept, NewestOf, Made, OfType
  <2>1. disk[b] = Parts BY DEF CatalogInv, NewestKept
  <2>2. ASSUME NEW part \in Parts, <<b, part>> \in deletion \cup retention PROVE FALSE
    <3>1. backups[b].type = t BY DEF NewestOf, Made, OfType
    <3>2. PICK c \in Backups : c > b /\ backups[c].type = backups[b].type
      BY <2>2, <3>1 DEF CatalogInv, TargetsOK
    <3> QED BY <3>1, <3>2 DEF NewestOf, Made, OfType, Backups
  <2> QED BY <2>1, <2>2
<1> QED BY <1>t, <1>a, <1>f DEF CatalogInv

LEMMA UnlinkStep ==
    ASSUME CatalogInv, NEW b \in Backups, NEW part \in Parts,
           DeleteUnlink(b, part) \/ RetentionUnlink(b, part)
    PROVE  CatalogInv'
<1>1. /\ UNCHANGED <<backups, known, job, restore, choice, interruptions>>
      /\ deletion' \subseteq deletion /\ retention' \subseteq retention
      /\ <<b, part>> \in deletion \cup retention
      /\ disk' = [disk EXCEPT ![b] = @ \ {part}]
  BY DEF DeleteUnlink, RetentionUnlink, FirstOf, Unlinked
<1>2. TargetsOK' BY <1>1 DEF CatalogInv, TargetsOK, IsMade
<1>3. YoungKept' BY <1>1 DEF CatalogInv, YoungKept
<1>4. deletion' \in Targets /\ retention' \in Targets BY <1>1 DEF CatalogInv, TypeOK, Targets
<1>5. disk' \in [Backups -> SUBSET Parts] BY <1>1 DEF CatalogInv, TypeOK
<1>6. \A c \in Backups : disk'[c] \subseteq disk[c] /\ (c # b => disk'[c] = disk[c])
  BY <1>1 DEF CatalogInv, TypeOK
<1>7. interruptions' \in 0..MaxInterruptions BY <1>1 DEF CatalogInv, TypeOK
<1> QED BY <1>1, <1>2, <1>3, <1>4, <1>5, <1>6, <1>7, TargetsStep

LEMMA InterruptedStep ==
    ASSUME CatalogInv, Interrupted,
           deletion' \subseteq deletion, retention' \subseteq retention,
           UNCHANGED <<backups, disk, known, job, restore, choice>>
    PROVE  CatalogInv'
<1>1. TargetsOK' BY DEF CatalogInv, TargetsOK, IsMade
<1>2. YoungKept' BY DEF CatalogInv, YoungKept
<1>3. deletion' \in Targets /\ retention' \in Targets BY DEF CatalogInv, TypeOK, Targets
<1>4. interruptions' \in 0..MaxInterruptions BY CatalogAssumption DEF Interrupted, CatalogInv, TypeOK
<1>5. disk' \in [Backups -> SUBSET Parts] BY DEF CatalogInv, TypeOK
<1> QED BY <1>1, <1>2, <1>3, <1>4, <1>5, TargetsStep

LEMMA DeletePreviewStep ==
    ASSUME CatalogInv, NEW b \in Backups, DeletePreview(b)
    PROVE  CatalogInv'
<1> DEFINE entries == {b} \cup IF backups[b].type \in BaselineTypes THEN DependentsIn(Listed, b) ELSE {}
<1>1. /\ b \in Listed
      /\ backups[b].type \in BaselineTypes => ~NewestOf(b, OfType(Listed, backups[b].type))
      /\ deletion' = entries \X Parts
      /\ UNCHANGED <<backups, disk, known, job, restore, choice, retention, interruptions>>
  BY DEF DeletePreview
<1>2. \A c \in Listed : c \in Backups /\ IsMade(c) BY DEF Listed, CatalogInv, TypeOK, IsMade
<1>3. \A c \in entries : c \in Backups /\ IsMade(c) /\ (c # b => backups[c].type = "incremental")
  BY <1>1, <1>2 DEF DependentsIn, OfType
<1>4. backups[b].type \in BaselineTypes => \E c \in Backups : c > b /\ backups[c].type = backups[b].type
  BY <1>1, <1>2 DEF NewestOf, OfType, Backups
<1>5. \A target \in deletion' : target[1] \in entries BY <1>1
<1>6. TargetsOK'
  <2>1. \A target \in deletion' : IsMade(target[1]) BY <1>3, <1>5
  <2>2. \A target \in deletion' : backups[target[1]].type \in BaselineTypes
            => \E c \in Backups : c > target[1] /\ backups[c].type = backups[target[1]].type
    BY <1>3, <1>4, <1>5 DEF BaselineTypes
  <2> QED BY <1>1, <2>1, <2>2 DEF CatalogInv, TargetsOK, IsMade
<1>7. YoungKept' BY <1>1 DEF CatalogInv, YoungKept
<1>8. deletion' \in Targets BY <1>1, <1>3 DEF Targets
<1>9. retention' \in Targets /\ interruptions' \in 0..MaxInterruptions /\ disk' \in [Backups -> SUBSET Parts]
  BY <1>1 DEF CatalogInv, TypeOK
<1> QED BY <1>1, <1>6, <1>7, <1>8, <1>9, TargetsStep

LEMMA RetentionReadStep ==
    ASSUME CatalogInv, RetentionRead
    PROVE  CatalogInv'
<1>1. /\ retention' = ToDelete \X Parts
      /\ UNCHANGED <<backups, disk, known, job, restore, choice, deletion, interruptions>>
  BY DEF RetentionRead
<1>2. \A b \in Entries : b \in Backups /\ IsMade(b) BY DEF Entries, Listed, CatalogInv, TypeOK, IsMade
<1>3. \A b \in ToDelete : b \in Entries BY DEF ToDelete
<1>4. \A b \in ToDelete : Outdated(b) \/ OutdatedIncremental(b)
                          \/ (backups[b].type = "incremental" /\ backups[b].age # "young")
  <2> SUFFICES ASSUME NEW b \in Entries, NEW f \in Entries, Outdated(f), backups[b].base = f
               PROVE  backups[b].type = "incremental" /\ backups[b].age # "young"
    BY DEF ToDelete
  <2>1. backups[b].type = "incremental" BY <1>2 DEF CatalogInv, InOrder, Backups, NoBackup
  <2> QED BY <2>1 DEF Outdated, DependentsIn, OfType
<1>5. \A b \in ToDelete : backups[b].type \in BaselineTypes
          => \E c \in Backups : c > b /\ backups[c].type = backups[b].type
  <2> SUFFICES ASSUME NEW b \in ToDelete, backups[b].type \in BaselineTypes
               PROVE  \E c \in Backups : c > b /\ backups[c].type = backups[b].type
    OBVIOUS
  <2>1. ~Protected(b) BY <1>4 DEF Outdated, OutdatedIncremental, BaselineTypes
  <2> QED BY <1>2, <1>3, <2>1 DEF Protected, NewestOf, OfType, Backups
<1>6. \A b \in ToDelete : backups[b].age = "old" \/ (backups[b].type = "incremental" /\ backups[b].age = "middle")
  <2>1. \A b \in ToDelete : backups[b].age \in Ages BY <1>2, <1>3 DEF CatalogInv, TypeOK, Backup
  <2> QED BY <1>4, <2>1 DEF Outdated, OutdatedIncremental, Ages
<1>7. \A target \in retention' : target[1] \in ToDelete BY <1>1
<1>8. TargetsOK'
  <2>1. \A target \in retention' : IsMade(target[1]) BY <1>2, <1>3, <1>7
  <2>2. \A target \in retention' : backups[target[1]].type \in BaselineTypes
            => \E c \in Backups : c > target[1] /\ backups[c].type = backups[target[1]].type
    BY <1>5, <1>7
  <2> QED BY <1>1, <2>1, <2>2 DEF CatalogInv, TargetsOK, IsMade
<1>9. YoungKept' BY <1>1, <1>6, <1>7 DEF YoungKept
<1>10. retention' \in Targets BY <1>1, <1>2, <1>3 DEF Targets
<1>11. deletion' \in Targets /\ interruptions' \in 0..MaxInterruptions /\ disk' \in [Backups -> SUBSET Parts]
  BY <1>1 DEF CatalogInv, TypeOK
<1> QED BY <1>1, <1>8, <1>9, <1>10, <1>11, TargetsStep

(***************************************************************************)
(* Restores                                                                *)
(***************************************************************************)

\* The directory stays as it is, and no process is started or ended but the
\* restore.
LEMMA RestoreStep ==
    ASSUME CatalogInv,
           UNCHANGED <<backups, disk, job, deletion, retention>>,
           known' \subseteq Backups, \A b \in known' : IsMade(b),
           restore' \in Restore, choice' \in Selection, RestoreOK',
           job # NoJob => restore'.step = "none",
           interruptions' \in 0..MaxInterruptions
    PROVE  CatalogInv'
<1>t. TypeOK' BY DEF CatalogInv, TypeOK, IsMade
<1>a. InOrder' BY DEF CatalogInv, InOrder, IsMade
<1>b. JobOK' BY DEF CatalogInv, JobOK, IsMade
<1>d. SnapshotsOK' BY DEF CatalogInv, SnapshotsOK, IsMade
<1>e. TargetsOK' BY DEF CatalogInv, TargetsOK, IsMade
<1>f. NewestKept' /\ YoungKept' BY DEF CatalogInv, NewestKept, YoungKept, NewestOf, Made, OfType
<1> QED BY <1>t, <1>a, <1>b, <1>d, <1>e, <1>f DEF CatalogInv

LEMMA KnownMade ==
    ASSUME CatalogInv
    PROVE  known \subseteq Backups /\ \A b \in known : IsMade(b)
BY DEF CatalogInv, TypeOK, IsMade

LEMMA IdleRestore == NoRestore \in Restore /\ NoRestore.step = "none"
BY DEF NoRestore, Restore, Nothing, Selection, NoBackup

LEMMA RestoreChooseStep ==
    ASSUME CatalogInv, NEW full \in Backups, NEW incremental \in Backups \cup {NoBackup},
           RestoreChoose(full, incremental)
    PROVE  CatalogInv'
<1>1. choice' = Chosen(full, incremental)
      /\ UNCHANGED <<backups, disk, known, job, restore, deletion, retention, interruptions>>
  BY DEF RestoreChoose
<1>2. choice' \in Selection /\ choice'.full \in Backups BY <1>1 DEF Chosen, Selection
<1>3. RestoreOK' BY <1>1, <1>2 DEF CatalogInv, RestoreOK, IsMade
<1>4. restore' \in Restore /\ interruptions' \in 0..MaxInterruptions BY <1>1 DEF CatalogInv, TypeOK
<1>5. job # NoJob => restore'.step = "none" BY <1>1 DEF CatalogInv, JobOK
<1> QED BY <1>1, <1>2, <1>3, <1>4, <1>5, KnownMade, RestoreStep

LEMMA RestoreEnqueueStep ==
    ASSUME CatalogInv, RestoreEnqueue
    PROVE  CatalogInv'
<1>1. /\ choice # Nothing /\ choice' = Nothing
      /\ UNCHANGED <<backups, disk, known, job, deletion, retention, interruptions>>
      /\ IF OperationActive THEN restore' = restore
         ELSE restore' = [NoRestore EXCEPT !.selected = choice, !.step = "queued"]
  BY DEF RestoreEnqueue
<1>2. choice' \in Selection BY <1>1 DEF Nothing, Selection
<1>3. choice \in Selection /\ choice.full \in Backups BY <1>1 DEF CatalogInv, TypeOK, RestoreOK
<1>4. interruptions' \in 0..MaxInterruptions BY <1>1 DEF CatalogInv, TypeOK
<1>5. CASE OperationActive
  <2>1. restore' = restore BY <1>1, <1>5
  <2>2. RestoreOK' BY <1>1, <2>1 DEF CatalogInv, RestoreOK, IsMade
  <2>3. restore' \in Restore BY <2>1 DEF CatalogInv, TypeOK
  <2>4. job # NoJob => restore'.step = "none" BY <2>1 DEF CatalogInv, JobOK
  <2> QED BY <1>1, <1>2, <1>4, <2>2, <2>3, <2>4, KnownMade, RestoreStep
<1>6. CASE ~OperationActive
  <2>1. job = NoJob BY <1>6 DEF OperationActive
  <2>2. restore' \in Restore /\ restore'.step = "queued" /\ restore'.selected = choice
    BY <1>1, <1>3, <1>6 DEF NoRestore, Restore
  <2>3. RestoreOK' BY <1>1, <1>3, <2>2 DEF RestoreOK
  <2> QED BY <1>1, <1>2, <1>4, <2>1, <2>2, <2>3, KnownMade, RestoreStep
<1> QED BY <1>5, <1>6

LEMMA RestorePrepareStep ==
    ASSUME CatalogInv, NEW pre \in Backups, RestorePrepare(pre)
    PROVE  CatalogInv'
<1> DEFINE new == New("pre_restore", NoBackup)
<1>1. /\ restore.step = "queued" /\ ~IsMade(pre) /\ \A c \in Backups : c < pre => IsMade(c)
      /\ backups' = [backups EXCEPT ![pre] = new]
      /\ disk' = [disk EXCEPT ![pre] = Parts]
      /\ known' = known \cup {pre}
      /\ restore' = [restore EXCEPT !.step = "prepared", !.pre = pre]
      /\ UNCHANGED <<job, choice, deletion, retention, interruptions>>
  BY DEF RestorePrepare, NextBackup, IsMade
<1>2. PICK made \in Backup : made = new
  BY DEF New, Backup, Types, Ages, CatalogInv, TypeOK
<1>3. made.type = "pre_restore" /\ made.age = "young" /\ made.base = NoBackup /\ made.known = known
  BY <1>2 DEF New
<1>4. /\ backups' \in [Backups -> Backup]
      /\ disk' \in [Backups -> SUBSET Parts]
      /\ \A c \in Backups : IsMade(c) => backups'[c] = backups[c] /\ IsMade(c)'
      /\ IsMade(pre)'
      /\ \A c \in Backups : disk'[c] # {} => IsMade(c)'
      /\ InOrder' /\ (\A c \in Backups : \A k \in backups'[c].known : IsMade(k)')
      /\ TargetsOK' /\ NewestKept' /\ YoungKept'
  <2>1. \A c \in made.known : IsMade(c) BY <1>3, KnownMade
  <2>2. made.type # "none" BY <1>3
  <2>3. backups' = [backups EXCEPT ![pre] = made] BY <1>1, <1>2
  <2> QED BY <1>1, <1>3, <2>1, <2>2, <2>3, NewBackup
<1>5. restore' \in Restore /\ restore'.step = "prepared" /\ restore'.pre = pre /\ restore'.selected = restore.selected
  BY <1>1 DEF CatalogInv, TypeOK, Restore
<1>6. job = NoJob BY <1>1 DEF CatalogInv, JobOK
<1>7. \A b \in known' : b \in Backups /\ IsMade(b)' BY <1>1, <1>4, KnownMade
<1>t. TypeOK' BY <1>1, <1>4, <1>5, <1>7 DEF CatalogInv, TypeOK, IsMade
<1>b. JobOK' BY <1>1, <1>6 DEF JobOK
<1>c. RestoreOK' BY <1>1, <1>4, <1>5 DEF CatalogInv, RestoreOK
<1>d. SnapshotsOK'
  <2>1. \A c \in job'.new.known : IsMade(c)' BY <1>1, <1>4 DEF CatalogInv, SnapshotsOK
  <2> QED BY <1>1, <1>4, <2>1 DEF CatalogInv, SnapshotsOK
<1> QED BY <1>t, <1>b, <1>c, <1>d, <1>4 DEF CatalogInv

LEMMA RestoreLoadStep ==
    ASSUME CatalogInv, RestoreLoad
    PROVE  CatalogInv'
<1>1. /\ restore.step = "prepared"
      /\ known' = backups[Loaded].known
      /\ restore' = [restore EXCEPT !.step = "loaded"]
      /\ UNCHANGED <<backups, disk, job, choice, deletion, retention, interruptions>>
  BY DEF RestoreLoad
<1>2. Loaded \in Backups
  BY <1>1 DEF CatalogInv, TypeOK, RestoreOK, Loaded, Restore, Selection
<1>3. known' \subseteq Backups /\ \A b \in known' : IsMade(b)
  BY <1>1, <1>2 DEF CatalogInv, TypeOK, SnapshotsOK, Backup
<1>4. restore' \in Restore /\ restore'.step = "loaded" /\ restore'.pre = restore.pre /\ restore'.selected = restore.selected
  BY <1>1 DEF CatalogInv, TypeOK, Restore
<1>5. RestoreOK' BY <1>1, <1>4 DEF CatalogInv, RestoreOK, IsMade
<1>6. job = NoJob BY <1>1 DEF CatalogInv, JobOK
<1>7. choice' \in Selection /\ interruptions' \in 0..MaxInterruptions BY <1>1 DEF CatalogInv, TypeOK
<1> QED BY <1>1, <1>3, <1>4, <1>5, <1>6, <1>7, RestoreStep

LEMMA RestoreEndStep ==
    ASSUME CatalogInv, RestoreFinish \/ RestoreFails \/ RestoreKilled
    PROVE  CatalogInv'
<1>1. /\ restore' = NoRestore
      /\ known' = known \/ (restore.step = "loaded" /\ known' = known \cup {restore.pre})
      /\ UNCHANGED <<backups, disk, job, choice, deletion, retention>>
  BY DEF RestoreFinish, RestoreFails, RestoreKilled
<1>2. interruptions' \in 0..MaxInterruptions
  BY CatalogAssumption DEF RestoreFinish, RestoreFails, RestoreKilled, Interrupted, CatalogInv, TypeOK
<1>3. known' \subseteq Backups /\ \A b \in known' : IsMade(b)
  BY <1>1, KnownMade DEF CatalogInv, RestoreOK
<1>4. RestoreOK' BY <1>1, IdleRestore DEF CatalogInv, RestoreOK
<1>5. choice' \in Selection BY <1>1 DEF CatalogInv, TypeOK
<1> QED BY <1>1, <1>2, <1>3, <1>4, <1>5, IdleRestore, RestoreStep

LEMMA AgeStep ==
    ASSUME CatalogInv, NEW b \in Backups, Age(b)
    PROVE  CatalogInv'
<1>1. /\ job = NoJob /\ restore.step = "none" /\ deletion = {} /\ retention = {}
      /\ backups' = [backups EXCEPT ![b] = [backups[b] EXCEPT !.age = Older(backups[b].age)]]
      /\ UNCHANGED <<disk, known, job, restore, choice, deletion, retention, interruptions>>
  BY DEF Age, OperationActive
<1>2. backups' \in [Backups -> Backup]
  BY <1>1 DEF CatalogInv, TypeOK, Backup, Older, Ages
<1>3. \A c \in Backups : /\ backups'[c].type = backups[c].type /\ backups'[c].base = backups[c].base
                         /\ backups'[c].known = backups[c].known
  BY <1>1 DEF CatalogInv, TypeOK, Backup
<1>t. TypeOK' BY <1>1, <1>2, <1>3 DEF CatalogInv, TypeOK
<1>a. InOrder' BY <1>3 DEF CatalogInv, InOrder, IsMade
<1>b. JobOK' BY <1>1 DEF JobOK
<1>c. RestoreOK' BY <1>1, <1>3 DEF CatalogInv, RestoreOK, IsMade
<1>d. SnapshotsOK' BY <1>1, <1>2, <1>3 DEF CatalogInv, SnapshotsOK, IsMade, Backup
<1>e. TargetsOK' BY <1>1 DEF TargetsOK
<1>f. NewestKept' BY <1>1, <1>3 DEF CatalogInv, NewestKept, NewestOf, Made, OfType
<1>g. YoungKept' BY <1>1 DEF YoungKept
<1> QED BY <1>t, <1>a, <1>b, <1>c, <1>d, <1>e, <1>f, <1>g DEF CatalogInv

(***************************************************************************)
(* Theorems                                                                *)
(***************************************************************************)

LEMMA InitCatalogInv == Init => CatalogInv
<1> SUFFICES ASSUME Init PROVE CatalogInv
  OBVIOUS
<1>1. Missing \in Backup /\ Missing.type = "none" /\ Missing.base = NoBackup /\ Missing.known = {}
  BY DEF Missing, Backup, Types, Ages
<1>2. Nothing \in Selection BY DEF Nothing, Selection
<1>3. job.id = NoBackup /\ job.new = Missing BY DEF Init, NoJob
<1>t. TypeOK BY <1>1, <1>2, <1>3, IdleRestore, CatalogAssumption DEF Init, TypeOK, Targets
<1>a. InOrder BY <1>1 DEF Init, InOrder, IsMade
<1>b. JobOK /\ RestoreOK BY IdleRestore DEF Init, JobOK, RestoreOK
<1>d. SnapshotsOK BY <1>1, <1>3 DEF Init, SnapshotsOK
<1>e. TargetsOK /\ YoungKept BY DEF Init, TargetsOK, YoungKept
<1>f. NewestKept BY <1>1 DEF Init, NewestKept, NewestOf, Made, OfType, BaselineTypes
<1> QED BY <1>t, <1>a, <1>b, <1>d, <1>e, <1>f DEF CatalogInv

LEMMA NextCatalogInv == CatalogInv /\ [Next]_vars => CatalogInv'
<1> SUFFICES ASSUME CatalogInv, [Next]_vars PROVE CatalogInv'
  OBVIOUS
<1>1. ASSUME NEW b \in Backups, BackupStart(b) \/ DeletePreview(b) \/ RestorePrepare(b) \/ Age(b)
      PROVE  CatalogInv'
  BY <1>1, BackupStartStep, DeletePreviewStep, RestorePrepareStep, AgeStep
<1>2. CASE BackupPublish \/ BackupOrphaned
  <2>1. interruptions' \in 0..MaxInterruptions
    BY <1>2, CatalogAssumption DEF BackupPublish, BackupOrphaned, Interrupted, CatalogInv, TypeOK
  <2> QED BY <1>2, <2>1, PublishedStep DEF BackupPublish, BackupOrphaned
<1>3. CASE BackupFails BY <1>3, BackupFailsStep
<1>4. ASSUME NEW b \in Backups, NEW part \in Parts, DeleteUnlink(b, part) \/ RetentionUnlink(b, part)
      PROVE  CatalogInv'
  BY <1>4, UnlinkStep
<1>5. ASSUME NEW b \in Backups, NEW part \in Parts, RetentionSkips(b, part)
      PROVE  CatalogInv'
  BY <1>5, InterruptedStep DEF RetentionSkips
<1>6. CASE DeleteInterrupted \/ RetentionKilled
  BY <1>6, InterruptedStep DEF DeleteInterrupted, RetentionKilled
<1>7. CASE RetentionRead BY <1>7, RetentionReadStep
<1>8. ASSUME NEW full \in Backups, NEW incremental \in Backups \cup {NoBackup}, RestoreChoose(full, incremental)
      PROVE  CatalogInv'
  BY <1>8, RestoreChooseStep
<1>9. CASE RestoreEnqueue BY <1>9, RestoreEnqueueStep
<1>10. CASE RestoreLoad BY <1>10, RestoreLoadStep
<1>11. CASE RestoreFinish \/ RestoreFails \/ RestoreKilled BY <1>11, RestoreEndStep
<1>12. CASE UNCHANGED vars
  BY <1>12 DEF vars, CatalogInv, TypeOK, InOrder, JobOK, RestoreOK, SnapshotsOK, TargetsOK, NewestKept, YoungKept,
     IsMade, NewestOf, Made, OfType
<1> QED
  BY <1>1, <1>2, <1>3, <1>4, <1>5, <1>6, <1>7, <1>8, <1>9, <1>10, <1>11, <1>12 DEF Next

(***************************************************************************)
(* Incremental backups and their baselines                                 *)
(***************************************************************************)

Baselines == {b \in Backups : backups[b].type \in BaselineTypes}
HasBaseline(backup) == backup.base \in Backups /\ backups[backup.base].type \in BaselineTypes

\* An incremental backup was made of a baseline.
BasesOK ==
    /\ \A i \in Backups : backups[i].type = "incremental" => HasBaseline(backups[i])
    /\ job.new.type = "incremental" => HasBaseline(job.new)

\* The newest baseline is one the database knows, except while a restore has
\* put back an older one: then it is the pre-restore backup of that restore.
NewestKnown ==
    /\ restore.step # "loaded" /\ Baselines # {} => \E b \in known : NewestOf(b, Baselines)
    /\ restore.step \in {"prepared", "loaded"} => NewestOf(restore.pre, Baselines)
    /\ job.new.type = "incremental" => NewestOf(job.new.base, Baselines)

\* What needs a baseline goes with it.
DependentsGo ==
    \A target \in deletion \cup retention, i \in OfType(Listed, "incremental") :
        backups[i].base = target[1] => <<i, "manifest">> \in deletion \cup retention

BaselineInv ==
    CatalogInv /\ BasesOK /\ (interruptions = 0 => NewestKnown /\ DependentsGo /\ IncrementalsHaveBaseline)

\* The newest baseline is whole, and nothing unlinks it.
LEMMA NewestBaseline ==
    ASSUME CatalogInv, NEW b, NewestOf(b, Baselines)
    PROVE  b \in Backups /\ disk[b] = Parts /\ \A target \in deletion \cup retention : target[1] # b
<1>1. b \in Backups /\ backups[b].type \in BaselineTypes
  BY DEF NewestOf, Baselines
<1>2. NewestOf(b, Made(backups[b].type))
  BY <1>1 DEF NewestOf, Baselines, Made, OfType
<1>3. disk[b] = Parts
  BY <1>1, <1>2 DEF CatalogInv, NewestKept
<1>4. ASSUME NEW target \in deletion \cup retention, target[1] = b PROVE FALSE
  <2>1. PICK c \in Backups : c > b /\ backups[c].type = backups[b].type
    BY <1>1, <1>4 DEF CatalogInv, TargetsOK
  <2>2. c <= b
    BY <1>1, <2>1 DEF NewestOf, Baselines
  <2> QED BY <1>1, <2>1, <2>2 DEF Backups
<1> QED BY <1>1, <1>3, <1>4

LEMMA NoJobBase == NoJob.new.type = "none"
BY DEF NoJob, Missing

\* What a step keeps that makes no backup.
LEMMA SameBases ==
    ASSUME BasesOK, backups' = backups, job' \in {job, NoJob}
    PROVE  BasesOK'
BY NoJobBase DEF BasesOK, HasBaseline

\* One backup more.
LEMMA NewBase ==
    ASSUME CatalogInv, BasesOK, NEW b \in Backups, NEW new \in Backup,
           ~IsMade(b), \A c \in Backups : c < b => IsMade(c),
           backups' = [backups EXCEPT ![b] = new], disk' = [disk EXCEPT ![b] = Parts],
           new.type = "incremental" => HasBaseline(new),
           UNCHANGED <<deletion, retention>>
    PROVE  /\ \A i \in Backups : backups'[i].type = "incremental" =>
                  backups'[i].base \in Backups /\ backups'[backups'[i].base].type \in BaselineTypes
           /\ new.type \in BaselineTypes => NewestOf(b, Baselines')
           /\ new.type \notin BaselineTypes => Baselines' = Baselines
           /\ DependentsGo /\ (new.type = "incremental" => NewestOf(new.base, Baselines)) => DependentsGo'
           /\ /\ interruptions = 0 /\ interruptions' = 0 /\ IncrementalsHaveBaseline
              /\ new.type = "incremental" => NewestOf(new.base, Baselines)
              => IncrementalsHaveBaseline'
<1>1. /\ \A c \in Backups : c # b => backups'[c] = backups[c] /\ disk'[c] = disk[c]
      /\ backups'[b] = new /\ disk'[b] = Parts
  BY DEF CatalogInv, TypeOK
<1>2. backups[b].type = "none" /\ ~(backups[b].type \in BaselineTypes)
  BY DEF IsMade, BaselineTypes
<1>3. \A c \in Backups : c > b => backups[c].type = "none"
  BY DEF CatalogInv, InOrder, IsMade
<1>4. \A i \in Backups : backups'[i].type = "incremental" =>
                  backups'[i].base \in Backups /\ backups'[backups'[i].base].type \in BaselineTypes
  <2> SUFFICES ASSUME NEW i \in Backups, backups'[i].type = "incremental"
               PROVE  backups'[i].base \in Backups /\ backups'[backups'[i].base].type \in BaselineTypes
    BY DEF HasBaseline
  <2>1. backups'[i].base \in Backups /\ backups[backups'[i].base].type \in BaselineTypes
    <3>1. CASE i = b
      BY <1>1, <3>1 DEF HasBaseline
    <3>2. CASE i # b
      BY <1>1, <3>2 DEF BasesOK, HasBaseline
    <3> QED BY <3>1, <3>2
  <2> QED BY <1>1, <1>2, <2>1
<1>5. ASSUME new.type \in BaselineTypes PROVE NewestOf(b, Baselines')
  <2>1. b \in Baselines'
    BY <1>1, <1>5 DEF Baselines
  <2>2. ASSUME NEW c \in Baselines' PROVE c <= b
    <3>1. c \in Backups /\ (c # b => backups[c].type \in BaselineTypes)
      BY <1>1, <2>2 DEF Baselines
    <3>2. ~(c > b)
      BY <1>3, <3>1 DEF BaselineTypes, Backups
    <3> QED BY <3>1, <3>2 DEF Backups
  <2> QED BY <2>1, <2>2 DEF NewestOf
<1>6. ASSUME new.type \notin BaselineTypes PROVE Baselines' = Baselines
  BY <1>1, <1>2, <1>6 DEF Baselines
<1>7. /\ \A i : i \in OfType(Listed, "incremental")' =>
            \/ i \in OfType(Listed, "incremental") /\ i # b /\ backups'[i] = backups[i]
            \/ i = b /\ new.type = "incremental" /\ backups'[i] = new
  BY <1>1 DEF OfType, Listed
<1>8. ASSUME DependentsGo, new.type = "incremental" => NewestOf(new.base, Baselines) PROVE DependentsGo'
  <2> SUFFICES ASSUME NEW target \in deletion \cup retention, NEW i \in OfType(Listed, "incremental")',
                      backups'[i].base = target[1]
               PROVE  <<i, "manifest">> \in deletion \cup retention
    BY DEF DependentsGo
  <2>1. CASE i \in OfType(Listed, "incremental") /\ backups'[i] = backups[i]
    BY <1>8, <2>1 DEF DependentsGo
  <2>2. CASE new.type = "incremental" /\ backups'[i] = new
    BY <1>8, <2>2, NewestBaseline
  <2> QED BY <1>7, <2>1, <2>2
<1>9. ASSUME interruptions = 0, IncrementalsHaveBaseline, new.type = "incremental" => NewestOf(new.base, Baselines)
      PROVE  IncrementalsHaveBaseline'
  <2> SUFFICES ASSUME NEW i \in OfType(Listed, "incremental")'
               PROVE  disk'[backups'[i].base] = Parts \/ <<i, "manifest">> \in deletion \cup retention
    BY DEF IncrementalsHaveBaseline
  <2>1. CASE i \in OfType(Listed, "incremental") /\ backups'[i] = backups[i] /\ i # b
    <3>1. backups[i].base \in Backups
      BY <2>1 DEF BasesOK, HasBaseline, OfType, Listed
    <3> QED BY <1>1, <1>9, <2>1, <3>1 DEF IncrementalsHaveBaseline
  <2>2. CASE new.type = "incremental" /\ backups'[i] = new
    BY <1>1, <1>9, <2>2, NewestBaseline
  <2> QED BY <1>7, <2>1, <2>2
<1> QED BY <1>4, <1>5, <1>6, <1>8, <1>9

LEMMA BaselineStep ==
    ASSUME BaselineInv, CatalogInv', BasesOK', 
           interruptions' = 0 => interruptions = 0,
           interruptions' = 0 => NewestKnown' /\ DependentsGo' /\ IncrementalsHaveBaseline'
    PROVE  BaselineInv'
BY DEF BaselineInv

\* Steps that change no file, nor what is to be unlinked.
LEMMA SameDirectory ==
    ASSUME BaselineInv, CatalogInv', BasesOK', UNCHANGED <<backups, disk, deletion, retention>>,
           interruptions' = 0 => interruptions = 0 /\ NewestKnown'
    PROVE  BaselineInv'
<1>1. ASSUME interruptions' = 0 PROVE DependentsGo' /\ IncrementalsHaveBaseline'
  <2>1. interruptions = 0 /\ DependentsGo /\ IncrementalsHaveBaseline
    BY <1>1 DEF BaselineInv
  <2>2. DependentsGo'
    BY <2>1 DEF DependentsGo, OfType, Listed
  <2>3. IncrementalsHaveBaseline'
    BY <2>1 DEF IncrementalsHaveBaseline, OfType, Listed
  <2> QED BY <2>2, <2>3
<1> QED BY <1>1, BaselineStep

LEMMA BackupStartBase ==
    ASSUME BaselineInv, CatalogInv', NEW b \in Backups, BackupStart(b)
    PROVE  BaselineInv'
<1>1. /\ restore.step = "none"
      /\ UNCHANGED <<backups, disk, known, restore, choice, deletion, retention, interruptions>>
      /\ \/ job' = [id |-> b, new |-> New("full", NoBackup)]
         \/ \E c \in Backups : LatestBaseline(c) /\ job' = [id |-> b, new |-> New("incremental", c)]
  BY DEF BackupStart, OperationActive
<1>2. CASE job' = [id |-> b, new |-> New("full", NoBackup)]
  <2>1. job'.new.type = "full"
    BY <1>2 DEF New
  <2>2. BasesOK'
    BY <1>1, <2>1 DEF BaselineInv, BasesOK, HasBaseline
  <2>3. interruptions' = 0 => NewestKnown'
    BY <1>1, <2>1 DEF BaselineInv, NewestKnown, Baselines, NewestOf
  <2> QED BY <1>1, <2>2, <2>3, SameDirectory
<1>3. ASSUME NEW c \in Backups, LatestBaseline(c), job' = [id |-> b, new |-> New("incremental", c)]
      PROVE  BaselineInv'
  <2>1. job'.new.type = "incremental" /\ job'.new.base = c
    BY <1>3 DEF New
  <2>2. c \in known /\ c \in Baselines /\ \A d \in known \cap Listed : d \in Baselines => d <= c
    BY <1>3 DEF LatestBaseline, NewestOf, Baselines
  <2>3. BasesOK'
    BY <1>1, <2>1, <2>2 DEF BaselineInv, BasesOK, HasBaseline, Baselines
  <2>4. ASSUME interruptions = 0 PROVE NewestOf(c, Baselines)
    <3>1. PICK e \in known : NewestOf(e, Baselines)
      BY <1>1, <2>2, <2>4 DEF BaselineInv, NewestKnown
    <3>2. e \in Backups /\ e \in Baselines /\ e \in Listed
      BY <3>1, NewestBaseline DEF BaselineInv, NewestOf, Listed, Parts
    <3>3. e <= c /\ c <= e
      BY <2>2, <3>1, <3>2 DEF NewestOf
    <3>4. e = c
      BY <3>2, <3>3 DEF Backups
    <3> QED BY <3>1, <3>4
  <2>5. interruptions' = 0 => NewestKnown'
    BY <1>1, <2>1, <2>4 DEF BaselineInv, NewestKnown, Baselines, NewestOf
  <2> QED BY <1>1, <2>3, <2>5, SameDirectory
<1> QED BY <1>1, <1>2, <1>3

LEMMA BackupFailsBase == ASSUME BaselineInv, CatalogInv', BackupFails PROVE BaselineInv'
<1>1. job' = NoJob /\ UNCHANGED <<backups, disk, known, restore, choice, deletion, retention, interruptions>>
  BY DEF BackupFails
<1>2. BasesOK'
  BY <1>1, SameBases DEF BaselineInv
<1>3. interruptions' = 0 => NewestKnown'
  BY <1>1, NoJobBase DEF BaselineInv, NewestKnown, Baselines, NewestOf
<1> QED BY <1>1, <1>2, <1>3, SameDirectory

\* A step that makes a backup keeps the bases.
LEMMA PublishBase == ASSUME BaselineInv, CatalogInv', BackupPublish \/ BackupOrphaned PROVE BaselineInv'
<1>1. /\ job # NoJob
      /\ backups' = [backups EXCEPT ![job.id] = job.new] /\ disk' = [disk EXCEPT ![job.id] = Parts]
      /\ job' = NoJob /\ UNCHANGED <<restore, choice, deletion, retention>>
      /\ \/ known' = known \cup {job.id} /\ interruptions' = interruptions
         \/ known' = known /\ interruptions' = interruptions + 1
  BY DEF BackupPublish, BackupOrphaned, Published, Interrupted
<1>2. /\ CatalogInv /\ BasesOK /\ job.id \in Backups /\ job.new \in Backup
      /\ ~IsMade(job.id) /\ \A c \in Backups : c < job.id => IsMade(c)
      /\ job.new.type \in {"full", "incremental"} /\ restore.step = "none"
      /\ (job.new.type = "incremental" => HasBaseline(job.new))
  BY <1>1 DEF BaselineInv, CatalogInv, TypeOK, JobOK, BasesOK
<1>3. /\ \A i \in Backups : backups'[i].type = "incremental" =>
                  backups'[i].base \in Backups /\ backups'[backups'[i].base].type \in BaselineTypes
      /\ job.new.type \in BaselineTypes => NewestOf(job.id, Baselines')
      /\ job.new.type \notin BaselineTypes => Baselines' = Baselines
      /\ DependentsGo /\ (job.new.type = "incremental" => NewestOf(job.new.base, Baselines)) => DependentsGo'
      /\ /\ interruptions = 0 /\ interruptions' = 0 /\ IncrementalsHaveBaseline
         /\ job.new.type = "incremental" => NewestOf(job.new.base, Baselines)
         => IncrementalsHaveBaseline'
  BY <1>1, <1>2, NewBase
<1>4. BasesOK'
  BY <1>1, <1>3, NoJobBase DEF BasesOK, HasBaseline
<1>5. interruptions \in Nat
  BY <1>2, CatalogAssumption DEF CatalogInv, TypeOK
<1>6. ASSUME interruptions' = 0 PROVE interruptions = 0 /\ known' = known \cup {job.id}
  BY <1>1, <1>5, <1>6
<1>7. ASSUME interruptions' = 0 PROVE NewestKnown' /\ DependentsGo' /\ IncrementalsHaveBaseline'
  <2>1. NewestKnown /\ DependentsGo /\ IncrementalsHaveBaseline
    BY <1>6, <1>7 DEF BaselineInv
  <2>2. job.new.type = "incremental" => NewestOf(job.new.base, Baselines)
    BY <2>1 DEF NewestKnown
  <2>3. DependentsGo' /\ IncrementalsHaveBaseline'
    BY <1>3, <1>6, <1>7, <2>1, <2>2
  <2>4. Baselines' # {} => \E b \in known' : NewestOf(b, Baselines')
    <3>1. CASE job.new.type \in BaselineTypes
      BY <1>3, <1>6, <1>7, <3>1
    <3>2. CASE job.new.type \notin BaselineTypes
      BY <1>2, <1>3, <1>6, <1>7, <2>1, <3>2 DEF NewestKnown
    <3> QED BY <3>1, <3>2
  <2>5. restore'.step = "none" /\ job'.new.type = "none"
    BY <1>1, <1>2, NoJobBase
  <2>6. NewestKnown'
    BY <2>4, <2>5 DEF NewestKnown, NewestOf
  <2> QED BY <2>3, <2>6
<1> QED BY <1>4, <1>6, <1>7, BaselineStep

LEMMA RestorePrepareBase ==
    ASSUME BaselineInv, CatalogInv', NEW pre \in Backups, RestorePrepare(pre)
    PROVE  BaselineInv'
<1> DEFINE new == New("pre_restore", NoBackup)
<1>1. /\ restore.step = "queued" /\ ~IsMade(pre) /\ \A c \in Backups : c < pre => IsMade(c)
      /\ backups' = [backups EXCEPT ![pre] = new] /\ disk' = [disk EXCEPT ![pre] = Parts]
      /\ known' = known \cup {pre} /\ restore' = [restore EXCEPT !.step = "prepared", !.pre = pre]
      /\ UNCHANGED <<job, choice, deletion, retention, interruptions>>
  BY DEF RestorePrepare, NextBackup, IsMade
<1>2. /\ CatalogInv /\ BasesOK /\ new \in Backup /\ new.type = "pre_restore" /\ restore \in Restore
  BY DEF BaselineInv, CatalogInv, TypeOK, New, Backup, Types, Ages
<1>3. job' = NoJob
  BY <1>1, <1>2 DEF CatalogInv, JobOK
<1>4. new.type \in BaselineTypes /\ new.type # "incremental"
  BY <1>2 DEF BaselineTypes
<1> HIDE DEF new
<1>5. /\ \A i \in Backups : backups'[i].type = "incremental" =>
                  backups'[i].base \in Backups /\ backups'[backups'[i].base].type \in BaselineTypes
      /\ NewestOf(pre, Baselines')
      /\ DependentsGo => DependentsGo'
      /\ interruptions = 0 /\ interruptions' = 0 /\ IncrementalsHaveBaseline => IncrementalsHaveBaseline'
  <2>1. UNCHANGED <<deletion, retention>>
    BY <1>1
  <2> QED BY <1>1, <1>2, <1>4, <2>1, NewBase
<1>6. BasesOK'
  BY <1>3, <1>5, NoJobBase DEF BasesOK, HasBaseline
<1>7. restore'.step = "prepared" /\ restore'.pre = pre
  BY <1>1, <1>2 DEF Restore
<1>8. pre \in known'
  BY <1>1
<1>9. NewestKnown'
  BY <1>3, <1>5, <1>7, <1>8, NoJobBase DEF NewestKnown, NewestOf
<1>10. interruptions' = interruptions
  BY <1>1
<1> QED BY <1>5, <1>6, <1>9, <1>10, BaselineStep DEF BaselineInv

LEMMA RestoreChooseBase ==
    ASSUME BaselineInv, CatalogInv', RestoreEnqueue \/ (\E f \in Backups, i \in Backups \cup {NoBackup} : RestoreChoose(f, i))
    PROVE  BaselineInv'
<1>1. /\ UNCHANGED <<backups, disk, known, job, deletion, retention, interruptions>>
      /\ restore' = restore \/ (restore.step = "none" /\ restore' = [NoRestore EXCEPT !.selected = choice, !.step = "queued"])
  BY DEF RestoreEnqueue, RestoreChoose, OperationActive
<1>2. restore'.step \in {"prepared", "loaded"} => restore' = restore
  BY <1>1 DEF NoRestore
<1>3. BasesOK'
  BY <1>1, SameBases DEF BaselineInv
<1>4. restore'.step # "loaded" => restore.step # "loaded"
  BY <1>1
<1>5. NewestKnown => NewestKnown'
  BY <1>1, <1>2, <1>4 DEF NewestKnown, Baselines, NewestOf
<1> QED BY <1>1, <1>3, <1>5, SameDirectory DEF BaselineInv

\* The pre-restore backup, newer than all that is loaded, is made known again.
LEMMA RestoreEndBase ==
    ASSUME BaselineInv, CatalogInv', RestoreLoad \/ RestoreFinish \/ RestoreFails \/ RestoreKilled
    PROVE  BaselineInv'
<1>1. UNCHANGED <<backups, disk, job, choice, deletion, retention>>
  BY DEF RestoreLoad, RestoreFinish, RestoreFails, RestoreKilled
<1>2. interruptions \in Nat /\ restore \in Restore
  BY CatalogAssumption DEF BaselineInv, CatalogInv, TypeOK
<1>3. BasesOK'
  BY <1>1, SameBases DEF BaselineInv
<1>4. interruptions' = 0 => interruptions = 0
  BY <1>2 DEF RestoreLoad, RestoreFinish, RestoreFails, RestoreKilled, Interrupted
<1>5. ASSUME interruptions' = 0 PROVE NewestKnown'
  <2>1. interruptions = 0 /\ NewestKnown
    BY <1>4, <1>5 DEF BaselineInv
  <2>2. Baselines' = Baselines
    BY <1>1 DEF Baselines
  <2>3. job'.new.type = "incremental" => NewestOf(job'.new.base, Baselines')
    BY <1>1, <2>1, <2>2 DEF NewestKnown
  <2>4. CASE RestoreLoad
    <3>1. restore.step = "prepared" /\ restore' = [restore EXCEPT !.step = "loaded"]
      BY <2>4 DEF RestoreLoad
    <3>2. restore'.step = "loaded" /\ restore'.pre = restore.pre
      BY <1>2, <3>1 DEF Restore
    <3> QED BY <2>1, <2>2, <2>3, <3>1, <3>2 DEF NewestKnown, NewestOf
  <2>5. CASE RestoreFinish
    <3>1. restore.step = "loaded" /\ restore' = NoRestore /\ known' = known \cup {restore.pre}
      BY <2>5 DEF RestoreFinish
    <3>2. NewestOf(restore.pre, Baselines')
      BY <2>1, <2>2, <3>1 DEF NewestKnown
    <3> QED BY <2>3, <3>1, <3>2, IdleRestore DEF NewestKnown, NewestOf
  <2>6. CASE RestoreFails
    <3>1. restore.step \in {"queued", "prepared"} /\ restore' = NoRestore /\ known' = known
      BY <2>6 DEF RestoreFails
    <3> QED BY <2>1, <2>2, <2>3, <3>1, IdleRestore DEF NewestKnown, NewestOf
  <2>7. ~RestoreKilled
    BY <1>2, <1>5 DEF RestoreKilled, Interrupted
  <2> QED BY <2>4, <2>5, <2>6, <2>7
<1> QED BY <1>1, <1>3, <1>4, <1>5, SameDirectory

\* What is to be unlinked grows: with every baseline, its dependents.
LEMMA MoreTargetsBase ==
    ASSUME BaselineInv, CatalogInv', BasesOK', UNCHANGED <<backups, disk, known, job, restore, interruptions>>,
           deletion \cup retention \subseteq deletion' \cup retention',
           DependentsGo'
    PROVE  BaselineInv'
<1>1. NewestKnown => NewestKnown'
  BY DEF NewestKnown, Baselines, NewestOf
<1>2. IncrementalsHaveBaseline => IncrementalsHaveBaseline'
  BY DEF IncrementalsHaveBaseline, OfType, Listed
<1> QED BY <1>1, <1>2, BaselineStep DEF BaselineInv

LEMMA DeletePreviewBase ==
    ASSUME BaselineInv, CatalogInv', NEW b \in Backups, DeletePreview(b)
    PROVE  BaselineInv'
<1> DEFINE entries == {b} \cup IF backups[b].type \in BaselineTypes THEN DependentsIn(Listed, b) ELSE {}
<1>1. /\ deletion = {} /\ deletion' = entries \X Parts
      /\ UNCHANGED <<backups, disk, known, job, restore, choice, retention, interruptions>>
  BY DEF DeletePreview
<1>2. BasesOK'
  BY <1>1, SameBases DEF BaselineInv
<1>3. ASSUME NEW i \in OfType(Listed, "incremental"), backups[i].base \in entries PROVE i \in entries
  <2>1. i \in Backups /\ HasBaseline(backups[i])
    BY <1>3 DEF BaselineInv, BasesOK, OfType, Listed
  <2>2. backups[i].base = b
    BY <1>3, <2>1 DEF HasBaseline, DependentsIn, OfType, BaselineTypes
  <2> QED BY <1>3, <2>1, <2>2 DEF HasBaseline, DependentsIn
<1> HIDE DEF entries
<1>4. interruptions = 0 => DependentsGo'
  <2> SUFFICES ASSUME interruptions = 0,
                      NEW target \in deletion' \cup retention', NEW i \in OfType(Listed, "incremental"),
                      backups[i].base = target[1]
               PROVE  <<i, "manifest">> \in deletion' \cup retention'
    BY <1>1 DEF DependentsGo, OfType, Listed
  <2>1. CASE target \in retention
    BY <1>1, <2>1 DEF BaselineInv, DependentsGo
  <2>2. CASE target \in entries \X Parts
    <3>1. i \in entries
      BY <1>3, <2>2
    <3>2. <<i, "manifest">> \in entries \X Parts
      BY <3>1 DEF Parts
    <3> QED BY <1>1, <3>2
  <2> QED BY <1>1, <2>1, <2>2
<1>5. CASE interruptions = 0
  BY <1>1, <1>2, <1>4, <1>5, MoreTargetsBase
<1>6. CASE interruptions # 0
  BY <1>1, <1>2, <1>6, BaselineStep
<1> QED BY <1>5, <1>6

LEMMA RetentionReadBase == ASSUME BaselineInv, CatalogInv', RetentionRead PROVE BaselineInv'
<1>1. /\ retention = {} /\ retention' = ToDelete \X Parts
      /\ UNCHANGED <<backups, disk, known, job, restore, choice, deletion, interruptions>>
  BY DEF RetentionRead
<1>2. BasesOK'
  BY <1>1, SameBases DEF BaselineInv
<1>3. ASSUME NEW i \in OfType(Listed, "incremental"), backups[i].base \in ToDelete PROVE i \in ToDelete
  <2>1. i \in Entries /\ HasBaseline(backups[i])
    BY <1>3 DEF BaselineInv, BasesOK, OfType, Listed, Entries
  <2>2. backups[backups[i].base].base = NoBackup
    BY <2>1 DEF BaselineInv, CatalogInv, InOrder, HasBaseline, BaselineTypes
  <2>3. \A f \in {b \in Entries : Outdated(b)} : f # NoBackup
    BY DEF Entries, Listed, BaselineInv, CatalogInv, TypeOK, Backups, NoBackup
  <2>4. backups[i].base \in {b \in Entries : Outdated(b)}
    <3>1. ~OutdatedIncremental(backups[i].base)
      BY <2>1 DEF OutdatedIncremental, HasBaseline, BaselineTypes
    <3> QED BY <1>3, <2>2, <2>3, <3>1 DEF ToDelete
  <2> QED BY <2>1, <2>4 DEF ToDelete
<1>4. interruptions = 0 => DependentsGo'
  <2> SUFFICES ASSUME interruptions = 0,
                      NEW target \in deletion' \cup retention', NEW i \in OfType(Listed, "incremental"),
                      backups[i].base = target[1]
               PROVE  <<i, "manifest">> \in deletion' \cup retention'
    BY <1>1 DEF DependentsGo, OfType, Listed
  <2>1. CASE target \in deletion
    BY <1>1, <2>1 DEF BaselineInv, DependentsGo
  <2>2. CASE target \in ToDelete \X Parts
    <3>1. i \in ToDelete
      BY <1>3, <2>2
    <3>2. <<i, "manifest">> \in ToDelete \X Parts
      BY <3>1 DEF Parts
    <3> QED BY <1>1, <3>2
  <2> QED BY <1>1, <2>1, <2>2
<1>5. CASE interruptions = 0
  BY <1>1, <1>2, <1>4, <1>5, MoreTargetsBase
<1>6. CASE interruptions # 0
  BY <1>1, <1>2, <1>6, BaselineStep
<1> QED BY <1>5, <1>6

\* A baseline loses a file only after the dependents that go with it are named.
LEMMA UnlinkBase ==
    ASSUME BaselineInv, CatalogInv', NEW b \in Backups, NEW part \in Parts,
           DeleteUnlink(b, part) \/ RetentionUnlink(b, part)
    PROVE  BaselineInv'
<1>1. /\ <<b, part>> \in deletion \cup retention
      /\ disk' = [disk EXCEPT ![b] = @ \ {part}]
      /\ UNCHANGED <<backups, known, job, restore, choice, interruptions>>
      /\ \/ deletion' = deletion \ {<<b, part>>} /\ retention' = retention
         \/ deletion' = deletion /\ retention' = retention \ {<<b, part>>}
  BY DEF DeleteUnlink, RetentionUnlink, FirstOf, Unlinked
<1>2. BasesOK'
  BY <1>1, SameBases DEF BaselineInv
<1>3. NewestKnown => NewestKnown'
  BY <1>1 DEF NewestKnown, Baselines, NewestOf
<1>4. \A c \in Backups : disk'[c] = IF c = b THEN disk[b] \ {part} ELSE disk[c]
  BY <1>1 DEF BaselineInv, CatalogInv, TypeOK
<1>5. ASSUME NEW i \in OfType(Listed, "incremental")', <<i, "manifest">> \in deletion \cup retention
      PROVE  <<i, "manifest">> \in deletion' \cup retention'
  <2>1. i \in Backups /\ "manifest" \in disk'[i]
    BY <1>5 DEF OfType, Listed
  <2>2. ~(i = b /\ part = "manifest")
    BY <1>4, <2>1
  <2> QED BY <1>1, <1>5, <2>2
<1>6. ASSUME NEW i \in OfType(Listed, "incremental")'
      PROVE  i \in OfType(Listed, "incremental") /\ backups'[i] = backups[i] /\ HasBaseline(backups[i])
  BY <1>1, <1>4, <1>6 DEF OfType, Listed, BaselineInv, BasesOK
<1>7. ASSUME DependentsGo PROVE DependentsGo'
  <2> SUFFICES ASSUME NEW target \in deletion' \cup retention', NEW i \in OfType(Listed, "incremental")',
                      backups'[i].base = target[1]
               PROVE  <<i, "manifest">> \in deletion' \cup retention'
    BY DEF DependentsGo
  <2>1. target \in deletion \cup retention
    BY <1>1
  <2> QED BY <1>5, <1>6, <1>7, <2>1 DEF DependentsGo
<1>8. ASSUME interruptions = 0, DependentsGo, IncrementalsHaveBaseline PROVE IncrementalsHaveBaseline'
  <2> SUFFICES ASSUME NEW i \in OfType(Listed, "incremental")'
               PROVE  disk'[backups'[i].base] = Parts \/ <<i, "manifest">> \in deletion' \cup retention'
    BY DEF IncrementalsHaveBaseline
  <2>1. i \in OfType(Listed, "incremental") /\ backups'[i] = backups[i] /\ backups[i].base \in Backups
    BY <1>6 DEF HasBaseline
  <2>2. CASE backups[i].base = b
    <3>1. <<i, "manifest">> \in deletion \cup retention
      BY <1>1, <1>8, <2>1, <2>2 DEF DependentsGo
    <3> QED BY <1>5, <3>1
  <2>3. CASE backups[i].base # b
    BY <1>4, <1>5, <1>8, <2>1, <2>3 DEF IncrementalsHaveBaseline
  <2> QED BY <2>2, <2>3
<1> QED BY <1>1, <1>2, <1>3, <1>7, <1>8, BaselineStep DEF BaselineInv

\* After an interruption nothing is promised.
LEMMA InterruptedBase ==
    ASSUME BaselineInv, CatalogInv', UNCHANGED <<backups, job>>, Interrupted
    PROVE  BaselineInv'
<1>1. interruptions' # 0
  BY CatalogAssumption DEF Interrupted, BaselineInv, CatalogInv, TypeOK
<1>2. BasesOK'
  BY SameBases DEF BaselineInv
<1> QED BY <1>1, <1>2, BaselineStep

LEMMA AgeBase == ASSUME BaselineInv, CatalogInv', NEW b \in Backups, Age(b) PROVE BaselineInv'
<1>1. /\ backups' = [backups EXCEPT ![b] = [backups[b] EXCEPT !.age = Older(backups[b].age)]]
      /\ UNCHANGED <<disk, known, job, restore, choice, deletion, retention, interruptions>>
  BY DEF Age
<1>2. \A c \in Backups : backups[c] \in Backup
  BY DEF BaselineInv, CatalogInv, TypeOK
<1>3. \A c \in Backups : backups'[c].type = backups[c].type /\ backups'[c].base = backups[c].base
  <2> TAKE c \in Backups
  <2>1. CASE c = b
    <3>1. backups'[c] = [backups[b] EXCEPT !.age = Older(backups[b].age)]
      BY <1>1, <2>1 DEF BaselineInv, CatalogInv, TypeOK
    <3> QED BY <1>2, <2>1, <3>1 DEF Backup
  <2>2. CASE c # b
    BY <1>1, <2>2 DEF BaselineInv, CatalogInv, TypeOK
  <2> QED BY <2>1, <2>2
<1>4. Baselines' = Baselines /\ OfType(Listed, "incremental")' = OfType(Listed, "incremental")
  BY <1>1, <1>3 DEF Baselines, OfType, Listed
<1>5. BasesOK'
  BY <1>1, <1>3 DEF BaselineInv, BasesOK, HasBaseline
<1>6. NewestKnown => NewestKnown'
  BY <1>1, <1>4 DEF NewestKnown, NewestOf
<1>7. \A i \in OfType(Listed, "incremental") : backups'[i].base = backups[i].base
  BY <1>3 DEF OfType, Listed
<1>8. (DependentsGo => DependentsGo') /\ (IncrementalsHaveBaseline => IncrementalsHaveBaseline')
  BY <1>1, <1>4, <1>7 DEF DependentsGo, IncrementalsHaveBaseline
<1> QED BY <1>1, <1>5, <1>6, <1>8, BaselineStep DEF BaselineInv

LEMMA InitBaselineInv == Init => BaselineInv
<1> SUFFICES ASSUME Init PROVE BaselineInv
  OBVIOUS
<1>1. \A b \in Backups : backups[b].type = "none" /\ disk[b] = {}
  BY DEF Init, Missing
<1>2. BasesOK
  BY <1>1, NoJobBase DEF BasesOK, Init
<1>3. Baselines = {} /\ OfType(Listed, "incremental") = {}
  BY <1>1 DEF Baselines, BaselineTypes, OfType, Listed
<1>4. restore.step = "none" /\ job.new.type = "none"
  BY NoJobBase, IdleRestore DEF Init
<1>5. NewestKnown
  BY <1>3, <1>4 DEF NewestKnown
<1> QED BY <1>2, <1>3, <1>5, InitCatalogInv DEF BaselineInv, DependentsGo, IncrementalsHaveBaseline

LEMMA NextBaselineInv == BaselineInv /\ [Next]_vars => BaselineInv'
<1> SUFFICES ASSUME BaselineInv, [Next]_vars PROVE BaselineInv'
  OBVIOUS
<1>0. CatalogInv'
  BY NextCatalogInv DEF BaselineInv
<1>1. ASSUME NEW b \in Backups, BackupStart(b) \/ DeletePreview(b) \/ RestorePrepare(b) \/ Age(b)
      PROVE  BaselineInv'
  BY <1>0, <1>1, BackupStartBase, DeletePreviewBase, RestorePrepareBase, AgeBase
<1>2. CASE BackupPublish \/ BackupOrphaned
  BY <1>0, <1>2, PublishBase
<1>3. CASE BackupFails
  BY <1>0, <1>3, BackupFailsBase
<1>4. ASSUME NEW b \in Backups, NEW part \in Parts, DeleteUnlink(b, part) \/ RetentionUnlink(b, part)
      PROVE  BaselineInv'
  BY <1>0, <1>4, UnlinkBase
<1>5. ASSUME NEW b \in Backups, NEW part \in Parts, RetentionSkips(b, part)
      PROVE  BaselineInv'
  BY <1>0, <1>5, InterruptedBase DEF RetentionSkips
<1>6. CASE DeleteInterrupted \/ RetentionKilled
  BY <1>0, <1>6, InterruptedBase DEF DeleteInterrupted, RetentionKilled
<1>7. CASE RetentionRead
  BY <1>0, <1>7, RetentionReadBase
<1>8. ASSUME NEW full \in Backups, NEW incremental \in Backups \cup {NoBackup}, RestoreChoose(full, incremental)
      PROVE  BaselineInv'
  BY <1>0, <1>8, RestoreChooseBase
<1>9. CASE RestoreEnqueue
  BY <1>0, <1>9, RestoreChooseBase
<1>10. CASE RestoreLoad \/ RestoreFinish \/ RestoreFails \/ RestoreKilled
  BY <1>0, <1>10, RestoreEndBase
<1>11. CASE UNCHANGED vars
  <2>1. UNCHANGED <<backups, disk, known, job, restore, choice, deletion, retention, interruptions>>
    BY <1>11 DEF vars
  <2>2. BasesOK'
    BY <2>1, SameBases DEF BaselineInv
  <2>3. NewestKnown => NewestKnown'
    BY <2>1 DEF NewestKnown, Baselines, NewestOf
  <2> QED BY <1>0, <2>1, <2>2, <2>3, SameDirectory DEF BaselineInv
<1> QED
  BY <1>1, <1>2, <1>3, <1>4, <1>5, <1>6, <1>7, <1>8, <1>9, <1>10, <1>11 DEF Next

\* What every behaviour keeps.
THEOREM CatalogInvariant == Spec => []CatalogInv
BY InitCatalogInv, NextCatalogInv, PTL DEF Spec

\* Every variable keeps its type.
THEOREM CatalogTypes == Spec => []TypeOK
<1>1. CatalogInv => TypeOK BY DEF CatalogInv
<1> QED BY <1>1, CatalogInvariant, PTL

\* Neither the page nor the retention ever takes a file of the newest full or
\* pre-restore backup.
THEOREM NewestIsKept == Spec => []NewestKept
<1>1. CatalogInv => NewestKept BY DEF CatalogInv
<1> QED BY <1>1, CatalogInvariant, PTL

\* The retention keeps every backup for its days.
THEOREM YoungIsKept == Spec => []YoungKept
<1>1. CatalogInv => YoungKept BY DEF CatalogInv
<1> QED BY <1>1, CatalogInvariant, PTL

\* What every behaviour keeps of incremental backups and their baselines.
THEOREM BaselineInvariant == Spec => []BaselineInv
BY InitBaselineInv, NextBaselineInv, PTL DEF Spec

\* As long as nothing is interrupted, an incremental backup that is listed and
\* not about to go has its whole baseline.
THEOREM IncrementalsKeepBaseline == Spec => []IncrementalsHaveBaseline
<1>1. BaselineInv => IncrementalsHaveBaseline
  BY DEF BaselineInv, IncrementalsHaveBaseline
<1> QED BY <1>1, BaselineInvariant, PTL
=============================================================================
