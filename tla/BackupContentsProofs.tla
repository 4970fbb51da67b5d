------------------------ MODULE BackupContentsProofs ------------------------
(* Theorems about BackupContents and the documents it backs up. *)
EXTENDS BackupContents, TLAPS

Busy(r) == ~At(r, "idle")
Writes(r) == At(r, "writing") \/ At(r, "saving")

\* Rows name files that were given out, each to one row.
RowsOK(rows) ==
    /\ \A d \in Docs : rows[d].file # NoFile => rows[d].file \in named
    /\ \A d, e \in Docs : rows[d].file = rows[e].file /\ rows[d].file # NoFile => d = e

\* Requests write files of their own, which nobody replaces.
OwnFiles ==
    \A r \in Requests : Busy(r) =>
        /\ requests[r].file \in named
        /\ requests[r].old \in named \cup {NoFile}
        /\ requests[r].file # requests[r].old
        /\ \A q \in Requests : Writes(q) => requests[q].file # requests[r].old
        /\ \A q \in Requests : Busy(q) /\ requests[q].file = requests[r].file => q = r

\* A file that is being written has no row, and what it replaces no other.
WritersOK ==
    \A r \in Requests : Writes(r) =>
        \A d \in Docs : /\ docs[d].file # requests[r].file
                        /\ docs[d].file = requests[r].old /\ docs[d].file # NoFile => d = requests[r].doc

SavedWhole == \A r \in Requests : At(r, "saving") => media[requests[r].file] = "whole"

\* What is about to be unlinked has no row.
UnlinkersOK ==
    \A r \in Requests : At(r, "unlinking") =>
        \A d \in Docs : /\ docs[d].file # requests[r].old
                        /\ docs[d].file = requests[r].file => d = requests[r].doc

DocInv == DocTypeOK /\ RowsOK(docs) /\ OwnFiles /\ WritersOK /\ SavedWhole /\ UnlinkersOK

DumpsOK == \A b \in Backups : RowsOK(backups[b].dump)

FilesInv == TypeOK /\ DocInv /\ DumpsOK

(***************************************************************************)
(* What is in a backup                                                     *)
(***************************************************************************)

\* A file below MEDIA_ROOT has a name that was given out, and so has one in an
\* archive.
NamesGiven ==
    \A f \in Files : /\ media[f] # "none" => f \in named
                     /\ \A b \in Backups : backups[b].archive[f] # "none" => f \in named

WritingPartial == \A r \in Requests : At(r, "writing") => media[requests[r].file] = "partial"

\* Nobody will write the file again.
NoWriter(f) == f \in named /\ \A r \in Requests : At(r, "writing") => requests[r].file # f
Settled(f) == NoWriter(f) /\ media[f] # "partial"

\* An incremental backup was made of a full one that is done.
BasesDone ==
    \A b \in Backups : backups[b].state # "none" /\ backups[b].base # NoBackup =>
        Done(backups[b].base) /\ backups[backups[b].base].base = NoBackup

\* The archive is to have the file: it is new or changed since the baseline.
Differs(b, f) ==
    /\ backups[b].content[f] # "none"
    /\ \/ backups[b].base = NoBackup
       \/ backups[b].content[f] # backups[backups[b].base].content[f]
       \/ backups[b].stamp[f] # backups[backups[b].base].stamp[f]

\* The archive of b but for what is still to be packed, while no upload changed.
Packed(b, todo) ==
    \A f \in Files : backups[b].archive[f] = IF Differs(b, f) /\ f \notin todo THEN backups[b].content[f] ELSE "none"

GoneListed(b) ==
    backups[b].base # NoBackup =>
        \A f \in Files : f \in backups[b].deleted <=>
            backups[backups[b].base].content[f] # "none" /\ backups[b].content[f] = "none"

\* A file the manifest has as whole is whole in the archive or in the baseline's.
Held(b, f, todo) ==
    backups[b].content[f] = "whole" =>
        /\ backups[b].base # NoBackup => f \notin backups[b].deleted
        /\ \/ f \in todo
           \/ backups[b].archive[f] = "whole"
           \/ /\ backups[b].archive[f] = "none" /\ backups[b].base # NoBackup
              /\ backups[backups[b].base].content[f] = "whole"

DoneHolds(b) ==
    /\ \A f \in Files : Held(b, f, {})
    /\ backups[b].quiet => Packed(b, {}) /\ GoneListed(b)

DoneOK == \A b \in Backups : Done(b) => DoneHolds(b)

\* The files of the dump are written no more.
DumpSettled == \A d \in Docs : Running.dump[d].file # NoFile => NoWriter(Running.dump[d].file)

\* Those that are whole are in the inventory, or it is bound to meet them.
DumpCovered(todo) ==
    \A d \in Docs : LET f == Running.dump[d].file
                    IN  f # NoFile /\ media[f] = "whole" => f \in todo \/ Running.content[f] = "whole"

ContentSettled == \A f \in Files : Running.content[f] = "whole" => Settled(f)

Dumped == \A f \in Files : Running.content[f] = "none" /\ Running.archive[f] = "none"

Inventoried ==
    /\ \A f \in Files : Running.archive[f] = "none"
    /\ ContentSettled
    /\ DumpCovered(job.todo)
    /\ Running.quiet => \A f \in Files : /\ Running.content[f] \in {"none", media[f]}
                                         /\ media[f] # "none" => f \in job.todo \/ Running.content[f] = media[f]

Archived ==
    /\ ContentSettled
    /\ DumpCovered({})
    /\ \A f \in Files : Held(job.id, f, job.todo)
    /\ Running.quiet =>
          /\ \A f \in Files : Running.content[f] = media[f] /\ (f \in job.todo => Differs(job.id, f))
          /\ Packed(job.id, job.todo) /\ GoneListed(job.id)

JobOK ==
    /\ job.step # "idle" => DumpSettled
    /\ job.step = "dumped" => Dumped
    /\ job.step = "inventory" => Inventoried
    /\ job.step = "archive" => Archived

ContentsInv == FilesInv /\ NamesGiven /\ WritingPartial /\ BasesDone /\ DoneOK /\ JobOK

USE DocumentsAssumption

(***************************************************************************)
(* Documents                                                               *)
(***************************************************************************)

LEMMA StartWritingStep ==
    ASSUME DocInv, NEW r \in Requests, NEW d \in Docs \cup {NoDoc}, NEW old \in Files \cup {NoFile},
           d # NoDoc => docs[d].file = old /\ old \in Files,
           d = NoDoc => old = NoFile,
           old # NoFile => old \in named /\ \A e \in Docs : docs[e].file = old => e = d,
           StartWriting(r, d, old)
    PROVE  DocInv' /\ KeepsFiles /\ named \subseteq named'
<1>1. PICK f \in Files \ named :
          /\ named' = named \cup {f}
          /\ media' = [media EXCEPT ![f] = "partial"]
          /\ requests' = [requests EXCEPT ![r] = [step |-> "writing", doc |-> d, old |-> old, file |-> f]]
  BY DEF StartWriting
<1>2. UNCHANGED <<docs, unlinkErrors>> /\ requests[r].step = "idle"
  BY DEF StartWriting, At
<1>t. DocTypeOK'
  <2>1. media' \in [Files -> Contents] BY <1>1 DEF DocInv, DocTypeOK, Contents
  <2>2. requests' \in [Requests -> Request] BY <1>1 DEF DocInv, DocTypeOK, Request
  <2>3. \A q \in Requests : q # r => requests'[q] = requests[q] BY <1>1 DEF DocInv, DocTypeOK
  <2>4. requests'[r].step = "writing" /\ requests'[r].file = f /\ requests'[r].doc = d /\ requests'[r].old = old
    BY <1>1 DEF DocInv, DocTypeOK
  <2>5. d # NoDoc => old \in Files OBVIOUS
  <2> QED BY <1>1, <1>2, <2>1, <2>2, <2>3, <2>4, <2>5 DEF DocInv, DocTypeOK
<1>a. RowsOK(docs)' BY <1>1, <1>2 DEF DocInv, RowsOK
<1>b. OwnFiles' BY <1>1, <1>2 DEF DocInv, DocTypeOK, OwnFiles, WritersOK, Busy, Writes, At, Request
<1>c. WritersOK' BY <1>1, <1>2 DEF DocInv, DocTypeOK, RowsOK, WritersOK, Writes, At, Request, Row
<1>d. SavedWhole' BY <1>1, <1>2 DEF DocInv, DocTypeOK, OwnFiles, SavedWhole, Busy, At, Request
<1>e. UnlinkersOK' BY <1>1, <1>2 DEF DocInv, DocTypeOK, UnlinkersOK, At, Request
<1>f. KeepsFiles BY <1>1, <1>2 DEF DocInv, DocTypeOK, RowsOK, KeepsFiles, LosesFile, Listed, HasFile, Exists, Row
<1> QED BY <1>1, <1>t, <1>a, <1>b, <1>c, <1>d, <1>e, <1>f DEF DocInv

LEMMA FileWrittenStep ==
    ASSUME DocInv, NEW r \in Requests, FileWritten(r)
    PROVE  DocInv' /\ KeepsFiles /\ named \subseteq named'
<1> USE DEF FileWritten
<1>t. DocTypeOK' BY DEF DocInv, DocTypeOK, Request, Row, Contents, At
<1>a. RowsOK(docs)' BY DEF DocInv, DocTypeOK, RowsOK, OwnFiles, WritersOK, Busy, Writes, At, Request, Row
<1>b. OwnFiles' BY DEF DocInv, DocTypeOK, OwnFiles, Busy, Writes, At, Request, Idle
<1>c. WritersOK' BY DEF DocInv, DocTypeOK, OwnFiles, WritersOK, Busy, Writes, At, Request, Row, Idle
<1>d. SavedWhole' BY DEF DocInv, DocTypeOK, OwnFiles, WritersOK, SavedWhole, Busy, Writes, At, Request, Idle, Contents
<1>e. UnlinkersOK' BY DEF DocInv, DocTypeOK, OwnFiles, WritersOK, UnlinkersOK, Busy, Writes, At, Request, Row, Idle
<1>f. KeepsFiles
  BY DEF DocInv, DocTypeOK, RowsOK, OwnFiles, WritersOK, SavedWhole, UnlinkersOK, KeepsFiles, LosesFile,
     OldVersionLeft, Listed, HasFile, Exists, Busy, Writes, At, Request, Row, Contents
<1> QED BY <1>t, <1>a, <1>b, <1>c, <1>d, <1>e, <1>f DEF DocInv

LEMMA WriteFailsStep ==
    ASSUME DocInv, NEW r \in Requests, WriteFails(r)
    PROVE  DocInv' /\ KeepsFiles /\ named \subseteq named'
<1> USE DEF WriteFails, DropNewFile, Idle
<1>t. DocTypeOK' BY DEF DocInv, DocTypeOK, Request, Row, Contents, At
<1>a. RowsOK(docs)' BY DEF DocInv, DocTypeOK, RowsOK, OwnFiles, WritersOK, Busy, Writes, At, Request, Row
<1>b. OwnFiles' BY DEF DocInv, DocTypeOK, OwnFiles, Busy, Writes, At, Request, Idle
<1>c. WritersOK' BY DEF DocInv, DocTypeOK, OwnFiles, WritersOK, Busy, Writes, At, Request, Row, Idle
<1>d. SavedWhole' BY DEF DocInv, DocTypeOK, OwnFiles, WritersOK, SavedWhole, Busy, Writes, At, Request, Idle, Contents
<1>e. UnlinkersOK' BY DEF DocInv, DocTypeOK, OwnFiles, WritersOK, UnlinkersOK, Busy, Writes, At, Request, Row, Idle
<1>f. KeepsFiles
  BY DEF DocInv, DocTypeOK, RowsOK, OwnFiles, WritersOK, SavedWhole, UnlinkersOK, KeepsFiles, LosesFile,
     OldVersionLeft, Listed, HasFile, Exists, Busy, Writes, At, Request, Row, Contents
<1> QED BY <1>t, <1>a, <1>b, <1>c, <1>d, <1>e, <1>f DEF DocInv

LEMMA CommitFailsStep ==
    ASSUME DocInv, NEW r \in Requests, CommitFails(r)
    PROVE  DocInv' /\ KeepsFiles /\ named \subseteq named'
<1> USE DEF CommitFails, DropNewFile, Idle
<1>t. DocTypeOK' BY DEF DocInv, DocTypeOK, Request, Row, Contents, At
<1>a. RowsOK(docs)' BY DEF DocInv, DocTypeOK, RowsOK, OwnFiles, WritersOK, Busy, Writes, At, Request, Row
<1>b. OwnFiles' BY DEF DocInv, DocTypeOK, OwnFiles, Busy, Writes, At, Request, Idle
<1>c. WritersOK' BY DEF DocInv, DocTypeOK, OwnFiles, WritersOK, Busy, Writes, At, Request, Row, Idle
<1>d. SavedWhole' BY DEF DocInv, DocTypeOK, OwnFiles, WritersOK, SavedWhole, Busy, Writes, At, Request, Idle, Contents
<1>e. UnlinkersOK' BY DEF DocInv, DocTypeOK, OwnFiles, WritersOK, UnlinkersOK, Busy, Writes, At, Request, Row, Idle
<1>f. KeepsFiles
  BY DEF DocInv, DocTypeOK, RowsOK, OwnFiles, WritersOK, SavedWhole, UnlinkersOK, KeepsFiles, LosesFile,
     OldVersionLeft, Listed, HasFile, Exists, Busy, Writes, At, Request, Row, Contents
<1> QED BY <1>t, <1>a, <1>b, <1>c, <1>d, <1>e, <1>f DEF DocInv

LEMMA UploadCommitStep ==
    ASSUME DocInv, NEW r \in Requests, NEW d \in Docs, UploadCommit(r, d)
    PROVE  DocInv' /\ KeepsFiles /\ named \subseteq named'
<1> USE DEF UploadCommit, Exists, Idle, FreshRow
<1>t. DocTypeOK' BY DEF DocInv, DocTypeOK, Request, Row, Contents, At
<1>a. RowsOK(docs)' BY DEF DocInv, DocTypeOK, RowsOK, OwnFiles, WritersOK, Busy, Writes, At, Request, Row
<1>b. OwnFiles' BY DEF DocInv, DocTypeOK, OwnFiles, Busy, Writes, At, Request, Idle
<1>c. WritersOK' BY DEF DocInv, DocTypeOK, OwnFiles, WritersOK, Busy, Writes, At, Request, Row, Idle
<1>d. SavedWhole' BY DEF DocInv, DocTypeOK, OwnFiles, WritersOK, SavedWhole, Busy, Writes, At, Request, Idle, Contents
<1>e. UnlinkersOK' BY DEF DocInv, DocTypeOK, OwnFiles, WritersOK, UnlinkersOK, Busy, Writes, At, Request, Row, Idle
<1>f. KeepsFiles
  BY DEF DocInv, DocTypeOK, RowsOK, OwnFiles, WritersOK, SavedWhole, UnlinkersOK, KeepsFiles, LosesFile,
     OldVersionLeft, Listed, HasFile, Exists, Busy, Writes, At, Request, Row, Contents
<1> QED BY <1>t, <1>a, <1>b, <1>c, <1>d, <1>e, <1>f DEF DocInv

LEMMA EditCommitStep ==
    ASSUME DocInv, NEW r \in Requests, EditCommit(r)
    PROVE  DocInv' /\ KeepsFiles /\ named \subseteq named'
<1> USE DEF EditCommit, FreshRow
<1>0. \A e \in Docs : docs'[e].file = IF e = requests[r].doc THEN requests[r].file ELSE docs[e].file BY DEF DocInv, DocTypeOK, Request
<1>t. DocTypeOK' BY DEF DocInv, DocTypeOK, Request, Row, Contents, At
<1>a. RowsOK(docs)' BY DEF DocInv, DocTypeOK, RowsOK, OwnFiles, WritersOK, Busy, Writes, At, Request, Row
<1>b. OwnFiles' BY DEF DocInv, DocTypeOK, OwnFiles, Busy, Writes, At, Request, Idle
<1>c. WritersOK' BY <1>0 DEF DocInv, DocTypeOK, OwnFiles, WritersOK, Busy, Writes, At, Request, Idle
<1>d. SavedWhole' BY DEF DocInv, DocTypeOK, OwnFiles, WritersOK, SavedWhole, Busy, Writes, At, Request, Idle, Contents
<1>e. UnlinkersOK' BY <1>0 DEF DocInv, DocTypeOK, OwnFiles, WritersOK, UnlinkersOK, Busy, Writes, At, Request, Idle
<1>f. KeepsFiles
  BY DEF DocInv, DocTypeOK, RowsOK, OwnFiles, WritersOK, SavedWhole, UnlinkersOK, KeepsFiles, LosesFile,
     OldVersionLeft, Listed, HasFile, Exists, Busy, Writes, At, Request, Row, Contents
<1> QED BY <1>t, <1>a, <1>b, <1>c, <1>d, <1>e, <1>f DEF DocInv

LEMMA UnlinkOldStep ==
    ASSUME DocInv, NEW r \in Requests, UnlinkOld(r)
    PROVE  DocInv' /\ KeepsFiles /\ named \subseteq named'
<1> USE DEF UnlinkOld, Idle
<1>t. DocTypeOK' BY DEF DocInv, DocTypeOK, Request, Row, Contents, At
<1>a. RowsOK(docs)' BY DEF DocInv, DocTypeOK, RowsOK, OwnFiles, WritersOK, Busy, Writes, At, Request, Row
<1>b. OwnFiles' BY DEF DocInv, DocTypeOK, OwnFiles, Busy, Writes, At, Request, Idle
<1>c. WritersOK' BY DEF DocInv, DocTypeOK, OwnFiles, WritersOK, Busy, Writes, At, Request, Row, Idle
<1>d. SavedWhole' BY DEF DocInv, DocTypeOK, OwnFiles, WritersOK, SavedWhole, Busy, Writes, At, Request, Idle, Contents
<1>e. UnlinkersOK' BY DEF DocInv, DocTypeOK, OwnFiles, WritersOK, UnlinkersOK, Busy, Writes, At, Request, Row, Idle
<1>f. KeepsFiles
  BY DEF DocInv, DocTypeOK, RowsOK, OwnFiles, WritersOK, SavedWhole, UnlinkersOK, KeepsFiles, LosesFile,
     OldVersionLeft, Listed, HasFile, Exists, Busy, Writes, At, Request, Row, Contents
<1> QED BY <1>t, <1>a, <1>b, <1>c, <1>d, <1>e, <1>f DEF DocInv

LEMMA UnlinkOldFailsStep ==
    ASSUME DocInv, NEW r \in Requests, UnlinkOldFails(r)
    PROVE  DocInv' /\ KeepsFiles /\ named \subseteq named'
<1> USE DEF UnlinkOldFails, DropNewFile, Idle
<1>t. DocTypeOK'
  <2>1. requests[r].file \in Files BY DEF DocInv, DocTypeOK, At
  <2>2. media' \in [Files -> Contents] BY <2>1 DEF DocInv, DocTypeOK, Contents
  <2>3. requests' \in [Requests -> Request] BY DEF DocInv, DocTypeOK, Request
  <2>4. unlinkErrors' \in 0..MaxUnlinkErrors BY DEF DocInv, DocTypeOK
  <2>5. \A q \in Requests : requests'[q] = requests[q] \/ requests'[q] = Idle BY DEF DocInv, DocTypeOK
  <2> QED BY <2>2, <2>3, <2>4, <2>5 DEF DocInv, DocTypeOK
<1>a. RowsOK(docs)' BY DEF DocInv, DocTypeOK, RowsOK, OwnFiles, WritersOK, Busy, Writes, At, Request, Row
<1>b. OwnFiles' BY DEF DocInv, DocTypeOK, OwnFiles, Busy, Writes, At, Request, Idle
<1>c. WritersOK' BY DEF DocInv, DocTypeOK, OwnFiles, WritersOK, Busy, Writes, At, Request, Row, Idle
<1>d. SavedWhole' BY DEF DocInv, DocTypeOK, OwnFiles, WritersOK, SavedWhole, Busy, Writes, At, Request, Idle, Contents
<1>e. UnlinkersOK' BY DEF DocInv, DocTypeOK, OwnFiles, WritersOK, UnlinkersOK, Busy, Writes, At, Request, Row, Idle
<1>f. KeepsFiles
  <2>1. unlinkErrors' # unlinkErrors BY DEF DocInv, DocTypeOK
  <2>2. \A d \in Docs : LosesFile(d) => \E q \in Requests : At(q, "unlinking") /\ requests[q].doc = d /\ media'[requests[q].old] # "none"
    BY DEF DocInv, DocTypeOK, RowsOK, OwnFiles, WritersOK, SavedWhole, UnlinkersOK, LosesFile,
       Listed, HasFile, Exists, Busy, Writes, At, Request, Row, Contents
  <2> QED BY <2>1, <2>2 DEF KeepsFiles, OldVersionLeft
<1> QED BY <1>t, <1>a, <1>b, <1>c, <1>d, <1>e, <1>f DEF DocInv

LEMMA KillStep ==
    ASSUME DocInv, NEW r \in Requests, Kill(r)
    PROVE  DocInv' /\ KeepsFiles /\ named \subseteq named'
<1> USE DEF Kill, Idle
<1>t. DocTypeOK' BY DEF DocInv, DocTypeOK, Request, Row, Contents, At
<1>a. RowsOK(docs)' BY DEF DocInv, DocTypeOK, RowsOK, OwnFiles, WritersOK, Busy, Writes, At, Request, Row
<1>b. OwnFiles' BY DEF DocInv, DocTypeOK, OwnFiles, Busy, Writes, At, Request, Idle
<1>c. WritersOK' BY DEF DocInv, DocTypeOK, OwnFiles, WritersOK, Busy, Writes, At, Request, Row, Idle
<1>d. SavedWhole' BY DEF DocInv, DocTypeOK, OwnFiles, WritersOK, SavedWhole, Busy, Writes, At, Request, Idle, Contents
<1>e. UnlinkersOK' BY DEF DocInv, DocTypeOK, OwnFiles, WritersOK, UnlinkersOK, Busy, Writes, At, Request, Row, Idle
<1>f. KeepsFiles
  BY DEF DocInv, DocTypeOK, RowsOK, OwnFiles, WritersOK, SavedWhole, UnlinkersOK, KeepsFiles, LosesFile,
     OldVersionLeft, Listed, HasFile, Exists, Busy, Writes, At, Request, Row, Contents
<1> QED BY <1>t, <1>a, <1>b, <1>c, <1>d, <1>e, <1>f DEF DocInv

LEMMA DeleteStep ==
    ASSUME DocInv, NEW d \in Docs, Delete(d)
    PROVE  DocInv' /\ KeepsFiles /\ named \subseteq named'
<1>0. docs' \in [Docs -> Row] /\ \A e \in Docs : docs'[e].file = docs[e].file
  BY DEF Delete, DocInv, DocTypeOK, Row
<1>1. UNCHANGED <<named, requests, unlinkErrors>> BY DEF Delete
<1>2. UNCHANGED media BY DEF Delete
<1>3. docs'[d].deleted # "no" /\ \A e \in Docs : e # d => docs'[e] = docs[e]
  BY DEF Delete, DocInv, DocTypeOK, Row
<1>t. DocTypeOK' BY <1>0, <1>1, <1>2 DEF DocInv, DocTypeOK, Contents
<1>a. RowsOK(docs)' BY <1>0, <1>1 DEF DocInv, RowsOK
<1>b. OwnFiles' BY <1>1 DEF DocInv, OwnFiles, Busy, Writes, At
<1>c. WritersOK' BY <1>0, <1>1 DEF DocInv, WritersOK, Writes, At
<1>d. SavedWhole' BY <1>1, <1>2 DEF DocInv, DocTypeOK, WritersOK, SavedWhole, Writes, At, Request
<1>e. UnlinkersOK' BY <1>0, <1>1 DEF DocInv, UnlinkersOK, At
<1>f. KeepsFiles
  BY <1>0, <1>2, <1>3 DEF DocInv, DocTypeOK, RowsOK, KeepsFiles, LosesFile, Listed, HasFile, Exists, Row
<1> QED BY <1>1, <1>t, <1>a, <1>b, <1>c, <1>d, <1>e, <1>f DEF DocInv

LEMMA ExpireStep ==
    ASSUME DocInv, NEW d \in Docs, Expire(d)
    PROVE  DocInv' /\ KeepsFiles /\ named \subseteq named'
<1>0. docs' \in [Docs -> Row] /\ \A e \in Docs : docs'[e].file = docs[e].file
  BY DEF Expire, DocInv, DocTypeOK, Row
<1>1. UNCHANGED <<named, requests, unlinkErrors>> BY DEF Expire
<1>2. UNCHANGED media BY DEF Expire
<1>3. docs'[d].deleted # "no" /\ \A e \in Docs : e # d => docs'[e] = docs[e]
  BY DEF Expire, DocInv, DocTypeOK, Row
<1>t. DocTypeOK' BY <1>0, <1>1, <1>2 DEF DocInv, DocTypeOK, Contents
<1>a. RowsOK(docs)' BY <1>0, <1>1 DEF DocInv, RowsOK
<1>b. OwnFiles' BY <1>1 DEF DocInv, OwnFiles, Busy, Writes, At
<1>c. WritersOK' BY <1>0, <1>1 DEF DocInv, WritersOK, Writes, At
<1>d. SavedWhole' BY <1>1, <1>2 DEF DocInv, DocTypeOK, WritersOK, SavedWhole, Writes, At, Request
<1>e. UnlinkersOK' BY <1>0, <1>1 DEF DocInv, UnlinkersOK, At
<1>f. KeepsFiles
  BY <1>0, <1>2, <1>3 DEF DocInv, DocTypeOK, RowsOK, KeepsFiles, LosesFile, Listed, HasFile, Exists, Row
<1> QED BY <1>1, <1>t, <1>a, <1>b, <1>c, <1>d, <1>e, <1>f DEF DocInv

LEMMA CleanupStep ==
    ASSUME DocInv, NEW d \in Docs, Cleanup(d)
    PROVE  DocInv' /\ KeepsFiles /\ named \subseteq named'
<1>0. docs' \in [Docs -> Row] /\ \A e \in Docs : docs'[e].file = docs[e].file
  BY DEF Cleanup, DocInv, DocTypeOK, Row
<1>1. UNCHANGED <<named, requests, unlinkErrors>> BY DEF Cleanup
<1>2. docs[d].file \in Files /\ media' = [media EXCEPT ![docs[d].file] = "none"]
  BY DEF Cleanup, Exists, DocInv, DocTypeOK, Row
<1>3. docs'[d].deleted # "no" /\ \A e \in Docs : e # d => docs'[e] = docs[e]
  BY DEF Cleanup, DocInv, DocTypeOK, Row
<1>t. DocTypeOK' BY <1>0, <1>1, <1>2 DEF DocInv, DocTypeOK, Contents
<1>a. RowsOK(docs)' BY <1>0, <1>1 DEF DocInv, RowsOK
<1>b. OwnFiles' BY <1>1 DEF DocInv, OwnFiles, Busy, Writes, At
<1>c. WritersOK' BY <1>0, <1>1 DEF DocInv, WritersOK, Writes, At
<1>d. SavedWhole' BY <1>1, <1>2 DEF DocInv, DocTypeOK, WritersOK, SavedWhole, Writes, At, Request
<1>e. UnlinkersOK' BY <1>0, <1>1 DEF DocInv, UnlinkersOK, At
<1>f. KeepsFiles
  BY <1>0, <1>2, <1>3 DEF DocInv, DocTypeOK, RowsOK, KeepsFiles, LosesFile, Listed, HasFile, Exists, Row
<1> QED BY <1>1, <1>t, <1>a, <1>b, <1>c, <1>d, <1>e, <1>f DEF DocInv

LEMMA DocumentStepInv ==
    ASSUME DocInv, DocumentStep
    PROVE  DocInv' /\ KeepsFiles /\ named \subseteq named'
<1>1. ASSUME NEW r \in Requests, RequestStep(r) PROVE DocInv' /\ KeepsFiles /\ named \subseteq named'
  <2>1. CASE UploadBegin(r) BY <2>1, StartWritingStep DEF UploadBegin
  <2>2. ASSUME NEW d \in Docs, EditBegin(r, d) PROVE DocInv' /\ KeepsFiles /\ named \subseteq named'
    <3>1. docs[d].file \in Files /\ docs[d].file \in named /\ \A e \in Docs : docs[e].file = docs[d].file => e = d
      BY <2>2 DEF EditBegin, Listed, Exists, DocInv, DocTypeOK, RowsOK, Row
    <3>2. StartWriting(r, d, docs[d].file) BY <2>2 DEF EditBegin
    <3> QED BY <3>1, <3>2, StartWritingStep
  <2>3. CASE FileWritten(r) BY <2>3, FileWrittenStep
  <2>4. CASE WriteFails(r) BY <2>4, WriteFailsStep
  <2>5. CASE \E d \in Docs : UploadCommit(r, d) BY <2>5, UploadCommitStep
  <2>6. CASE EditCommit(r) BY <2>6, EditCommitStep
  <2>7. CASE CommitFails(r) BY <2>7, CommitFailsStep
  <2>8. CASE UnlinkOld(r) BY <2>8, UnlinkOldStep
  <2>9. CASE UnlinkOldFails(r) BY <2>9, UnlinkOldFailsStep
  <2>10. CASE Kill(r) BY <2>10, KillStep
  <2> QED BY <1>1, <2>1, <2>2, <2>3, <2>4, <2>5, <2>6, <2>7, <2>8, <2>9, <2>10 DEF RequestStep
<1>2. ASSUME NEW d \in Docs, Delete(d) \/ ExpireInBackup(d) \/ Cleanup(d)
      PROVE  DocInv' /\ KeepsFiles /\ named \subseteq named'
  BY <1>2, DeleteStep, ExpireStep, CleanupStep DEF ExpireInBackup
<1> QED BY <1>1, <1>2 DEF DocumentStep

LEMMA DocumentsUnchanged ==
    ASSUME DocInv, UNCHANGED docVars PROVE DocInv' /\ KeepsFiles
BY DEF docVars, DocInv, DocTypeOK, RowsOK, OwnFiles, WritersOK, SavedWhole, UnlinkersOK, Busy, Writes, At,
   KeepsFiles, LosesFile, Listed, HasFile, Exists

(***************************************************************************)
(* Backups                                                                 *)
(***************************************************************************)

\* All that an action changes is one backup, to one with these dumps.
LEMMA OneBackup ==
    ASSUME FilesInv, NEW b \in Backups, NEW new \in Backup,
           backups' = [backups EXCEPT ![b] = new],
           UNCHANGED <<docVars, mtime, restores>>,
           new.dump = backups[b].dump \/ new.dump = docs \/ new = Empty,
           job' \in Job,
           job'.step # "idle" => job'.id = b /\ new.state = "running"
    PROVE  FilesInv'
<1>1. TypeOK'
  BY DEF FilesInv, TypeOK, DocTypeOK, docVars
<1>2. \A c \in Backups : backups'[c].dump = backups[c].dump \/ backups'[c].dump = docs
                           \/ backups'[c].dump = [d \in Docs |-> NoRow]
  BY DEF FilesInv, TypeOK, Empty
<1>3. RowsOK([d \in Docs |-> NoRow]) BY DEF RowsOK, NoRow, FreshRow
<1>4. DumpsOK'
  BY <1>2, <1>3 DEF FilesInv, DocInv, DumpsOK, RowsOK, docVars
<1> QED BY <1>1, <1>4, DocumentsUnchanged DEF FilesInv, docVars

LEMMA BackupTypes ==
    /\ Empty \in Backup /\ NoJob \in Job
    /\ Empty.dump = [d \in Docs |-> NoRow]
    /\ \A b \in Backups : b \in Nat /\ b # NoBackup
BY BoundsAssumption DEF Empty, Backup, NoJob, Job, NoFiles, Contents, NoRow, FreshRow, Row, NoBackup, Backups

LEMMA BackupStepInv ==
    ASSUME FilesInv, BackupStep
    PROVE  FilesInv'
<1> USE BackupTypes DEF FilesInv, TypeOK
<1>1. ASSUME NEW b \in Backups, NEW base \in Backups \cup {NoBackup}, BackupDump(b, base) PROVE FilesInv'
  <2> DEFINE new == [Empty EXCEPT !.state = "running", !.dump = docs, !.base = base]
  <2>1. new \in Backup /\ new.dump = docs /\ new.state = "running"
    BY DEF Backup, Empty, DocTypeOK
  <2>2. job' \in Job /\ job'.id = b BY <1>1 DEF BackupDump, Job
  <2> QED BY <1>1, <2>1, <2>2, OneBackup DEF BackupDump
<1>2. CASE InventoryBegin
  <2>1. job' \in Job /\ job'.id = job.id /\ job.step # "idle" BY <1>2 DEF InventoryBegin, Job, Present
  <2> QED BY <1>2, <2>1, DocumentsUnchanged DEF InventoryBegin, DumpsOK, RowsOK, docVars, DocTypeOK
<1>3. ASSUME NEW f \in Files, InventoryFile(f) PROVE FilesInv'
  <2> DEFINE new == [Running EXCEPT !.content = [Running.content EXCEPT ![f] = media[f]],
                                    !.stamp = [Running.stamp EXCEPT ![f] = mtime[f]]]
  <2>1. job.id \in Backups /\ Running \in Backup /\ Running.state = "running"
    BY <1>3 DEF InventoryFile, Running
  <2>2. new \in Backup /\ new.dump = Running.dump /\ new.state = "running"
    BY <2>1 DEF Backup, DocTypeOK
  <2>3. job' \in Job /\ job'.id = job.id BY <1>3 DEF InventoryFile, Job
  <2> QED BY <1>3, <2>1, <2>2, <2>3, OneBackup DEF InventoryFile, Running
<1>4. CASE ArchiveBegin
  <2> DEFINE new == [Running EXCEPT !.deleted = DeletedFiles]
  <2>1. job.id \in Backups /\ Running \in Backup /\ Running.state = "running"
    BY <1>4 DEF ArchiveBegin, Running
  <2>2. new \in Backup /\ new.dump = Running.dump /\ new.state = "running"
    BY <2>1 DEF Backup, DeletedFiles, Present
  <2>3. job' \in Job /\ job'.id = job.id BY <1>4 DEF ArchiveBegin, Job, Included, Present
  <2> QED BY <1>4, <2>1, <2>2, <2>3, OneBackup DEF ArchiveBegin, Running
<1>5. ASSUME NEW f \in Files, ArchiveFile(f) PROVE FilesInv'
  <2> DEFINE archive == [Running.archive EXCEPT ![f] = media[f]]
             content == [g \in Files |-> IF g = f /\ media[f] = "none" THEN "none" ELSE Running.content[g]]
             new == [Running EXCEPT !.archive = archive, !.content = content]
  <2>1. job.id \in Backups /\ Running \in Backup /\ Running.state = "running"
    BY <1>5 DEF ArchiveFile, Running
  <2>2. new \in Backup /\ new.dump = Running.dump /\ new.state = "running"
    BY <2>1 DEF Backup, DocTypeOK, Contents
  <2>3. job' \in Job /\ job'.id = job.id BY <1>5 DEF ArchiveFile, Job
  <2> QED BY <1>5, <2>1, <2>2, <2>3, OneBackup DEF ArchiveFile, Running
<1>6. CASE BackupPublish
  <2> DEFINE new == [Running EXCEPT !.state = "done", !.reported = References(docs) \ Present(Running.content)]
  <2>1. job.id \in Backups /\ Running \in Backup
    BY <1>6 DEF BackupPublish, Running
  <2>2. References(docs) \subseteq Files \cup {NoFile} BY DEF References, DocTypeOK, Row
  <2>3. new \in Backup /\ new.dump = Running.dump
    BY <2>1, <2>2 DEF Backup
  <2> QED BY <1>6, <2>1, <2>3, OneBackup DEF BackupPublish, Running, NoJob
<1>7. CASE BackupFails
  <2>1. job.id \in Backups BY <1>7 DEF BackupFails
  <2> QED BY <1>7, <2>1, OneBackup DEF BackupFails, NoJob
<1> QED BY <1>1, <1>2, <1>3, <1>4, <1>5, <1>6, <1>7 DEF BackupStep, FilesInv, TypeOK

LEMMA PreRestoreType ==
    ASSUME TypeOK PROVE PreRestore \in Backup /\ PreRestore.dump = docs
<1>1. References(docs) \subseteq Files \cup {NoFile} BY DEF References, TypeOK, DocTypeOK, Row
<1> QED BY <1>1, BackupTypes DEF PreRestore, Backup, TypeOK, DocTypeOK, Empty

LEMMA StagingType ==
    ASSUME TypeOK, NEW b \in Backups PROVE Staging(b) \in [Files -> Contents]
<1>1. backups[b] \in Backup BY DEF TypeOK
<1>2. backups[b].base # NoBackup => backups[backups[b].base] \in Backup BY <1>1 DEF TypeOK, Backup
<1> QED BY <1>1, <1>2 DEF Staging, Backup, Contents

LEMMA RestoreInv ==
    ASSUME FilesInv, NEW b \in Backups, NEW pre \in Backups, Restore(b, pre)
    PROVE  FilesInv'
<1>1. /\ docs' = backups[b].dump /\ media' = Staging(b) /\ backups' = [backups EXCEPT ![pre] = PreRestore]
      /\ UNCHANGED <<named, requests, unlinkErrors, job>>
      /\ restores' \in 0..MaxRestores
      /\ mtime' \in [Files -> 0..MaxRestores]
  BY BoundsAssumption DEF Restore, RestoreBegin, FilesInv, TypeOK
<1>2. job.step = "idle" /\ \A r \in Requests : At(r, "idle")
  BY DEF Restore, RestoreBegin, Quiet
<1>3. docs' \in [Docs -> Row] /\ media' \in [Files -> Contents] /\ backups' \in [Backups -> Backup]
  BY <1>1, StagingType, PreRestoreType DEF FilesInv, TypeOK, Backup
<1>4. TypeOK' BY <1>1, <1>2, <1>3 DEF FilesInv, TypeOK, DocTypeOK
<1>5. RowsOK(docs)' BY <1>1 DEF FilesInv, DumpsOK, RowsOK
<1>6. (OwnFiles /\ WritersOK /\ SavedWhole /\ UnlinkersOK)'
  BY <1>1, <1>2 DEF OwnFiles, WritersOK, SavedWhole, UnlinkersOK, Busy, Writes, At
<1>7. \A c \in Backups : backups'[c].dump = backups[c].dump \/ backups'[c].dump = docs
  BY <1>1, PreRestoreType DEF FilesInv, TypeOK
<1>8. DumpsOK' BY <1>1, <1>7 DEF FilesInv, DocInv, DumpsOK, RowsOK
<1> QED BY <1>4, <1>5, <1>6, <1>8 DEF FilesInv, DocInv, TypeOK

LEMMA RestoreRefusedInv ==
    ASSUME FilesInv, NEW b \in Backups, NEW pre \in Backups, RestoreRefused(b, pre)
    PROVE  FilesInv' /\ UNCHANGED docVars
<1>1. backups' = [backups EXCEPT ![pre] = PreRestore] /\ UNCHANGED <<docVars, mtime, restores, job>>
  BY DEF RestoreRefused, RestoreBegin, docVars
<1>2. job \in Job /\ job.step = "idle" BY DEF RestoreRefused, RestoreBegin, Quiet, FilesInv, TypeOK
<1> QED BY <1>1, <1>2, OneBackup, PreRestoreType DEF FilesInv

LEMMA WatchedInv ==
    ASSUME FilesInv, DocumentStep, Watched
    PROVE  FilesInv' /\ KeepsFiles
<1>1. DocInv' /\ KeepsFiles /\ named \subseteq named' BY DocumentStepInv DEF FilesInv
<1>2. /\ backups' \in [Backups -> Backup]
      /\ \A b \in Backups : backups'[b].dump = backups[b].dump /\ backups'[b].state = backups[b].state
  <2>1. CASE UNCHANGED backups BY <2>1 DEF FilesInv, TypeOK
  <2>2. CASE job.step # "idle" /\ backups' = [backups EXCEPT ![job.id] = [@ EXCEPT !.quiet = FALSE]]
    <3>1. backups[job.id] \in Backup BY <2>2 DEF FilesInv, TypeOK
    <3>2. [backups[job.id] EXCEPT !.quiet = FALSE] \in Backup BY <3>1 DEF Backup
    <3> QED BY <2>2, <3>1, <3>2 DEF FilesInv, TypeOK, Backup
  <2> QED BY <2>1, <2>2 DEF Watched
<1>3. TypeOK' BY <1>1, <1>2 DEF Watched, FilesInv, TypeOK, DocInv
<1>4. DumpsOK' BY <1>1, <1>2 DEF FilesInv, DumpsOK, RowsOK
<1> QED BY <1>1, <1>3, <1>4 DEF FilesInv

LEMMA InitInv == Init => FilesInv
<1> SUFFICES ASSUME Init PROVE FilesInv OBVIOUS
<1>1. DocTypeOK BY DEF Init, DocInit, DocTypeOK, NoRow, FreshRow, Row, Contents, Idle, Request
<1>2. TypeOK BY <1>1, BackupTypes, BoundsAssumption DEF Init, TypeOK, NoJob
<1>3. DocInv
  BY <1>1 DEF Init, DocInit, DocInv, RowsOK, OwnFiles, WritersOK, SavedWhole, UnlinkersOK, Busy, Writes, At, Idle,
     NoRow, FreshRow
<1>4. DumpsOK BY BackupTypes DEF Init, DumpsOK, RowsOK, NoRow, FreshRow
<1> QED BY <1>2, <1>3, <1>4 DEF FilesInv

LEMMA NextInv ==
    ASSUME FilesInv, [Next]_vars
    PROVE  FilesInv' /\ (restores' = restores => KeepsFiles)
<1>1. CASE DocumentStep /\ Watched BY <1>1, WatchedInv
<1>2. CASE BackupStep
  <2>1. UNCHANGED docVars
    BY <1>2 DEF BackupStep, BackupDump, InventoryBegin, InventoryFile, ArchiveBegin, ArchiveFile, BackupPublish,
       BackupFails
  <2> QED BY <1>2, <2>1, BackupStepInv, DocumentsUnchanged DEF FilesInv
<1>3. ASSUME NEW b \in Backups, NEW pre \in Backups, Restore(b, pre)
      PROVE  FilesInv' /\ (restores' = restores => KeepsFiles)
  <2>1. restores' # restores BY <1>3 DEF Restore, FilesInv, TypeOK
  <2> QED BY <1>3, <2>1, RestoreInv
<1>4. ASSUME NEW b \in Backups, NEW pre \in Backups, RestoreRefused(b, pre)
      PROVE  FilesInv' /\ (restores' = restores => KeepsFiles)
  BY <1>4, RestoreRefusedInv, DocumentsUnchanged DEF FilesInv
<1>5. CASE UNCHANGED vars
  <2>1. UNCHANGED <<docVars, mtime, backups, job, restores>> BY <1>5 DEF vars
  <2>2. DocInv' /\ KeepsFiles BY <2>1, DocumentsUnchanged DEF FilesInv
  <2>3. TypeOK' /\ DumpsOK' BY <2>1, <2>2 DEF docVars, FilesInv, DocInv, TypeOK, DumpsOK, RowsOK
  <2> QED BY <2>2, <2>3 DEF FilesInv
<1> QED BY <1>1, <1>2, <1>3, <1>4, <1>5 DEF Next, RestoreStep

(***************************************************************************)
(* What is in a backup: steps of the documents                             *)
(***************************************************************************)

\* A step of a request leaves each file, takes it away, begins one that had no
\* name or ends what it writes; and who writes goes on or has a new name.
FilesMove ==
    \A f \in Files : \/ media'[f] = media[f]
                     \/ media'[f] = "none"
                     \/ f \notin named /\ f \in named' /\ media'[f] = "partial"
                     \/ f \in named /\ media'[f] = "whole" /\ \E r \in Requests : At(r, "writing") /\ requests[r].file = f
WritersMove ==
    \A r \in Requests : At(r, "writing")' =>
        \/ At(r, "writing") /\ requests'[r].file = requests[r].file
        \/ requests'[r].file \notin named

DocMoves == FilesMove /\ WritersMove /\ WritingPartial'

LEMMA StartWritingMoves ==
    ASSUME DocInv, WritingPartial, NEW r \in Requests, NEW d \in Docs \cup {NoDoc}, NEW old \in Files \cup {NoFile},
           StartWriting(r, d, old)
    PROVE  DocMoves
<1>1. PICK f \in Files \ named :
          /\ named' = named \cup {f}
          /\ media' = [media EXCEPT ![f] = "partial"]
          /\ requests' = [requests EXCEPT ![r] = [step |-> "writing", doc |-> d, old |-> old, file |-> f]]
  BY DEF StartWriting
<1>2. requests'[r].file = f /\ \A q \in Requests : q # r => requests'[q] = requests[q]
  BY <1>1 DEF DocInv, DocTypeOK
<1>3. FilesMove
  BY <1>1 DEF FilesMove, DocInv, DocTypeOK
<1>4. WritersMove
  BY <1>1, <1>2 DEF WritersMove, At
<1>5. \A q \in Requests : At(q, "writing") => requests[q].file \in named
  BY DEF DocInv, OwnFiles, Busy, At
<1>6. WritingPartial'
  BY <1>1, <1>2, <1>5 DEF WritingPartial, At, DocInv, DocTypeOK
<1> QED BY <1>3, <1>4, <1>6 DEF DocMoves

\* A request that does no more than take files away, none of them being written.
LEMMA OtherMoves ==
    ASSUME DocInv, WritingPartial, NEW S \in SUBSET Files,
           media' = [f \in Files |-> IF f \in S THEN "none" ELSE media[f]],
           \A q \in Requests : At(q, "writing")' =>
              At(q, "writing") /\ requests'[q] = requests[q] /\ requests[q].file \notin S
    PROVE  DocMoves
<1>1. FilesMove
  BY DEF FilesMove
<1>2. WritersMove
  BY DEF WritersMove
<1>3. WritingPartial'
  <2> SUFFICES ASSUME NEW q \in Requests, At(q, "writing")' PROVE media'[requests'[q].file] = "partial"
    BY DEF WritingPartial
  <2>1. At(q, "writing") /\ requests'[q] = requests[q] /\ requests[q].file \notin S
    OBVIOUS
  <2>2. requests[q].file \in Files
    BY <2>1 DEF DocInv, DocTypeOK, At
  <2> QED BY <2>1, <2>2 DEF WritingPartial
<1> QED BY <1>1, <1>2, <1>3 DEF DocMoves

LEMMA RequestMoves ==
    ASSUME DocInv, WritingPartial, NEW r \in Requests, RequestStep(r)
    PROVE  DocMoves
<1>t. requests \in [Requests -> Request] /\ media \in [Files -> Contents]
  BY DEF DocInv, DocTypeOK
<1>1. CASE UploadBegin(r)
  BY <1>1, StartWritingMoves DEF UploadBegin
<1>2. ASSUME NEW d \in Docs, EditBegin(r, d) PROVE DocMoves
  BY <1>2, StartWritingMoves DEF EditBegin, Listed, Exists, DocInv, DocTypeOK, Row
<1>3. CASE FileWritten(r)
  <2>1. /\ At(r, "writing") /\ media' = [media EXCEPT ![requests[r].file] = "whole"]
        /\ requests' = [requests EXCEPT ![r] = [@ EXCEPT !.step = "saving"]] /\ named' = named
    BY <1>3 DEF FileWritten
  <2>2. requests[r].file \in named /\ requests[r].file \in Files
    BY <2>1 DEF DocInv, DocTypeOK, OwnFiles, Busy, At
  <2>3. FilesMove
    BY <2>1, <2>2, <1>t DEF FilesMove
  <2>4. ~At(r, "writing")' /\ \A q \in Requests : q # r => requests'[q] = requests[q]
    BY <2>1, <1>t DEF At, Request
  <2>5. \A q \in Requests : q # r /\ At(q, "writing") => requests[q].file # requests[r].file
    BY <2>1 DEF DocInv, OwnFiles, Busy, At
  <2>6. WritersMove
    BY <2>4 DEF WritersMove, At
  <2>7. WritingPartial'
    BY <2>1, <2>4, <2>5, <1>t DEF WritingPartial, At, Request, DocInv, DocTypeOK
  <2> QED BY <2>3, <2>6, <2>7 DEF DocMoves
<1>4. ASSUME Writes(r) \/ At(r, "unlinking"), DropNewFile(r) PROVE DocMoves
  <2>1. requests[r].file \in Files
    BY <1>4 DEF DocInv, DocTypeOK, Writes, At
  <2>2. media' = [f \in Files |-> IF f \in {requests[r].file} THEN "none" ELSE media[f]]
    BY <1>4, <2>1, <1>t DEF DropNewFile
  <2>3. ~At(r, "writing")' /\ \A q \in Requests : q # r => requests'[q] = requests[q]
    BY <1>4, <1>t DEF At, Idle, DropNewFile
  <2>4. \A q \in Requests : q # r /\ At(q, "writing") => requests[q].file # requests[r].file
    BY <1>4 DEF DocInv, OwnFiles, Busy, At, Writes
  <2>5. \A q \in Requests : At(q, "writing")' =>
              At(q, "writing") /\ requests'[q] = requests[q] /\ requests[q].file \notin {requests[r].file}
    BY <2>3, <2>4 DEF At
  <2> QED BY <2>1, <2>2, <2>5, OtherMoves
<1>5. ASSUME UNCHANGED media, ~At(r, "writing")', \A q \in Requests : q # r => requests'[q] = requests[q]
      PROVE  DocMoves
  <2>0. PICK S \in SUBSET Files : S = {}
    OBVIOUS
  <2>1. media' = [f \in Files |-> IF f \in S THEN "none" ELSE media[f]]
    BY <1>5, <1>t, <2>0
  <2>2. \A q \in Requests : At(q, "writing")' => At(q, "writing") /\ requests'[q] = requests[q] /\ requests[q].file \notin S
    BY <1>5, <2>0 DEF At
  <2> QED BY <2>1, <2>2, OtherMoves
<1>6. CASE \E d \in Docs : UploadCommit(r, d)
  BY <1>5, <1>6, <1>t DEF UploadCommit, Idle, At
<1>7. CASE EditCommit(r)
  BY <1>5, <1>7, <1>t DEF EditCommit, At, Request
<1>8. CASE Kill(r)
  BY <1>5, <1>8, <1>t DEF Kill, Idle, At
<1>9. CASE UnlinkOld(r)
  <2>1. requests[r].old \in Files
    BY <1>9 DEF UnlinkOld, DocInv, DocTypeOK, At
  <2>2. media' = [f \in Files |-> IF f \in {requests[r].old} THEN "none" ELSE media[f]]
    BY <1>9, <2>1, <1>t DEF UnlinkOld
  <2>3. ~At(r, "writing")' /\ \A q \in Requests : q # r => requests'[q] = requests[q]
    BY <1>9, <1>t DEF At, Idle, UnlinkOld
  <2>4. \A q \in Requests : At(q, "writing") => requests[q].file # requests[r].old
    BY <1>9 DEF UnlinkOld, DocInv, OwnFiles, Busy, At, Writes
  <2>5. \A q \in Requests : At(q, "writing")' =>
              At(q, "writing") /\ requests'[q] = requests[q] /\ requests[q].file \notin {requests[r].old}
    BY <2>3, <2>4 DEF At
  <2> QED BY <2>1, <2>2, <2>5, OtherMoves
<1> QED
  BY <1>1, <1>2, <1>3, <1>4, <1>6, <1>7, <1>8, <1>9
     DEF RequestStep, WriteFails, CommitFails, UnlinkOldFails, Writes

LEMMA DocumentMoves ==
    ASSUME DocInv, WritingPartial, DocumentStep
    PROVE  DocMoves
<1>t. requests \in [Requests -> Request] /\ media \in [Files -> Contents]
  BY DEF DocInv, DocTypeOK
<1>1. ASSUME NEW d \in Docs, Delete(d) \/ ExpireInBackup(d) PROVE DocMoves
  <2>1. UNCHANGED <<media, requests>>
    BY <1>1 DEF Delete, ExpireInBackup, Expire
  <2>0. PICK S \in SUBSET Files : S = {}
    OBVIOUS
  <2>2. media' = [f \in Files |-> IF f \in S THEN "none" ELSE media[f]]
    BY <2>0, <2>1, <1>t
  <2>3. \A q \in Requests : At(q, "writing")' => At(q, "writing") /\ requests'[q] = requests[q] /\ requests[q].file \notin S
    BY <2>0, <2>1 DEF At
  <2> QED BY <2>2, <2>3, OtherMoves
<1>2. ASSUME NEW d \in Docs, Cleanup(d) PROVE DocMoves
  <2>1. docs[d].file \in Files /\ UNCHANGED requests
    BY <1>2 DEF Cleanup, Exists, DocInv, DocTypeOK, Row
  <2>2. media' = [f \in Files |-> IF f \in {docs[d].file} THEN "none" ELSE media[f]]
    BY <1>2, <2>1, <1>t DEF Cleanup
  <2>3. \A q \in Requests : At(q, "writing")' =>
              At(q, "writing") /\ requests'[q] = requests[q] /\ requests[q].file \notin {docs[d].file}
    BY <2>1 DEF At, DocInv, WritersOK, Writes
  <2> QED BY <2>1, <2>2, <2>3, OtherMoves
<1>3. ASSUME NEW r \in Requests, RequestStep(r) PROVE DocMoves
  BY <1>3, RequestMoves
<1> QED BY <1>1, <1>2, <1>3 DEF DocumentStep

\* What is settled stays so.
LEMMA SettledStays ==
    ASSUME DocInv, DocMoves, named \subseteq named', NEW f \in Files
    PROVE  /\ NoWriter(f) => NoWriter(f)' /\ (media'[f] = "whole" => media[f] = "whole")
           /\ Settled(f) => Settled(f)'
<1>1. ASSUME NoWriter(f) PROVE NoWriter(f)' /\ (media'[f] \in {media[f], "none"})
  <2>1. media'[f] \in {media[f], "none"}
    BY <1>1 DEF DocMoves, FilesMove, NoWriter
  <2>2. f \in named'
    BY <1>1 DEF NoWriter
  <2>3. ASSUME NEW r \in Requests, At(r, "writing")' PROVE requests'[r].file # f
    BY <1>1, <2>3 DEF DocMoves, WritersMove, NoWriter
  <2> QED BY <2>1, <2>2, <2>3 DEF NoWriter
<1> QED BY <1>1 DEF Settled

(***************************************************************************)
(* What is in a backup: steps of backups and restores                      *)
(***************************************************************************)

SameFiles(b) ==
    /\ backups'[b].base = backups[b].base /\ backups'[b].content = backups[b].content
    /\ backups'[b].stamp = backups[b].stamp /\ backups'[b].archive = backups[b].archive
    /\ backups'[b].deleted = backups[b].deleted

LEMMA HeldStays ==
    ASSUME NEW b, SameFiles(b), backups[b].base # NoBackup => SameFiles(backups[b].base), NEW todo
    PROVE  /\ \A f \in Files : Held(b, f, todo)' <=> Held(b, f, todo)
           /\ \A f \in Files : Differs(b, f)' <=> Differs(b, f)
           /\ Packed(b, todo)' <=> Packed(b, todo)
           /\ GoneListed(b)' <=> GoneListed(b)
<1>1. \A f \in Files : Differs(b, f)' <=> Differs(b, f)
  BY DEF SameFiles, Differs
<1>2. \A f \in Files : Held(b, f, todo)' <=> Held(b, f, todo)
  BY DEF SameFiles, Held
<1>3. Packed(b, todo)' <=> Packed(b, todo)
  BY <1>1 DEF SameFiles, Packed
<1>4. GoneListed(b)' <=> GoneListed(b)
  BY DEF SameFiles, GoneListed
<1> QED BY <1>1, <1>2, <1>3, <1>4

\* A backup is added or changed that nobody can choose yet.
LEMMA OneBackupContents ==
    ASSUME ContentsInv, NEW b \in Backups, NEW new \in Backup, ~Done(b),
           backups' = [backups EXCEPT ![b] = new], named' = named,
           \A f \in Files : new.archive[f] # "none" => f \in named,
           new.state # "none" /\ new.base # NoBackup => Done(new.base) /\ backups[new.base].base = NoBackup
    PROVE  /\ backups'[b] = new
           /\ \A c \in Backups : c # b => backups'[c] = backups[c] /\ SameFiles(c)
           /\ \A f \in Files, c \in Backups : backups'[c].archive[f] # "none" => f \in named'
           /\ BasesDone'
           /\ \A c \in Backups : Done(c) => DoneHolds(c)'
<1>1. backups'[b] = new /\ \A c \in Backups : c # b => backups'[c] = backups[c]
  BY DEF ContentsInv, FilesInv, TypeOK
<1>2. \A c \in Backups : c # b => SameFiles(c)
  BY <1>1 DEF SameFiles
<1>3. \A f \in Files, c \in Backups : backups'[c].archive[f] # "none" => f \in named'
  BY <1>1 DEF ContentsInv, NamesGiven
<1>4. \A c \in Backups : backups[c] \in Backup
  BY DEF ContentsInv, FilesInv, TypeOK
<1>5. ASSUME NEW c \in Backups, Done(c), backups[c].base # NoBackup
      PROVE  backups[c].base \in Backups /\ backups[c].base # b
  <2>1. Done(backups[c].base)
    BY <1>5 DEF ContentsInv, BasesDone, Done
  <2>2. backups[c].base \in Backups
    BY <1>4, <1>5 DEF Backup
  <2> QED BY <2>1, <2>2
<1>6. ASSUME NEW c \in Backups, Done(c) PROVE DoneHolds(c)'
  <2>1. SameFiles(c) /\ backups'[c].quiet = backups[c].quiet
    BY <1>1, <1>2, <1>6
  <2>2. backups[c].base # NoBackup => SameFiles(backups[c].base)
    BY <1>2, <1>5, <1>6
  <2>3. DoneHolds(c)
    BY <1>6 DEF ContentsInv, DoneOK
  <2> QED BY <2>1, <2>2, <2>3, HeldStays DEF DoneHolds
<1>7. BasesDone'
  <2> SUFFICES ASSUME NEW c \in Backups, backups'[c].state # "none", backups'[c].base # NoBackup
               PROVE  backups'[backups'[c].base].state = "done" /\ backups'[backups'[c].base].base = NoBackup
    BY DEF BasesDone, Done
  <2>1. Done(backups'[c].base) /\ backups[backups'[c].base].base = NoBackup
    BY <1>1 DEF ContentsInv, BasesDone
  <2>2. backups'[c] \in Backup
    BY <1>1, <1>4
  <2>3. backups'[c].base \in Backups /\ backups'[c].base # b
    BY <2>1, <2>2 DEF Backup
  <2> QED BY <1>1, <2>1, <2>3 DEF Done
<1> QED BY <1>1, <1>2, <1>3, <1>6, <1>7

\* A step of create_backup, between dump and manifest.
LEMMA JobContents ==
    ASSUME ContentsInv, FilesInv', job.step # "idle", NEW new \in Backup, new.state # "none",
           NEW b, b = job.id, backups' = [backups EXCEPT ![b] = new], UNCHANGED docVars,
           new.base = Running.base,
           \A f \in Files : new.archive[f] # "none" => f \in named,
           new.state = "done" => DoneHolds(b)',
           JobOK'
    PROVE  ContentsInv'
<1>1. b \in Backups /\ ~Done(b) /\ backups[b].state # "none"
  BY DEF ContentsInv, FilesInv, TypeOK, Done
<1>2. new.base # NoBackup => Done(new.base) /\ backups[new.base].base = NoBackup
  BY <1>1 DEF ContentsInv, BasesDone, Running
<1>3. UNCHANGED <<docs, media, named, requests, unlinkErrors>>
  BY DEF docVars
<1>4. /\ backups'[b] = new
      /\ \A c \in Backups : c # b => backups'[c] = backups[c] /\ SameFiles(c)
      /\ \A f \in Files, c \in Backups : backups'[c].archive[f] # "none" => f \in named'
      /\ BasesDone'
      /\ \A c \in Backups : Done(c) => DoneHolds(c)'
  BY <1>1, <1>2, <1>3, OneBackupContents
<1>5. DoneOK'
  BY <1>4 DEF DoneOK, Done
<1>6. NamesGiven' /\ WritingPartial'
  BY <1>3, <1>4 DEF ContentsInv, NamesGiven, WritingPartial, At
<1> QED BY <1>4, <1>5, <1>6 DEF ContentsInv

LEMMA BackupDumpContents ==
    ASSUME ContentsInv, FilesInv', NEW b \in Backups, NEW base \in Backups \cup {NoBackup}, BackupDump(b, base)
    PROVE  ContentsInv'
<1> DEFINE new == [Empty EXCEPT !.state = "running", !.dump = docs, !.base = base]
<1>1. /\ new \in Backup /\ new.dump = docs /\ new.state = "running" /\ new.base = base
      /\ \A f \in Files : new.archive[f] = "none" /\ new.content[f] = "none"
  BY BackupTypes DEF Backup, Empty, NoFiles, ContentsInv, FilesInv, TypeOK, DocTypeOK
<1>2. /\ ~Done(b) /\ backups' = [backups EXCEPT ![b] = new]
      /\ job' = [step |-> "dumped", id |-> b, todo |-> {}] /\ UNCHANGED docVars
      /\ base # NoBackup => Done(base) /\ backups[base].base = NoBackup
  BY DEF BackupDump, NextBackup, Done, LatestFull, FullBackups
<1> HIDE DEF new
<1>3. UNCHANGED <<docs, media, named, requests, unlinkErrors>>
  BY <1>2 DEF docVars
<1>4. /\ backups'[b] = new
      /\ \A c \in Backups : c # b => backups'[c] = backups[c] /\ SameFiles(c)
      /\ \A f \in Files, c \in Backups : backups'[c].archive[f] # "none" => f \in named'
      /\ BasesDone'
      /\ \A c \in Backups : Done(c) => DoneHolds(c)'
  BY <1>1, <1>2, <1>3, OneBackupContents
<1>5. DoneOK'
  BY <1>1, <1>4 DEF DoneOK, Done
<1>6. NamesGiven' /\ WritingPartial'
  BY <1>3, <1>4 DEF ContentsInv, NamesGiven, WritingPartial, At
<1>7. job'.step = "dumped" /\ Running' = new
  BY <1>2, <1>4 DEF Running
<1>8. DumpSettled'
  <2> SUFFICES ASSUME NEW d \in Docs, docs[d].file # NoFile
               PROVE  /\ docs[d].file \in named'
                      /\ \A r \in Requests : At(r, "writing")' => requests'[r].file # docs[d].file
    BY <1>1, <1>7 DEF DumpSettled, NoWriter
  <2>1. docs[d].file \in named /\ \A r \in Requests : At(r, "writing") => requests[r].file # docs[d].file
    BY DEF ContentsInv, FilesInv, DocInv, RowsOK, WritersOK, Writes
  <2> QED BY <1>3, <2>1 DEF At
<1>9. Dumped'
  BY <1>1, <1>7 DEF Dumped
<1>10. JobOK'
  BY <1>7, <1>8, <1>9 DEF JobOK
<1> QED BY <1>4, <1>5, <1>6, <1>10 DEF ContentsInv

LEMMA InventoryBeginContents ==
    ASSUME ContentsInv, FilesInv', InventoryBegin
    PROVE  ContentsInv'
<1>1. /\ job.step = "dumped" /\ UNCHANGED <<docVars, mtime, backups, restores>>
      /\ job'.step = "inventory" /\ job'.todo = Present(media) /\ job'.id = job.id
  BY DEF InventoryBegin, ContentsInv, FilesInv, TypeOK, Job
<1>2. UNCHANGED <<docs, media, named, requests, unlinkErrors, backups>> /\ Running' = Running
  BY <1>1 DEF docVars, Running
<1>3. DumpSettled /\ Dumped
  BY <1>1 DEF ContentsInv, JobOK
<1>4. DumpSettled'
  BY <1>2, <1>3 DEF DumpSettled, NoWriter, At
<1>5. \A f \in Files : media[f] # "none" => f \in job'.todo
  BY <1>1 DEF Present
<1>6. \A d \in Docs : Running.dump[d].file # NoFile => Running.dump[d].file \in Files
  <2>1. Running \in Backup
    BY <1>1 DEF ContentsInv, FilesInv, TypeOK, Running
  <2> QED BY <2>1 DEF Backup, Row
<1>7. DumpCovered(job.todo)'
  BY <1>2, <1>5, <1>6 DEF DumpCovered
<1>8. Inventoried'
  BY <1>2, <1>3, <1>5, <1>7 DEF Inventoried, Dumped, ContentSettled
<1>9. JobOK'
  BY <1>1, <1>4, <1>8 DEF JobOK
<1>10. DoneOK'
  <2>1. \A c \in Backups \cup {NoBackup} : SameFiles(c)
    BY <1>2 DEF SameFiles
  <2>2. \A c \in Backups : backups[c] \in Backup
    BY DEF ContentsInv, FilesInv, TypeOK
  <2> QED BY <1>2, <2>1, <2>2, HeldStays DEF ContentsInv, DoneOK, DoneHolds, Done, Backup
<1>11. NamesGiven' /\ WritingPartial' /\ BasesDone'
  BY <1>2 DEF ContentsInv, NamesGiven, WritingPartial, BasesDone, At, Done
<1> QED BY <1>9, <1>10, <1>11 DEF ContentsInv

\* What create_backup works on.
LEMMA RunningFacts ==
    ASSUME ContentsInv, job.step # "idle"
    PROVE  /\ job.id \in Backups /\ Running \in Backup /\ Running.state = "running" /\ ~Done(job.id)
           /\ Running.base # NoBackup => Done(Running.base) /\ Running.base \in Backups /\ Running.base # job.id
                                         /\ backups[Running.base].base = NoBackup /\ backups[Running.base] \in Backup
           /\ \A d \in Docs : Running.dump[d].file # NoFile => Running.dump[d].file \in Files
           /\ job \in Job /\ DumpSettled
           /\ media \in [Files -> Contents] /\ mtime \in [Files -> 0..MaxRestores]
<1>1. job.id \in Backups /\ Running \in Backup /\ Running.state = "running" /\ ~Done(job.id)
  BY DEF ContentsInv, FilesInv, TypeOK, Running, Done
<1>2. ASSUME Running.base # NoBackup
      PROVE  Done(Running.base) /\ Running.base \in Backups /\ Running.base # job.id
                /\ backups[Running.base].base = NoBackup /\ backups[Running.base] \in Backup
  <2>1. Running.base \in Backups
    BY <1>1, <1>2 DEF Backup
  <2>2. Done(Running.base) /\ backups[Running.base].base = NoBackup
    BY <1>1, <1>2 DEF ContentsInv, BasesDone, Running
  <2> QED BY <1>1, <2>1, <2>2 DEF ContentsInv, FilesInv, TypeOK
<1>3. \A d \in Docs : Running.dump[d].file # NoFile => Running.dump[d].file \in Files
  BY <1>1 DEF Backup, Row
<1>4. job \in Job /\ DumpSettled /\ media \in [Files -> Contents] /\ mtime \in [Files -> 0..MaxRestores]
  BY DEF ContentsInv, FilesInv, TypeOK, DocTypeOK, JobOK
<1> QED BY <1>1, <1>2, <1>3, <1>4

LEMMA DumpSettledStays ==
    ASSUME DumpSettled, UNCHANGED docVars, Running'.dump = Running.dump PROVE DumpSettled'
BY DEF DumpSettled, NoWriter, At, docVars

LEMMA InventoryFileContents ==
    ASSUME ContentsInv, FilesInv', NEW f \in Files, InventoryFile(f)
    PROVE  ContentsInv'
<1> DEFINE new == [Running EXCEPT !.content = [Running.content EXCEPT ![f] = media[f]],
                                  !.stamp = [Running.stamp EXCEPT ![f] = mtime[f]]]
<1>0. job.step = "inventory" /\ Inventoried
  BY DEF InventoryFile, ContentsInv, JobOK
<1>1. /\ job.id \in Backups /\ Running \in Backup /\ Running.state = "running" /\ job \in Job /\ DumpSettled
      /\ media \in [Files -> Contents] /\ mtime \in [Files -> 0..MaxRestores]
      /\ \A d \in Docs : Running.dump[d].file # NoFile => Running.dump[d].file \in Files
  BY <1>0, RunningFacts
<1>2. /\ new \in Backup /\ new.dump = Running.dump /\ new.base = Running.base /\ new.archive = Running.archive
      /\ new.quiet = Running.quiet /\ new.state = "running"
      /\ \A g \in Files : new.content[g] = IF g = f THEN media[f] ELSE Running.content[g]
  BY <1>1 DEF Backup
<1>3. /\ backups' = [backups EXCEPT ![job.id] = new] /\ UNCHANGED docVars
      /\ job'.id = job.id /\ job'.step = "inventory" /\ job'.todo = job.todo \ {f}
      /\ media[f] # "none"
  BY <1>1 DEF InventoryFile, Running, Job, Present
<1> HIDE DEF new
<1>4. Running' = new
  BY <1>1, <1>3 DEF Running, ContentsInv, FilesInv, TypeOK
<1>5. UNCHANGED <<docs, media, named, requests, unlinkErrors>>
  BY <1>3 DEF docVars
<1>6. DumpSettled'
  BY <1>1, <1>2, <1>3, <1>4, DumpSettledStays
<1>7. \A g \in Files : new.archive[g] = "none"
  BY <1>0, <1>2 DEF Inventoried
<1>8. media[f] = "whole" => Settled(f)
  BY DEF Settled, NoWriter, ContentsInv, NamesGiven, WritingPartial
<1>9. ContentSettled'
  <2> SUFFICES ASSUME NEW g \in Files, new.content[g] = "whole" PROVE Settled(g)
    BY <1>4, <1>5 DEF ContentSettled, Settled, NoWriter, At
  <2> QED BY <1>0, <1>2, <1>8 DEF Inventoried, ContentSettled
<1>10. DumpCovered(job.todo)'
  <2> SUFFICES ASSUME NEW d \in Docs, Running.dump[d].file # NoFile, media[Running.dump[d].file] = "whole"
               PROVE  Running.dump[d].file \in job.todo \ {f} \/ new.content[Running.dump[d].file] = "whole"
    BY <1>2, <1>3, <1>4, <1>5 DEF DumpCovered
  <2> QED BY <1>0, <1>1, <1>2 DEF Inventoried, DumpCovered
<1>11. new.quiet => \A g \in Files : /\ new.content[g] \in {"none", media[g]}
                                     /\ media[g] # "none" => g \in job'.todo \/ new.content[g] = media[g]
  BY <1>0, <1>2, <1>3 DEF Inventoried
<1>12. JobOK'
  BY <1>3, <1>4, <1>5, <1>6, <1>7, <1>9, <1>10, <1>11 DEF JobOK, Inventoried
<1>13. \A g \in Files : new.archive[g] # "none" => g \in named
  BY <1>7
<1> QED BY <1>0, <1>2, <1>3, <1>12, <1>13, JobContents

LEMMA ArchiveBeginContents ==
    ASSUME ContentsInv, FilesInv', ArchiveBegin
    PROVE  ContentsInv'
<1> DEFINE new == [Running EXCEPT !.deleted = DeletedFiles]
<1>0. job.step = "inventory" /\ Inventoried /\ job.todo \cap Present(media) = {}
  BY DEF ArchiveBegin, ContentsInv, JobOK
<1>1. /\ job.id \in Backups /\ Running \in Backup /\ Running.state = "running" /\ job \in Job /\ DumpSettled
      /\ media \in [Files -> Contents]
      /\ Running.base # NoBackup => Running.base \in Backups /\ Running.base # job.id
                                    /\ backups[Running.base].base = NoBackup /\ backups[Running.base] \in Backup
      /\ \A d \in Docs : Running.dump[d].file # NoFile => Running.dump[d].file \in Files
  BY <1>0, RunningFacts
<1>2. /\ new \in Backup /\ new.dump = Running.dump /\ new.base = Running.base /\ new.archive = Running.archive
      /\ new.content = Running.content /\ new.stamp = Running.stamp
      /\ new.quiet = Running.quiet /\ new.state = "running" /\ new.deleted = DeletedFiles
  BY <1>1 DEF Backup, DeletedFiles, Present
<1>3. /\ backups' = [backups EXCEPT ![job.id] = new] /\ UNCHANGED docVars
      /\ job'.id = job.id /\ job'.step = "archive" /\ job'.todo = Included
  BY <1>1 DEF ArchiveBegin, Running, Job
<1> HIDE DEF new
<1>4. Running' = new /\ backups'[job.id] = new
      /\ (Running.base # NoBackup => backups'[Running.base] = backups[Running.base])
  BY <1>1, <1>3 DEF Running, ContentsInv, FilesInv, TypeOK
<1>5. UNCHANGED <<docs, media, named, requests, unlinkErrors>>
  BY <1>3 DEF docVars
<1>6. DumpSettled'
  BY <1>1, <1>2, <1>3, <1>4, DumpSettledStays
<1>7. \A g \in Files : new.archive[g] = "none"
  BY <1>0, <1>2 DEF Inventoried
<1>8. \A g \in Files : media[g] # "none" => g \notin job.todo
  BY <1>0 DEF Present
<1>9. ContentSettled'
  BY <1>0, <1>2, <1>4, <1>5 DEF Inventoried, ContentSettled, Settled, NoWriter, At
<1>10. DumpCovered({})'
  BY <1>0, <1>1, <1>2, <1>4, <1>5, <1>8 DEF DumpCovered, Inventoried
<1>11. \A g \in Files : g \in Included <=> Differs(job.id, g)
  BY DEF Included, Differs, Present, Running
<1>12. \A g \in Files : Differs(job.id, g)' <=> Differs(job.id, g)
  BY <1>2, <1>3, <1>4 DEF Differs, Running
<1>13. \A g \in Files : Held(job.id, g, job.todo)'
  <2> SUFFICES ASSUME NEW g \in Files, new.content[g] = "whole"
               PROVE  /\ new.base # NoBackup => g \notin new.deleted
                      /\ \/ g \in Included
                         \/ new.archive[g] = "none" /\ new.base # NoBackup /\ backups[new.base].content[g] = "whole"
    BY <1>2, <1>3, <1>4 DEF Held
  <2>1. new.base # NoBackup => g \notin new.deleted
    BY <1>2 DEF DeletedFiles, Present
  <2>2. g \notin Included => new.base # NoBackup /\ backups[new.base].content[g] = "whole"
    BY <1>2, <1>11 DEF Differs, Running
  <2> QED BY <1>7, <2>1, <2>2
<1>14. ASSUME new.quiet PROVE \A g \in Files : new.content[g] = media[g]
  BY <1>0, <1>2, <1>8, <1>14 DEF Inventoried
<1>15. \A g \in Files : g \in job'.todo => Differs(job.id, g)'
  BY <1>3, <1>11, <1>12
<1>16. Packed(job.id, job.todo)'
  BY <1>3, <1>4, <1>7, <1>11, <1>12 DEF Packed
<1>17. GoneListed(job.id)'
  BY <1>2, <1>3, <1>4 DEF GoneListed, DeletedFiles, Present
<1>18. Archived'
  BY <1>3, <1>4, <1>5, <1>9, <1>10, <1>13, <1>14, <1>15, <1>16, <1>17 DEF Archived
<1>19. JobOK'
  BY <1>3, <1>6, <1>18 DEF JobOK
<1>20. \A g \in Files : new.archive[g] # "none" => g \in named
  BY <1>7
<1> QED BY <1>0, <1>2, <1>3, <1>19, <1>20, JobContents

LEMMA ArchiveFileContents ==
    ASSUME ContentsInv, FilesInv', NEW f \in Files, ArchiveFile(f)
    PROVE  ContentsInv'
<1> DEFINE archive == [Running.archive EXCEPT ![f] = media[f]]
           content == [g \in Files |-> IF g = f /\ media[f] = "none" THEN "none" ELSE Running.content[g]]
           new == [Running EXCEPT !.archive = archive, !.content = content]
<1>0. job.step = "archive" /\ Archived /\ f \in job.todo
  BY DEF ArchiveFile, ContentsInv, JobOK
<1>1. /\ job.id \in Backups /\ Running \in Backup /\ Running.state = "running" /\ job \in Job /\ DumpSettled
      /\ media \in [Files -> Contents]
      /\ Running.base # NoBackup => Running.base \in Backups /\ Running.base # job.id
                                    /\ backups[Running.base].base = NoBackup /\ backups[Running.base] \in Backup
      /\ \A d \in Docs : Running.dump[d].file # NoFile => Running.dump[d].file \in Files
  BY <1>0, RunningFacts
<1>2. /\ new \in Backup /\ new.dump = Running.dump /\ new.base = Running.base /\ new.deleted = Running.deleted
      /\ new.stamp = Running.stamp /\ new.quiet = Running.quiet /\ new.state = "running"
      /\ \A g \in Files : new.content[g] = IF g = f /\ media[f] = "none" THEN "none" ELSE Running.content[g]
      /\ \A g \in Files : new.archive[g] = IF g = f THEN media[f] ELSE Running.archive[g]
  BY <1>1 DEF Backup, Contents
<1>3. /\ backups' = [backups EXCEPT ![job.id] = new] /\ UNCHANGED docVars
      /\ job'.id = job.id /\ job'.step = "archive" /\ job'.todo = job.todo \ {f}
  BY <1>1 DEF ArchiveFile, Running, Job
<1> HIDE DEF new
<1>4. Running' = new /\ backups'[job.id] = new
      /\ (Running.base # NoBackup => backups'[Running.base] = backups[Running.base])
  BY <1>1, <1>3 DEF Running, ContentsInv, FilesInv, TypeOK
<1>5. UNCHANGED <<docs, media, named, requests, unlinkErrors>>
  BY <1>3 DEF docVars
<1>6. DumpSettled'
  BY <1>1, <1>2, <1>3, <1>4, DumpSettledStays
<1>7. ContentSettled'
  BY <1>0, <1>2, <1>4, <1>5 DEF Archived, ContentSettled, Settled, NoWriter, At
<1>8. DumpCovered({})'
  BY <1>0, <1>1, <1>2, <1>4, <1>5 DEF DumpCovered, Archived
<1>9. \A g \in Files : Held(job.id, g, job.todo)'
  <2> SUFFICES ASSUME NEW g \in Files, new.content[g] = "whole"
               PROVE  /\ new.base # NoBackup => g \notin new.deleted
                      /\ \/ g \in job.todo \ {f}
                         \/ new.archive[g] = "whole"
                         \/ new.archive[g] = "none" /\ new.base # NoBackup /\ backups[new.base].content[g] = "whole"
    BY <1>2, <1>3, <1>4 DEF Held
  <2>1. Running.content[g] = "whole" /\ Held(job.id, g, job.todo) /\ Settled(g)
    BY <1>0, <1>2 DEF Archived, ContentSettled
  <2>2. CASE g = f
    <3>1. media[f] = "whole"
      BY <1>1, <1>2, <2>1, <2>2 DEF Settled, Contents
    <3> QED BY <1>2, <2>1, <2>2, <3>1 DEF Held, Running
  <2>3. CASE g # f
    BY <1>2, <2>1, <2>3 DEF Held, Running
  <2> QED BY <2>2, <2>3
<1>10. ASSUME new.quiet
       PROVE  /\ \A g \in Files : new.content[g] = media[g] /\ (g \in job'.todo => Differs(job.id, g)')
              /\ Packed(job.id, job.todo)' /\ GoneListed(job.id)'
  <2>1. /\ \A g \in Files : Running.content[g] = media[g] /\ (g \in job.todo => Differs(job.id, g))
        /\ Packed(job.id, job.todo) /\ GoneListed(job.id)
    BY <1>0, <1>2, <1>10 DEF Archived
  <2>2. \A g \in Files : new.content[g] = Running.content[g]
    BY <1>2, <2>1
  <2>3. \A g \in Files : Differs(job.id, g)' <=> Differs(job.id, g)
    BY <1>2, <1>3, <1>4, <2>2 DEF Differs, Running
  <2>4. Packed(job.id, job.todo)'
    <3> SUFFICES ASSUME NEW g \in Files
                 PROVE  new.archive[g] = IF Differs(job.id, g) /\ g \notin job.todo \ {f} THEN new.content[g] ELSE "none"
      BY <1>3, <1>4, <2>3 DEF Packed
    <3>1. Running.archive[g] = IF Differs(job.id, g) /\ g \notin job.todo THEN Running.content[g] ELSE "none"
      BY <2>1 DEF Packed, Running
    <3>2. CASE g = f
      BY <1>0, <1>2, <2>1, <2>2, <3>2
    <3>3. CASE g # f
      BY <1>2, <2>2, <3>1, <3>3
    <3> QED BY <3>2, <3>3
  <2>5. GoneListed(job.id)'
    BY <1>2, <1>3, <1>4, <2>1, <2>2 DEF GoneListed, Running
  <2> QED BY <1>3, <2>1, <2>2, <2>3, <2>4, <2>5
<1>11. Archived'
  BY <1>3, <1>4, <1>5, <1>7, <1>8, <1>9, <1>10 DEF Archived
<1>12. JobOK'
  BY <1>3, <1>6, <1>11 DEF JobOK
<1>13. \A g \in Files : new.archive[g] # "none" => g \in named
  BY <1>1, <1>2 DEF ContentsInv, NamesGiven, Running
<1> QED BY <1>0, <1>2, <1>3, <1>12, <1>13, JobContents

\* A manifest is written when nothing is left to pack.
LEMMA PublishContents ==
    ASSUME ContentsInv, FilesInv', BackupPublish
    PROVE  /\ ContentsInv'
           /\ \A c \in Backups : ~Done(c) /\ Done(c)' => c = job.id
           /\ \A d \in Docs : Running.dump[d].file # NoFile /\ media[Running.dump[d].file] = "whole" =>
                backups'[job.id].content[Running.dump[d].file] = "whole"
           /\ backups'[job.id].dump = Running.dump
<1> DEFINE new == [Running EXCEPT !.state = "done", !.reported = References(docs) \ Present(Running.content)]
<1>0. job.step = "archive" /\ Archived /\ job.todo = {}
  BY DEF BackupPublish, ContentsInv, JobOK
<1>1. /\ job.id \in Backups /\ Running \in Backup /\ job \in Job
      /\ Running.base # NoBackup => Running.base \in Backups /\ Running.base # job.id
      /\ \A d \in Docs : Running.dump[d].file # NoFile => Running.dump[d].file \in Files
  BY <1>0, RunningFacts
<1>2. References(docs) \subseteq Files \cup {NoFile}
  <2>1. DocTypeOK
    BY DEF ContentsInv, FilesInv, TypeOK
  <2> QED BY <2>1 DEF References, DocTypeOK, Row
<1>3. /\ new \in Backup /\ new.dump = Running.dump /\ new.base = Running.base /\ new.archive = Running.archive
      /\ new.content = Running.content /\ new.stamp = Running.stamp /\ new.deleted = Running.deleted
      /\ new.quiet = Running.quiet /\ new.state = "done"
  BY <1>1, <1>2 DEF Backup
<1>4. backups' = [backups EXCEPT ![job.id] = new] /\ UNCHANGED docVars /\ job' = NoJob
  BY DEF BackupPublish, Running
<1> HIDE DEF new
<1>5. /\ backups'[job.id] = new /\ backups[job.id] = Running
      /\ \A c \in Backups : c # job.id => backups'[c] = backups[c]
  BY <1>1, <1>4 DEF Running, ContentsInv, FilesInv, TypeOK
<1>6. PICK b \in Backups : b = job.id
  BY <1>1
<1>7. SameFiles(b) /\ (backups[b].base # NoBackup => SameFiles(backups[b].base))
  BY <1>1, <1>3, <1>5, <1>6 DEF SameFiles
<1>8. /\ \A f \in Files : Held(b, f, {})
      /\ Running.quiet => Packed(b, {}) /\ GoneListed(b)
  BY <1>0, <1>6 DEF Archived
<1>9. DoneHolds(b)'
  <2>1. /\ \A f \in Files : Held(b, f, {})'
        /\ Running.quiet => Packed(b, {})' /\ GoneListed(b)'
    BY <1>7, <1>8, HeldStays
  <2> QED BY <1>3, <1>5, <1>6, <2>1 DEF DoneHolds
<1>10. JobOK'
  BY <1>4 DEF JobOK, NoJob
<1>11. \A g \in Files : new.archive[g] # "none" => g \in named
  BY <1>1, <1>3 DEF ContentsInv, NamesGiven, Running
<1>12. ContentsInv'
  BY <1>0, <1>3, <1>4, <1>6, <1>9, <1>10, <1>11, JobContents
<1>13. \A d \in Docs : Running.dump[d].file # NoFile /\ media[Running.dump[d].file] = "whole" =>
                backups'[job.id].content[Running.dump[d].file] = "whole"
  BY <1>0, <1>3, <1>5 DEF Archived, DumpCovered
<1> QED BY <1>3, <1>5, <1>12, <1>13 DEF Done

LEMMA EmptyFacts == Empty.state = "none" /\ Empty.base = NoBackup /\ \A f \in Files : Empty.archive[f] = "none"
BY DEF Empty, NoFiles

LEMMA BackupFailsContents ==
    ASSUME ContentsInv, FilesInv', BackupFails
    PROVE  ContentsInv' /\ \A c \in Backups : Done(c)' => Done(c)
<1>1. job.step # "idle" /\ job' = NoJob /\ backups' = [backups EXCEPT ![job.id] = Empty] /\ UNCHANGED docVars
  BY DEF BackupFails
<1>2. job.id \in Backups /\ ~Done(job.id)
  BY <1>1, RunningFacts
<1>3. UNCHANGED <<docs, media, named, requests, unlinkErrors>>
  BY <1>1 DEF docVars
<1>4. /\ backups'[job.id] = Empty
      /\ \A c \in Backups : c # job.id => backups'[c] = backups[c] /\ SameFiles(c)
      /\ \A f \in Files, c \in Backups : backups'[c].archive[f] # "none" => f \in named'
      /\ BasesDone'
      /\ \A c \in Backups : Done(c) => DoneHolds(c)'
  BY <1>1, <1>2, <1>3, BackupTypes, EmptyFacts, OneBackupContents
<1>5. \A c \in Backups : Done(c)' => Done(c)
  BY <1>4, EmptyFacts DEF Done
<1>6. DoneOK'
  BY <1>4, <1>5 DEF DoneOK
<1>7. NamesGiven' /\ WritingPartial'
  BY <1>3, <1>4 DEF ContentsInv, NamesGiven, WritingPartial, At
<1>8. JobOK'
  BY <1>1 DEF JobOK, NoJob
<1> QED BY <1>4, <1>5, <1>6, <1>7, <1>8 DEF ContentsInv

LEMMA BackupStepContents ==
    ASSUME ContentsInv, BackupStep
    PROVE  ContentsInv'
<1>1. FilesInv'
  BY BackupStepInv DEF ContentsInv
<1> QED
  BY <1>1, BackupDumpContents, InventoryBeginContents, InventoryFileContents, ArchiveBeginContents,
     ArchiveFileContents, PublishContents, BackupFailsContents DEF BackupStep

\* Whatever requests do, a file in the making is noticed.
LEMMA WatchedContents ==
    ASSUME ContentsInv, DocumentStep, Watched
    PROVE  ContentsInv' /\ \A c \in Backups : Done(c)' => Done(c)
<1>1. FilesInv' /\ DocMoves /\ named \subseteq named'
  BY WatchedInv, DocumentStepInv, DocumentMoves DEF ContentsInv, FilesInv
<1>2. job' = job /\ \A c \in Backups : backups[c] \in Backup
  BY DEF Watched, ContentsInv, FilesInv, TypeOK
<1>3. /\ \A c \in Backups : /\ SameFiles(c) /\ backups'[c].state = backups[c].state
                            /\ backups'[c].dump = backups[c].dump /\ (backups'[c].quiet => backups[c].quiet)
      /\ job.step \notin {"idle", "dumped"} /\ Running'.quiet => media' = media
  <2>1. CASE UNCHANGED backups /\ (job.step \in {"idle", "dumped"} \/ media' = media)
    BY <1>2, <2>1 DEF SameFiles
  <2>2. CASE job.step # "idle" /\ backups' = [backups EXCEPT ![job.id] = [@ EXCEPT !.quiet = FALSE]]
    <3>1. job.id \in Backups /\ backups[job.id] \in Backup
      BY <2>2 DEF ContentsInv, FilesInv, TypeOK
    <3>2. backups'[job.id] = [backups[job.id] EXCEPT !.quiet = FALSE]
          /\ \A c \in Backups : c # job.id => backups'[c] = backups[c]
      BY <2>2, <3>1 DEF ContentsInv, FilesInv, TypeOK
    <3>3. /\ backups'[job.id].quiet = FALSE /\ SameFiles(job.id) /\ backups'[job.id].state = backups[job.id].state
          /\ backups'[job.id].dump = backups[job.id].dump
      BY <3>1, <3>2 DEF Backup, SameFiles
    <3>4. \A c \in Backups : c # job.id => SameFiles(c)
      BY <3>2 DEF SameFiles
    <3>5. Running'.quiet = FALSE
      BY <1>2, <3>3 DEF Running
    <3> QED BY <3>2, <3>3, <3>4, <3>5
  <2> QED BY <2>1, <2>2 DEF Watched
<1>4. \A c \in Backups : Done(c)' <=> Done(c)
  BY <1>3 DEF Done
<1>5. \A c \in Backups : backups[c].base # NoBackup => backups[c].base \in Backups
  BY <1>2 DEF Backup
<1>6. DoneOK'
  <2> SUFFICES ASSUME NEW c \in Backups, Done(c) PROVE DoneHolds(c)'
    BY <1>4 DEF DoneOK
  <2>1. SameFiles(c) /\ (backups[c].base # NoBackup => SameFiles(backups[c].base))
    BY <1>3, <1>5
  <2>2. DoneHolds(c) /\ (backups'[c].quiet => backups[c].quiet)
    BY <1>3 DEF ContentsInv, DoneOK
  <2> QED BY <2>1, <2>2, HeldStays DEF DoneHolds
<1>7. BasesDone'
  <2> SUFFICES ASSUME NEW c \in Backups, backups'[c].state # "none", backups'[c].base # NoBackup
               PROVE  backups'[backups'[c].base].state = "done" /\ backups'[backups'[c].base].base = NoBackup
    BY DEF BasesDone, Done
  <2>1. backups'[c].base = backups[c].base /\ backups[c].base \in Backups
    BY <1>3, <1>5 DEF SameFiles
  <2>2. Done(backups[c].base) /\ backups[backups[c].base].base = NoBackup
    BY <1>3, <2>1 DEF ContentsInv, BasesDone
  <2> QED BY <1>3, <2>1, <2>2 DEF SameFiles, Done
<1>8. NamesGiven'
  <2>1. \A f \in Files : media'[f] # "none" => f \in named'
    BY <1>1 DEF DocMoves, FilesMove, ContentsInv, NamesGiven
  <2>2. \A f \in Files, c \in Backups : backups'[c].archive[f] # "none" => f \in named'
    BY <1>1, <1>3 DEF SameFiles, ContentsInv, NamesGiven
  <2> QED BY <2>1, <2>2 DEF NamesGiven
<1>9. JobOK'
  <2> SUFFICES ASSUME job.step # "idle" PROVE JobOK'
    BY <1>2 DEF JobOK
  <2>0. DocInv
    BY DEF ContentsInv, FilesInv
  <2>1. /\ job.id \in Backups /\ DumpSettled
        /\ \A d \in Docs : Running.dump[d].file # NoFile => Running.dump[d].file \in Files
        /\ Running.base # NoBackup => Running.base \in Backups
    BY RunningFacts
  <2>2. /\ Running'.dump = Running.dump /\ Running'.content = Running.content /\ Running'.archive = Running.archive
        /\ (Running'.quiet => Running.quiet)
    BY <1>2, <1>3, <2>1 DEF SameFiles, Running
  <2>3. \A f \in Files : /\ NoWriter(f) => NoWriter(f)' /\ (media'[f] = "whole" => media[f] = "whole")
                         /\ Settled(f) => Settled(f)'
    BY <1>1, <2>0, SettledStays
  <2>4. DumpSettled'
    BY <2>1, <2>2, <2>3 DEF DumpSettled
  <2>5. ContentSettled => ContentSettled'
    BY <2>2, <2>3 DEF ContentSettled
  <2>6. DumpCovered(job.todo) => DumpCovered(job.todo)'
    <3>1. \A d \in Docs : Running.dump[d].file # NoFile =>
             (media'[Running.dump[d].file] = "whole" => media[Running.dump[d].file] = "whole")
      BY <2>1, <2>3 DEF DumpSettled
    <3> QED BY <1>2, <2>2, <3>1 DEF DumpCovered
  <2>7. DumpCovered({}) => DumpCovered({})'
    <3>1. \A d \in Docs : Running.dump[d].file # NoFile =>
             (media'[Running.dump[d].file] = "whole" => media[Running.dump[d].file] = "whole")
      BY <2>1, <2>3 DEF DumpSettled
    <3> QED BY <1>2, <2>2, <3>1 DEF DumpCovered
  <2>8. Dumped => Dumped'
    BY <2>2 DEF Dumped
  <2>9. ASSUME job.step = "inventory" PROVE Inventoried'
    <3>1. Inventoried /\ (Running'.quiet => media' = media)
      BY <1>3, <2>9 DEF ContentsInv, JobOK
    <3> QED BY <1>2, <2>2, <2>5, <2>6, <3>1 DEF Inventoried
  <2>10. ASSUME job.step = "archive" PROVE Archived'
    <3>1. Archived /\ (Running'.quiet => media' = media)
      BY <1>3, <2>10 DEF ContentsInv, JobOK
    <3>2. PICK b \in Backups, todo \in SUBSET Files : b = job.id /\ todo = job.todo
      BY <2>1, RunningFacts DEF Job
    <3>3. SameFiles(b) /\ (backups[b].base # NoBackup => SameFiles(backups[b].base))
      BY <1>3, <1>5
    <3>4. /\ \A f \in Files : Held(b, f, todo)' <=> Held(b, f, todo)
          /\ \A f \in Files : Differs(b, f)' <=> Differs(b, f)
          /\ Packed(b, todo)' <=> Packed(b, todo)
          /\ GoneListed(b)' <=> GoneListed(b)
      BY <3>3, HeldStays
    <3>5. \A f \in Files : Held(job.id, f, job.todo)'
      BY <1>2, <3>1, <3>2, <3>4 DEF Archived
    <3>6. ASSUME Running'.quiet
          PROVE  /\ \A f \in Files : Running'.content[f] = media'[f] /\ (f \in job'.todo => Differs(job.id, f)')
                 /\ Packed(job.id, job.todo)' /\ GoneListed(job.id)'
      BY <1>2, <2>2, <3>1, <3>2, <3>4, <3>6 DEF Archived
    <3> QED BY <2>5, <2>7, <3>1, <3>5, <3>6 DEF Archived
  <2> QED BY <1>2, <2>4, <2>8, <2>9, <2>10 DEF JobOK, ContentsInv
<1> QED BY <1>1, <1>4, <1>6, <1>7, <1>8, <1>9 DEF ContentsInv, DocMoves

\* What a backup that is done can give back.
LEMMA WholeGivenBack ==
    ASSUME ContentsInv, NEW b \in Backups, Done(b), NEW f \in Files, backups[b].content[f] = "whole"
    PROVE  Staging(b)[f] = "whole"
<1>1. Held(b, f, {}) /\ backups[b] \in Backup
  BY DEF ContentsInv, DoneOK, DoneHolds, FilesInv, TypeOK
<1>2. CASE backups[b].base = NoBackup
  BY <1>1, <1>2 DEF Held, Staging
<1>3. CASE backups[b].base # NoBackup
  <2>1. backups[b].base \in Backups /\ Done(backups[b].base) /\ backups[backups[b].base].base = NoBackup
    BY <1>1, <1>3 DEF Backup, ContentsInv, BasesDone, Done
  <2>2. Held(backups[b].base, f, {})
    BY <2>1 DEF ContentsInv, DoneOK, DoneHolds
  <2>3. backups[backups[b].base].content[f] = "whole" => backups[backups[b].base].archive[f] = "whole"
    BY <2>1, <2>2 DEF Held
  <2>4. /\ f \notin backups[b].deleted
        /\ \/ backups[b].archive[f] = "whole"
           \/ backups[b].archive[f] = "none" /\ backups[backups[b].base].archive[f] = "whole"
    BY <1>1, <1>3, <2>3 DEF Held
  <2>5. Staging(b)[f] = IF f \in backups[b].deleted THEN "none"
                        ELSE IF backups[b].archive[f] # "none" THEN backups[b].archive[f]
                        ELSE backups[backups[b].base].archive[f]
    BY <1>3 DEF Staging
  <2> QED BY <2>4, <2>5
<1> QED BY <1>2, <1>3

LEMMA StagingNamed ==
    ASSUME ContentsInv, NEW b \in Backups, Done(b), NEW f \in Files, Staging(b)[f] # "none"
    PROVE  f \in named
<1>1. backups[b] \in Backup /\ (backups[b].base # NoBackup => backups[b].base \in Backups)
  BY DEF ContentsInv, FilesInv, TypeOK, Backup
<1>2. Staging(b)[f] = backups[b].archive[f] \/ (backups[b].base # NoBackup /\ Staging(b)[f] = backups[backups[b].base].archive[f])
  BY DEF Staging
<1> QED BY <1>1, <1>2 DEF ContentsInv, NamesGiven

\* The pre-restore backup has all that is there.
LEMMA PreRestoreContents ==
    ASSUME ContentsInv, FilesInv', NEW b \in Backups, NEW pre \in Backups, RestoreBegin(b, pre),
           \A f \in Files : media'[f] # "none" => f \in named
    PROVE  /\ ContentsInv' /\ backups'[pre] = PreRestore
           /\ \A c \in Backups : ~Done(c) /\ Done(c)' => c = pre
<1>1. /\ job.step = "idle" /\ \A r \in Requests : At(r, "idle")
      /\ ~Done(pre) /\ backups' = [backups EXCEPT ![pre] = PreRestore]
      /\ UNCHANGED <<named, requests, unlinkErrors, job>>
  BY DEF RestoreBegin, Quiet, NextBackup, Done
<1>2. /\ media \in [Files -> Contents] /\ TypeOK
  BY DEF ContentsInv, FilesInv, TypeOK, DocTypeOK
<1>3. /\ PreRestore \in Backup /\ PreRestore.archive = media /\ PreRestore.content = media
      /\ PreRestore.state = "done" /\ PreRestore.base = NoBackup
  BY <1>2, PreRestoreType DEF PreRestore, Empty
<1>4. \A f \in Files : PreRestore.archive[f] # "none" => f \in named
  BY <1>3 DEF ContentsInv, NamesGiven
<1>5. /\ backups'[pre] = PreRestore
      /\ \A c \in Backups : c # pre => backups'[c] = backups[c] /\ SameFiles(c)
      /\ \A f \in Files, c \in Backups : backups'[c].archive[f] # "none" => f \in named'
      /\ BasesDone'
      /\ \A c \in Backups : Done(c) => DoneHolds(c)'
  BY <1>1, <1>3, <1>4, OneBackupContents
<1>6. DoneHolds(pre)'
  BY <1>3, <1>5 DEF DoneHolds, Held, Packed, Differs, GoneListed
<1>7. DoneOK'
  BY <1>5, <1>6 DEF DoneOK, Done
<1>8. NamesGiven' /\ WritingPartial' /\ JobOK'
  BY <1>1, <1>5 DEF NamesGiven, WritingPartial, JobOK, At
<1> QED BY <1>5, <1>7, <1>8 DEF ContentsInv, Done

LEMMA RestoreContents ==
    ASSUME ContentsInv, NEW b \in Backups, NEW pre \in Backups, Restore(b, pre) \/ RestoreRefused(b, pre)
    PROVE  /\ ContentsInv' /\ backups'[pre] = PreRestore
           /\ \A c \in Backups : ~Done(c) /\ Done(c)' => c = pre
<1>1. FilesInv' /\ RestoreBegin(b, pre) /\ Done(b)
  BY RestoreInv, RestoreRefusedInv DEF ContentsInv, Restore, RestoreRefused, RestoreBegin
<1>2. \A f \in Files : media'[f] # "none" => f \in named
  BY <1>1, StagingNamed DEF Restore, RestoreRefused, ContentsInv, NamesGiven
<1> QED BY <1>1, <1>2, PreRestoreContents

LEMMA InitContents == Init => ContentsInv
<1> SUFFICES ASSUME Init PROVE ContentsInv
  OBVIOUS
<1>1. FilesInv
  BY InitInv
<1>2. \A b \in Backups : backups[b].state = "none" /\ \A f \in Files : backups[b].archive[f] = "none"
  BY EmptyFacts DEF Init
<1>3. job.step = "idle" /\ (\A f \in Files : media[f] = "none") /\ \A r \in Requests : At(r, "idle")
  BY DEF Init, DocInit, NoJob, Idle, At
<1> QED BY <1>1, <1>2, <1>3 DEF ContentsInv, NamesGiven, WritingPartial, BasesDone, DoneOK, JobOK, Done, At

LEMMA NextContents == ContentsInv /\ [Next]_vars => ContentsInv'
<1> SUFFICES ASSUME ContentsInv, [Next]_vars PROVE ContentsInv'
  OBVIOUS
<1>1. CASE DocumentStep /\ Watched
  BY <1>1, WatchedContents
<1>2. CASE BackupStep
  BY <1>2, BackupStepContents
<1>3. CASE RestoreStep
  BY <1>3, RestoreContents DEF RestoreStep
<1>4. CASE UNCHANGED vars
  <2>1. UNCHANGED <<docs, media, named, requests, unlinkErrors, mtime, backups, job, restores>>
    BY <1>4 DEF vars, docVars
  <2>2. FilesInv'
    BY NextInv DEF ContentsInv
  <2>3. \A c \in Backups : SameFiles(c) /\ (backups[c].base # NoBackup => SameFiles(backups[c].base))
    BY <2>1 DEF SameFiles
  <2>4. DoneOK'
    BY <2>1, <2>3, HeldStays DEF ContentsInv, DoneOK, DoneHolds, Done
  <2>5. NamesGiven' /\ WritingPartial' /\ BasesDone'
    BY <2>1 DEF ContentsInv, NamesGiven, WritingPartial, BasesDone, At, Done
  <2>6. JobOK'
    <3>1. UNCHANGED <<DumpSettled, Dumped, ContentSettled>> /\ DumpCovered(job.todo)' = DumpCovered(job.todo)
          /\ DumpCovered({})' = DumpCovered({})
      BY <2>1 DEF DumpSettled, Dumped, ContentSettled, DumpCovered, Running, NoWriter, Settled, At
    <3>2. Inventoried => Inventoried'
      BY <2>1, <3>1 DEF Inventoried, Running
    <3>3. Archived => Archived'
      BY <2>1, <3>1 DEF Archived, Running, Held, Differs, Packed, GoneListed
    <3> QED BY <2>1, <3>1, <3>2, <3>3 DEF ContentsInv, JobOK
  <2> QED BY <2>2, <2>4, <2>5, <2>6 DEF ContentsInv
<1> QED BY <1>1, <1>2, <1>3, <1>4 DEF Next

\* The step that ends a backup: what is in it when its manifest is written.
LEMMA CoveredStep ==
    ASSUME ContentsInv, Next, NEW b \in Backups, ~Done(b), Done(b)',
           NEW d \in Docs, Listed(d), HasFile(d), backups'[b].dump[d] = docs[d]
    PROVE  docs[d].file \in Files /\ backups'[b].content[docs[d].file] = "whole"
<1>1. docs[d].file # NoFile /\ docs[d].file \in Files /\ media[docs[d].file] = "whole"
  BY DEF Listed, Exists, HasFile, ContentsInv, FilesInv, TypeOK, DocTypeOK, Row
<1>2. CASE BackupPublish
  <2>1. b = job.id /\ backups'[b].dump = Running.dump
    BY <1>2, PublishContents, BackupStepInv DEF BackupStep, ContentsInv
  <2>2. backups'[b].content[docs[d].file] = "whole"
    BY <1>1, <1>2, <2>1, PublishContents, BackupStepInv DEF BackupStep, ContentsInv
  <2> QED BY <1>1, <2>2
<1>3. CASE RestoreStep
  <2>1. PICK pre \in Backups : backups'[pre] = PreRestore /\ b = pre
    BY <1>3, RestoreContents DEF RestoreStep
  <2>2. PreRestore.content = media
    BY DEF PreRestore, Empty
  <2> QED BY <1>1, <2>1, <2>2
<1>4. CASE DocumentStep /\ Watched
  BY <1>4, WatchedContents
<1>5. ~BackupFails
  BY BackupFailsContents, BackupStepInv DEF BackupStep, ContentsInv
<1>6. ASSUME BackupStep, ~BackupPublish, ~BackupFails PROVE Done(b)
  <2>1. ASSUME NEW c \in Backups, NEW base, BackupDump(c, base) PROVE Done(b)
    <3>1. backups'[b] = backups[b] \/ backups'[b].state = "running"
      BY <2>1 DEF BackupDump, Empty, ContentsInv, FilesInv, TypeOK
    <3> QED BY <3>1 DEF Done
  <2>2. CASE InventoryBegin
    BY <2>2 DEF InventoryBegin, Done
  <2>3. ASSUME NEW new, job.step # "idle", backups' = [backups EXCEPT ![job.id] = new], new.state = Running.state PROVE Done(b)
    BY <2>3, RunningFacts DEF ContentsInv, FilesInv, TypeOK, Done, Running
  <2>4. ASSUME NEW f \in Files, InventoryFile(f) PROVE Done(b)
    <3>1. Running \in Backup /\ job.step # "idle"
      BY <2>4, RunningFacts DEF InventoryFile
    <3>2. [Running EXCEPT !.content = [Running.content EXCEPT ![f] = media[f]],
                          !.stamp = [Running.stamp EXCEPT ![f] = mtime[f]]].state = Running.state
      BY <3>1 DEF Backup
    <3> QED BY <2>3, <2>4, <3>1, <3>2 DEF InventoryFile, Running
  <2>5. CASE ArchiveBegin
    <3>1. Running \in Backup /\ job.step # "idle"
      BY <2>5, RunningFacts DEF ArchiveBegin
    <3>2. [Running EXCEPT !.deleted = DeletedFiles].state = Running.state
      BY <3>1 DEF Backup
    <3> QED BY <2>3, <2>5, <3>1, <3>2 DEF ArchiveBegin, Running
  <2>6. ASSUME NEW f \in Files, ArchiveFile(f) PROVE Done(b)
    <3> DEFINE archive == [Running.archive EXCEPT ![f] = media[f]]
               content == [g \in Files |-> IF g = f /\ media[f] = "none" THEN "none" ELSE Running.content[g]]
    <3>1. Running \in Backup /\ job.step # "idle"
      BY <2>6, RunningFacts DEF ArchiveFile
    <3>2. [Running EXCEPT !.archive = archive, !.content = content].state = Running.state
      BY <3>1 DEF Backup
    <3> QED BY <2>3, <2>6, <3>1, <3>2 DEF ArchiveFile, Running
  <2> QED BY <1>6, <2>1, <2>2, <2>4, <2>5, <2>6 DEF BackupStep
<1> QED BY <1>2, <1>3, <1>4, <1>5, <1>6 DEF Next

LEMMA QuietStaging ==
    ASSUME ContentsInv, NEW b \in Backups, Done(b), backups[b].quiet,
           backups[b].base # NoBackup => backups[backups[b].base].quiet
    PROVE  Staging(b) = backups[b].content
<1>1. /\ backups[b] \in Backup /\ Packed(b, {}) /\ GoneListed(b)
      /\ backups[b].content \in [Files -> Contents] /\ backups[b].archive \in [Files -> Contents]
  BY DEF ContentsInv, DoneOK, DoneHolds, FilesInv, TypeOK, Backup
<1>2. CASE backups[b].base = NoBackup
  <2>1. Staging(b) = backups[b].archive
    BY <1>2 DEF Staging
  <2>2. \A f \in Files : backups[b].archive[f] = backups[b].content[f]
    BY <1>1, <1>2 DEF Packed, Differs
  <2> QED BY <1>1, <2>1, <2>2
<1>3. CASE backups[b].base # NoBackup
  <2>1. backups[b].base \in Backups /\ Done(backups[b].base) /\ backups[backups[b].base].base = NoBackup
    BY <1>1, <1>3 DEF Backup, ContentsInv, BasesDone, Done
  <2>2. Packed(backups[b].base, {})
    BY <1>3, <2>1 DEF ContentsInv, DoneOK, DoneHolds
  <2>3. \A f \in Files : backups[backups[b].base].archive[f] = backups[backups[b].base].content[f]
    BY <2>1, <2>2 DEF Packed, Differs
  <2>4. Staging(b) = [f \in Files |-> IF f \in backups[b].deleted THEN "none"
                                      ELSE IF backups[b].archive[f] # "none" THEN backups[b].archive[f]
                                      ELSE backups[backups[b].base].archive[f]]
    BY <1>3 DEF Staging
  <2>5. ASSUME NEW f \in Files PROVE Staging(b)[f] = backups[b].content[f]
    <3>1. backups[b].archive[f] = IF Differs(b, f) THEN backups[b].content[f] ELSE "none"
      BY <1>1 DEF Packed
    <3>2. f \in backups[b].deleted <=>
            backups[backups[b].base].content[f] # "none" /\ backups[b].content[f] = "none"
      BY <1>1, <1>3 DEF GoneListed
    <3>3. CASE Differs(b, f)
      BY <2>4, <3>1, <3>2, <3>3 DEF Differs
    <3>4. CASE ~Differs(b, f)
      <4>1. backups[b].content[f] = "none" \/ backups[b].content[f] = backups[backups[b].base].content[f]
        BY <1>3, <3>4 DEF Differs
      <4> QED BY <2>3, <2>4, <3>1, <3>2, <3>4, <4>1
    <3> QED BY <3>3, <3>4
  <2> QED BY <1>1, <2>4, <2>5
<1> QED BY <1>2, <1>3

(***************************************************************************)
(* Every variable stays in its type.                                       *)
(***************************************************************************)
THEOREM Typing == Spec => []TypeOK
<1>1. Init => FilesInv BY InitInv
<1>2. FilesInv /\ [Next]_vars => FilesInv' BY NextInv
<1>3. FilesInv => TypeOK BY DEF FilesInv
<1> QED BY <1>1, <1>2, <1>3, PTL DEF Spec

(***************************************************************************)
(* Uploads, edits, deletions, their failures, the cleanup and backups      *)
(* (documents/views.py, retention.py) never take the file of a document    *)
(* that users can see, however many requests run at once.                  *)
(***************************************************************************)
THEOREM FilesAreKept == Spec => FilesKeptBetweenRestores
<1>1. Init => FilesInv BY InitInv
<1>2. FilesInv /\ [Next]_vars => FilesInv' BY NextInv
<1>3. FilesInv /\ [Next]_vars => [restores' = restores => KeepsFiles]_vars BY NextInv
<1> QED BY <1>1, <1>2, <1>3, PTL DEF Spec, FilesKeptBetweenRestores

(***************************************************************************)
(* A document whose row stays as it is in the dump of a backup, and whose  *)
(* file is there when the manifest is written, has its file in what a      *)
(* restore of the backup extracts: of the archive of the backup or of that *)
(* of its baseline (_create_uploads_archive, _extract_uploads_to_staging). *)
(***************************************************************************)
THEOREM DocumentsAreCovered == Spec => UntouchedDocumentsCovered
<1> DEFINE Covered == \A b \in Backups : ~Done(b) /\ Done(b)' =>
                        \A d \in Docs : Listed(d) /\ HasFile(d) /\ backups'[b].dump[d] = docs[d] =>
                          Staging(b)'[docs[d].file] = "whole"
<1>1. ContentsInv /\ ContentsInv' /\ [Next]_vars => [Covered]_vars
  <2> SUFFICES ASSUME ContentsInv, ContentsInv', Next PROVE Covered
    OBVIOUS
  <2> SUFFICES ASSUME NEW b \in Backups, ~Done(b), Done(b)',
                      NEW d \in Docs, Listed(d), HasFile(d), backups'[b].dump[d] = docs[d]
               PROVE  Staging(b)'[docs[d].file] = "whole"
    OBVIOUS
  <2>1. PICK f \in Files : f = docs[d].file /\ backups'[b].content[f] = "whole"
    BY CoveredStep
  <2>2. (ContentsInv /\ Done(b) /\ backups[b].content[f] = "whole" => Staging(b)[f] = "whole")'
    BY WholeGivenBack, PTL
  <2> QED BY <2>1, <2>2
<1>2. Init => ContentsInv BY InitContents
<1>3. ContentsInv /\ [Next]_vars => ContentsInv' BY NextContents
<1> QED BY <1>1, <1>2, <1>3, PTL DEF Spec, UntouchedDocumentsCovered

(***************************************************************************)
(* What was packed while no upload changed comes back as its manifest says: *)
(* the pieces of an incremental backup and its baseline make up the whole  *)
(* (the check of _verify_uploads_contents succeeds).                       *)
(***************************************************************************)
THEOREM QuietBackupsComeBack == Spec => []QuietBackupsRestorable
<1>1. ContentsInv => QuietBackupsRestorable
  BY QuietStaging DEF QuietBackupsRestorable
<1>2. Init => ContentsInv BY InitContents
<1>3. ContentsInv /\ [Next]_vars => ContentsInv' BY NextContents
<1> QED BY <1>1, <1>2, <1>3, PTL DEF Spec
=============================================================================
