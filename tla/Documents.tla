----------------------------- MODULE Documents -----------------------------
(***************************************************************************)
(* Documents attached to shipments, app/documents/views.py, and the        *)
(* cleanup of deleted ones, app/core/system_ops/retention.py: rows of      *)
(* ShipmentDocument against the files under MEDIA_ROOT they name.  No      *)
(* transaction covers both, and requests run concurrently.                 *)
(*                                                                         *)
(* Simplifications                                                         *)
(*   - A request is modelled from where it has passed its checks; the      *)
(*     shipment exists.  An edit of the type alone updates one column that *)
(*     nothing here depends on and is left out.                            *)
(*   - Deletion reads and updates the two columns of one row: a step.      *)
(*   - A file is partial from open() until its last chunk is written.      *)
(*   - DELETED_DOCUMENT_FILE_KEEP_DAYS, 30, is an event (Expire) that does *)
(*     not happen to a document while a request that read it is running.   *)
(***************************************************************************)
EXTENDS Naturals

CONSTANTS
    Docs,            \* primary keys of ShipmentDocument
    Files,           \* stored names, uuid4().hex and the extension
    NoFile,          \* no row, or nothing to unlink
    NoDoc,           \* a request that inserts its row
    Requests,        \* upload and edit requests that carry a file
    MaxUnlinkErrors  \* bound on failing unlinks of a replaced file

ASSUME DocumentsAssumption == NoFile \notin Files /\ NoDoc \notin Docs /\ MaxUnlinkErrors \in Nat

VARIABLES
    docs,         \* docs[d]: the row d
    media,        \* media[f]: what is in the file f under MEDIA_ROOT
    named,        \* names that uuid4 has returned so far
    requests,     \* requests[r]: local variables of request r
    unlinkErrors  \* failed unlinks so far

docVars == <<docs, media, named, requests, unlinkErrors>>

Contents == {"none", "partial", "whole"}

Row == [file: Files \cup {NoFile}, deleted: {"no", "recently", "long ago"}, purged: BOOLEAN]
FreshRow(f) == [file |-> f, deleted |-> "no", purged |-> FALSE]
NoRow == FreshRow(NoFile)

Request == [step: {"idle", "writing", "saving", "unlinking"},
            doc: Docs \cup {NoDoc}, old: Files \cup {NoFile}, file: Files \cup {NoFile}]
Idle == [step |-> "idle", doc |-> NoDoc, old |-> NoFile, file |-> NoFile]

DocTypeOK ==
    /\ docs \in [Docs -> Row]
    /\ media \in [Files -> Contents]
    /\ named \subseteq Files
    /\ requests \in [Requests -> Request]
    /\ \A r \in Requests : requests[r].step # "idle" => requests[r].file \in Files
    /\ \A r \in Requests : requests[r].step = "unlinking" => requests[r].doc # NoDoc
    /\ \A r \in Requests : requests[r].doc # NoDoc => requests[r].old \in Files
    /\ unlinkErrors \in 0..MaxUnlinkErrors

DocInit ==
    /\ docs = [d \in Docs |-> NoRow]
    /\ media = [f \in Files |-> "none"]
    /\ named = {}
    /\ requests = [r \in Requests |-> Idle]
    /\ unlinkErrors = 0

Exists(d) == docs[d].file # NoFile

\* What get_object_or_404(ShipmentDocument, pk=pk, is_deleted=False) finds.
Listed(d) == Exists(d) /\ docs[d].deleted = "no"

\* DocumentServeView can answer with the file.
HasFile(d) == media[docs[d].file] = "whole"

(***************************************************************************)
(* Upload and edit.                                                        *)
(***************************************************************************)

At(r, step) == requests[r].step = step

StartWriting(r, d, old) ==
    /\ At(r, "idle")
    /\ \E f \in Files \ named :
          /\ named' = named \cup {f}
          /\ media' = [media EXCEPT ![f] = "partial"]
          /\ requests' = [requests EXCEPT ![r] = [step |-> "writing", doc |-> d, old |-> old, file |-> f]]
    /\ UNCHANGED <<docs, unlinkErrors>>

UploadBegin(r) == StartWriting(r, NoDoc, NoFile)

\* DocumentEditView reads the row: it is what doc.save() writes back later.
EditBegin(r, d) == Listed(d) /\ StartWriting(r, d, docs[d].file)

FileWritten(r) ==
    /\ At(r, "writing")
    /\ media' = [media EXCEPT ![requests[r].file] = "whole"]
    /\ requests' = [requests EXCEPT ![r] = [@ EXCEPT !.step = "saving"]]
    /\ UNCHANGED <<docs, named, unlinkErrors>>

\* dest.unlink(missing_ok=True)
DropNewFile(r) ==
    /\ media' = [media EXCEPT ![requests[r].file] = "none"]
    /\ requests' = [requests EXCEPT ![r] = Idle]
    /\ UNCHANGED <<docs, named>>

WriteFails(r) == At(r, "writing") /\ DropNewFile(r) /\ UNCHANGED unlinkErrors

CommitFails(r) == At(r, "saving") /\ DropNewFile(r) /\ UNCHANGED unlinkErrors

UploadCommit(r, d) ==
    /\ At(r, "saving")
    /\ requests[r].doc = NoDoc
    /\ ~Exists(d)
    /\ docs' = [docs EXCEPT ![d] = FreshRow(requests[r].file)]
    /\ requests' = [requests EXCEPT ![r] = Idle]
    /\ UNCHANGED <<media, named, unlinkErrors>>

\* doc.save() writes every column of the row as it was read, is_deleted too.
EditCommit(r) ==
    /\ At(r, "saving")
    /\ requests[r].doc # NoDoc
    /\ docs' = [docs EXCEPT ![requests[r].doc] = FreshRow(requests[r].file)]
    /\ requests' = [requests EXCEPT ![r] = [@ EXCEPT !.step = "unlinking"]]
    /\ UNCHANGED <<media, named, unlinkErrors>>

\* Mutant: the path is read when the callback runs.
UnlinkCurrent(r) ==
    /\ At(r, "unlinking")
    /\ media' = [f \in Files |-> IF f = docs[requests[r].doc].file THEN "none" ELSE media[f]]
    /\ requests' = [requests EXCEPT ![r] = Idle]
    /\ UNCHANGED <<docs, named, unlinkErrors>>

\* transaction.on_commit(lambda p=old_file_abs: p.unlink(missing_ok=True))
UnlinkOld(r) ==
    /\ At(r, "unlinking")
    /\ media' = [media EXCEPT ![requests[r].old] = "none"]
    /\ requests' = [requests EXCEPT ![r] = Idle]
    /\ UNCHANGED <<docs, named, unlinkErrors>>

\* An OSError of the callback leaves atomic() after the commit and meets the
\* handler for a transaction that failed.
UnlinkOldFails(r) ==
    /\ At(r, "unlinking")
    /\ media[requests[r].old] # "none"
    /\ unlinkErrors < MaxUnlinkErrors
    /\ unlinkErrors' = unlinkErrors + 1
    /\ DropNewFile(r)

\* gunicorn kills a worker after 120 seconds, or the container stops.
Kill(r) ==
    /\ ~At(r, "idle")
    /\ requests' = [requests EXCEPT ![r] = Idle]
    /\ UNCHANGED <<docs, media, named, unlinkErrors>>

(***************************************************************************)
(* Deletion and cleanup.                                                   *)
(***************************************************************************)

Delete(d) ==
    /\ Listed(d)
    /\ docs' = [docs EXCEPT ![d] = [@ EXCEPT !.deleted = "recently"]]
    /\ UNCHANGED <<media, named, requests, unlinkErrors>>

Expire(d) ==
    /\ Exists(d)
    /\ docs[d].deleted = "recently"
    /\ \A r \in Requests : requests[r].doc # d
    /\ docs' = [docs EXCEPT ![d] = [@ EXCEPT !.deleted = "long ago"]]
    /\ UNCHANGED <<media, named, requests, unlinkErrors>>

\* One candidate of _cleanup_deleted_document_files.
Cleanup(d) ==
    /\ Exists(d)
    /\ docs[d].deleted = "long ago"
    /\ ~docs[d].purged
    /\ media' = [media EXCEPT ![docs[d].file] = "none"]
    /\ docs' = [docs EXCEPT ![d] = [@ EXCEPT !.purged = TRUE]]
    /\ UNCHANGED <<named, requests, unlinkErrors>>

RequestStep(r) ==
    \/ UploadBegin(r)
    \/ \E d \in Docs : EditBegin(r, d)
    \/ FileWritten(r)
    \/ WriteFails(r)
    \/ \E d \in Docs : UploadCommit(r, d)
    \/ EditCommit(r)
    \/ CommitFails(r)
    \/ UnlinkOld(r)
    \/ UnlinkOldFails(r)
    \/ Kill(r)

(***************************************************************************)
(* No step takes the file away from a document that users can see, or lets *)
(* one appear without it.  A failed unlink does take the new file away,    *)
(* but leaves the one it replaced.                                         *)
(***************************************************************************)
LosesFile(d) ==
    /\ Listed(d)' /\ ~HasFile(d)'
    /\ ~(Listed(d) /\ ~HasFile(d) /\ docs'[d].file = docs[d].file)

OldVersionLeft(d) ==
    /\ unlinkErrors' # unlinkErrors
    /\ \E r \in Requests : At(r, "unlinking") /\ requests[r].doc = d /\ media'[requests[r].old] # "none"

KeepsFiles == \A d \in Docs : LosesFile(d) => OldVersionLeft(d)

=============================================================================
