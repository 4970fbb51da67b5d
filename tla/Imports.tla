------------------------------- MODULE Imports -------------------------------
(***************************************************************************)
(* The import of shipments from Excel (app/imports/views.py): a file is    *)
(* uploaded and parsed into a temporary file, a job with a token is put    *)
(* into the session, and the confirmation of the preview inserts the rows. *)
(*                                                                         *)
(* The session is one dictionary. A request loads it whole at its start    *)
(* and the session middleware writes it back whole at its end, so requests *)
(* of several tabs, and of a double click, overwrite each other's jobs.    *)
(*                                                                         *)
(* Simplifications. One user with one session. A file is its own token and *)
(* its own temporary file (token_urlsafe and mkstemp do not repeat). Every *)
(* request is made once. Car and rail shipments are imported alike; a row  *)
(* is its duplicate key, or NoKey where the parser reports an error. What  *)
(* the user deletes stays deleted here.                                    *)
(***************************************************************************)
EXTENDS Naturals, FiniteSets, Sequences, SequencesExt

CONSTANTS
    Files, NoFile,  \* uploads, each of one file; no file
    Uploaded,       \* the uploads that have ended when the behaviour begins
    Confirms,       \* POST requests of the preview page
    Lines,          \* row numbers of a file
    Keys, NoKey,    \* duplicate keys of rows; no key, since the row has errors
    LinesOf,        \* [Files -> [Lines -> Keys \cup {NoKey}]]: contents of the files
    StoredAs,       \* [Keys -> Keys]: the column rounds amounts to three decimals
    MaxJobs,        \* IMPORT_JOBS_MAX
    MaxImportFaults \* bound on killed workers, failing statements and deletions

ASSUME ImportsAssumption ==
    /\ NoKey \notin Keys /\ NoFile \notin Files
    /\ LinesOf \in [Files -> [Lines -> Keys \cup {NoKey}]]
    /\ StoredAs \in [Keys -> Keys]
    /\ IsFiniteSet(Lines) /\ MaxJobs \in Nat \ {0}
    /\ MaxImportFaults \in Nat
    /\ Files \cap Confirms = {}
    /\ Uploaded \subseteq Files /\ IsFiniteSet(Uploaded) /\ Cardinality(Uploaded) <= MaxJobs

VARIABLES
    session,        \* the saved session: its jobs, in the order of insertion
    tmp,            \* temporary files: absent, fresh, or older than the TTL
    importing,      \* [Files \cup Confirms -> local state of the request]
    journal,        \* [Confirms -> ImportLog and ImportRowResult of the request]
    imported,       \* shipments inserted by imports
    importFaults    \* faults so far

importVars == <<session, tmp, importing, journal, imported, importFaults>>

ImportRequests == Files \cup Confirms

\* The rows an import inserts: the request and line they come from.
Shipment == [by: Confirms, line: Lines, key: Keys, deleted: BOOLEAN]

\* _get_import_status
ImportStatus(log) ==
    IF log.imported = 0 /\ log.errors > 0 THEN "error"
    ELSE IF log.skipped + log.duplicates + log.errors > 0 THEN "partial" ELSE "success"

NoLog == [status |-> "none", imported |-> 0, skipped |-> 0, duplicates |-> 0, errors |-> 0, results |-> 0]

\* _create_initial_import_log
InitialLog == [NoLog EXCEPT !.status = "error"]

\* Local state: where the request is, its copy of the session, the file, the
\* duplicates it found and the rows the user chose. "after" is history: the
\* requests that had ended when it loaded the session, and "saw" the
\* confirmations whose rows its search for duplicates could find.
Idle == [pc |-> "new", jobs |-> <<>>, file |-> NoFile, dups |-> {}, chosen |-> {}, after |-> {}, saw |-> {}]

Ended(r) == importing[r].pc \in {"done", "killed"}

Update(r, fields) == importing' = [importing EXCEPT ![r] = fields]

\* _get_import_job
HasJob(jobs, f) == f \in {jobs[i] : i \in DOMAIN jobs}

\* _clear_import_job: the keys of a dictionary are distinct.
Without(jobs, f) ==
    IF HasJob(jobs, f) THEN RemoveAt(jobs, CHOOSE i \in DOMAIN jobs : jobs[i] = f) ELSE jobs

\* Mutant: one job too many is kept.
EvictedCountLate(jobs) == IF Len(jobs) > MaxJobs THEN Len(jobs) - MaxJobs + 1 ELSE 0

\* Jobs that _store_import_job evicts, the earliest first.
EvictedCount(jobs) == IF Len(jobs) >= MaxJobs THEN Len(jobs) - MaxJobs + 1 ELSE 0
Evicted(jobs) == {jobs[i] : i \in 1..EvictedCount(jobs)}

\* _store_import_job
WithJob(jobs, f) == Append(SubSeq(jobs, EvictedCount(jobs) + 1, Len(jobs)), f)

\* _delete_import_tmp: a file that is gone already is no error.
DeleteTmp(g) == [f \in Files |-> IF f = g THEN "absent" ELSE tmp[f]]

\* _find_existing_duplicate_keys: undeleted shipments with one of the keys.
\* The amount of a row is compared as it is in the file, the one of a shipment
\* as the column has rounded it.
ExistingKeys == {s.key : s \in {t \in imported : ~t.deleted}}

\* Mutant: the rows are compared when the file is uploaded, not again.
NoDuplicates(f) == {}

\* detect_duplicates
Duplicates(f) == {l \in Lines : LinesOf[f][l] \in ExistingKeys}

-----------------------------------------------------------------------------

ImportsInit ==
    /\ session = SetToSeq(Uploaded)
    /\ tmp = [f \in Files |-> IF f \in Uploaded THEN "fresh" ELSE "absent"]
    /\ importing = [r \in ImportRequests |->
                      IF r \in Uploaded THEN [Idle EXCEPT !.pc = "done", !.file = r] ELSE Idle]
    /\ journal = [c \in Confirms |-> NoLog]
    /\ imported = {}
    /\ importFaults = 0

\* LoginRequiredMixin reads the session before the handler runs.
SessionLoaded(r, pc, f) ==
    [Idle EXCEPT !.pc = pc, !.jobs = session, !.file = f, !.after = {q \in ImportRequests : Ended(q)}]

\* ImportUploadView.post begins; parsing takes a while. A file that the checks
\* or the parser refuse changes nothing.
UploadBegin(f) ==
    /\ importing[f].pc = "new"
    /\ \E pc \in {"parsing", "done"} : Update(f, SessionLoaded(f, pc, f))
    /\ UNCHANGED <<session, tmp, journal, imported, importFaults>>

\* _cleanup_import_tmp, _write_import_tmp, and _store_import_job in memory.
UploadStore(f) ==
    LET jobs == importing[f].jobs IN
    /\ importing[f].pc = "parsing"
    /\ tmp' = [g \in Files |->
                IF g = f THEN "fresh"
                ELSE IF tmp[g] = "old" \/ g \in Evicted(jobs) THEN "absent" ELSE tmp[g]]
    /\ Update(f, [importing[f] EXCEPT !.pc = "answering", !.jobs = WithJob(jobs, f)])
    /\ UNCHANGED <<session, journal, imported, importFaults>>

\* The write of the temporary file fails: the partial file is removed, the page
\* of the upload is rendered again.
UploadFails(f) ==
    /\ importing[f].pc = "parsing"
    /\ importFaults < MaxImportFaults
    /\ importFaults' = importFaults + 1
    /\ tmp' = [g \in Files |-> IF tmp[g] = "old" THEN "absent" ELSE tmp[g]]
    /\ Update(f, [importing[f] EXCEPT !.pc = "done"])
    /\ UNCHANGED <<session, journal, imported>>

\* SessionMiddleware.process_response: session.modified is set.
Respond(r) ==
    /\ importing[r].pc = "answering"
    /\ session' = importing[r].jobs
    /\ Update(r, [importing[r] EXCEPT !.pc = "done"])
    /\ UNCHANGED <<tmp, journal, imported, importFaults>>

\* ImportPreviewView.post (get is the same up to ConfirmRead): the page of the
\* preview is one the user was sent to, so the upload has been answered.
ConfirmBegin(c) ==
    /\ importing[c].pc = "new"
    /\ \E f \in Files :
         /\ importing[f].pc = "done"
         /\ Update(c, SessionLoaded(c, IF HasJob(session, f) THEN "loaded" ELSE "done", f))
    /\ UNCHANGED <<session, tmp, journal, imported, importFaults>>

\* _read_import_tmp finds nothing: the job is dropped.
ConfirmTmpMissing(c) ==
    /\ importing[c].pc = "loaded"
    /\ tmp[importing[c].file] = "absent"
    /\ Update(c, [importing[c] EXCEPT !.pc = "answering", !.jobs = Without(@, importing[c].file)])
    /\ UNCHANGED <<session, tmp, journal, imported, importFaults>>

\* The rows are read and compared with the shipments. The request ends here when
\* it is the GET of the page, or no row was chosen.
ConfirmRead(c) ==
    /\ importing[c].pc = "loaded"
    /\ tmp[importing[c].file] # "absent"
    /\ \E chosen \in SUBSET Lines :
         Update(c, [importing[c] EXCEPT
            !.pc = IF chosen = {} THEN "done" ELSE "read", !.chosen = chosen,
            !.dups = Duplicates(importing[c].file),
            !.saw = {d \in Confirms : \E s \in imported : s.by = d}])
    /\ UNCHANGED <<session, tmp, journal, imported, importFaults>>

\* Mutant: the session is saved with the answer only.
ConfirmTakeLater(c) ==
    /\ importing[c].pc = "read"
    /\ Update(c, [importing[c] EXCEPT !.pc = "taken", !.jobs = Without(@, importing[c].file)])
    /\ UNCHANGED <<session, tmp, journal, imported, importFaults>>

\* _clear_import_job and the immediate session.save().
ConfirmTake(c) ==
    /\ importing[c].pc = "read"
    /\ session' = Without(importing[c].jobs, importing[c].file)
    /\ Update(c, [importing[c] EXCEPT !.pc = "taken", !.jobs = session'])
    /\ UNCHANGED <<tmp, journal, imported, importFaults>>

\* _create_initial_import_log
ConfirmLog(c) ==
    /\ importing[c].pc = "taken"
    /\ journal' = [journal EXCEPT ![c] = InitialLog]
    /\ Update(c, [importing[c] EXCEPT !.pc = "logged"])
    /\ UNCHANGED <<session, tmp, imported, importFaults>>

KeyOf(c, l) == LinesOf[importing[c].file][l]

\* _process_import_row: what becomes of a line; "broken" are the inserts that
\* raise, each within a savepoint of its own.
LinesThat(c, outcome, broken) ==
    LET own == importing[c]
        Outcome(l) == IF l \in own.dups THEN "duplicate"
                      ELSE IF KeyOf(c, l) = NoKey THEN "error"
                      ELSE IF l \notin own.chosen THEN "skipped"
                      ELSE IF l \in broken THEN "error" ELSE "created"
    IN  {l \in Lines : Outcome(l) = outcome}

\* _create_imported_shipment for every row of the batch that is created.
Created(c, broken) ==
    {[by |-> c, line |-> l, key |-> StoredAs[KeyOf(c, l)], deleted |-> FALSE] :
        l \in LinesThat(c, "created", broken)}

\* _apply_import_counters and the ImportRowResult rows of the batch.
BatchLog(c, broken) ==
    LET count(outcome) == Cardinality(LinesThat(c, outcome, broken))
        log == [InitialLog EXCEPT !.imported = count("created"), !.skipped = count("skipped"),
                    !.duplicates = count("duplicate"), !.errors = count("error"),
                    !.results = Cardinality(Lines)]
    IN  [log EXCEPT !.status = ImportStatus(log)]

\* _process_import_rows: shipments, audit, results and the final log in one
\* transaction.
ConfirmBatch(c) ==
    /\ importing[c].pc = "logged"
    /\ \E broken \in SUBSET LinesThat(c, "created", {}) :
         /\ importFaults + Cardinality(broken) <= MaxImportFaults
         /\ importFaults' = importFaults + Cardinality(broken)
         /\ imported' = imported \cup Created(c, broken)
         /\ journal' = [journal EXCEPT ![c] = BatchLog(c, broken)]
    /\ Update(c, [importing[c] EXCEPT !.pc = "closing"])
    /\ UNCHANGED <<session, tmp>>

\* Mutant: the rows are inserted without a transaction around the batch.
ConfirmBatchFailsLate(c) ==
    /\ importing[c].pc = "logged"
    /\ importFaults < MaxImportFaults
    /\ importFaults' = importFaults + 1
    /\ imported' = imported \cup Created(c, {})
    /\ Update(c, [importing[c] EXCEPT !.pc = "failed"])
    /\ UNCHANGED <<session, tmp, journal>>

\* The transaction is rolled back.
ConfirmBatchFails(c) ==
    /\ importing[c].pc = "logged"
    /\ importFaults < MaxImportFaults
    /\ importFaults' = importFaults + 1
    /\ Update(c, [importing[c] EXCEPT !.pc = "failed"])
    /\ UNCHANGED <<session, tmp, journal, imported>>

\* _mark_import_batch_error: the counters first, then the results.
ConfirmMarkError(c) ==
    /\ importing[c].pc = "failed"
    /\ journal' = [journal EXCEPT ![c].errors = Cardinality(LinesThat(c, "created", {}))]
    /\ Update(c, [importing[c] EXCEPT !.pc = "marked"])
    /\ UNCHANGED <<session, tmp, imported, importFaults>>

ConfirmMarkResults(c) ==
    /\ importing[c].pc = "marked"
    /\ journal' = [journal EXCEPT ![c].results = journal[c].errors]
    /\ Update(c, [importing[c] EXCEPT !.pc = "closing"])
    /\ UNCHANGED <<session, tmp, imported, importFaults>>

\* A statement outside of the batch raises: the answer is an error page, which
\* does not save the session; the finally clause still runs.
ConfirmRaises(c) ==
    /\ importing[c].pc \in {"taken", "failed", "marked"}
    /\ importFaults < MaxImportFaults
    /\ importFaults' = importFaults + 1
    /\ tmp' = DeleteTmp(importing[c].file)
    /\ Update(c, [importing[c] EXCEPT !.pc = "done"])
    /\ UNCHANGED <<session, journal, imported>>

\* The finally clause.
ConfirmClose(c) ==
    /\ importing[c].pc = "closing"
    /\ tmp' = DeleteTmp(importing[c].file)
    /\ Update(c, [importing[c] EXCEPT !.pc = "answering"])
    /\ UNCHANGED <<session, journal, imported, importFaults>>

\* The worker is killed (gunicorn timeout, restart): an open transaction is
\* rolled back, finally clauses do not run.
ImportKilled(r) ==
    /\ importing[r].pc \notin {"new", "done", "killed"}
    /\ importFaults < MaxImportFaults
    /\ importFaults' = importFaults + 1
    /\ Update(r, [importing[r] EXCEPT !.pc = "killed"])
    /\ UNCHANGED <<session, tmp, journal, imported>>

\* IMPORT_TMP_TTL_HOURS pass.
TmpAges(f) ==
    /\ tmp[f] = "fresh"
    /\ importFaults < MaxImportFaults
    /\ importFaults' = importFaults + 1
    /\ tmp' = [tmp EXCEPT ![f] = "old"]
    /\ UNCHANGED <<session, importing, journal, imported>>

\* The command cleanup_import_tmp.
CleanupTmp ==
    /\ \E f \in Files : tmp[f] = "old"
    /\ tmp' = [f \in Files |-> IF tmp[f] = "old" THEN "absent" ELSE tmp[f]]
    /\ UNCHANGED <<session, importing, journal, imported, importFaults>>

\* A user deletes an imported shipment.
DeleteImported(s) ==
    /\ ~s.deleted
    /\ importFaults < MaxImportFaults
    /\ importFaults' = importFaults + 1
    /\ imported' = (imported \ {s}) \cup {[s EXCEPT !.deleted = TRUE]}
    /\ UNCHANGED <<session, tmp, importing, journal>>

ConfirmNext(c) ==
    \/ ConfirmBegin(c) \/ ConfirmTmpMissing(c) \/ ConfirmRead(c) \/ ConfirmTake(c)
    \/ ConfirmLog(c) \/ ConfirmBatch(c) \/ ConfirmBatchFails(c)
    \/ ConfirmMarkError(c) \/ ConfirmMarkResults(c) \/ ConfirmRaises(c) \/ ConfirmClose(c)

ImportsNext ==
    \/ \E f \in Files : UploadBegin(f) \/ UploadStore(f) \/ UploadFails(f) \/ TmpAges(f)
    \/ \E c \in Confirms : ConfirmNext(c)
    \/ \E r \in ImportRequests : Respond(r) \/ ImportKilled(r)
    \/ CleanupTmp
    \/ \E s \in imported : DeleteImported(s)

ImportsSpec == ImportsInit /\ [][ImportsNext]_importVars

-----------------------------------------------------------------------------

\* Types of the variables.
ImportsTypeOK ==
    /\ \A i \in DOMAIN session : session[i] \in Files
    /\ tmp \in [Files -> {"absent", "fresh", "old"}]
    /\ \A r \in ImportRequests :
         /\ importing[r].pc \in {"new", "parsing", "answering", "loaded", "read", "taken", "logged", "failed",
                                 "marked", "closing", "done", "killed"}
         /\ importing[r].file \in Files \cup {NoFile}
         /\ Len(importing[r].jobs) <= MaxJobs
    /\ imported \subseteq Shipment
    /\ importFaults \in 0..MaxImportFaults

\* A row that was inserted before another confirmation looked for duplicates is
\* not inserted by that one again, unless its amount has more decimals than the
\* column: then _find_existing_duplicate_keys compares it with what MariaDB has
\* rounded and never finds it.
RepeatedOnlyIfRounded ==
    \A s, t \in imported :
        /\ s.by # t.by /\ s.key = t.key /\ ~s.deleted
        /\ s.by \in importing[t.by].saw
        => StoredAs[KeyOf(t.by, t.line)] # KeyOf(t.by, t.line)

\* An upload is processed again by a confirmation that came after one that had
\* processed it only if that one was killed, and if a third request of the same
\* session, open at that time, has put the token back (V19-LOW-3).
Processed(c, f) == importing[c].file = f /\ journal[c] # NoLog
Overlapped(c, x) ==
    /\ importing[x].pc # "new"
    /\ c \notin importing[x].after /\ x \notin importing[c].after

ProcessedAgainOnlyAfterKill ==
    \A c, d \in Confirms, f \in Files :
        /\ c # d /\ Processed(c, f) /\ Processed(d, f) /\ c \in importing[d].after
        => /\ importing[c].pc = "killed"
           /\ \E x \in ImportRequests \ {c, d} : Overlapped(c, x)

\* Nothing of a file is imported twice, but for the two reasons above.
ImportedOnce == RepeatedOnlyIfRounded /\ ProcessedAgainOnlyAfterKill

\* At every moment, whatever failed or was killed, the log of an import counts
\* the shipments it has inserted; a finished log accounts for every row, and one
\* of status success has inserted them all.
JournalMatchesShipments ==
    \A c \in Confirms :
        LET log == journal[c] IN
        /\ log.imported = Cardinality({s \in imported : s.by = c})
        /\ log.imported > 0 \/ log.status \in {"success", "partial"} =>
             /\ log.imported + log.skipped + log.duplicates + log.errors = Cardinality(Lines)
             /\ log.results = Cardinality(Lines)
        /\ log.status = "success" => log.imported = Cardinality(Lines)
        /\ log.results > 0 /\ log.status = "error" => log.results = log.errors \/ log.results = Cardinality(Lines)
=============================================================================
