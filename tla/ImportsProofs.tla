---------------------------- MODULE ImportsProofs -----------------------------
(***************************************************************************)
(* Proofs about Imports, for every number of files, confirmations, lines and *)
(* keys, and every limit on the jobs of a session.                         *)
(***************************************************************************)
EXTENDS ImportFlow, FiniteSetTheorems, SequenceTheorems, TLAPS

(***************************************************************************)
(* Imports: the jobs of a session                                          *)
(***************************************************************************)

\* Places behind the one that is taken out move up by one.
LEMMA MovedUp ==
    ASSUME NEW n \in Int, NEW k \in 1..n, NEW i \in Int, ~(i <= k - 1), i - (k - 1) \in 1..(n - k)
    PROVE  k + (i - (k - 1)) = i + 1 /\ i + 1 \in 1..n /\ ~(i < k)
OBVIOUS

\* A sequence without the element at k.
LEMMA RemovedAt ==
    ASSUME NEW S, NEW seq \in Seq(S), NEW k \in DOMAIN seq
    PROVE  /\ RemoveAt(seq, k) \in Seq(S) /\ Len(RemoveAt(seq, k)) <= Len(seq)
           /\ \A i \in DOMAIN RemoveAt(seq, k) :
                \E m \in DOMAIN seq : RemoveAt(seq, k)[i] = seq[m] /\ m = (IF i < k THEN i ELSE i + 1)
<1> DEFINE n == Len(seq)
           head == SubSeq(seq, 1, k - 1)
           tail == SubSeq(seq, k + 1, n)
<1>1. n \in Nat /\ DOMAIN seq = 1..n /\ seq \in [1..n -> S]
  BY LenProperties
<1>2. RemoveAt(seq, k) = head \o tail
  BY DEF RemoveAt
<1> HIDE DEF n
<1>3. k \in 1..n /\ \A i \in 1..n : seq[i] \in S
  BY <1>1
<1>4. /\ head \in Seq(S) /\ Len(head) = k - 1
      /\ \A i \in 1..(k - 1) : head[i] = seq[i]
  <2>1. \A i \in 1..(k - 1) : seq[i] \in S
    BY <1>1, <1>3
  <2>2. /\ SubSeq(seq, 1, k - 1) \in Seq(S)
        /\ Len(SubSeq(seq, 1, k - 1)) = IF 1 <= k - 1 THEN (k - 1) - 1 + 1 ELSE 0
        /\ \A i \in 1..((k - 1) - 1 + 1) : SubSeq(seq, 1, k - 1)[i] = seq[1 + i - 1]
    <3>1. k - 1 \in Int /\ 1 \in Int
      BY <1>1, <1>3
    <3> HIDE DEF head, tail
    <3> QED BY <2>1, <3>1, SubSeqProperties
  <2> QED BY <2>2, <1>1, <1>3
<1>5. /\ tail \in Seq(S) /\ Len(tail) = n - k
      /\ \A i \in 1..(n - k) : tail[i] = seq[k + i]
  <2>1. \A i \in (k + 1)..n : seq[i] \in S
    BY <1>1, <1>3
  <2>2. /\ SubSeq(seq, k + 1, n) \in Seq(S)
        /\ Len(SubSeq(seq, k + 1, n)) = IF k + 1 <= n THEN n - (k + 1) + 1 ELSE 0
        /\ \A i \in 1..(n - (k + 1) + 1) : SubSeq(seq, k + 1, n)[i] = seq[(k + 1) + i - 1]
    <3>1. k + 1 \in Int /\ n \in Int
      BY <1>1, <1>3
    <3> HIDE DEF head, tail
    <3> QED BY <2>1, <3>1, SubSeqProperties
  <2> QED BY <2>2, <1>1, <1>3
<1> HIDE DEF head, tail
<1>6. PICK a \in Nat, b \in Nat : a = Len(head) /\ b = Len(tail) /\ a = k - 1 /\ b = n - k
  BY <1>1, <1>3, <1>4, <1>5
<1>7. /\ head \o tail \in Seq(S) /\ Len(head \o tail) = a + b
      /\ \A i \in 1..(a + b) : (head \o tail)[i] = IF i <= a THEN head[i] ELSE tail[i - a]
  BY <1>4, <1>5, <1>6, ConcatProperties
<1>8. DOMAIN (head \o tail) = 1..(a + b)
  BY <1>7, LenProperties
<1>9. ASSUME NEW i \in 1..(a + b)
      PROVE  \E m \in 1..n : (head \o tail)[i] = seq[m] /\ m = (IF i < k THEN i ELSE i + 1)
  <2>1. CASE i <= a
    <3>1. (head \o tail)[i] = head[i] /\ i \in 1..(k - 1)
      BY <2>1, <1>1, <1>3, <1>6, <1>7
    <3>2. head[i] = seq[i] /\ i \in 1..n /\ i < k
      BY <3>1, <1>1, <1>3, <1>4
    <3> QED BY <3>1, <3>2
  <2>2. CASE ~(i <= a)
    <3>1. (head \o tail)[i] = tail[i - a] /\ i - a \in 1..(n - k)
      <4>1. (head \o tail)[i] = tail[i - a]
        BY <2>2, <1>7
      <4>2. i \in Int /\ a \in Int /\ b \in Int /\ a < i /\ i <= a + b /\ b = n - k
        BY <2>2, <1>6
      <4>3. i - a \in 1..b
        BY <4>2
      <4> QED BY <4>1, <4>2, <4>3
    <3>2. k + (i - a) = i + 1 /\ i + 1 \in 1..n /\ ~(i < k)
      <4>1. n \in Int /\ i \in Int /\ a = k - 1
        BY <1>1, <1>6
      <4> QED BY <4>1, <1>3, <2>2, <3>1, MovedUp
    <3>3. tail[i - a] = seq[k + (i - a)]
      BY <3>1, <1>5
    <3> QED BY <3>1, <3>2, <3>3
  <2> QED BY <2>1, <2>2
<1>10. a + b <= n
  BY <1>1, <1>3, <1>6
<1>11. Len(RemoveAt(seq, k)) <= Len(seq)
  BY <1>2, <1>7, <1>10 DEF n
<1> QED BY <1>1, <1>2, <1>7, <1>8, <1>9, <1>11

Distinct(jobs) == \A i, j \in DOMAIN jobs : jobs[i] = jobs[j] => i = j

\* _clear_import_job removes the token, once and for all, and nothing else.
LEMMA JobsWithout ==
    ASSUME NEW jobs \in Seq(Files), Distinct(jobs), NEW f
    PROVE  /\ Without(jobs, f) \in Seq(Files) /\ Distinct(Without(jobs, f))
           /\ Len(Without(jobs, f)) <= Len(jobs)
           /\ ~HasJob(Without(jobs, f), f)
           /\ \A g : HasJob(Without(jobs, f), g) => HasJob(jobs, g)
<1>1. CASE ~HasJob(jobs, f)
  <2>1. Len(jobs) <= Len(jobs)
    BY LenProperties
  <2> QED BY <1>1, <2>1 DEF Without
<1>2. CASE HasJob(jobs, f)
  <2> DEFINE k == CHOOSE i \in DOMAIN jobs : jobs[i] = f
  <2>1. k \in DOMAIN jobs /\ jobs[k] = f
    BY <1>2 DEF HasJob
  <2>2. Without(jobs, f) = RemoveAt(jobs, k)
    BY <1>2 DEF Without
  <2> HIDE DEF k
  <2> DEFINE rest == RemoveAt(jobs, k)
  <2>3. rest \in Seq(Files) /\ Len(rest) <= Len(jobs) /\ \A i \in DOMAIN rest :
          \E m \in DOMAIN jobs : rest[i] = jobs[m] /\ m = (IF i < k THEN i ELSE i + 1)
    BY <2>1, RemovedAt
  <2> HIDE DEF rest
  <2>4. k \in Nat /\ DOMAIN rest \subseteq Nat
    <3>1. \A s \in Seq(Files) : DOMAIN s = 1..Len(s) /\ Len(s) \in Nat
      BY LenProperties
    <3> QED BY <3>1, <2>1, <2>3
  <2>5. \A i \in DOMAIN rest : rest[i] # f
    BY <2>1, <2>3, <2>4 DEF Distinct
  <2>6. Distinct(rest)
    BY <2>3, <2>4 DEF Distinct
  <2>7. \A g : HasJob(rest, g) => HasJob(jobs, g)
    BY <2>3 DEF HasJob
  <2>8. ~HasJob(rest, f)
    BY <2>5 DEF HasJob
  <2> QED BY <2>2, <2>3, <2>6, <2>7, <2>8 DEF rest
<1> QED BY <1>1, <1>2

\* _store_import_job adds the token of the upload and may evict others.
LEMMA JobsWith ==
    ASSUME ImportsAssumption, NEW jobs \in Seq(Files), Distinct(jobs), NEW f \in Files, ~HasJob(jobs, f)
    PROVE  /\ WithJob(jobs, f) \in Seq(Files) /\ Distinct(WithJob(jobs, f))
           /\ Len(WithJob(jobs, f)) <= MaxJobs
           /\ \A g : HasJob(WithJob(jobs, f), g) => HasJob(jobs, g) \/ g = f
<1> DEFINE n == Len(jobs)
           e == EvictedCount(jobs)
           kept == SubSeq(jobs, e + 1, n)
           new == Append(kept, f)
<1>1. n \in Nat /\ DOMAIN jobs = 1..n /\ jobs \in [1..n -> Files]
  BY LenProperties
<1>2. e = (IF n >= MaxJobs THEN n - MaxJobs + 1 ELSE 0)
  BY DEF EvictedCount
<1>3. WithJob(jobs, f) = new
  BY DEF WithJob
<1> HIDE DEF n, e
<1>4. MaxJobs \in Nat /\ MaxJobs > 0
  BY DEF ImportsAssumption
<1>5. e \in 0..n
  BY <1>1, <1>2, <1>4
<1>6. \A i \in (e + 1)..n : jobs[i] \in Files
  BY <1>1, <1>5
<1>7. /\ kept \in Seq(Files)
      /\ Len(kept) = IF e + 1 <= n THEN n - (e + 1) + 1 ELSE 0
      /\ \A i \in 1..(n - (e + 1) + 1) : kept[i] = jobs[(e + 1) + i - 1]
  BY <1>1, <1>5, <1>6, SubSeqProperties
<1> HIDE DEF kept
<1>8. Len(kept) = n - e /\ \A i \in 1..(n - e) : kept[i] = jobs[e + i] /\ e + i \in 1..n
  BY <1>1, <1>5, <1>7
<1>9. PICK b \in Nat : b = Len(kept) /\ b = n - e
  BY <1>1, <1>5, <1>8
<1>10. /\ new \in Seq(Files) /\ Len(new) = b + 1
       /\ \A i \in 1..b : new[i] = kept[i]
       /\ new[b + 1] = f
  BY <1>7, <1>9, AppendProperties
<1>11. DOMAIN new = 1..(b + 1)
  BY <1>10, LenProperties
<1> HIDE DEF new
<1>12. \A i \in 1..(b + 1) : i \in 1..b \/ i = b + 1
  OBVIOUS
<1>13. \A i \in 1..b : new[i] = jobs[e + i] /\ e + i \in DOMAIN jobs
  BY <1>1, <1>8, <1>9, <1>10
<1>14. \A i \in 1..b : new[i] # f
  BY <1>13 DEF HasJob
<1>15. Distinct(new)
  <2> SUFFICES ASSUME NEW i \in 1..(b + 1), NEW j \in 1..(b + 1), new[i] = new[j] PROVE i = j
    BY <1>11 DEF Distinct
  <2>1. CASE i \in 1..b /\ j \in 1..b
    <3>1. jobs[e + i] = jobs[e + j] /\ e + i \in DOMAIN jobs /\ e + j \in DOMAIN jobs
      BY <2>1, <1>13
    <3>2. e + i = e + j
      BY <3>1 DEF Distinct
    <3> QED BY <3>2, <1>5, <1>1
  <2> QED BY <2>1, <1>10, <1>12, <1>14
<1>16. \A g : HasJob(new, g) => HasJob(jobs, g) \/ g = f
  BY <1>10, <1>11, <1>12, <1>13 DEF HasJob
<1>17. Len(new) <= MaxJobs
  <2>1. b + 1 <= MaxJobs
    BY <1>1, <1>2, <1>4, <1>9
  <2> QED BY <1>10, <2>1
<1> QED BY <1>3, <1>10, <1>15, <1>16, <1>17

\* The jobs of the uploads of the beginning, in some order.
LEMMA UploadedJobs ==
    ASSUME ImportsAssumption
    PROVE  /\ SetToSeq(Uploaded) \in Seq(Files) /\ Distinct(SetToSeq(Uploaded))
           /\ Len(SetToSeq(Uploaded)) <= MaxJobs
           /\ \A g : HasJob(SetToSeq(Uploaded), g) => g \in Uploaded
<1> DEFINE n == Cardinality(Uploaded)
           Is(g) == g \in [1..n -> Uploaded] /\ IsInjective(g)
<1>1. n \in Nat /\ IsFiniteSet(Uploaded) /\ Uploaded \subseteq Files
  BY FS_CardinalityType DEF ImportsAssumption
<1>2. PICK h : h \in Bijection(1..n, Uploaded)
  BY <1>1, FS_CardinalityType DEF ExistsBijection
<1>3. Is(h)
  BY <1>2 DEF Bijection, Injection
<1>4. SetToSeq(Uploaded) = CHOOSE g \in [1..n -> Uploaded] : IsInjective(g)
  BY DEF SetToSeq
<1>5. Is(SetToSeq(Uploaded))
  BY <1>3, <1>4
<1>6. SetToSeq(Uploaded) \in Seq(Files) /\ Len(SetToSeq(Uploaded)) = n
  <2>1. SetToSeq(Uploaded) \in [1..n -> Files] /\ DOMAIN SetToSeq(Uploaded) = 1..n
    BY <1>1, <1>5
  <2> HIDE DEF n
  <2> QED BY <1>1, <2>1, SeqDef, LenProperties
<1> QED BY <1>1, <1>5, <1>6 DEF IsInjective, Distinct, HasJob, ImportsAssumption

ImportPcs == {"new", "parsing", "answering", "loaded", "read", "taken", "logged", "failed", "marked", "closing",
              "done", "killed"}
RequestRecord == [pc : ImportPcs, jobs : Seq(Files), file : Files \cup {NoFile}, dups : SUBSET Lines,
                  chosen : SUBSET Lines, after : SUBSET ImportRequests, saw : SUBSET Confirms]

Open(r) == importing[r].pc \notin {"new", "done", "killed"}
PastRead(c) == importing[c].pc \in {"read", "taken", "logged", "failed", "marked", "closing"} \/ journal[c] # NoLog
PastTake(c) == importing[c].pc \in {"taken", "logged", "failed", "marked", "closing"} \/ journal[c] # NoLog

\* A dictionary of jobs: keys are distinct, and those of uploads that came as far.
JobsOK(jobs) ==
    /\ jobs \in Seq(Files) /\ Distinct(jobs)
    /\ \A g \in Files : HasJob(jobs, g) => importing[g].pc \notin {"new", "parsing"}

\* A third request was open together with c.
SomeOverlapped(c) == \E x \in ImportRequests \ {c} : Overlapped(c, x)

\* What a request has loaded.
RequestOK(r) ==
    /\ importing[r] \in RequestRecord
    /\ JobsOK(importing[r].jobs)
    /\ \A q \in importing[r].after : Ended(q)

\* A confirmation, its file and its log.
ConfirmOK(c) ==
    /\ importing[c].pc # "new" => importing[c].file \in Files /\ importing[importing[c].file].pc = "done"
    /\ importing[c].pc \in {"loaded", "read"} => HasJob(importing[c].jobs, importing[c].file)
    /\ importing[c].pc \in {"new", "loaded", "read", "taken"} => journal[c] = NoLog
    /\ importing[c].pc \in {"answering", "done"} /\ journal[c] # NoLog => tmp[importing[c].file] = "absent"

\* The token of a confirmation is gone, unless an overlapping request has it.
TokenTaken(c) ==
    PastTake(c) =>
        /\ ~HasJob(importing[c].jobs, importing[c].file)
        /\ \/ SomeOverlapped(c)
           \/ /\ ~HasJob(session, importing[c].file)
              /\ \A r \in ImportRequests \ {c} : Open(r) => ~HasJob(importing[r].jobs, importing[c].file)

\* A confirmation after another one of the same file.
TakenAgain(c, d) ==
    c # d /\ c \in importing[d].after /\ importing[c].file = importing[d].file =>
        /\ journal[c] # NoLog /\ PastRead(d) => importing[c].pc = "killed"
        /\ PastTake(c) /\ PastTake(d) => SomeOverlapped(c)

RequestsOK ==
    /\ tmp \in [Files -> {"absent", "fresh", "old"}]
    /\ importing \in [ImportRequests -> RequestRecord]
    /\ journal = [c \in Confirms |-> journal[c]]
    /\ JobsOK(session)
    /\ \A r \in ImportRequests : RequestOK(r)
    /\ \A c \in Confirms : ConfirmOK(c)

TokenInv ==
    /\ RequestsOK
    /\ \A c \in Confirms : TokenTaken(c)
    /\ \A c, d \in Confirms : TakenAgain(c, d)

\* Request r, which had not ended, goes on and nothing comes back to a page
\* that has not been sent.
Moves(r) ==
    /\ ~Ended(r)
    /\ importing' = [importing EXCEPT ![r] = importing'[r]]
    /\ importing'[r] \in RequestRecord
    /\ importing'[r].pc # "new" /\ (importing[r].pc \notin {"new", "parsing"} => importing'[r].pc # "parsing")
    /\ tmp' \in [Files -> {"absent", "fresh", "old"}] /\ journal' = [c \in Confirms |-> journal'[c]]

LEMMA Moved ==
    ASSUME ImportsAssumption, RequestsOK, NEW r \in ImportRequests, Moves(r)
    PROVE  /\ importing' \in [ImportRequests -> RequestRecord]
           /\ \A x \in ImportRequests : x # r => importing'[x] = importing[x]
           /\ \A x \in ImportRequests : Ended(x) => importing'[x] = importing[x] /\ x # r
           /\ \A g \in Files : importing[g].pc \notin {"new", "parsing"} => importing'[g].pc \notin {"new", "parsing"}
<1>1. importing \in [ImportRequests -> RequestRecord] /\ Files \subseteq ImportRequests
  BY DEF RequestsOK, ImportRequests
<1>2. \A x \in ImportRequests : x # r => importing'[x] = importing[x]
  BY <1>1 DEF Moves
<1>3. importing' \in [ImportRequests -> RequestRecord]
  BY <1>1 DEF Moves
<1>4. \A x \in ImportRequests : Ended(x) => x # r
  BY DEF Moves
<1> HIDE DEF RequestRecord
<1>5. \A g \in Files : importing[g].pc \notin {"new", "parsing"} => importing'[g].pc \notin {"new", "parsing"}
  <2> TAKE g \in Files
  <2>1. CASE g = r
    BY <2>1 DEF Moves
  <2>2. CASE g # r
    BY <2>2, <1>1, <1>2
  <2> QED BY <2>1, <2>2
<1> QED BY <1>2, <1>3, <1>4, <1>5

\* A request begins: it loads the session.
RequestBegins(r) ==
    /\ Moves(r) /\ importing[r].pc = "new"
    /\ UNCHANGED <<session, tmp, journal>>
    /\ importing'[r].jobs = session /\ importing'[r].after = {q \in ImportRequests : Ended(q)}
    /\ importing'[r].pc \in {"parsing", "loaded", "done"}
    /\ r \in Confirms =>
         /\ importing'[r].file \in Files /\ importing[importing'[r].file].pc = "done"
         /\ importing'[r].pc = "loaded" => HasJob(session, importing'[r].file)

\* The confirmation takes its job out of the session.
Takes(r) ==
    /\ Moves(r) /\ r \in Confirms /\ importing[r].pc = "read"
    /\ UNCHANGED <<tmp, journal>>
    /\ importing'[r].jobs = Without(importing[r].jobs, importing[r].file)
    /\ session' = importing'[r].jobs
    /\ importing'[r].after = importing[r].after /\ importing'[r].file = importing[r].file
    /\ importing'[r].pc = "taken"

\* Any other step of a request.
Continues(r) ==
    /\ Moves(r) /\ importing[r].pc # "new"
    /\ importing'[r].after = importing[r].after /\ importing'[r].file = importing[r].file
    /\ importing'[r].jobs \in Seq(Files) /\ Distinct(importing'[r].jobs)
    /\ \A g \in Files : HasJob(importing'[r].jobs, g) =>
         HasJob(importing[r].jobs, g) \/ (g = r /\ importing'[r].pc \notin {"new", "parsing"})
    /\ session' = session \/ session' = importing[r].jobs
    /\ \A g \in Files : tmp[g] = "absent" => tmp'[g] = "absent" \/ g = r
    /\ \A c \in Confirms : c # r => journal'[c] = journal[c]
    /\ r \in Confirms =>
         /\ PastTake(r)' => PastTake(r)
         /\ PastRead(r)' => PastRead(r) \/ (importing[r].pc = "loaded" /\ tmp[importing[r].file] # "absent")
         /\ ConfirmOK(r)'

\* Nobody moves; temporary files grow old or are removed.
Rests ==
    /\ UNCHANGED <<session, importing, journal>>
    /\ tmp' \in [Files -> {"absent", "fresh", "old"}]
    /\ \A g \in Files : tmp[g] = "absent" => tmp'[g] = "absent"

\* JobsOK in the next state.
StaysOK(jobs) ==
    /\ jobs \in Seq(Files) /\ Distinct(jobs)
    /\ \A g \in Files : HasJob(jobs, g) => importing'[g].pc \notin {"new", "parsing"}

LEMMA RequestsStay ==
    ASSUME ImportsAssumption, RequestsOK, NEW r \in ImportRequests, Moves(r),
           StaysOK(session'), StaysOK(importing'[r].jobs),
           \A q \in importing'[r].after : q \in ImportRequests /\ Ended(q),
           \A g \in Files : tmp[g] = "absent" => tmp'[g] = "absent" \/ g = r,
           \A c \in Confirms : c # r => journal'[c] = journal[c],
           r \in Confirms => ConfirmOK(r)'
    PROVE  RequestsOK'
<1>1. /\ importing' \in [ImportRequests -> RequestRecord]
      /\ \A x \in ImportRequests : x # r => importing'[x] = importing[x]
      /\ \A x \in ImportRequests : Ended(x) => importing'[x] = importing[x] /\ x # r
      /\ \A g \in Files : importing[g].pc \notin {"new", "parsing"} => importing'[g].pc \notin {"new", "parsing"}
  BY Moved
<1>2. \A x \in ImportRequests : importing'[x].after \subseteq ImportRequests /\ importing'[x] \in RequestRecord
  BY <1>1 DEF RequestRecord
<1> HIDE DEF RequestRecord
<1>3. \A q \in ImportRequests : Ended(q) => Ended(q)'
  BY <1>1 DEF Ended
<1>4. \A x \in ImportRequests : RequestOK(x)'
  <2> SUFFICES ASSUME NEW x \in ImportRequests PROVE RequestOK(x)'
    OBVIOUS
  <2>1. CASE x = r
    <3>1. JobsOK(importing[r].jobs)'
      BY DEF StaysOK, JobsOK
    <3>2. \A q \in importing'[r].after : Ended(q)'
      BY <1>3
    <3> QED BY <2>1, <1>2, <3>1, <3>2 DEF RequestOK
  <2>2. CASE x # r
    <3>1. importing'[x] = importing[x] /\ RequestOK(x)
      BY <2>2, <1>1 DEF RequestsOK
    <3>2. JobsOK(importing[x].jobs)'
      BY <3>1, <1>1 DEF RequestOK, JobsOK
    <3>3. \A q \in importing'[x].after : Ended(q)'
      BY <3>1, <1>2, <1>3 DEF RequestOK
    <3> QED BY <1>2, <3>2, <3>3 DEF RequestOK
  <2> QED BY <2>1, <2>2
<1>5. \A c \in Confirms : ConfirmOK(c)'
  <2> SUFFICES ASSUME NEW c \in Confirms, c # r PROVE ConfirmOK(c)'
    OBVIOUS
  <2>1. c \in ImportRequests /\ Files \subseteq ImportRequests
    BY DEF ImportRequests
  <2>2. importing'[c] = importing[c] /\ journal'[c] = journal[c] /\ ConfirmOK(c)
    BY <2>1, <1>1 DEF RequestsOK
  <2>3. ASSUME importing[c].pc # "new"
        PROVE  /\ importing[c].file \in Files /\ importing'[importing[c].file].pc = "done"
               /\ tmp[importing[c].file] = "absent" => tmp'[importing[c].file] = "absent"
    <3>1. importing[c].file \in Files /\ importing[importing[c].file].pc = "done"
      BY <2>2, <2>3 DEF ConfirmOK
    <3>2. Ended(importing[c].file)
      BY <3>1 DEF Ended
    <3> QED BY <3>1, <3>2, <2>1, <1>1
  <2> QED BY <2>2, <2>3 DEF ConfirmOK
<1>6. JobsOK(session)'
  BY DEF StaysOK, JobsOK
<1>7. tmp' \in [Files -> {"absent", "fresh", "old"}] /\ journal' = [c \in Confirms |-> journal'[c]]
  BY DEF Moves
<1> QED BY <1>1, <1>4, <1>5, <1>6, <1>7 DEF RequestsOK

\* What overlapped a request that has begun keeps overlapping it.
LEMMA StillOverlapped ==
    ASSUME ImportsAssumption, RequestsOK, NEW r \in ImportRequests, Moves(r),
           importing[r].pc # "new" => importing'[r].after = importing[r].after,
           NEW c \in Confirms, importing[c].pc # "new", SomeOverlapped(c)
    PROVE  SomeOverlapped(c)'
<1>1. PICK x \in ImportRequests \ {c} : Overlapped(c, x)
  BY DEF SomeOverlapped
<1>2. importing'[c].after = importing[c].after /\ importing'[x].after = importing[x].after
      /\ importing'[x].pc # "new"
  <2>1. \A y \in ImportRequests : y # r => importing'[y] = importing[y]
    BY Moved
  <2>2. c \in ImportRequests /\ importing[x].pc # "new"
    BY <1>1 DEF Overlapped, ImportRequests
  <2>3. importing'[r].pc # "new"
    BY DEF Moves
  <2> QED BY <2>1, <2>2, <2>3
<1>3. Overlapped(c, x)'
  BY <1>1, <1>2 DEF Overlapped
<1> QED BY <1>3 DEF SomeOverlapped

\* A confirmation past the removal of its job has begun.
LEMMA PastTakeBegun ==
    ASSUME RequestsOK, NEW c \in Confirms, PastTake(c)
    PROVE  /\ importing[c].pc # "new" /\ PastRead(c)
           /\ importing[c].file \in Files /\ Ended(importing[c].file)
<1>1. ConfirmOK(c)
  BY DEF RequestsOK
<1>2. importing[c].pc # "new" /\ PastRead(c)
  BY <1>1 DEF ConfirmOK, PastTake, PastRead
<1> QED BY <1>1, <1>2 DEF ConfirmOK, Ended

LEMMA BeginsKeeps ==
    ASSUME ImportsAssumption, TokenInv, NEW r \in ImportRequests, RequestBegins(r)
    PROVE  TokenInv'
<1>1. RequestsOK /\ Moves(r) /\ importing[r].pc = "new"
  BY DEF TokenInv, RequestBegins
<1>2. /\ importing' \in [ImportRequests -> RequestRecord]
      /\ \A x \in ImportRequests : x # r => importing'[x] = importing[x]
      /\ \A x \in ImportRequests : Ended(x) => importing'[x] = importing[x] /\ x # r
      /\ \A g \in Files : importing[g].pc \notin {"new", "parsing"} => importing'[g].pc \notin {"new", "parsing"}
  BY <1>1, Moved
<1>3. Confirms \subseteq ImportRequests /\ Files \subseteq ImportRequests
  BY DEF ImportRequests
<1>4. ASSUME r \in Confirms
      PROVE  /\ ConfirmOK(r)' /\ ~PastTake(r)' /\ ~PastRead(r)'
  <2>1. journal'[r] = NoLog
    BY <1>1, <1>4 DEF RequestsOK, ConfirmOK, RequestBegins
  <2>2. importing'[r].file \in Files /\ importing[importing'[r].file].pc = "done"
    BY <1>4 DEF RequestBegins
  <2>3. importing'[importing'[r].file].pc = "done"
    BY <2>2, <1>2, <1>3 DEF Ended
  <2>4. importing'[r].pc \in {"parsing", "loaded", "done"}
        /\ (importing'[r].pc = "loaded" => HasJob(importing'[r].jobs, importing'[r].file))
    BY <1>4 DEF RequestBegins
  <2>5. ConfirmOK(r)'
    BY <2>1, <2>2, <2>3, <2>4 DEF ConfirmOK
  <2> QED BY <2>1, <2>4, <2>5 DEF PastTake, PastRead
<1>5. RequestsOK'
  <2>1. StaysOK(session)
    BY <1>1, <1>2 DEF StaysOK, JobsOK, RequestsOK
  <2>2. session' = session /\ importing'[r].jobs = session /\ UNCHANGED <<tmp, journal>>
        /\ importing'[r].after = {q \in ImportRequests : Ended(q)}
    BY DEF RequestBegins
  <2> QED BY <1>1, <1>4, <2>1, <2>2, RequestsStay
<1>6. \A c \in Confirms : c # r => (PastTake(c)' <=> PastTake(c)) /\ (PastRead(c)' <=> PastRead(c))
  BY <1>2, <1>3 DEF PastTake, PastRead, RequestBegins
<1>7. \A c \in Confirms : PastTake(c) /\ SomeOverlapped(c) => SomeOverlapped(c)'
  BY <1>1, PastTakeBegun, StillOverlapped
<1>8. ASSUME NEW c \in Confirms PROVE TokenTaken(c)'
  <2> SUFFICES ASSUME PastTake(c)' PROVE TokenTaken(c)'
    BY DEF TokenTaken
  <2>1. c # r /\ PastTake(c) /\ TokenTaken(c) /\ importing'[c] = importing[c]
    BY <1>2, <1>3, <1>4, <1>6 DEF TokenInv
  <2>2. CASE SomeOverlapped(c)
    BY <2>1, <2>2, <1>7 DEF TokenTaken
  <2>3. CASE ~SomeOverlapped(c)
    <3>1. /\ ~HasJob(session, importing[c].file)
          /\ \A x \in ImportRequests \ {c} : Open(x) => ~HasJob(importing[x].jobs, importing[c].file)
      BY <2>1, <2>3 DEF TokenTaken
    <3>2. \A x \in ImportRequests \ {c} : Open(x)' => ~HasJob(importing'[x].jobs, importing[c].file)
      BY <3>1, <1>2 DEF RequestBegins, Open
    <3> QED BY <2>1, <3>1, <3>2 DEF TokenTaken, RequestBegins
  <2> QED BY <2>2, <2>3
<1>9. ASSUME NEW c \in Confirms, NEW d \in Confirms PROVE TakenAgain(c, d)'
  <2> SUFFICES ASSUME c # d, c \in importing'[d].after, importing'[c].file = importing'[d].file, PastRead(d)'
               PROVE  /\ journal'[c] # NoLog => importing'[c].pc = "killed"
                      /\ PastTake(c)' /\ PastTake(d)' => SomeOverlapped(c)'
    BY <1>1, PastTakeBegun DEF TakenAgain, PastTake, PastRead
  <2>1. d # r /\ importing'[d] = importing[d] /\ PastRead(d)
    BY <1>2, <1>3, <1>4, <1>6
  <2>2. c # r /\ importing'[c] = importing[c]
    BY <2>1, <1>1, <1>2, <1>3 DEF RequestsOK, RequestOK
  <2>3. TakenAgain(c, d) /\ journal'[c] = journal[c]
    BY DEF TokenInv, RequestBegins
  <2> QED BY <2>1, <2>2, <2>3, <1>6, <1>7 DEF TakenAgain
<1> QED BY <1>5, <1>8, <1>9 DEF TokenInv

LEMMA TakesKeeps ==
    ASSUME ImportsAssumption, TokenInv, NEW r \in ImportRequests, Takes(r)
    PROVE  TokenInv'
<1>1. RequestsOK /\ Moves(r) /\ importing[r].pc = "read" /\ r \in Confirms /\ UNCHANGED <<tmp, journal>>
      /\ importing'[r].after = importing[r].after /\ importing'[r].file = importing[r].file
  BY DEF TokenInv, Takes
<1>2. /\ importing' \in [ImportRequests -> RequestRecord]
      /\ \A x \in ImportRequests : x # r => importing'[x] = importing[x]
      /\ \A x \in ImportRequests : Ended(x) => importing'[x] = importing[x] /\ x # r
      /\ \A g \in Files : importing[g].pc \notin {"new", "parsing"} => importing'[g].pc \notin {"new", "parsing"}
  BY <1>1, Moved
<1>3. Confirms \subseteq ImportRequests /\ Files \subseteq ImportRequests
  BY DEF ImportRequests
<1>4. /\ JobsOK(importing[r].jobs) /\ ConfirmOK(r)
      /\ importing[r].after \subseteq ImportRequests /\ \A q \in importing[r].after : Ended(q)
  BY <1>1 DEF RequestsOK, RequestOK, RequestRecord
<1> DEFINE f == importing[r].file
           left == Without(importing[r].jobs, f)
<1>5. /\ left \in Seq(Files) /\ Distinct(left) /\ ~HasJob(left, f)
      /\ \A g : HasJob(left, g) => HasJob(importing[r].jobs, g)
  BY <1>4, JobsWithout DEF JobsOK
<1>6. session' = left /\ importing'[r].jobs = left /\ importing'[r].pc = "taken"
  BY DEF Takes
<1>7. f \in Files /\ HasJob(importing[r].jobs, f) /\ importing'[f].pc = "done" /\ journal[r] = NoLog
  BY <1>1, <1>2, <1>3, <1>4 DEF ConfirmOK, Ended
<1> HIDE DEF left
<1>8. RequestsOK'
  <2>1. StaysOK(left)
    BY <1>2, <1>4, <1>5 DEF StaysOK, JobsOK
  <2>2. ConfirmOK(r)'
    BY <1>1, <1>6, <1>7 DEF ConfirmOK
  <2> QED BY <1>1, <1>4, <1>6, <2>1, <2>2, RequestsStay
<1>9. \A c \in Confirms : c # r => (PastTake(c)' <=> PastTake(c))
  BY <1>1, <1>2, <1>3 DEF PastTake
<1>10. \A c \in Confirms : PastRead(c)' <=> PastRead(c)
  BY <1>1, <1>2, <1>3, <1>6 DEF PastRead
<1>11. \A c \in Confirms : importing[c].pc # "new" /\ SomeOverlapped(c) => SomeOverlapped(c)'
  BY <1>1, StillOverlapped
<1>12. Open(r) /\ ~Ended(r)
  BY <1>1 DEF Open, Ended
\* While r is open, a token that is out of reach for the others is so for r.
<1>13. ASSUME NEW c \in Confirms, c # r, PastTake(c), ~SomeOverlapped(c)
       PROVE  /\ ~HasJob(session', importing[c].file) /\ ~HasJob(importing[r].jobs, importing[c].file)
              /\ \A x \in ImportRequests \ {c} : Open(x)' => ~HasJob(importing'[x].jobs, importing[c].file)
  <2>1. \A x \in ImportRequests \ {c} : Open(x) => ~HasJob(importing[x].jobs, importing[c].file)
    BY <1>13 DEF TokenInv, TokenTaken
  <2>2. ~HasJob(importing[r].jobs, importing[c].file)
    BY <2>1, <1>12, <1>13
  <2>3. ~HasJob(left, importing[c].file)
    BY <2>2, <1>5
  <2>4. \A x \in ImportRequests \ {c} : Open(x)' => ~HasJob(importing'[x].jobs, importing[c].file)
    BY <2>1, <2>3, <1>2, <1>6 DEF Open
  <2> QED BY <2>2, <2>3, <2>4, <1>6
<1>14. ASSUME NEW c \in Confirms PROVE TokenTaken(c)'
  <2>1. CASE c = r
    <3>1. CASE \E x \in ImportRequests \ {r} : Open(x) /\ HasJob(importing[x].jobs, f)
      <4>1. PICK x \in ImportRequests \ {r} : Open(x)
        BY <3>1
      <4>2. ~Ended(x) /\ x \notin importing[r].after /\ importing[x].pc # "new"
        BY <4>1, <1>4 DEF Open, Ended
      <4>3. r \notin importing[x].after
        BY <1>1, <1>12 DEF RequestsOK, RequestOK
      <4>4. SomeOverlapped(r)
        BY <4>1, <4>2, <4>3 DEF SomeOverlapped, Overlapped
      <4> QED BY <2>1, <4>4, <1>1, <1>5, <1>6, <1>11 DEF TokenTaken
    <3>2. CASE \A x \in ImportRequests \ {r} : Open(x) => ~HasJob(importing[x].jobs, f)
      <4>1. \A x \in ImportRequests \ {r} : Open(x)' => ~HasJob(importing'[x].jobs, f)
        BY <3>2, <1>2 DEF Open
      <4> QED BY <2>1, <4>1, <1>1, <1>5, <1>6 DEF TokenTaken
    <3> QED BY <3>1, <3>2
  <2>2. CASE c # r
    <3> SUFFICES ASSUME PastTake(c)' PROVE TokenTaken(c)'
      BY DEF TokenTaken
    <3>1. PastTake(c) /\ TokenTaken(c) /\ importing'[c] = importing[c] /\ importing[c].pc # "new"
      BY <2>2, <1>1, <1>2, <1>3, <1>9, PastTakeBegun DEF TokenInv
    <3>2. CASE SomeOverlapped(c)
      BY <3>1, <3>2, <1>11 DEF TokenTaken
    <3>3. CASE ~SomeOverlapped(c)
      BY <2>2, <3>1, <3>3, <1>13 DEF TokenTaken
    <3> QED BY <3>2, <3>3
  <2> QED BY <2>1, <2>2
<1>15. ASSUME NEW c \in Confirms, NEW d \in Confirms PROVE TakenAgain(c, d)'
  <2> SUFFICES ASSUME c # d, c \in importing'[d].after, importing'[c].file = importing'[d].file
               PROVE  /\ journal'[c] # NoLog /\ PastRead(d)' => importing'[c].pc = "killed"
                      /\ PastTake(c)' /\ PastTake(d)' => SomeOverlapped(c)'
    BY DEF TakenAgain
  <2>1. importing'[d].after = importing[d].after /\ importing'[d].file = importing[d].file
    BY <1>1, <1>2, <1>3
  <2>2. c # r /\ importing'[c] = importing[c] /\ Ended(c)
    BY <2>1, <1>1, <1>2, <1>3, <1>12 DEF RequestsOK, RequestOK
  <2>3. TakenAgain(c, d) /\ journal' = journal /\ importing[c].pc # "new"
    BY <1>1, <2>2 DEF TokenInv, Ended
  <2>4. journal'[c] # NoLog /\ PastRead(d)' => importing'[c].pc = "killed"
    BY <2>1, <2>2, <2>3, <1>10 DEF TakenAgain
  <2>5. CASE d = r
    <3> SUFFICES ASSUME PastTake(c), ~SomeOverlapped(c) PROVE FALSE
      BY <2>2, <2>3, <2>4, <1>9, <1>11
    <3>1. ~HasJob(importing[r].jobs, importing[c].file)
      BY <2>2, <1>13
    <3> QED BY <3>1, <2>1, <2>2, <2>5, <1>7
  <2>6. CASE d # r
    BY <2>1, <2>2, <2>3, <2>4, <2>6, <1>9, <1>11 DEF TakenAgain
  <2> QED BY <2>5, <2>6
<1> QED BY <1>8, <1>14, <1>15 DEF TokenInv

LEMMA ContinuesKeeps ==
    ASSUME ImportsAssumption, TokenInv, NEW r \in ImportRequests, Continues(r)
    PROVE  TokenInv'
<1>1. RequestsOK /\ Moves(r) /\ importing[r].pc # "new"
      /\ importing'[r].after = importing[r].after /\ importing'[r].file = importing[r].file
      /\ \A c \in Confirms : c # r => journal'[c] = journal[c]
  BY DEF TokenInv, Continues
<1>2. /\ importing' \in [ImportRequests -> RequestRecord]
      /\ \A x \in ImportRequests : x # r => importing'[x] = importing[x]
      /\ \A x \in ImportRequests : Ended(x) => importing'[x] = importing[x] /\ x # r
      /\ \A g \in Files : importing[g].pc \notin {"new", "parsing"} => importing'[g].pc \notin {"new", "parsing"}
  BY <1>1, Moved
<1>3. Confirms \subseteq ImportRequests /\ Files \subseteq ImportRequests
  BY DEF ImportRequests
<1>4. /\ JobsOK(importing[r].jobs) /\ JobsOK(session)
      /\ importing[r].after \subseteq ImportRequests /\ \A q \in importing[r].after : Ended(q)
  BY <1>1 DEF RequestsOK, RequestOK, RequestRecord
<1>5. /\ importing'[r].jobs \in Seq(Files) /\ Distinct(importing'[r].jobs)
      /\ \A g \in Files : HasJob(importing'[r].jobs, g) =>
           HasJob(importing[r].jobs, g) \/ (g = r /\ importing'[r].pc \notin {"new", "parsing"})
      /\ session' = session \/ session' = importing[r].jobs
  BY DEF Continues
<1>6. RequestsOK'
  <2>1. StaysOK(importing'[r].jobs)
    BY <1>2, <1>4, <1>5 DEF StaysOK, JobsOK
  <2>2. StaysOK(session')
    <3>1. StaysOK(session) /\ StaysOK(importing[r].jobs)
      BY <1>2, <1>4 DEF StaysOK, JobsOK
    <3> QED BY <3>1, <1>5
  <2>3. /\ \A g \in Files : tmp[g] = "absent" => tmp'[g] = "absent" \/ g = r
        /\ r \in Confirms => ConfirmOK(r)'
    BY DEF Continues
  <2> QED BY <1>1, <1>4, <2>1, <2>2, <2>3, RequestsStay
<1>7. \A c \in Confirms : PastTake(c)' => PastTake(c)
  BY <1>1, <1>2, <1>3 DEF PastTake, Continues
<1>8. \A c \in Confirms : PastRead(c)' =>
        PastRead(c) \/ (c = r /\ importing[r].pc = "loaded" /\ tmp[importing[r].file] # "absent")
  BY <1>1, <1>2, <1>3 DEF PastRead, Continues
<1>9. \A c \in Confirms : importing[c].pc # "new" /\ SomeOverlapped(c) => SomeOverlapped(c)'
  BY <1>1, StillOverlapped
<1>10. Open(r) /\ ~Ended(r)
  BY <1>1 DEF Open, Ended, Moves
<1>11. \A g \in Files : Ended(g) /\ HasJob(importing'[r].jobs, g) => HasJob(importing[r].jobs, g)
  BY <1>5, <1>10
<1>12. ASSUME NEW c \in Confirms PROVE TokenTaken(c)'
  <2> SUFFICES ASSUME PastTake(c)' PROVE TokenTaken(c)'
    BY DEF TokenTaken
  <2>1. /\ PastTake(c) /\ importing[c].pc # "new"
        /\ importing[c].file \in Files /\ Ended(importing[c].file)
    BY <1>1, <1>7, PastTakeBegun
  <2>2. importing'[c].file = importing[c].file /\ ~HasJob(importing[c].jobs, importing[c].file)
    BY <2>1, <1>1, <1>2, <1>3 DEF TokenInv, TokenTaken
  <2>3. ~HasJob(importing'[c].jobs, importing'[c].file)
    BY <2>1, <2>2, <1>2, <1>3, <1>11
  <2>4. CASE SomeOverlapped(c)
    BY <2>1, <2>3, <2>4, <1>9 DEF TokenTaken
  <2>5. CASE ~SomeOverlapped(c)
    <3>1. /\ ~HasJob(session, importing[c].file)
          /\ \A x \in ImportRequests \ {c} : Open(x) => ~HasJob(importing[x].jobs, importing[c].file)
      BY <2>1, <2>5 DEF TokenInv, TokenTaken
    <3>2. ~HasJob(importing[r].jobs, importing[c].file)
      BY <3>1, <2>2, <1>10
    <3>3. ~HasJob(session', importing[c].file)
      BY <3>1, <3>2, <1>5
    <3>4. \A x \in ImportRequests \ {c} : Open(x)' => ~HasJob(importing'[x].jobs, importing[c].file)
      BY <3>1, <3>2, <2>1, <1>2, <1>10, <1>11 DEF Open
    <3> QED BY <2>2, <2>3, <3>3, <3>4 DEF TokenTaken
  <2> QED BY <2>4, <2>5
<1>13. ASSUME NEW c \in Confirms, NEW d \in Confirms PROVE TakenAgain(c, d)'
  <2> SUFFICES ASSUME c # d, c \in importing'[d].after, importing'[c].file = importing'[d].file
               PROVE  /\ journal'[c] # NoLog /\ PastRead(d)' => importing'[c].pc = "killed"
                      /\ PastTake(c)' /\ PastTake(d)' => SomeOverlapped(c)'
    BY DEF TakenAgain
  <2>1. importing'[d].after = importing[d].after /\ importing'[d].file = importing[d].file
    BY <1>1, <1>2, <1>3
  <2>2. c # r /\ importing'[c] = importing[c] /\ Ended(c)
    BY <2>1, <1>1, <1>2, <1>3, <1>10 DEF RequestsOK, RequestOK
  <2>3. TakenAgain(c, d) /\ journal'[c] = journal[c] /\ ConfirmOK(c) /\ importing[c].pc # "new"
    BY <1>1, <2>2 DEF TokenInv, RequestsOK, Ended
  <2>4. ASSUME journal'[c] # NoLog, PastRead(d)' PROVE importing'[c].pc = "killed"
    <3>1. CASE PastRead(d)
      BY <3>1, <2>1, <2>2, <2>3, <2>4 DEF TakenAgain
    <3>2. CASE ~PastRead(d)
      <4>1. tmp[importing[c].file] # "absent"
        BY <3>2, <2>1, <2>2, <2>4, <1>8
      <4> QED BY <4>1, <2>2, <2>3, <2>4 DEF ConfirmOK, Ended
    <3> QED BY <3>1, <3>2
  <2> QED BY <2>1, <2>2, <2>3, <2>4, <1>7, <1>9 DEF TakenAgain
<1> QED BY <1>6, <1>12, <1>13 DEF TokenInv

LEMMA RestsKeeps ==
    ASSUME ImportsAssumption, TokenInv, Rests
    PROVE  TokenInv'
<1>1. RequestsOK'
  <2>1. \A c \in Confirms : ConfirmOK(c)'
    BY DEF TokenInv, RequestsOK, ConfirmOK, Rests
  <2>2. \A r \in ImportRequests : RequestOK(r)'
    BY DEF TokenInv, RequestsOK, RequestOK, JobsOK, Ended, Rests
  <2> QED BY <2>1, <2>2 DEF TokenInv, RequestsOK, JobsOK, Rests
<1>2. \A c \in Confirms : TokenTaken(c)'
  BY DEF TokenInv, TokenTaken, PastTake, SomeOverlapped, Overlapped, Open, Rests
<1>3. \A c, d \in Confirms : TakenAgain(c, d)'
  BY DEF TokenInv, TakenAgain, PastTake, PastRead, SomeOverlapped, Overlapped, Rests
<1> QED BY <1>1, <1>2, <1>3 DEF TokenInv

LEMMA TokenInit ==
    ASSUME ImportsAssumption, ImportsInit
    PROVE  TokenInv
<1>1. Files \subseteq ImportRequests /\ Confirms \subseteq ImportRequests /\ Uploaded \subseteq Files
      /\ Files \cap Confirms = {}
  BY DEF ImportRequests, ImportsAssumption
<1>2. Idle \in RequestRecord /\ \A f \in Files : [Idle EXCEPT !.pc = "done", !.file = f] \in RequestRecord
  <2>1. <<>> \in Seq(Files)
    BY EmptySeq
  <2> QED BY <2>1 DEF Idle, RequestRecord, ImportPcs
<1>3. \A r \in ImportRequests :
        /\ importing[r] \in RequestRecord /\ importing[r].jobs = <<>> /\ importing[r].after = {}
        /\ importing[r].pc = (IF r \in Uploaded THEN "done" ELSE "new")
  BY <1>1, <1>2 DEF ImportsInit, Idle
<1>4. importing \in [ImportRequests -> RequestRecord]
  BY <1>3 DEF ImportsInit
<1>5. JobsOK(session)
  <2>1. session \in Seq(Files) /\ Distinct(session) /\ \A g : HasJob(session, g) => g \in Uploaded
    BY UploadedJobs DEF ImportsInit
  <2>2. \A g \in Uploaded : importing[g].pc = "done"
    BY <1>1, <1>3
  <2> QED BY <2>1, <2>2 DEF JobsOK
<1>6. JobsOK(<<>>)
  <2>1. <<>> \in Seq(Files) /\ DOMAIN <<>> = {}
    BY EmptySeq, LenProperties
  <2> QED BY <2>1 DEF JobsOK, Distinct, HasJob
<1>7. \A r \in ImportRequests : RequestOK(r)
  BY <1>3, <1>6 DEF RequestOK
<1>8. \A c \in Confirms : importing[c].pc = "new" /\ journal[c] = NoLog
  BY <1>1, <1>3 DEF ImportsInit
<1>9. tmp \in [Files -> {"absent", "fresh", "old"}] /\ journal = [c \in Confirms |-> journal[c]]
  BY DEF ImportsInit
<1>10. \A c \in Confirms : ConfirmOK(c) /\ ~PastTake(c)
  BY <1>8 DEF ConfirmOK, PastTake
<1> QED BY <1>4, <1>5, <1>7, <1>9, <1>10 DEF TokenInv, RequestsOK, TokenTaken, TakenAgain, PastTake, PastRead, RequestOK

LEMMA UploadMoves ==
    ASSUME ImportsAssumption, TokenInv, NEW f \in Files
    PROVE  /\ UploadBegin(f) => RequestBegins(f)
           /\ UploadStore(f) \/ UploadFails(f) => Continues(f)
           /\ TmpAges(f) => Rests
<1>1. /\ f \in ImportRequests /\ f \notin Confirms
      /\ importing \in [ImportRequests -> RequestRecord] /\ importing[f] \in RequestRecord
      /\ tmp \in [Files -> {"absent", "fresh", "old"}] /\ journal = [c \in Confirms |-> journal[c]]
      /\ JobsOK(session) /\ JobsOK(importing[f].jobs)
  BY DEF TokenInv, RequestsOK, RequestOK, ImportRequests, ImportsAssumption
<1>2. ASSUME UploadBegin(f) PROVE RequestBegins(f)
  <2>1. PICK pc \in {"parsing", "done"} : Update(f, SessionLoaded(f, pc, f))
    BY <1>2 DEF UploadBegin
  <2>2. importing'[f] = SessionLoaded(f, pc, f) /\ importing' = [importing EXCEPT ![f] = importing'[f]]
    BY <2>1, <1>1 DEF Update
  <2>3. SessionLoaded(f, pc, f) \in RequestRecord
    BY <1>1 DEF SessionLoaded, Idle, RequestRecord, ImportPcs, JobsOK
  <2>4. importing'[f].pc = pc /\ importing'[f].jobs = session /\ importing'[f].after = {q \in ImportRequests : Ended(q)}
    BY <2>2 DEF SessionLoaded, Idle
  <2>5. importing[f].pc = "new" /\ UNCHANGED <<session, tmp, journal>>
    BY <1>2 DEF UploadBegin
  <2>6. Moves(f)
    BY <2>1, <2>2, <2>3, <2>4, <2>5, <1>1 DEF Moves, Ended
  <2> QED BY <2>4, <2>5, <2>6, <1>1 DEF RequestBegins
<1>3. ASSUME UploadStore(f) PROVE Continues(f)
  <2> DEFINE own == importing[f]
             rec == [own EXCEPT !.pc = "answering", !.jobs = WithJob(own.jobs, f)]
  <2>1. importing' = [importing EXCEPT ![f] = rec] /\ own.pc = "parsing"
    BY <1>3 DEF UploadStore, Update
  <2>2. ~HasJob(own.jobs, f)
    BY <2>1, <1>1 DEF JobsOK
  <2>3. /\ WithJob(own.jobs, f) \in Seq(Files) /\ Distinct(WithJob(own.jobs, f))
        /\ \A g : HasJob(WithJob(own.jobs, f), g) => HasJob(own.jobs, g) \/ g = f
    BY <2>2, <1>1, JobsWith DEF JobsOK
  <2>4. rec \in RequestRecord /\ rec.pc = "answering" /\ rec.jobs = WithJob(own.jobs, f)
        /\ rec.after = own.after /\ rec.file = own.file
    BY <2>3, <1>1 DEF RequestRecord, ImportPcs
  <2> HIDE DEF rec
  <2>5. importing'[f] = rec /\ importing' = [importing EXCEPT ![f] = importing'[f]]
    BY <2>1, <1>1
  <2>6. tmp' \in [Files -> {"absent", "fresh", "old"}] /\ \A g \in Files : tmp[g] = "absent" => tmp'[g] = "absent" \/ g = f
    BY <1>3, <1>1 DEF UploadStore
  <2>7. UNCHANGED <<session, journal>>
    BY <1>3 DEF UploadStore
  <2>8. Moves(f)
    BY <2>1, <2>4, <2>5, <2>6, <2>7, <1>1 DEF Moves, Ended
  <2> QED BY <2>1, <2>3, <2>4, <2>5, <2>6, <2>7, <2>8, <1>1 DEF Continues
<1>4. ASSUME UploadFails(f) PROVE Continues(f)
  <2> DEFINE own == importing[f]
             rec == [own EXCEPT !.pc = "done"]
  <2>1. importing' = [importing EXCEPT ![f] = rec] /\ own.pc = "parsing"
    BY <1>4 DEF UploadFails, Update
  <2>2. rec \in RequestRecord /\ rec.pc = "done" /\ rec.jobs = own.jobs
        /\ rec.after = own.after /\ rec.file = own.file
    BY <1>1 DEF RequestRecord, ImportPcs
  <2> HIDE DEF rec
  <2>3. importing'[f] = rec /\ importing' = [importing EXCEPT ![f] = importing'[f]]
    BY <2>1, <1>1
  <2>4. tmp' \in [Files -> {"absent", "fresh", "old"}] /\ \A g \in Files : tmp[g] = "absent" => tmp'[g] = "absent"
    BY <1>4, <1>1 DEF UploadFails
  <2>5. UNCHANGED <<session, journal>>
    BY <1>4 DEF UploadFails
  <2>6. Moves(f)
    BY <2>1, <2>2, <2>3, <2>4, <2>5, <1>1 DEF Moves, Ended
  <2> QED BY <2>1, <2>2, <2>3, <2>4, <2>5, <2>6, <1>1 DEF Continues, JobsOK
<1>5. ASSUME TmpAges(f) PROVE Rests
  BY <1>1, <1>5 DEF TmpAges, Rests
<1> QED BY <1>2, <1>3, <1>4, <1>5

\* A step of a confirmation that leaves the session alone and changes only what
\* it has loaded.
LEMMA ConfirmContinues ==
    ASSUME ImportsAssumption, TokenInv, NEW c \in Confirms,
           NEW own, own = importing[c], NEW rec,
           importing' = [importing EXCEPT ![c] = rec], rec \in RequestRecord,
           own.pc \notin {"new", "done", "killed"}, rec.pc \notin {"new", "parsing"},
           rec.after = own.after, rec.file = own.file,
           rec.jobs = own.jobs \/ rec.jobs = Without(own.jobs, own.file),
           session' = session \/ session' = own.jobs,
           tmp' = tmp \/ tmp' = DeleteTmp(own.file),
           journal' = [journal EXCEPT ![c] = journal'[c]],
           journal[c] = NoLog =>
             journal'[c] = NoLog \/ own.pc \in {"taken", "logged", "failed", "marked", "closing"},
           rec.pc \in {"taken", "logged", "failed", "marked", "closing"} =>
             own.pc \in {"taken", "logged", "failed", "marked", "closing"},
           rec.pc = "read" => tmp[own.file] # "absent",
           rec.pc \in {"loaded", "read"} => rec.jobs = own.jobs /\ own.pc = "loaded",
           rec.pc \in {"loaded", "read", "taken"} => journal'[c] = journal[c],
           rec.pc = "taken" => own.pc = "taken",
           rec.pc = "done" /\ journal'[c] # NoLog => tmp'[own.file] = "absent",
           rec.pc = "answering" /\ journal'[c] # NoLog => tmp'[own.file] = "absent"
    PROVE  Continues(c)
<1>1. /\ c \in ImportRequests /\ c \notin Files
      /\ importing \in [ImportRequests -> RequestRecord]
      /\ tmp \in [Files -> {"absent", "fresh", "old"}] /\ journal = [x \in Confirms |-> journal[x]]
      /\ JobsOK(own.jobs) /\ ConfirmOK(c)
  BY DEF TokenInv, RequestsOK, RequestOK, ImportRequests, ImportsAssumption
<1>2. importing'[c] = rec /\ importing' = [importing EXCEPT ![c] = importing'[c]]
  BY <1>1
<1>3. own.file \in Files /\ importing'[own.file].pc = "done"
  BY <1>1, <1>2 DEF ConfirmOK, ImportRequests
<1>4. tmp' \in [Files -> {"absent", "fresh", "old"}] /\ \A g \in Files : tmp[g] = "absent" => tmp'[g] = "absent"
  BY <1>1 DEF DeleteTmp
<1>5. /\ journal' = [x \in Confirms |-> journal'[x]]
      /\ \A x \in Confirms : x # c => journal'[x] = journal[x]
  BY <1>1
<1>6. Moves(c)
  BY <1>2, <1>4, <1>5 DEF Moves, Ended
<1>7. /\ rec.jobs \in Seq(Files) /\ Distinct(rec.jobs)
      /\ \A g : HasJob(rec.jobs, g) => HasJob(own.jobs, g)
  BY <1>1, JobsWithout DEF JobsOK
<1>8. ConfirmOK(c)'
  <2>1. rec.pc \in {"loaded", "read"} => HasJob(rec.jobs, rec.file)
    BY <1>1 DEF ConfirmOK
  <2>2. rec.pc \in {"new", "loaded", "read", "taken"} => journal'[c] = NoLog
    BY <1>1 DEF ConfirmOK
  <2> QED BY <2>1, <2>2, <1>2, <1>3 DEF ConfirmOK
<1>9. PastTake(c)' => PastTake(c)
  BY <1>2 DEF PastTake
<1>10. PastRead(c)' => PastRead(c) \/ (own.pc = "loaded" /\ tmp[own.file] # "absent")
  BY <1>2 DEF PastRead
<1> QED BY <1>1, <1>2, <1>4, <1>5, <1>6, <1>7, <1>8, <1>9, <1>10 DEF Continues

LEMMA ConfirmMoves ==
    ASSUME ImportsAssumption, TokenInv, NEW c \in Confirms
    PROVE  /\ ConfirmBegin(c) => RequestBegins(c)
           /\ ConfirmTake(c) => Takes(c)
           /\ \/ ConfirmTmpMissing(c) \/ ConfirmRead(c) \/ ConfirmLog(c) \/ ConfirmBatch(c) \/ ConfirmBatchFails(c)
              \/ ConfirmMarkError(c) \/ ConfirmMarkResults(c) \/ ConfirmRaises(c) \/ ConfirmClose(c)
              => Continues(c)
<1> DEFINE own == importing[c]
<1>1. /\ c \in ImportRequests /\ c \notin Files
      /\ importing \in [ImportRequests -> RequestRecord] /\ own \in RequestRecord
      /\ tmp \in [Files -> {"absent", "fresh", "old"}] /\ journal = [x \in Confirms |-> journal[x]]
      /\ JobsOK(session) /\ JobsOK(own.jobs) /\ ConfirmOK(c)
  BY DEF TokenInv, RequestsOK, RequestOK, ImportRequests, ImportsAssumption
<1>2. /\ Without(own.jobs, own.file) \in Seq(Files)
      /\ Distinct(Without(own.jobs, own.file))
  BY <1>1, JobsWithout DEF JobsOK
\* The same record but for one or two fields.
<1>3. ASSUME NEW pc \in ImportPcs
      PROVE  LET rec == [own EXCEPT !.pc = pc] IN
             /\ rec \in RequestRecord /\ rec.pc = pc /\ rec.jobs = own.jobs /\ rec.file = own.file
             /\ rec.after = own.after
  BY <1>1 DEF RequestRecord
<1>5. ASSUME ConfirmBegin(c) PROVE RequestBegins(c)
  <2>1. PICK f \in Files :
          /\ importing[f].pc = "done"
          /\ Update(c, SessionLoaded(c, IF HasJob(session, f) THEN "loaded" ELSE "done", f))
    BY <1>5 DEF ConfirmBegin
  <2> DEFINE pc == IF HasJob(session, f) THEN "loaded" ELSE "done"
  <2>2. importing'[c] = SessionLoaded(c, pc, f) /\ importing' = [importing EXCEPT ![c] = importing'[c]]
    BY <2>1, <1>1 DEF Update
  <2>3. SessionLoaded(c, pc, f) \in RequestRecord
    BY <1>1 DEF SessionLoaded, Idle, RequestRecord, ImportPcs, JobsOK
  <2>4. importing'[c].pc = pc /\ importing'[c].jobs = session /\ importing'[c].file = f
        /\ importing'[c].after = {q \in ImportRequests : Ended(q)}
    BY <2>2 DEF SessionLoaded, Idle
  <2>5. own.pc = "new" /\ UNCHANGED <<session, tmp, journal>>
    BY <1>5 DEF ConfirmBegin
  <2>6. pc \in {"loaded", "done"} /\ (pc = "loaded" => HasJob(session, f))
    OBVIOUS
  <2> HIDE DEF pc
  <2>7. Moves(c)
    BY <2>2, <2>3, <2>4, <2>5, <2>6, <1>1 DEF Moves, Ended
  <2> QED BY <2>1, <2>4, <2>5, <2>6, <2>7 DEF RequestBegins
<1>6. ASSUME ConfirmTake(c) PROVE Takes(c)
  <2> DEFINE rec == [own EXCEPT !.pc = "taken", !.jobs = session']
  <2>1. importing' = [importing EXCEPT ![c] = rec] /\ own.pc = "read" /\ UNCHANGED <<tmp, journal>>
        /\ session' = Without(own.jobs, own.file)
    BY <1>6 DEF ConfirmTake, Update
  <2>2. /\ rec \in RequestRecord /\ rec.pc = "taken" /\ rec.jobs = session' /\ rec.file = own.file
        /\ rec.after = own.after
    BY <1>1, <1>2, <2>1 DEF RequestRecord, ImportPcs
  <2> HIDE DEF rec
  <2>3. importing'[c] = rec /\ importing' = [importing EXCEPT ![c] = importing'[c]]
    BY <2>1, <1>1
  <2>4. Moves(c)
    BY <2>1, <2>2, <2>3, <1>1 DEF Moves, Ended
  <2> QED BY <2>1, <2>2, <2>3, <2>4 DEF Takes
<1>7. ASSUME ConfirmTmpMissing(c) PROVE Continues(c)
  <2> DEFINE rec == [own EXCEPT !.pc = "answering", !.jobs = Without(own.jobs, own.file)]
  <2>1. importing' = [importing EXCEPT ![c] = rec] /\ own.pc = "loaded" /\ UNCHANGED <<session, tmp, journal>>
    BY <1>7 DEF ConfirmTmpMissing, Update
  <2>2. /\ rec \in RequestRecord /\ rec.pc = "answering" /\ rec.jobs = Without(own.jobs, own.file)
        /\ rec.file = own.file /\ rec.after = own.after
    BY <1>1, <1>2 DEF RequestRecord, ImportPcs
  <2>3. journal[c] = NoLog
    BY <1>1, <2>1 DEF ConfirmOK
  <2>4. journal' = [journal EXCEPT ![c] = journal'[c]]
    BY <1>1, <2>1
  <2> HIDE DEF rec
  <2> QED BY <2>1, <2>2, <2>3, <2>4, ConfirmContinues
<1>8. ASSUME ConfirmRead(c) PROVE Continues(c)
  <2>1. PICK chosen \in SUBSET Lines : importing' = [importing EXCEPT ![c] = [own EXCEPT
            !.pc = IF chosen = {} THEN "done" ELSE "read", !.chosen = chosen,
            !.dups = Duplicates(own.file),
            !.saw = {d \in Confirms : \E s \in imported : s.by = d}]]
    BY <1>8 DEF ConfirmRead, Update
  <2> DEFINE rec == [own EXCEPT
            !.pc = IF chosen = {} THEN "done" ELSE "read", !.chosen = chosen,
            !.dups = Duplicates(own.file),
            !.saw = {d \in Confirms : \E s \in imported : s.by = d}]
  <2>2. Duplicates(own.file) \in SUBSET Lines
    BY DEF Duplicates
  <2>3. /\ rec \in RequestRecord /\ rec.pc \in {"done", "read"} /\ rec.jobs = own.jobs
        /\ rec.file = own.file /\ rec.after = own.after
    BY <1>1, <2>2 DEF RequestRecord, ImportPcs
  <2>4. importing' = [importing EXCEPT ![c] = rec]
    BY <2>1
  <2>5. own.pc = "loaded" /\ UNCHANGED <<session, tmp, journal>> /\ tmp[own.file] # "absent"
    BY <1>8 DEF ConfirmRead
  <2>6. journal[c] = NoLog /\ journal' = [journal EXCEPT ![c] = journal'[c]]
    BY <1>1, <2>5 DEF ConfirmOK
  <2> HIDE DEF rec
  <2> QED BY <2>3, <2>4, <2>5, <2>6, ConfirmContinues
<1>9. ASSUME NEW pc \in ImportPcs, importing' = [importing EXCEPT ![c] = [own EXCEPT !.pc = pc]],
             pc \in {"logged", "failed", "marked", "closing"},
             own.pc \in {"taken", "logged", "failed", "marked"},
             UNCHANGED <<session, tmp>>, journal' = [journal EXCEPT ![c] = journal'[c]]
      PROVE  Continues(c)
  <2> DEFINE rec == [own EXCEPT !.pc = pc]
  <2>1. /\ rec \in RequestRecord /\ rec.pc = pc /\ rec.jobs = own.jobs /\ rec.file = own.file
        /\ rec.after = own.after
    BY <1>3
  <2>2. importing' = [importing EXCEPT ![c] = rec]
    BY <1>9
  <2> HIDE DEF rec
  <2> QED BY <1>9, <2>1, <2>2, ConfirmContinues
<1>10. ASSUME ConfirmLog(c) PROVE Continues(c)
  <2>1. journal' = [journal EXCEPT ![c] = journal'[c]]
    BY <1>1, <1>10 DEF ConfirmLog
  <2> QED BY <1>9, <1>10, <2>1 DEF ConfirmLog, Update, ImportPcs
<1>11. ASSUME ConfirmBatch(c) PROVE Continues(c)
  <2>1. journal' = [journal EXCEPT ![c] = journal'[c]]
    BY <1>1, <1>11 DEF ConfirmBatch
  <2> QED BY <1>9, <1>11, <2>1 DEF ConfirmBatch, Update, ImportPcs
<1>12. ASSUME ConfirmBatchFails(c) PROVE Continues(c)
  <2>1. journal' = [journal EXCEPT ![c] = journal'[c]]
    BY <1>1, <1>12 DEF ConfirmBatchFails
  <2> QED BY <1>9, <1>12, <2>1 DEF ConfirmBatchFails, Update, ImportPcs
<1>13. ASSUME ConfirmMarkError(c) PROVE Continues(c)
  <2>1. journal' = [journal EXCEPT ![c] = journal'[c]]
    BY <1>1, <1>13 DEF ConfirmMarkError
  <2> QED BY <1>9, <1>13, <2>1 DEF ConfirmMarkError, Update, ImportPcs
<1>14. ASSUME ConfirmMarkResults(c) PROVE Continues(c)
  <2>1. journal' = [journal EXCEPT ![c] = journal'[c]]
    BY <1>1, <1>14 DEF ConfirmMarkResults
  <2> QED BY <1>9, <1>14, <2>1 DEF ConfirmMarkResults, Update, ImportPcs
<1>15. ASSUME NEW pc \in {"done", "answering"}, importing' = [importing EXCEPT ![c] = [own EXCEPT !.pc = pc]],
              own.pc \in {"taken", "failed", "marked", "closing"},
              tmp' = DeleteTmp(own.file), UNCHANGED <<session, journal>>
       PROVE  Continues(c)
  <2> DEFINE rec == [own EXCEPT !.pc = pc]
  <2>1. /\ rec \in RequestRecord /\ rec.pc = pc /\ rec.jobs = own.jobs /\ rec.file = own.file
        /\ rec.after = own.after
    BY <1>3 DEF ImportPcs
  <2>2. importing' = [importing EXCEPT ![c] = rec]
    BY <1>15
  <2>3. own.file \in Files
    BY <1>1, <1>15 DEF ConfirmOK
  <2>4. tmp'[own.file] = "absent" /\ journal' = [journal EXCEPT ![c] = journal'[c]]
    BY <1>1, <1>15, <2>3 DEF DeleteTmp
  <2> HIDE DEF rec
  <2> QED BY <1>15, <2>1, <2>2, <2>4, ConfirmContinues
<1>16. ASSUME ConfirmRaises(c) PROVE Continues(c)
  BY <1>15, <1>16 DEF ConfirmRaises, Update
<1>17. ASSUME ConfirmClose(c) PROVE Continues(c)
  BY <1>15, <1>17 DEF ConfirmClose, Update
<1> QED BY <1>5, <1>6, <1>7, <1>8, <1>10, <1>11, <1>12, <1>13, <1>14, <1>16, <1>17

LEMMA RequestMoves ==
    ASSUME ImportsAssumption, TokenInv, NEW r \in ImportRequests
    PROVE  Respond(r) \/ ImportKilled(r) => Continues(r)
<1> DEFINE own == importing[r]
<1>1. /\ importing \in [ImportRequests -> RequestRecord] /\ own \in RequestRecord
      /\ tmp \in [Files -> {"absent", "fresh", "old"}] /\ journal = [x \in Confirms |-> journal[x]]
      /\ JobsOK(own.jobs)
  BY DEF TokenInv, RequestsOK, RequestOK
<1>2. ASSUME NEW pc \in {"done", "killed"}, importing' = [importing EXCEPT ![r] = [own EXCEPT !.pc = pc]],
             own.pc \notin {"new", "done", "killed"}, pc = "done" => own.pc = "answering",
             session' = session \/ session' = own.jobs, UNCHANGED <<tmp, journal>>
      PROVE  Continues(r)
  <2> DEFINE rec == [own EXCEPT !.pc = pc]
  <2>1. /\ rec \in RequestRecord /\ rec.pc = pc /\ rec.jobs = own.jobs /\ rec.file = own.file
        /\ rec.after = own.after
    BY <1>1 DEF RequestRecord, ImportPcs
  <2>2. importing'[r] = rec /\ importing' = [importing EXCEPT ![r] = importing'[r]]
    BY <1>1, <1>2
  <2> HIDE DEF rec
  <2>3. Moves(r)
    BY <1>1, <1>2, <2>1, <2>2 DEF Moves, Ended
  <2>4. ASSUME r \in Confirms
        PROVE  ConfirmOK(r)' /\ (PastTake(r)' => PastTake(r)) /\ (PastRead(r)' => PastRead(r))
    <3>1. ConfirmOK(r) /\ r \notin Files /\ Files \subseteq ImportRequests
      BY <2>4 DEF TokenInv, RequestsOK, ImportRequests, ImportsAssumption
    <3>2. own.file \in Files /\ importing'[own.file].pc = "done"
      BY <3>1, <1>1, <1>2, <2>1 DEF ConfirmOK
    <3>3. (PastTake(r)' => PastTake(r)) /\ (PastRead(r)' => PastRead(r))
      BY <1>2, <2>1, <2>2 DEF PastTake, PastRead
    <3> QED BY <3>1, <3>2, <3>3, <1>2, <2>1, <2>2 DEF ConfirmOK
  <2> QED BY <1>1, <1>2, <2>1, <2>2, <2>3, <2>4 DEF Continues, JobsOK
<1>3. ASSUME Respond(r) PROVE Continues(r)
  BY <1>2, <1>3 DEF Respond, Update
<1>4. ASSUME ImportKilled(r) PROVE Continues(r)
  BY <1>2, <1>4 DEF ImportKilled, Update
<1> QED BY <1>3, <1>4

LEMMA TokenNext ==
    ASSUME ImportsAssumption, TokenInv, [ImportsNext]_importVars
    PROVE  TokenInv'
<1>1. tmp \in [Files -> {"absent", "fresh", "old"}]
  BY DEF TokenInv, RequestsOK
<1>2. ASSUME NEW f \in Files, UploadBegin(f) \/ UploadStore(f) \/ UploadFails(f) \/ TmpAges(f) PROVE TokenInv'
  <2>1. f \in ImportRequests
    BY DEF ImportRequests
  <2> QED BY <1>2, <2>1, UploadMoves, BeginsKeeps, ContinuesKeeps, RestsKeeps
<1>3. ASSUME NEW c \in Confirms, ConfirmNext(c) PROVE TokenInv'
  <2>1. c \in ImportRequests
    BY DEF ImportRequests
  <2> QED BY <1>3, <2>1, ConfirmMoves, BeginsKeeps, TakesKeeps, ContinuesKeeps DEF ConfirmNext
<1>4. ASSUME NEW r \in ImportRequests, Respond(r) \/ ImportKilled(r) PROVE TokenInv'
  BY <1>4, RequestMoves, ContinuesKeeps
<1>5. ASSUME CleanupTmp PROVE TokenInv'
  <2>1. Rests
    BY <1>1, <1>5 DEF CleanupTmp, Rests
  <2> QED BY <2>1, RestsKeeps
<1>6. ASSUME NEW s \in imported, DeleteImported(s) PROVE TokenInv'
  <2>1. Rests
    BY <1>1, <1>6 DEF DeleteImported, Rests
  <2> QED BY <2>1, RestsKeeps
<1>7. ASSUME UNCHANGED importVars PROVE TokenInv'
  <2>1. Rests
    BY <1>1, <1>7 DEF importVars, Rests
  <2> QED BY <2>1, RestsKeeps
<1> QED BY <1>2, <1>3, <1>4, <1>5, <1>6, <1>7 DEF ImportsNext

(***************************************************************************)
(* Imports: the journal of an import                                       *)
(***************************************************************************)

LogRecord == [status : {"none", "error", "partial", "success"}, imported : Nat, skipped : Nat,
              duplicates : Nat, errors : Nat, results : Nat]

\* The shipments of an import, one for a line.
ImportedBy(c) == {s \in imported : s.by = c}

LogSums(log) ==
    /\ log.imported > 0 \/ log.status \in {"success", "partial"} =>
         /\ log.imported + log.skipped + log.duplicates + log.errors = Cardinality(Lines)
         /\ log.results = Cardinality(Lines)
    /\ log.status = "success" => log.imported = Cardinality(Lines)
    /\ log.results > 0 /\ log.status = "error" => log.results = log.errors \/ log.results = Cardinality(Lines)

LogOK(c) ==
    /\ journal[c] \in LogRecord /\ LogSums(journal[c])
    /\ IsFiniteSet(ImportedBy(c)) /\ journal[c].imported = Cardinality(ImportedBy(c))
    /\ importing[c].pc \in {"new", "loaded", "read", "taken", "logged", "failed", "marked"} => ImportedBy(c) = {}
    /\ importing[c].pc \in {"logged", "failed", "marked"} =>
         /\ journal[c].status = "error" /\ journal[c].imported = 0
         /\ importing[c].pc # "marked" => journal[c].results = 0

\* What a confirmation found when it looked for duplicates.
SawOK(c) ==
    /\ \A d \in importing[c].saw : ImportedBy(d) # {}
    /\ \A s \in imported, l \in Lines :
         /\ s.by \in importing[c].saw /\ ~s.deleted /\ LinesOf[importing[c].file][l] = s.key
         => l \in importing[c].dups
    /\ \A t \in imported : t.by = c =>
         /\ t.line \notin importing[c].dups
         /\ t.key = StoredAs[LinesOf[importing[c].file][t.line]]

JournalInv ==
    /\ imported \subseteq Shipment
    /\ \A s, t \in imported : s.by = t.by /\ s.line = t.line => s = t
    /\ \A c \in Confirms : LogOK(c) /\ SawOK(c)

\* The lines of a file fall into four outcomes.
LEMMA FourParts ==
    ASSUME NEW S, IsFiniteSet(S), NEW A \in SUBSET S, NEW B \in SUBSET S, NEW C \in SUBSET S, NEW D \in SUBSET S,
           S = (A \cup B) \cup (C \cup D),
           A \cap B = {}, C \cap D = {}, (A \cup B) \cap (C \cup D) = {}
    PROVE  /\ Cardinality(A) \in Nat /\ Cardinality(B) \in Nat /\ Cardinality(C) \in Nat /\ Cardinality(D) \in Nat
           /\ Cardinality(S) = Cardinality(A) + Cardinality(B) + Cardinality(C) + Cardinality(D)
<1>1. IsFiniteSet(A) /\ IsFiniteSet(B) /\ IsFiniteSet(C) /\ IsFiniteSet(D)
  BY FS_Subset
<1>2. Cardinality(A) \in Nat /\ Cardinality(B) \in Nat /\ Cardinality(C) \in Nat /\ Cardinality(D) \in Nat
  BY <1>1, FS_CardinalityType
<1>3. Cardinality(A \cap B) = 0 /\ Cardinality(C \cap D) = 0 /\ Cardinality((A \cup B) \cap (C \cup D)) = 0
  <2>1. Cardinality({}) = 0
    BY FS_EmptySet
  <2> QED BY <2>1, Zenon
<1>4. IsFiniteSet(A \cup B) /\ Cardinality(A \cup B) = Cardinality(A) + Cardinality(B) - Cardinality(A \cap B)
  BY <1>1, FS_Union
<1>5. IsFiniteSet(C \cup D) /\ Cardinality(C \cup D) = Cardinality(C) + Cardinality(D) - Cardinality(C \cap D)
  BY <1>1, FS_Union
<1>6. Cardinality((A \cup B) \cup (C \cup D)) =
        Cardinality(A \cup B) + Cardinality(C \cup D) - Cardinality((A \cup B) \cap (C \cup D))
  BY <1>4, <1>5, FS_Union
<1>7. PICK a \in Nat, b \in Nat, x \in Nat, d \in Nat :
        a = Cardinality(A) /\ b = Cardinality(B) /\ x = Cardinality(C) /\ d = Cardinality(D)
  BY <1>2
<1>8. Cardinality(A \cup B) = a + b
  BY <1>3, <1>4, <1>7
<1>9. Cardinality(C \cup D) = x + d
  BY <1>3, <1>5, <1>7
<1>10. Cardinality(S) = (a + b) + (x + d) - 0
  BY <1>3, <1>6, <1>8, <1>9
<1> QED BY <1>2, <1>7, <1>10

LEMMA Outcomes ==
    ASSUME ImportsAssumption, NEW c, NEW broken
    PROVE  LET created == LinesThat(c, "created", broken)
               skipped == LinesThat(c, "skipped", broken)
               duplicate == LinesThat(c, "duplicate", broken)
               error == LinesThat(c, "error", broken)
               n(S) == Cardinality(S)
           IN  /\ created \subseteq Lines /\ IsFiniteSet(created)
               /\ \A l \in created : l \notin importing[c].dups /\ KeyOf(c, l) # NoKey
               /\ n(created) \in Nat /\ n(skipped) \in Nat /\ n(duplicate) \in Nat /\ n(error) \in Nat
               /\ n(Lines) = n(created) + n(skipped) + n(duplicate) + n(error)
<1> DEFINE created == LinesThat(c, "created", broken)
           skipped == LinesThat(c, "skipped", broken)
           duplicate == LinesThat(c, "duplicate", broken)
           error == LinesThat(c, "error", broken)
<1>1. /\ created \in SUBSET Lines /\ skipped \in SUBSET Lines
      /\ duplicate \in SUBSET Lines /\ error \in SUBSET Lines
  BY DEF LinesThat
<1>2. Lines = (created \cup skipped) \cup (duplicate \cup error)
  BY DEF LinesThat
<1>3. created \cap skipped = {} /\ duplicate \cap error = {} /\ (created \cup skipped) \cap (duplicate \cup error) = {}
  BY DEF LinesThat
<1>4. \A l \in created : l \notin importing[c].dups /\ KeyOf(c, l) # NoKey
  BY DEF LinesThat
<1>5. IsFiniteSet(Lines)
  BY DEF ImportsAssumption
<1>6. IsFiniteSet(created)
  BY <1>1, <1>5, FS_Subset
<1> HIDE DEF created, skipped, duplicate, error
<1>7. /\ Cardinality(created) \in Nat /\ Cardinality(skipped) \in Nat
      /\ Cardinality(duplicate) \in Nat /\ Cardinality(error) \in Nat
      /\ Cardinality(Lines) = Cardinality(created) + Cardinality(skipped) + Cardinality(duplicate) + Cardinality(error)
  <2>1. Lines = (created \cup skipped) \cup (duplicate \cup error) => Cardinality(Lines) =
          Cardinality(created) + Cardinality(skipped) + Cardinality(duplicate) + Cardinality(error)
    BY <1>1, <1>3, <1>5, FourParts
  <2>2. IsFiniteSet(created) /\ IsFiniteSet(skipped) /\ IsFiniteSet(duplicate) /\ IsFiniteSet(error)
    BY <1>1, <1>5, FS_Subset
  <2>3. /\ Cardinality(created) \in Nat /\ Cardinality(skipped) \in Nat
        /\ Cardinality(duplicate) \in Nat /\ Cardinality(error) \in Nat
    BY <2>2, FS_CardinalityType
  <2> QED BY <2>1, <2>3, <1>2
<1> QED BY <1>1, <1>4, <1>6, <1>7 DEF created, skipped, duplicate, error

\* One shipment for every line that is created.
LEMMA OneForALine ==
    ASSUME ImportsAssumption, NEW c \in Confirms, NEW broken, importing[c].file \in Files
    PROVE  /\ Created(c, broken) \subseteq Shipment
           /\ IsFiniteSet(Created(c, broken))
           /\ Cardinality(Created(c, broken)) = Cardinality(LinesThat(c, "created", broken))
           /\ \A s \in Created(c, broken) :
                /\ s.by = c /\ ~s.deleted /\ s.line \notin importing[c].dups
                /\ s.key = StoredAs[LinesOf[importing[c].file][s.line]]
           /\ \A s, t \in Created(c, broken) : s.line = t.line => s = t
<1> DEFINE L == LinesThat(c, "created", broken)
           Of(l) == [by |-> c, line |-> l, key |-> StoredAs[KeyOf(c, l)], deleted |-> FALSE]
           B == {Of(l) : l \in L}
           f == [l \in L |-> Of(l)]
<1>1. L \subseteq Lines /\ IsFiniteSet(L) /\ \A l \in L : l \notin importing[c].dups /\ KeyOf(c, l) # NoKey
  BY Outcomes
<1>2. Created(c, broken) = B
  BY DEF Created
<1>3. \A l \in Lines : KeyOf(c, l) = LinesOf[importing[c].file][l] /\ KeyOf(c, l) \in Keys \cup {NoKey}
  BY DEF KeyOf, ImportsAssumption
<1> HIDE DEF L
<1>4. \A l \in L : /\ Of(l).by = c /\ Of(l).line = l /\ ~Of(l).deleted /\ Of(l) \in Shipment
                   /\ Of(l).key = StoredAs[LinesOf[importing[c].file][l]]
  BY <1>1, <1>3 DEF Shipment, ImportsAssumption
<1> HIDE DEF Of
<1>5. f \in Bijection(L, B)
  <2>1. f \in [L -> B]
    OBVIOUS
  <2>2. IsInjective(f)
    BY <1>4 DEF IsInjective
  <2>3. \A b \in B : \E l \in L : f[l] = b
    OBVIOUS
  <2> HIDE DEF f, B
  <2> QED BY <2>1, <2>2, <2>3 DEF Bijection, Injection, Surjection
<1>6. IsFiniteSet(B) /\ Cardinality(B) = Cardinality(L)
  <2>1. ExistsBijection(L, B)
    BY <1>5 DEF ExistsBijection
  <2> HIDE DEF B, f
  <2> QED BY <2>1, <1>1, FS_Bijection
<1>7. \A s \in B : \E l \in L : s = Of(l)
  OBVIOUS
<1> HIDE DEF B
<1>8. /\ B \subseteq Shipment
      /\ \A s \in B : /\ s.by = c /\ ~s.deleted /\ s.line \notin importing[c].dups
                      /\ s.key = StoredAs[LinesOf[importing[c].file][s.line]]
      /\ \A s, t \in B : s.line = t.line => s = t
  BY <1>1, <1>4, <1>7
<1> QED BY <1>2, <1>6, <1>8 DEF L

\* The log that goes with them.
LEMMA BatchSums ==
    ASSUME ImportsAssumption, NEW c, NEW broken
    PROVE  /\ BatchLog(c, broken) \in LogRecord /\ LogSums(BatchLog(c, broken))
           /\ BatchLog(c, broken).imported = Cardinality(LinesThat(c, "created", broken))
<1> DEFINE created == Cardinality(LinesThat(c, "created", broken))
           skipped == Cardinality(LinesThat(c, "skipped", broken))
           duplicate == Cardinality(LinesThat(c, "duplicate", broken))
           error == Cardinality(LinesThat(c, "error", broken))
           all == Cardinality(Lines)
           log == [InitialLog EXCEPT !.imported = created, !.skipped = skipped,
                     !.duplicates = duplicate, !.errors = error, !.results = all]
           final == [log EXCEPT !.status = ImportStatus(log)]
<1>1. BatchLog(c, broken) = final
  BY DEF BatchLog
<1>2. created \in Nat /\ skipped \in Nat /\ duplicate \in Nat /\ error \in Nat
      /\ all = created + skipped + duplicate + error
  BY Outcomes
<1> HIDE DEF created, skipped, duplicate, error, all
<1>3. all \in Nat
  BY <1>2
<1>4. ImportStatus(log) = IF created = 0 /\ error > 0 THEN "error"
                          ELSE IF skipped + duplicate + error > 0 THEN "partial" ELSE "success"
  BY DEF ImportStatus, InitialLog, NoLog
<1>5. /\ final.status = ImportStatus(log) /\ final.imported = created /\ final.skipped = skipped
      /\ final.duplicates = duplicate /\ final.errors = error /\ final.results = all
  BY DEF InitialLog, NoLog
<1>6. final \in LogRecord
  BY <1>2, <1>3, <1>4 DEF LogRecord, InitialLog, NoLog
<1> HIDE DEF log, final
<1>7. LogSums(final)
  BY <1>2, <1>3, <1>4, <1>5 DEF LogSums, all
<1> QED BY <1>1, <1>5, <1>6, <1>7 DEF created

LEMMA JournalInit ==
    ASSUME ImportsAssumption, ImportsInit
    PROVE  JournalInv
<1>1. imported = {} /\ \A c \in Confirms : ImportedBy(c) = {}
  BY DEF ImportsInit, ImportedBy
<1>2. IsFiniteSet({}) /\ Cardinality({}) = 0
  BY FS_EmptySet
<1>3. ASSUME NEW c \in Confirms PROVE LogOK(c) /\ SawOK(c)
  <2>1. importing[c].pc = "new" /\ importing[c].saw = {} /\ journal[c] = NoLog
    BY DEF ImportsInit, ImportRequests, ImportsAssumption, Idle
  <2>2. NoLog \in LogRecord /\ LogSums(NoLog) /\ NoLog.imported = 0
    BY DEF NoLog, LogRecord, LogSums
  <2>3. Cardinality(ImportedBy(c)) = 0 /\ IsFiniteSet(ImportedBy(c))
    BY <1>1, <1>2
  <2> HIDE DEF LogRecord
  <2>4. LogOK(c)
    BY <1>1, <2>1, <2>2, <2>3 DEF LogOK
  <2> QED BY <1>1, <2>1, <2>4 DEF SawOK
<1> QED BY <1>1, <1>3 DEF JournalInv

\* A step of request r that inserts nothing.
LEMMA JournalStays ==
    ASSUME ImportsAssumption, RequestsOK, JournalInv, NEW r \in ImportRequests, NEW rec,
           importing' = [importing EXCEPT ![r] = rec],
           imported' = imported,
           \A c \in Confirms : c # r => journal'[c] = journal[c],
           r \in Confirms => LogOK(r)' /\ SawOK(r)'
    PROVE  JournalInv'
<1>1. ASSUME NEW c \in Confirms, c # r PROVE LogOK(c)' /\ SawOK(c)'
  <2>1. importing'[c] = importing[c] /\ journal'[c] = journal[c]
    BY <1>1 DEF RequestsOK, ImportRequests
  <2>2. LogOK(c) /\ SawOK(c)
    BY DEF JournalInv
  <2> QED BY <2>1, <2>2 DEF LogOK, SawOK, ImportedBy
<1> QED BY <1>1 DEF JournalInv

\* The same log, and what was found is the same or nothing.
LEMMA LogStays ==
    ASSUME ImportsAssumption, RequestsOK, JournalInv, NEW r \in ImportRequests, NEW rec,
           importing' = [importing EXCEPT ![r] = rec],
           imported' = imported, journal' = journal,
           \/ rec.saw = importing[r].saw /\ rec.dups = importing[r].dups /\ rec.file = importing[r].file
           \/ importing[r].pc = "new" /\ rec.saw = {},
           LET own == importing[r] IN
           /\ own.pc \notin {"new", "loaded", "read", "taken", "logged", "failed", "marked"} =>
                rec.pc \notin {"new", "loaded", "read", "taken", "logged", "failed", "marked"}
           /\ rec.pc \in {"logged", "failed"} => own.pc \in {"logged", "failed"}
           /\ rec.pc = "marked" => own.pc \in {"logged", "failed", "marked"}
    PROVE  JournalInv'
<1>1. importing'[r] = rec
  BY DEF RequestsOK
<1>2. ASSUME r \in Confirms PROVE LogOK(r)' /\ SawOK(r)'
  <2>1. LogOK(r) /\ SawOK(r)
    BY <1>2 DEF JournalInv
  <2>2. \A d : ImportedBy(d)' = ImportedBy(d)
    BY DEF ImportedBy
  <2>3. LogOK(r)'
    BY <1>1, <2>1, <2>2 DEF LogOK
  <2>4. CASE importing[r].pc = "new" /\ rec.saw = {}
    <3>1. \A t \in imported : t.by # r
      BY <2>1, <2>4 DEF LogOK, ImportedBy
    <3>2. imported' = imported /\ importing'[r].saw = {}
      BY <1>1, <2>4
    <3> QED BY <2>3, <3>1, <3>2 DEF SawOK
  <2>5. CASE rec.saw = importing[r].saw /\ rec.dups = importing[r].dups /\ rec.file = importing[r].file
    <3>1. imported' = imported /\ importing'[r].saw = importing[r].saw
          /\ importing'[r].dups = importing[r].dups /\ importing'[r].file = importing[r].file
      BY <1>1, <2>5
    <3> QED BY <2>1, <2>2, <2>3, <3>1 DEF SawOK
  <2> QED BY <2>3, <2>4, <2>5
<1> QED BY <1>2, JournalStays

LEMMA ReadJournal ==
    ASSUME ImportsAssumption, RequestsOK, JournalInv, NEW c \in Confirms, ConfirmRead(c)
    PROVE  JournalInv'
<1>1. PICK chosen \in SUBSET Lines : importing' = [importing EXCEPT ![c] = [importing[c] EXCEPT
          !.pc = IF chosen = {} THEN "done" ELSE "read", !.chosen = chosen,
          !.dups = Duplicates(importing[c].file),
          !.saw = {d \in Confirms : \E s \in imported : s.by = d}]]
  BY DEF ConfirmRead, Update
<1> DEFINE rec == [importing[c] EXCEPT
          !.pc = IF chosen = {} THEN "done" ELSE "read", !.chosen = chosen,
          !.dups = Duplicates(importing[c].file),
          !.saw = {d \in Confirms : \E s \in imported : s.by = d}]
<1>2. c \in ImportRequests /\ importing[c] \in RequestRecord
  BY DEF RequestsOK, ImportRequests
<1>3. /\ rec.pc \in {"done", "read"} /\ rec.file = importing[c].file
      /\ rec.dups = Duplicates(importing[c].file) /\ rec.saw = {d \in Confirms : \E s \in imported : s.by = d}
  BY <1>2 DEF RequestRecord
<1>4. importing' = [importing EXCEPT ![c] = rec] /\ imported' = imported /\ journal' = journal
      /\ importing[c].pc = "loaded"
  BY <1>1 DEF ConfirmRead
<1> HIDE DEF rec
<1>5. importing'[c] = rec
  BY <1>2, <1>4 DEF RequestsOK
<1>6. LogOK(c) /\ \A d : ImportedBy(d)' = ImportedBy(d)
  BY <1>4 DEF JournalInv, ImportedBy
<1>7. LogOK(c)'
  BY <1>3, <1>4, <1>5, <1>6 DEF LogOK
<1>8. SawOK(c)'
  <2>1. \A d \in rec.saw : ImportedBy(d)' # {}
    <3>1. \A d \in rec.saw : ImportedBy(d) # {}
      BY <1>3 DEF ImportedBy
    <3> QED BY <3>1, <1>6
  <2>2. \A s \in imported, l \in Lines :
          ~s.deleted /\ LinesOf[rec.file][l] = s.key => l \in rec.dups
    BY <1>3 DEF Duplicates, ExistingKeys
  <2>3. \A t \in imported : t.by # c
    BY <1>4, <1>6 DEF LogOK, ImportedBy
  <2> QED BY <1>4, <1>5, <2>1, <2>2, <2>3 DEF SawOK
<1> QED BY <1>2, <1>4, <1>7, <1>8, JournalStays

\* A step that changes the log of c, and no shipment.
LEMMA LogChanges ==
    ASSUME ImportsAssumption, RequestsOK, JournalInv, NEW c \in Confirms, NEW pc \in ImportPcs, NEW log,
           importing' = [importing EXCEPT ![c] = [importing[c] EXCEPT !.pc = pc]],
           journal' = [journal EXCEPT ![c] = log],
           imported' = imported,
           log \in LogRecord, LogSums(log), log.imported = 0, log.status = "error",
           pc \in {"logged", "failed"} => log.results = 0,
           importing[c].pc \in {"taken", "logged", "failed", "marked"}
    PROVE  JournalInv'
<1> DEFINE rec == [importing[c] EXCEPT !.pc = pc]
<1>1. c \in ImportRequests /\ importing[c] \in RequestRecord
  BY DEF RequestsOK, ImportRequests
<1>2. /\ rec.pc = pc /\ rec.file = importing[c].file /\ rec.dups = importing[c].dups /\ rec.saw = importing[c].saw
  BY <1>1 DEF RequestRecord
<1>3. importing' = [importing EXCEPT ![c] = rec]
  OBVIOUS
<1> HIDE DEF rec, LogRecord
<1>4. importing'[c] = rec /\ journal'[c] = log /\ \A d \in Confirms : d # c => journal'[d] = journal[d]
  BY <1>1, <1>3 DEF RequestsOK
<1>5. LogOK(c) /\ SawOK(c) /\ \A d : ImportedBy(d)' = ImportedBy(d)
  BY DEF JournalInv, ImportedBy
<1>6. ImportedBy(c) = {} /\ Cardinality(ImportedBy(c)) = 0
  <2>1. ImportedBy(c) = {}
    BY <1>5 DEF LogOK
  <2> QED BY <2>1, FS_EmptySet
<1>7. LogOK(c)'
  BY <1>2, <1>4, <1>5, <1>6 DEF LogOK
<1>8. SawOK(c)'
  BY <1>2, <1>4, <1>5 DEF SawOK
<1> QED BY <1>1, <1>3, <1>4, <1>7, <1>8, JournalStays

LEMMA LogJournal ==
    ASSUME ImportsAssumption, RequestsOK, JournalInv, NEW c \in Confirms
    PROVE  ConfirmLog(c) \/ ConfirmMarkError(c) \/ ConfirmMarkResults(c) => JournalInv'
<1>1. journal = [x \in Confirms |-> journal[x]] /\ LogOK(c) /\ journal[c] \in LogRecord
  BY DEF RequestsOK, JournalInv, LogOK
<1>2. ASSUME ConfirmLog(c) PROVE JournalInv'
  <2>1. InitialLog \in LogRecord /\ LogSums(InitialLog) /\ InitialLog.imported = 0 /\ InitialLog.status = "error"
        /\ InitialLog.results = 0
    BY DEF InitialLog, NoLog, LogRecord, LogSums
  <2>2. "logged" \in ImportPcs
    BY DEF ImportPcs
  <2> HIDE DEF LogRecord, InitialLog
  <2> QED BY <1>2, <2>1, <2>2, LogChanges DEF ConfirmLog, Update
<1>3. ASSUME ConfirmMarkError(c) PROVE JournalInv'
  <2> DEFINE n == Cardinality(LinesThat(c, "created", {}))
             log == [journal[c] EXCEPT !.errors = n]
  <2>1. n \in Nat
    BY Outcomes
  <2>2. journal' = [journal EXCEPT ![c] = log] /\ importing[c].pc = "failed" /\ imported' = imported
        /\ importing' = [importing EXCEPT ![c] = [importing[c] EXCEPT !.pc = "marked"]]
    BY <1>3 DEF ConfirmMarkError, Update
  <2>3. journal[c].status = "error" /\ journal[c].imported = 0 /\ journal[c].results = 0
    BY <1>1, <2>2 DEF LogOK
  <2> HIDE DEF n
  <2>4. log \in LogRecord /\ log.imported = 0 /\ log.status = "error" /\ log.results = 0
    BY <1>1, <2>1, <2>3 DEF LogRecord
  <2> HIDE DEF log
  <2>5. LogSums(log) /\ "marked" \in ImportPcs
    BY <2>4 DEF LogSums, ImportPcs
  <2> QED BY <2>2, <2>4, <2>5, LogChanges
<1>4. ASSUME ConfirmMarkResults(c) PROVE JournalInv'
  <2> DEFINE log == [journal[c] EXCEPT !.results = journal[c].errors]
  <2>1. journal' = [journal EXCEPT ![c] = log] /\ importing[c].pc = "marked" /\ imported' = imported
        /\ importing' = [importing EXCEPT ![c] = [importing[c] EXCEPT !.pc = "closing"]]
    BY <1>4 DEF ConfirmMarkResults, Update
  <2>2. journal[c].status = "error" /\ journal[c].imported = 0
    BY <1>1, <2>1 DEF LogOK
  <2>3. log \in LogRecord /\ log.imported = 0 /\ log.status = "error" /\ log.results = log.errors
    BY <1>1, <2>2 DEF LogRecord
  <2> HIDE DEF log
  <2>4. LogSums(log) /\ "closing" \in ImportPcs
    BY <2>3 DEF LogSums, ImportPcs
  <2> QED BY <2>1, <2>3, <2>4, LogChanges
<1> QED BY <1>2, <1>3, <1>4

LEMMA BatchJournal ==
    ASSUME ImportsAssumption, RequestsOK, JournalInv, NEW c \in Confirms, ConfirmBatch(c)
    PROVE  JournalInv'
<1>1. PICK broken \in SUBSET LinesThat(c, "created", {}) :
        imported' = imported \cup Created(c, broken) /\ journal' = [journal EXCEPT ![c] = BatchLog(c, broken)]
  BY DEF ConfirmBatch
<1> DEFINE batch == Created(c, broken)
<1>2. c \in ImportRequests /\ importing[c] \in RequestRecord /\ importing[c].pc = "logged" /\ importing[c].file \in Files
  BY DEF RequestsOK, ImportRequests, ConfirmOK, ConfirmBatch
<1>3. /\ importing'[c].pc = "closing" /\ importing'[c].file = importing[c].file
      /\ importing'[c].dups = importing[c].dups /\ importing'[c].saw = importing[c].saw
      /\ \A d \in Confirms : d # c => importing'[d] = importing[d] /\ journal'[d] = journal[d]
      /\ journal'[c] = BatchLog(c, broken)
  <2>1. importing' = [importing EXCEPT ![c] = [importing[c] EXCEPT !.pc = "closing"]]
    BY DEF ConfirmBatch, Update
  <2>2. /\ importing'[c] = [importing[c] EXCEPT !.pc = "closing"]
        /\ \A d \in Confirms : d # c => importing'[d] = importing[d] /\ journal'[d] = journal[d]
        /\ journal'[c] = BatchLog(c, broken)
    BY <2>1, <1>1, <1>2 DEF RequestsOK, ImportRequests
  <2>3. [importing[c] EXCEPT !.pc = "closing"].pc = "closing"
        /\ [importing[c] EXCEPT !.pc = "closing"].file = importing[c].file
        /\ [importing[c] EXCEPT !.pc = "closing"].dups = importing[c].dups
        /\ [importing[c] EXCEPT !.pc = "closing"].saw = importing[c].saw
    BY <1>2 DEF RequestRecord
  <2> HIDE DEF RequestRecord
  <2> QED BY <2>2, <2>3
<1>4. /\ batch \subseteq Shipment
      /\ IsFiniteSet(batch)
      /\ Cardinality(batch) = Cardinality(LinesThat(c, "created", broken))
      /\ \A s \in batch :
           /\ s.by = c /\ ~s.deleted /\ s.line \notin importing[c].dups
           /\ s.key = StoredAs[LinesOf[importing[c].file][s.line]]
      /\ \A s, t \in batch : s.line = t.line => s = t
  BY <1>2, OneForALine
<1>5. /\ BatchLog(c, broken) \in LogRecord /\ LogSums(BatchLog(c, broken))
      /\ BatchLog(c, broken).imported = Cardinality(LinesThat(c, "created", broken))
  BY BatchSums
<1>6. imported' = imported \cup batch
  BY <1>1
<1> HIDE DEF batch, LogRecord, RequestRecord
<1>7. \A t \in imported : t.by # c
  BY <1>2 DEF JournalInv, LogOK, ImportedBy
<1>8. ImportedBy(c)' = batch /\ \A d \in Confirms : d # c => ImportedBy(d)' = ImportedBy(d)
  BY <1>4, <1>6, <1>7 DEF ImportedBy
<1>9. imported' \subseteq Shipment /\ \A s, t \in imported' : s.by = t.by /\ s.line = t.line => s = t
  BY <1>4, <1>6, <1>7 DEF JournalInv
<1>10. ASSUME NEW d \in Confirms PROVE LogOK(d)'
  <2>1. CASE d = c
    BY <2>1, <1>3, <1>4, <1>5, <1>8 DEF LogOK
  <2>2. CASE d # c
    BY <2>2, <1>3, <1>8 DEF JournalInv, LogOK
  <2> QED BY <2>1, <2>2
<1>11. ASSUME NEW d \in Confirms PROVE SawOK(d)'
  <2>1. importing'[d].saw = importing[d].saw /\ importing'[d].dups = importing[d].dups
        /\ importing'[d].file = importing[d].file
    BY <1>3
  <2>2. SawOK(d)
    BY DEF JournalInv
  <2>3. c \notin importing[d].saw
    BY <2>2, <1>7 DEF SawOK, ImportedBy
  <2>4. \A e \in importing[d].saw : ImportedBy(e)' # {}
    BY <2>2, <1>6 DEF SawOK, ImportedBy
  <2>5. \A s \in imported' : s.by \in importing[d].saw => s \in imported
    BY <2>3, <1>4, <1>6
  <2>6. \A t \in imported' : t.by = d =>
          t.line \notin importing[d].dups /\ t.key = StoredAs[LinesOf[importing[d].file][t.line]]
    BY <2>2, <1>4, <1>6 DEF SawOK
  <2> QED BY <2>1, <2>2, <2>4, <2>5, <2>6 DEF SawOK
<1> QED BY <1>9, <1>10, <1>11 DEF JournalInv

LEMMA DeletionJournal ==
    ASSUME ImportsAssumption, RequestsOK, JournalInv, NEW s \in imported, DeleteImported(s)
    PROVE  JournalInv'
<1> DEFINE gone == [s EXCEPT !.deleted = TRUE]
<1>1. imported' = (imported \ {s}) \cup {gone} /\ UNCHANGED <<importing, journal>> /\ s.deleted = FALSE
  <2>1. s \in Shipment
    BY DEF JournalInv
  <2> QED BY <2>1 DEF DeleteImported, Shipment
<1>2. s \in Shipment /\ gone \in Shipment /\ gone.by = s.by /\ gone.line = s.line /\ gone.key = s.key /\ gone.deleted
      /\ s.by \in Confirms
  BY DEF JournalInv, Shipment
<1> HIDE DEF gone
<1>3. gone \notin imported
  <2>1. gone # s
    BY <1>1, <1>2
  <2> QED BY <1>2, <2>1 DEF JournalInv
<1>4. imported' \subseteq Shipment /\ \A t, u \in imported' : t.by = u.by /\ t.line = u.line => t = u
  BY <1>1, <1>2 DEF JournalInv
<1>5. ASSUME NEW c \in Confirms
      PROVE  /\ IsFiniteSet(ImportedBy(c)') /\ Cardinality(ImportedBy(c)') = Cardinality(ImportedBy(c))
             /\ (ImportedBy(c)' = {} <=> ImportedBy(c) = {})
  <2>1. IsFiniteSet(ImportedBy(c))
    BY DEF JournalInv, LogOK
  <2>2. CASE s.by # c
    <3>1. ImportedBy(c)' = ImportedBy(c)
      BY <2>2, <1>1, <1>2 DEF ImportedBy
    <3> QED BY <2>1, <3>1
  <2>3. CASE s.by = c
    <3> DEFINE S == ImportedBy(c)
    <3>1. ImportedBy(c)' = (S \ {s}) \cup {gone} /\ s \in S /\ gone \notin S \ {s}
      BY <2>3, <1>1, <1>2, <1>3 DEF ImportedBy
    <3> HIDE DEF S
    <3>2. IsFiniteSet(S) /\ Cardinality(S) \in Nat
      BY <2>1, FS_CardinalityType DEF S
    <3>3. IsFiniteSet(S \ {s}) /\ Cardinality(S \ {s}) = Cardinality(S) - 1
      BY <3>1, <3>2, FS_RemoveElement
    <3>4. IsFiniteSet((S \ {s}) \cup {gone}) /\ Cardinality((S \ {s}) \cup {gone}) = Cardinality(S \ {s}) + 1
      BY <3>1, <3>3, FS_AddElement
    <3>5. Cardinality((S \ {s}) \cup {gone}) = Cardinality(S)
      BY <3>2, <3>3, <3>4
    <3>6. (S \ {s}) \cup {gone} # {} /\ S # {}
      BY <3>1
    <3> QED BY <3>1, <3>4, <3>5, <3>6 DEF S
  <2> QED BY <2>2, <2>3
<1>6. ASSUME NEW c \in Confirms PROVE LogOK(c)'
  BY <1>1, <1>5 DEF JournalInv, LogOK
<1>7. ASSUME NEW c \in Confirms PROVE SawOK(c)'
  <2>1. SawOK(c) /\ importing[c].saw \subseteq Confirms
    BY DEF JournalInv, RequestsOK, RequestRecord, ImportRequests
  <2>2. \A d \in importing[c].saw : ImportedBy(d)' # {}
    BY <2>1, <1>5 DEF SawOK
  <2>3. \A t \in imported' : (t \in imported) \/ (t.deleted /\ t.by = s.by /\ t.line = s.line /\ t.key = s.key)
    BY <1>1, <1>2
  <2> QED BY <2>1, <2>2, <2>3, <1>1 DEF SawOK
<1> QED BY <1>4, <1>6, <1>7 DEF JournalInv

LEMMA JournalNext ==
    ASSUME ImportsAssumption, RequestsOK, JournalInv, [ImportsNext]_importVars
    PROVE  JournalInv'
<1>1. importing \in [ImportRequests -> RequestRecord] /\ Files \subseteq ImportRequests /\ Confirms \subseteq ImportRequests
  BY DEF RequestsOK, ImportRequests
\* A step that changes where the request is, and perhaps its jobs.
<1>2. ASSUME NEW r \in ImportRequests, NEW rec,
             importing' = [importing EXCEPT ![r] = rec],
             rec.saw = importing[r].saw, rec.dups = importing[r].dups, rec.file = importing[r].file,
             \/ rec.pc = "taken" /\ importing[r].pc = "read"
             \/ rec.pc = "answering",
             imported' = imported, journal' = journal
      PROVE  JournalInv'
  BY <1>2, LogStays
<1>3. ASSUME NEW r \in ImportRequests, NEW pc,
             importing' = [importing EXCEPT ![r] = [importing[r] EXCEPT !.pc = pc]],
             imported' = imported, journal' = journal,
             pc = "failed" => importing[r].pc = "logged",
             pc \notin {"new", "loaded", "read", "taken", "logged", "marked"}
      PROVE  JournalInv'
  <2> DEFINE rec == [importing[r] EXCEPT !.pc = pc]
  <2>1. importing' = [importing EXCEPT ![r] = rec]
    BY <1>3
  <2>2. /\ rec.pc = pc /\ rec.saw = importing[r].saw /\ rec.dups = importing[r].dups
        /\ rec.file = importing[r].file
    BY <1>1 DEF RequestRecord
  <2> HIDE DEF rec
  <2> QED BY <1>3, <2>1, <2>2, LogStays
<1>4. ASSUME NEW r \in ImportRequests, NEW pc, NEW f, Update(r, SessionLoaded(r, pc, f)), importing[r].pc = "new",
             imported' = imported, journal' = journal, pc \notin {"logged", "failed", "marked"}
      PROVE  JournalInv'
  <2> DEFINE rec == SessionLoaded(r, pc, f)
  <2>1. importing' = [importing EXCEPT ![r] = rec]
    BY <1>4 DEF Update
  <2>2. rec.saw = {} /\ rec.pc = pc
    BY DEF SessionLoaded, Idle
  <2> HIDE DEF rec
  <2> QED BY <1>4, <2>1, <2>2, LogStays
\* Nothing changes that the journal knows of.
<1>5. ASSUME UNCHANGED <<importing, journal, imported>> PROVE JournalInv'
  <2>1. \A c \in Confirms : LogOK(c)'
    BY <1>5 DEF JournalInv, LogOK, ImportedBy
  <2>2. \A c \in Confirms : SawOK(c)'
    BY <1>5 DEF JournalInv, SawOK, ImportedBy
  <2> QED BY <2>1, <2>2, <1>5 DEF JournalInv
<1>6. ASSUME NEW f \in Files, UploadBegin(f) \/ UploadStore(f) \/ UploadFails(f) \/ TmpAges(f) PROVE JournalInv'
  <2>1. f \in ImportRequests
    BY <1>1
  <2>2. CASE UploadBegin(f)
    BY <2>1, <2>2, <1>4 DEF UploadBegin
  <2>3. CASE UploadStore(f)
    <3> DEFINE rec == [importing[f] EXCEPT !.pc = "answering", !.jobs = WithJob(importing[f].jobs, f)]
    <3>1. /\ importing' = [importing EXCEPT ![f] = rec]
          /\ imported' = imported /\ journal' = journal
      BY <2>3 DEF UploadStore, Update
    <3>2. /\ rec.pc = "answering" /\ rec.saw = importing[f].saw /\ rec.dups = importing[f].dups
          /\ rec.file = importing[f].file
      BY <1>1, <2>1 DEF RequestRecord
    <3> HIDE DEF rec
    <3> QED BY <2>1, <3>1, <3>2, <1>2
  <2>4. CASE UploadFails(f)
    BY <2>1, <2>4, <1>3 DEF UploadFails, Update
  <2>5. CASE TmpAges(f)
    BY <2>5, <1>5 DEF TmpAges
  <2> QED BY <1>6, <2>2, <2>3, <2>4, <2>5
<1>7. ASSUME NEW c \in Confirms, ConfirmNext(c) PROVE JournalInv'
  <2>1. c \in ImportRequests
    BY <1>1
  <2>2. CASE ConfirmBegin(c)
    <3>1. PICK f \in Files : Update(c, SessionLoaded(c, IF HasJob(session, f) THEN "loaded" ELSE "done", f))
      BY <2>2 DEF ConfirmBegin
    <3>2. PICK pc \in {"loaded", "done"} : pc = IF HasJob(session, f) THEN "loaded" ELSE "done"
      OBVIOUS
    <3> QED BY <2>1, <2>2, <3>1, <3>2, <1>4 DEF ConfirmBegin
  <2>3. CASE ConfirmTmpMissing(c)
    <3> DEFINE rec == [importing[c] EXCEPT !.pc = "answering", !.jobs = Without(importing[c].jobs, importing[c].file)]
    <3>1. /\ importing' = [importing EXCEPT ![c] = rec]
          /\ imported' = imported /\ journal' = journal
      BY <2>3 DEF ConfirmTmpMissing, Update
    <3>2. /\ rec.pc = "answering" /\ rec.saw = importing[c].saw /\ rec.dups = importing[c].dups
          /\ rec.file = importing[c].file
      BY <1>1, <2>1 DEF RequestRecord
    <3> HIDE DEF rec
    <3> QED BY <2>1, <3>1, <3>2, <1>2
  <2>4. CASE ConfirmTake(c)
    <3> DEFINE rec == [importing[c] EXCEPT !.pc = "taken", !.jobs = session']
    <3>1. /\ importing' = [importing EXCEPT ![c] = rec]
          /\ imported' = imported /\ journal' = journal /\ importing[c].pc = "read"
      BY <2>4 DEF ConfirmTake, Update
    <3>2. /\ rec.pc = "taken" /\ rec.saw = importing[c].saw /\ rec.dups = importing[c].dups
          /\ rec.file = importing[c].file
      BY <1>1, <2>1 DEF RequestRecord
    <3> HIDE DEF rec
    <3> QED BY <2>1, <3>1, <3>2, <1>2
  <2>5. CASE ConfirmBatchFails(c)
    BY <2>1, <2>5, <1>3 DEF ConfirmBatchFails, Update
  <2>6. CASE ConfirmRaises(c)
    BY <2>1, <2>6, <1>3 DEF ConfirmRaises, Update
  <2>7. CASE ConfirmClose(c)
    BY <2>1, <2>7, <1>3 DEF ConfirmClose, Update
  <2> QED BY <1>7, <2>2, <2>3, <2>4, <2>5, <2>6, <2>7, ReadJournal, LogJournal, BatchJournal DEF ConfirmNext
<1>8. ASSUME NEW r \in ImportRequests, Respond(r) \/ ImportKilled(r) PROVE JournalInv'
  BY <1>8, <1>3 DEF Respond, ImportKilled, Update
<1>9. ASSUME CleanupTmp PROVE JournalInv'
  BY <1>9, <1>5 DEF CleanupTmp
<1>10. ASSUME UNCHANGED importVars PROVE JournalInv'
  BY <1>10, <1>5 DEF importVars
<1> QED BY <1>6, <1>7, <1>8, <1>9, <1>10, DeletionJournal DEF ImportsNext

\* At every moment the log of an import counts the shipments it has inserted.
THEOREM JournalCounts == ImportsSpec => []JournalMatchesShipments
<1> DEFINE Inv == TokenInv /\ JournalInv
<1>1. ImportsInit => Inv
  BY ImportsAssumption, TokenInit, JournalInit
<1>2. Inv /\ [ImportsNext]_importVars => Inv'
  BY ImportsAssumption, TokenNext, JournalNext DEF TokenInv
<1>3. Inv => JournalMatchesShipments
  BY DEF JournalInv, LogOK, LogSums, ImportedBy, JournalMatchesShipments
<1> HIDE DEF Inv
<1> QED BY <1>1, <1>2, <1>3, PTL DEF ImportsSpec

\* Nothing of a file is imported twice, but for the two reasons stated there.
THEOREM NothingTwice == ImportsSpec => []ImportedOnce
<1> DEFINE Inv == TokenInv /\ JournalInv
<1>1. ImportsInit => Inv
  BY ImportsAssumption, TokenInit, JournalInit
<1>2. Inv /\ [ImportsNext]_importVars => Inv'
  BY ImportsAssumption, TokenNext, JournalNext DEF TokenInv
<1>3. JournalInv => RepeatedOnlyIfRounded
  <2> SUFFICES ASSUME JournalInv, NEW s \in imported, NEW t \in imported,
                      s.key = t.key, ~s.deleted, s.by \in importing[t.by].saw,
                      StoredAs[KeyOf(t.by, t.line)] = KeyOf(t.by, t.line)
               PROVE  FALSE
    BY DEF RepeatedOnlyIfRounded
  <2>1. t.by \in Confirms /\ t.line \in Lines
    BY DEF JournalInv, Shipment
  <2>2. t.line \notin importing[t.by].dups /\ t.key = KeyOf(t.by, t.line)
    BY <2>1 DEF JournalInv, SawOK, KeyOf
  <2> QED BY <2>1, <2>2 DEF JournalInv, SawOK, KeyOf
<1>4. TokenInv => ProcessedAgainOnlyAfterKill
  <2> SUFFICES ASSUME TokenInv, NEW c \in Confirms, NEW d \in Confirms, c # d,
                      importing[c].file = importing[d].file, journal[c] # NoLog, journal[d] # NoLog,
                      c \in importing[d].after
               PROVE  /\ importing[c].pc = "killed"
                      /\ \E x \in ImportRequests \ {c, d} : Overlapped(c, x)
    BY DEF ProcessedAgainOnlyAfterKill, Processed
  <2>1. importing[c].pc = "killed" /\ SomeOverlapped(c)
    BY DEF TokenInv, TakenAgain, PastTake, PastRead
  <2>2. ~Overlapped(c, d)
    BY DEF Overlapped
  <2> QED BY <2>1, <2>2 DEF SomeOverlapped
<1>5. Inv => ImportedOnce
  BY <1>3, <1>4 DEF ImportedOnce
<1> HIDE DEF Inv
<1> QED BY <1>1, <1>2, <1>5, PTL DEF ImportsSpec


(***************************************************************************)
(* Imports: the limit on the jobs of a session                             *)
(***************************************************************************)

JobsLimited == Len(session) <= MaxJobs /\ \A r \in ImportRequests : Len(importing[r].jobs) <= MaxJobs

\* Request r goes on with a record of few jobs.
LEMMA LimitKept ==
    ASSUME TokenInv, JobsLimited, NEW r \in ImportRequests, NEW record, Update(r, record),
           Len(record.jobs) <= MaxJobs, session' = session \/ session' = record.jobs
    PROVE  JobsLimited'
<1>1. importing' = [importing EXCEPT ![r] = record] /\ importing = [x \in ImportRequests |-> importing[x]]
  BY DEF Update, TokenInv, RequestsOK
<1> QED BY <1>1 DEF JobsLimited

\* ... as it does where its jobs stay what they are.
LEMMA LimitStays ==
    ASSUME TokenInv, JobsLimited, NEW r \in ImportRequests, NEW record, Update(r, record),
           record.jobs = importing[r].jobs, session' = session \/ session' = record.jobs
    PROVE  JobsLimited'
BY LimitKept DEF JobsLimited

LEMMA LimitNext ==
    ASSUME ImportsAssumption, TokenInv, JobsLimited, [ImportsNext]_importVars
    PROVE  JobsLimited'
<1>1. \A r \in ImportRequests : importing[r] \in RequestRecord /\ JobsOK(importing[r].jobs)
  BY DEF TokenInv, RequestsOK, RequestOK
<1>2. Files \subseteq ImportRequests /\ Confirms \subseteq ImportRequests
  BY DEF ImportRequests
<1>3. ASSUME NEW r \in ImportRequests, NEW pc, NEW f, Update(r, SessionLoaded(r, pc, f)), session' = session
      PROVE  JobsLimited'
  <2>1. SessionLoaded(r, pc, f).jobs = session
    BY DEF SessionLoaded, Idle
  <2> QED BY <1>3, <2>1, LimitKept DEF JobsLimited
<1>4. CASE UNCHANGED <<session, importing>>
  BY <1>4 DEF JobsLimited
<1>5. ASSUME NEW f \in Files, UploadBegin(f) \/ UploadStore(f) \/ UploadFails(f) \/ TmpAges(f)
      PROVE  JobsLimited'
  <2>1. CASE UploadBegin(f)
    BY <2>1, <1>2, <1>3 DEF UploadBegin
  <2>2. CASE UploadStore(f)
    <3> DEFINE record == [importing[f] EXCEPT !.pc = "answering", !.jobs = WithJob(importing[f].jobs, f)]
    <3>1. Update(f, record) /\ session' = session
      BY <2>2 DEF UploadStore
    <3>2. importing[f].jobs \in Seq(Files) /\ Distinct(importing[f].jobs) /\ ~HasJob(importing[f].jobs, f)
      BY <1>1, <1>2, <2>2 DEF JobsOK, UploadStore
    <3>3. Len(WithJob(importing[f].jobs, f)) <= MaxJobs
      BY <3>2, JobsWith
    <3>4. record.jobs = WithJob(importing[f].jobs, f)
      BY <1>1, <1>2 DEF RequestRecord
    <3> HIDE DEF record
    <3> QED BY <1>2, <3>1, <3>3, <3>4, LimitKept
  <2>3. CASE UploadFails(f)
    <3> DEFINE record == [importing[f] EXCEPT !.pc = "done"]
    <3>1. Update(f, record) /\ session' = session
      BY <2>3 DEF UploadFails
    <3>2. record.jobs = importing[f].jobs
      BY <1>1, <1>2 DEF RequestRecord
    <3> HIDE DEF record
    <3> QED BY <1>2, <3>1, <3>2, LimitStays
  <2> QED BY <1>4, <1>5, <2>1, <2>2, <2>3 DEF TmpAges
<1>6. ASSUME NEW c \in Confirms, NEW record, Update(c, record), session' = session \/ session' = record.jobs,
             record.jobs = Without(importing[c].jobs, importing[c].file)
      PROVE  JobsLimited'
  <2>1. importing[c].jobs \in Seq(Files) /\ Distinct(importing[c].jobs)
    BY <1>1, <1>2 DEF JobsOK
  <2>2. Len(record.jobs) <= Len(importing[c].jobs) /\ record.jobs \in Seq(Files)
    BY <1>6, <2>1, JobsWithout
  <2>3. Len(record.jobs) \in Nat /\ Len(importing[c].jobs) \in Nat /\ MaxJobs \in Nat
    BY <2>1, <2>2, LenProperties DEF ImportsAssumption
  <2>4. Len(record.jobs) <= MaxJobs
    BY <1>2, <2>2, <2>3 DEF JobsLimited
  <2> QED BY <1>2, <1>6, <2>4, LimitKept
<1>7. ASSUME NEW c \in Confirms, ConfirmNext(c) PROVE JobsLimited'
  <2>1. CASE ConfirmBegin(c)
    BY <2>1, <1>2, <1>3 DEF ConfirmBegin
  <2>2. CASE ConfirmTmpMissing(c)
    <3> DEFINE record == [importing[c] EXCEPT !.pc = "answering", !.jobs = Without(importing[c].jobs, importing[c].file)]
    <3>1. Update(c, record) /\ session' = session
      BY <2>2 DEF ConfirmTmpMissing
    <3>2. record.jobs = Without(importing[c].jobs, importing[c].file)
      BY <1>1, <1>2 DEF RequestRecord
    <3> HIDE DEF record
    <3> QED BY <1>6, <3>1, <3>2
  <2>3. CASE ConfirmTake(c)
    <3> DEFINE record == [importing[c] EXCEPT !.pc = "taken", !.jobs = session']
    <3>1. Update(c, record) /\ session' = Without(importing[c].jobs, importing[c].file)
      BY <2>3 DEF ConfirmTake
    <3>2. record.jobs = session'
      BY <1>1, <1>2 DEF RequestRecord
    <3> HIDE DEF record
    <3> QED BY <1>6, <3>1, <3>2
  <2>4. CASE ConfirmRead(c)
    <3>1. PICK chosen \in SUBSET Lines :
            Update(c, [importing[c] EXCEPT
              !.pc = IF chosen = {} THEN "done" ELSE "read", !.chosen = chosen,
              !.dups = Duplicates(importing[c].file),
              !.saw = {d \in Confirms : \E s \in imported : s.by = d}])
      BY <2>4 DEF ConfirmRead
    <3> DEFINE record == [importing[c] EXCEPT
              !.pc = IF chosen = {} THEN "done" ELSE "read", !.chosen = chosen,
              !.dups = Duplicates(importing[c].file),
              !.saw = {d \in Confirms : \E s \in imported : s.by = d}]
    <3>2. Update(c, record) /\ session' = session
      BY <2>4, <3>1 DEF ConfirmRead
    <3>3. record.jobs = importing[c].jobs
      BY <1>1, <1>2 DEF RequestRecord
    <3> HIDE DEF record
    <3> QED BY <1>2, <3>2, <3>3, LimitStays
  <2>5. CASE ConfirmLog(c) \/ ConfirmBatch(c) \/ ConfirmBatchFails(c) \/ ConfirmMarkError(c)
             \/ ConfirmMarkResults(c) \/ ConfirmRaises(c) \/ ConfirmClose(c)
    <3>1. PICK pc \in ImportPcs : Update(c, [importing[c] EXCEPT !.pc = pc]) /\ session' = session
      BY <2>5 DEF ConfirmLog, ConfirmBatch, ConfirmBatchFails, ConfirmMarkError, ConfirmMarkResults,
                  ConfirmRaises, ConfirmClose, ImportPcs
    <3> DEFINE record == [importing[c] EXCEPT !.pc = pc]
    <3>2. record.jobs = importing[c].jobs
      BY <1>1, <1>2 DEF RequestRecord
    <3>3. Update(c, record)
      BY <3>1
    <3> HIDE DEF record
    <3> QED BY <1>2, <3>1, <3>2, <3>3, LimitStays
  <2> QED BY <1>7, <2>1, <2>2, <2>3, <2>4, <2>5 DEF ConfirmNext
<1>8. ASSUME NEW r \in ImportRequests, Respond(r) \/ ImportKilled(r) PROVE JobsLimited'
  <2>1. PICK pc \in ImportPcs :
          /\ Update(r, [importing[r] EXCEPT !.pc = pc])
          /\ session' = session \/ session' = importing[r].jobs
    BY <1>8 DEF Respond, ImportKilled, ImportPcs
  <2> DEFINE record == [importing[r] EXCEPT !.pc = pc]
  <2>2. record.jobs = importing[r].jobs
    BY <1>1 DEF RequestRecord
  <2>3. Update(r, record)
    BY <2>1
  <2> HIDE DEF record
  <2> QED BY <2>1, <2>2, <2>3, LimitStays
<1>9. (CleanupTmp \/ (\E s \in imported : DeleteImported(s)) \/ UNCHANGED importVars) => JobsLimited'
  BY <1>4 DEF CleanupTmp, DeleteImported, importVars
<1> QED BY <1>5, <1>7, <1>8, <1>9 DEF ImportsNext

\* Faults are counted.
LEMMA FaultsNext ==
    ASSUME ImportsAssumption, importFaults \in 0..MaxImportFaults, [ImportsNext]_importVars
    PROVE  importFaults' \in 0..MaxImportFaults
<1>1. MaxImportFaults \in Nat /\ IsFiniteSet(Lines)
  BY DEF ImportsAssumption
<1>2. ASSUME NEW c \in Confirms, ConfirmBatch(c) PROVE importFaults' \in 0..MaxImportFaults
  <2>1. PICK broken \in SUBSET LinesThat(c, "created", {}) :
          /\ importFaults + Cardinality(broken) <= MaxImportFaults
          /\ importFaults' = importFaults + Cardinality(broken)
    BY <1>2 DEF ConfirmBatch
  <2>2. broken \subseteq Lines
    BY DEF LinesThat
  <2>3. Cardinality(broken) \in Nat
    BY <1>1, <2>2, FS_Subset, FS_CardinalityType
  <2> QED BY <1>1, <2>1, <2>3
<1>3. CASE importFaults' = importFaults
  BY <1>3
<1>4. CASE importFaults < MaxImportFaults /\ importFaults' = importFaults + 1
  BY <1>1, <1>4
<1> QED BY <1>2, <1>3, <1>4
     DEF ImportsNext, ConfirmNext, UploadBegin, UploadStore, UploadFails, TmpAges, Respond, ImportKilled, CleanupTmp,
         DeleteImported, ConfirmBegin, ConfirmTmpMissing, ConfirmRead, ConfirmTake, ConfirmLog, ConfirmBatchFails,
         ConfirmMarkError, ConfirmMarkResults, ConfirmRaises, ConfirmClose, importVars

\* A session never has more jobs than IMPORT_JOBS_MAX, whatever requests overlap
\* or are killed (app/imports/views.py), and every request stays within its types.
THEOREM ImportsTyped == ImportsSpec => []ImportsTypeOK
<1> DEFINE Inv == TokenInv /\ JournalInv /\ JobsLimited /\ importFaults \in 0..MaxImportFaults
<1>1. ImportsInit => Inv
  <2> SUFFICES ASSUME ImportsInit PROVE JobsLimited /\ importFaults \in 0..MaxImportFaults
    BY ImportsAssumption, TokenInit, JournalInit
  <2>1. importFaults \in 0..MaxImportFaults
    <3>1. importFaults = 0
      BY DEF ImportsInit
    <3>2. MaxImportFaults \in Nat
      BY ImportsAssumption DEF ImportsAssumption
    <3> HIDE DEF Inv
    <3> QED BY <3>1, <3>2
  <2>2. Len(session) <= MaxJobs
    BY ImportsAssumption, UploadedJobs DEF ImportsInit
  <2>3. ASSUME NEW r \in ImportRequests PROVE Len(importing[r].jobs) <= MaxJobs
    <3>1. importing[r].jobs = <<>>
      BY DEF ImportsInit, Idle
    <3>2. Len(<<>>) <= MaxJobs
      BY ImportsAssumption, EmptySeq DEF ImportsAssumption
    <3> QED BY <3>1, <3>2
  <2> QED BY <2>1, <2>2, <2>3 DEF JobsLimited
<1>2. Inv /\ [ImportsNext]_importVars => Inv'
  BY ImportsAssumption, TokenNext, JournalNext, LimitNext, FaultsNext DEF TokenInv
<1>3. Inv => ImportsTypeOK
  <2> SUFFICES ASSUME Inv PROVE ImportsTypeOK
    OBVIOUS
  <2>1. \A i \in DOMAIN session : session[i] \in Files
    BY ElementOfSeq, LenProperties DEF TokenInv, RequestsOK, JobsOK
  <2> QED BY <2>1 DEF TokenInv, RequestsOK, RequestRecord, ImportPcs, JobsLimited, JournalInv, ImportsTypeOK
<1> HIDE DEF Inv
<1> QED BY <1>1, <1>2, <1>3, PTL DEF ImportsSpec

-----------------------------------------------------------------------------
(* The lines of one file (ImportFile). *)

\* The sheet does not change, and what the parser reads from it neither.
LEMMA SameCells ==
    ASSUME sheet' = sheet
    PROVE  HeaderCells' = HeaderCells
BY DEF HeaderCells, SheetRows

LEMMA SameColumns ==
    ASSUME sheet' = sheet
    PROVE  ColumnMap' = ColumnMap /\ HeaderRow' = HeaderRow
BY SameCells DEF ColumnMap, HeaderRow, HeaderAt

LEMMA SameLines ==
    ASSUME sheet' = sheet
    PROVE  /\ DataRows' = DataRows /\ Faultless' = Faultless
           /\ \A r : DataOf(r)' = DataOf(r) /\ DuplicateKey(r)' = DuplicateKey(r)
           /\ \A r : LooksLikeLine(r)' = LooksLikeLine(r)
<1>1. DataRows' = DataRows
  BY SameColumns DEF DataRows, SheetRows
<1>2. \A r : DataOf(r)' = DataOf(r)
  BY SameColumns DEF DataOf
<1>3. \A r : RowErrors(r)' = RowErrors(r)
  BY <1>2 DEF RowErrors
<1>4. Faultless' = Faultless
  BY <1>1, <1>3 DEF Faultless
<1>5. \A r : DuplicateKey(r)' = DuplicateKey(r)
  BY <1>2 DEF DuplicateKey
<1>6. \A r : LooksLikeLine(r)' = LooksLikeLine(r)
  BY SameCells DEF LooksLikeLine
<1> QED BY <1>1, <1>2, <1>4, <1>5, <1>6

LEMMA SameBlocks ==
    ASSUME sheet' = sheet, foundAlready' = foundAlready
    PROVE  /\ ValidRows' = ValidRows
           /\ \A section, page : PageRows(section, page)' = PageRows(section, page)
<1>1. \A r : SectionOf(r)' = SectionOf(r)
  BY SameLines DEF SectionOf
<1>2. \A section : RowsIn(section)' = RowsIn(section)
  BY <1>1, SameLines DEF RowsIn
<1>3. ValidRows' = ValidRows
  BY <1>2 DEF ValidRows
<1>4. ASSUME NEW section, NEW page PROVE PageRows(section, page)' = PageRows(section, page)
  BY <1>2 DEF PageRows
<1> QED BY <1>3, <1>4

\* A line without errors that was not marked as a duplicate is among the valid ones.
LEMMA ValidLines == ValidRows = Faultless \ foundAlready /\ ValidRows \subseteq SheetRows
BY DEF ValidRows, RowsIn, SectionOf, Faultless, DataRows

LEMMA PageOfValid == \A page : PageRows("valid", page) \subseteq ValidRows
BY DEF PageRows, ValidRows

\* A page of the preview in the browser.
View == [open : BOOLEAN, pages : [Sections -> Nat], selected : SUBSET SheetRows,
         boxes : SUBSET SheetRows, selectAll : {"yes", "some", "no"}]

Tells(view) ==
    /\ view.boxes = view.selected \cap PageRows("valid", view.pages["valid"])
    /\ view.selectAll = "yes" <=> ValidRows # {} /\ ValidRows \subseteq view.selected
    /\ view.selectAll = "no" <=> view.selected = {}

ViewOK(view) == view \in View /\ view.selected \subseteq ValidRows /\ Tells(view)

\* What is drawn tells the selection, and so does a page on which one box is clicked.
LEMMA DrawnTells ==
    ASSUME NEW view \in View, view.selected \subseteq ValidRows
    PROVE  ViewOK(Drawn(view)) /\ Drawn(view).open = view.open /\ Drawn(view).selected = view.selected
<1>1. /\ Drawn(view).boxes = view.selected \cap PageRows("valid", view.pages["valid"])
      /\ Drawn(view).selectAll = SelectAllBox(view.selected)
      /\ Drawn(view).selected = view.selected /\ Drawn(view).pages = view.pages
      /\ Drawn(view).open = view.open
  BY DEF Drawn, View
<1>2. SelectAllBox(view.selected) \in {"yes", "some", "no"}
  BY DEF SelectAllBox
<1>3. Drawn(view) \in View
  BY <1>2 DEF Drawn, View
<1>4. Tells(Drawn(view))
  BY <1>1 DEF Tells, SelectAllBox
<1> QED BY <1>1, <1>3, <1>4 DEF ViewOK

LEMMA ClickTells ==
    ASSUME NEW view, ViewOK(view), NEW r \in PageRows("valid", view.pages["valid"]),
           NEW selected, selected = IF r \in view.selected THEN view.selected \ {r} ELSE view.selected \cup {r},
           NEW boxes, boxes = IF r \in view.boxes THEN view.boxes \ {r} ELSE view.boxes \cup {r}
    PROVE  ViewOK([view EXCEPT !.selected = selected, !.boxes = boxes, !.selectAll = SelectAllBox(selected)])
<1> DEFINE clicked == [view EXCEPT !.selected = selected, !.boxes = boxes, !.selectAll = SelectAllBox(selected)]
<1>1. r \in ValidRows /\ r \in SheetRows
  BY PageOfValid, ValidLines
<1>2. selected \subseteq ValidRows /\ boxes = selected \cap PageRows("valid", view.pages["valid"])
  BY <1>1 DEF ViewOK, Tells
<1>3. SelectAllBox(selected) \in {"yes", "some", "no"}
  BY DEF SelectAllBox
<1>4. clicked \in View
  BY <1>2, <1>3, ValidLines DEF ViewOK, View
<1>5. /\ clicked.selected = selected /\ clicked.boxes = boxes /\ clicked.pages = view.pages
      /\ clicked.selectAll = SelectAllBox(selected)
  BY DEF ViewOK, View
<1>6. Tells(clicked)
  BY <1>2, <1>5 DEF Tells, SelectAllBox
<1> QED BY <1>2, <1>4, <1>5, <1>6 DEF ViewOK

\* What ImportFileTypeOK and FileImportedAsShown need besides: a page is as nobody
\* opened it or tells its selection, and nothing was opened before the upload.
FileInv ==
    /\ ImportFileTypeOK /\ sheet \in Sheets
    /\ preview = NoPreview \/ ViewOK(preview)
    /\ upload # "kept" => preview = NoPreview /\ results = <<>>
    /\ results = <<>> \/ DOMAIN results = DataRows
    /\ InsertedAsShown

LEMMA NothingInserted == results = <<>> => InsertedAsShown
BY DEF InsertedAsShown

\* While nothing is confirmed or uploaded, what was inserted is judged as before.
LEMMA SameInserted ==
    ASSUME InsertedAsShown, UNCHANGED <<sheet, foundAlready, results, confirmation>>
    PROVE  InsertedAsShown'
BY SameLines, SameBlocks DEF InsertedAsShown

LEMMA FileInit == ImportFileInit => FileInv
<1> SUFFICES ASSUME ImportFileInit PROVE FileInv
  OBVIOUS
<1>1. ImportFileTypeOK
  BY ImportFileAssumption DEF ImportFileInit, ImportFileTypeOK, NoPreview
<1> QED BY <1>1, NothingInserted DEF ImportFileInit, FileInv

\* A step of the page: its view tells the selection of valid lines.
LEMMA PageChanges ==
    ASSUME FileInv, UNCHANGED <<sheet, upload, foundAlready, results, shipmentKeys, confirmation, others>>,
           upload = "kept", ViewOK(preview')
    PROVE  FileInv'
<1>1. ViewOK(preview)'
  <2>1. ValidRows' = ValidRows /\ SheetRows' = SheetRows
    BY SameBlocks DEF SheetRows
  <2>2. \A page : PageRows("valid", page)' = PageRows("valid", page)
    BY SameBlocks
  <2>3. View' = View
    BY <2>1 DEF View
  <2>4. Tells(preview)'
    BY <2>1, <2>2 DEF ViewOK, Tells
  <2> QED BY <2>1, <2>3, <2>4 DEF ViewOK
<1>2. preview'.selected \subseteq SheetRows /\ preview'.boxes \subseteq preview'.selected
  BY DEF ViewOK, View, Tells
<1>3. ImportFileTypeOK'
  BY <1>2 DEF FileInv, ImportFileTypeOK, SheetRows
<1> QED BY <1>1, <1>3, SameInserted, SameLines DEF FileInv

LEMMA UploadStep == FileInv /\ UploadFile => FileInv'
<1> SUFFICES ASSUME FileInv, UploadFile PROVE FileInv'
  OBVIOUS
<1>1. /\ preview' = NoPreview /\ results' = <<>> /\ upload' \in {"refused", "kept"} /\ sheet' = sheet
      /\ others' = others
  BY DEF FileInv, UploadFile
<1>2. foundAlready' \subseteq SheetRows
  BY DEF UploadFile, FoundDuplicates, Faultless, DataRows
<1>3. ImportFileTypeOK'
  BY <1>1, <1>2 DEF FileInv, ImportFileTypeOK, NoPreview, SheetRows
<1>4. InsertedAsShown'
  BY <1>1 DEF InsertedAsShown
<1> QED BY <1>1, <1>3, <1>4 DEF FileInv

\* What is written of each line at the confirmation is what the page had shown.
LEMMA ConfirmStep == FileInv /\ Confirm => FileInv'
<1> SUFFICES ASSUME FileInv, Confirm PROVE FileInv'
  OBVIOUS
<1>0. preview.open /\ ViewOK(preview) /\ upload = "kept"
  BY DEF FileInv, Confirm, NoPreview
<1>1. /\ results' = [r \in DataRows |-> StatusOf(r, preview.selected)]
      /\ confirmation' = [keys |-> shipmentKeys, checked |-> preview.selected]
      /\ preview' = NoPreview /\ UNCHANGED <<sheet, upload, foundAlready, others>>
  BY DEF Confirm
<1>2. ASSUME NEW r \in DataRows
      PROVE  LET status == StatusOf(r, preview.selected)
             IN  /\ status = "created" => /\ r \in preview.selected /\ DuplicateKey(r) \notin shipmentKeys
                                          /\ RowErrors(r) = {}
                 /\ status = "skipped" => r \in Faultless /\ r \notin preview.selected
                 /\ r \in preview.selected => status \in {"created", "duplicate", "error"}
  BY DEF StatusOf, FoundDuplicates, Faultless
<1>3. InsertedAsShown'
  <2> SUFFICES ASSUME NEW r \in DataRows
               PROVE  /\ results'[r] = "created" =>
                            /\ r \in preview.selected /\ DuplicateKey(r) \notin shipmentKeys
                            /\ \A f \in RequiredFields \ Texts : DataOf(r)[f] \in CellValues
                      /\ results'[r] = "skipped" =>
                            r \in foundAlready \/ (r \in ValidRows /\ r \notin preview.selected)
                      /\ r \in preview.selected => results'[r] \in {"created", "duplicate", "error"}
    BY <1>1, SameLines, SameBlocks DEF InsertedAsShown
  <2>1. results'[r] = StatusOf(r, preview.selected)
    BY <1>1
  <2>2. RowErrors(r) = {} => \A f \in RequiredFields \ Texts : DataOf(r)[f] \in CellValues
    BY DEF RowErrors
  <2> QED BY <1>2, <2>1, <2>2, ValidLines
<1>4. ImportFileTypeOK'
  BY <1>1 DEF FileInv, ImportFileTypeOK, NoPreview, SheetRows
<1> QED BY <1>0, <1>1, <1>3, <1>4, SameLines DEF FileInv

LEMMA FileStep == FileInv /\ [ImportFileNext]_importFileVars => FileInv'
<1> SUFFICES ASSUME FileInv, [ImportFileNext]_importFileVars PROVE FileInv'
  OBVIOUS
<1>1. CASE preview' = preview /\ UNCHANGED <<sheet, upload, foundAlready, results, confirmation>>
  <2>1. others' \in 0..MaxOthers
    <3>1. CASE others' = others
      BY <3>1 DEF FileInv, ImportFileTypeOK
    <3>2. CASE others < MaxOthers /\ others' = others + 1
      BY <3>2, ImportFileAssumption DEF FileInv, ImportFileTypeOK
    <3> QED BY <1>1, <3>1, <3>2
            DEF ImportFileNext, UploadFile, OpenPreview, SelectAllRows, Confirm, TurnPage, CheckRow, Browse,
                OtherUser, importFileVars
  <2>2. ImportFileTypeOK'
    BY <1>1, <2>1 DEF FileInv, ImportFileTypeOK, SheetRows
  <2>3. ViewOK(preview) => ViewOK(preview)'
    <3>1. ValidRows' = ValidRows /\ SheetRows' = SheetRows
      BY <1>1, SameBlocks DEF SheetRows
    <3>2. \A page : PageRows("valid", page)' = PageRows("valid", page)
      BY <1>1, SameBlocks
    <3>3. View' = View
      BY <3>1 DEF View
    <3>4. Tells(preview) => Tells(preview)'
      BY <1>1, <3>1, <3>2 DEF Tells
    <3> QED BY <1>1, <3>1, <3>3, <3>4 DEF ViewOK
  <2> QED BY <1>1, <2>2, <2>3, SameInserted, SameLines DEF FileInv
<1>2. CASE OpenPreview
  <2> DEFINE opened == [NoPreview EXCEPT !.open = TRUE, !.selected = ValidRows]
  <2>1. opened \in View /\ opened.selected = ValidRows
    BY ValidLines DEF NoPreview, View
  <2>2. ViewOK(Drawn(opened))
    BY <2>1, DrawnTells
  <2> QED BY <1>2, <2>2, PageChanges DEF OpenPreview
<1>3. preview.open => ViewOK(preview) /\ upload = "kept"
  BY DEF FileInv, NoPreview
<1>4. CASE SelectAllRows
  <2> DEFINE changed == [preview EXCEPT !.selected = IF preview.selectAll = "yes" THEN {} ELSE ValidRows]
  <2>1. changed \in View /\ changed.selected \subseteq ValidRows
    BY <1>3, <1>4, ValidLines DEF SelectAllRows, ViewOK, View
  <2>2. ViewOK(Drawn(changed))
    BY <2>1, DrawnTells
  <2> QED BY <1>3, <1>4, <2>2, PageChanges DEF SelectAllRows, Browse
<1>5. CASE \E section \in Sections, page \in 1..2 : TurnPage(section, page)
  <2>1. PICK section \in Sections, page \in 1..2 : TurnPage(section, page)
    BY <1>5
  <2> DEFINE turned == [preview EXCEPT !.pages[section] = page]
  <2>2. turned \in View /\ turned.selected \subseteq ValidRows
    BY <1>3, <2>1 DEF TurnPage, ViewOK, View
  <2>3. ViewOK(Drawn(turned))
    BY <2>2, DrawnTells
  <2> QED BY <1>3, <2>1, <2>3, PageChanges DEF TurnPage, Browse
<1>6. CASE \E r \in SheetRows : CheckRow(r)
  <2>1. PICK r \in SheetRows : CheckRow(r)
    BY <1>6
  <2> DEFINE selected == IF r \in preview.selected THEN preview.selected \ {r} ELSE preview.selected \cup {r}
             boxes == IF r \in preview.boxes THEN preview.boxes \ {r} ELSE preview.boxes \cup {r}
  <2>2. preview' = [preview EXCEPT !.selected = selected, !.boxes = boxes, !.selectAll = SelectAllBox(selected)]
    BY <2>1 DEF CheckRow, Browse
  <2>3. ViewOK(preview')
    BY <1>3, <2>1, <2>2, ClickTells DEF CheckRow
  <2> QED BY <1>3, <2>1, <2>3, PageChanges DEF CheckRow, Browse
<1> QED BY <1>1, <1>2, <1>4, <1>5, <1>6, UploadStep, ConfirmStep
        DEF ImportFileNext, OtherUser, importFileVars

\* For every number of sheets, lines and columns and every limit: all lines of a file
\* have a result, those are inserted that the page showed as checked and nobody had
\* added meanwhile, and the boxes tell the selection over all pages.
THEOREM ImportedAsShown == ImportFileSpec => [](ImportFileTypeOK /\ FileImportedAsShown)
<1>1. FileInv => BoxesTellSelection
  BY DEF FileInv, NoPreview, ViewOK, Tells, BoxesTellSelection
<1>2. FileInv => NoLineLost
  <2> SUFFICES ASSUME FileInv, results # <<>>, NEW r \in SheetRows, LooksLikeLine(r),
                      \A cell \in HeaderCells : ~(cell[1] >= r)
               PROVE  r \in DOMAIN results
    BY DEF NoLineLost
  <2> DEFINE rows == {cell[1] : cell \in HeaderCells}
  <2>1. rows # {} /\ rows \subseteq 1..3
    BY DEF LooksLikeLine, HeaderCells, HeaderRows
  <2>2. \E h \in rows : \A q \in rows : q <= h
    <3> HIDE DEF rows
    <3>1. CASE 3 \in rows
      BY <2>1, <3>1
    <3>2. CASE 3 \notin rows /\ 2 \in rows
      BY <2>1, <3>2
    <3>3. CASE 3 \notin rows /\ 2 \notin rows
      <4>1. \A q \in rows : q = 1
        BY <2>1, <3>3
      <4>2. 1 \in rows
        BY <2>1, <4>1
      <4> QED BY <4>1, <4>2
    <3> QED BY <3>1, <3>2, <3>3
  <2>3. HeaderRow \in rows
    BY <2>2 DEF HeaderRow
  <2>4. r \in Nat
    BY ImportFileAssumption DEF FileInv, SheetRows
  <2>5. r > HeaderRow
    <3>1. \A h \in rows : ~(h >= r)
      OBVIOUS
    <3> HIDE DEF rows
    <3>2. ~(HeaderRow >= r)
      BY <2>3, <3>1
    <3>3. HeaderRow \in 1..3
      BY <2>1, <2>3
    <3> QED BY <2>4, <3>2, <3>3
  <2> QED BY <2>5 DEF FileInv, DataRows, LooksLikeLine
<1>3. FileInv => ImportFileTypeOK /\ FileImportedAsShown
  BY <1>1, <1>2 DEF FileInv, FileImportedAsShown
<1> QED BY <1>3, FileInit, FileStep, PTL DEF ImportFileSpec

\* Both halves of what a person expects of an import: however many requests, files
\* and lines there are and whatever fails.
THEOREM ImportsAreSound == ImportFlowSpec => []ImportsSound
BY NothingTwice, ImportedAsShown, PTL DEF ImportFlowSpec, ImportsSound
==============================================================================
