------------------------ MODULE RestorePipelineProofs ------------------------
(***************************************************************************)
(* Proofs about RestorePipeline, for every number of directories, changes, *)
(* backups, restores, errors, kills and late requests.                     *)
(***************************************************************************)
EXTENDS RestorePipeline, SequenceTheorems, TLAPS

\* The length of a path. A name of its own keeps the provers from the theory of
\* sequences where only numbers matter.
Depth(p) == Len(p)

(***************************************************************************)
(* The invariant                                                           *)
(***************************************************************************)

Paths == Seq(Names) \ {<<>>}
Entries == [at : Paths, version : Versions]
Uploadable == {Entry(<<d>>, v) : d \in Dirs, v \in Versions}
StagingNames == {Staging(n) : n \in 0..MaxRestores}
HolderNames == {Holder(n) : n \in 0..MaxRestores}

Restores == [step : Steps, selected : Nat, staging : StagingNames, holder : HolderNames,
             todo : SUBSET Names, stashed : SUBSET Dirs, placed : SUBSET Names, left : SUBSET Names]

TypeInv ==
    /\ files \subseteq Entries
    /\ db \in 0..NoDatabase
    /\ backups \in Seq([db : 0..MaxChanges, files : SUBSET Entries])
    /\ restore \in Restores
    /\ restore.selected \in 0..Len(backups)
    /\ restore.selected = 0 <=> At("idle")
    /\ before \subseteq Uploadable
    /\ last \in [result : Results, selected : 0..Len(backups)]
    /\ changes \in 0..MaxChanges /\ errors \in 0..MaxErrors /\ kills \in 0..MaxKills /\ late \in 0..MaxLate
    /\ restores \in 0..MaxRestores
    /\ restores <= Len(backups) /\ Len(backups) - restores <= MaxBackups
    /\ last.result # "none" => last.selected # 0
    /\ ~At("idle") => last = None

\* What a tree below MEDIA_ROOT can hold: only directories of the uploads have
\* files at the top, and no staging directory of a restore to come.
Deep(tree) == \A f \in tree : f.at[1] \in Internal => Depth(f.at) > 1
Fresh(tree) == \A f \in tree, n \in 0..MaxRestores : f.at[1] = Staging(n) => n <= restores

TreesOK ==
    /\ Deep(files) /\ Fresh(files)
    /\ \A b \in DOMAIN backups : Deep(backups[b].files) /\ Fresh(backups[b].files)

\* The selected backup while a restore runs, or of the restore that has ended.
Selected == backups[restore.selected]
PutUnder(name, b) == [b EXCEPT !.at = <<name>> \o b.at]
Staged(b) == PutUnder(restore.staging, b)
Beneath(f, name) == f.at[1] = name
Beneath2(f, name, child) == Depth(f.at) > 1 /\ f.at[1] = name /\ f.at[2] = child

\* The staging directory has what is in the backup and has not been placed.
StagingOK ==
    ~At("idle") =>
        /\ restore.staging = Staging(restores)
        /\ \A b \in Selected.files : ~Beneath(b, restore.staging)
        /\ \A f \in files : Beneath(f, restore.staging) =>
                \E b \in Selected.files : f = Staged(b) /\ (At("place") => Beneath2(f, restore.staging, f.at[2]) /\ f.at[2] \in restore.todo)
        /\ restore.step \in {"load", "loading", "commands", "stash"} => \A b \in Selected.files : Staged(b) \in files
        /\ At("place") => \A b \in Selected.files : b.at[1] \in restore.todo => Staged(b) \in files
        /\ At("place") => \A name \in restore.todo : \E f \in files : Beneath2(f, restore.staging, name)

\* A file of this version at the top, or one directory below it.
Has1(tree, d, v) == \E f \in tree : Depth(f.at) = 1 /\ f.at[1] = d /\ f.version = v
Has2(tree, a, d, v) == \E f \in tree : Depth(f.at) = 2 /\ f.at[1] = a /\ f.at[2] = d /\ f.version = v

\* What makes a success complete: what was there is moved away before anything
\* of the backup is placed.
SuccessOK ==
    /\ restore.step \in {"commands", "stash", "place", "finish"} => db = Selected.db
    /\ late = 0 /\ At("finish") => Live(files) = Live(Selected.files)
    /\ late = 0 /\ At("stash") => \A f \in files : f.at[1] \in Dirs => f.at[1] \in restore.todo
    /\ late = 0 /\ At("place") =>
        /\ restore.todo \cap restore.placed = {}
        /\ \A f \in files : f.at[1] \in Dirs => f.at[1] \in restore.placed
        /\ \A b \in Selected.files : b.at[1] \in restore.todo \cup restore.placed
        /\ \A d \in restore.placed \cap Dirs, v \in Versions :
                Has1(files, d, v) <=> Has1(Selected.files, d, v)

\* What lets a rollback find its way back.
FailureOK ==
    /\ late = 0 /\ restore.step \in {"load", "loading", "commands"} => Live(files) = before
    /\ late = 0 /\ Swapping /\ restore.left = {} /\ Clean(restore.selected) =>
        /\ \A f \in files : Beneath(f, restore.holder) => f.at[2] \in restore.stashed
        /\ \A d \in Dirs, v \in Versions :
            /\ d \notin restore.stashed /\ d \notin restore.placed =>
                    (Has1(files, d, v) <=> Has1(before, d, v))
            /\ d \in restore.stashed =>
                    (Has2(files, restore.holder, d, v) <=> Has1(before, d, v))
            /\ d \in restore.placed \ restore.stashed => ~Has1(before, d, v)
        /\ \A d \in restore.stashed \ restore.placed, f \in files : ~Beneath(f, d)

\* Where each file is that was there before.
OldOK ==
    /\ restore.step \in {"load", "loading", "commands"} => before \subseteq files
    /\ Swapping /\ Clean(restore.selected) =>
        /\ restore.placed \subseteq Dirs /\ (At("place") => restore.todo \subseteq Dirs)
        /\ restore.step \in {"stash", "return"} => restore.placed = {}
        /\ \A e \in before :
            /\ \E f \in files :
                /\ f.version = e.version
                /\ IF e.at[1] \in restore.stashed THEN Beneath2(f, restore.holder, e.at[1]) ELSE Beneath(f, e.at[1])
            /\ At("stash") => e.at[1] \in restore.todo \cup restore.stashed
            /\ restore.step \in {"place", "remove"} /\ (At("place") \/ restore.placed # {}) => e.at[1] \in restore.stashed

QuietOK ==
    /\ restore.step \in {"load", "loading", "commands"} => restore.stashed = {} /\ restore.placed = {}
    /\ restore.step \notin {"remove", "return"} => restore.left = {}
StashOK == At("stash") => restore.todo \subseteq Dirs /\ restore.placed = {}

\* What OldUploadsExist says of a restore that has ended.
OldRemain ==
    last.result \in Unfinished /\ At("idle") /\ Clean(last.selected)
        => \A e \in before : Somewhere(e)

RunInv == TypeInv /\ TreesOK /\ StagingOK /\ QuietOK /\ StashOK /\ SuccessOK /\ FailureOK /\ OldOK
PipelineInv == RunInv /\ SuccessIsComplete /\ FailureLeavesUploads /\ OldRemain

(***************************************************************************)
(* Paths                                                                   *)
(***************************************************************************)

Rebase(f, from, to) == [f EXCEPT !.at = to \o SubSeq(f.at, Len(from) + 1, Len(f.at))]

LEMMA PathBasics ==
    ASSUME NEW p \in Paths
    PROVE  /\ p \in Seq(Names) /\ Len(p) \in Nat /\ Len(p) > 0 /\ p[1] \in Names
           /\ Depth(p) \in Nat /\ Depth(p) >= 1
BY LenProperties, EmptySeq, ElementOfSeq DEF Paths, Depth

LEMMA PathsOfNames ==
    ASSUME NEW a \in Names, NEW b \in Names
    PROVE  /\ <<a>> \in Paths /\ <<a, b>> \in Paths /\ <<a, b, b>> \in Paths
           /\ Depth(<<a>>) = 1 /\ Depth(<<a, b>>) = 2 /\ Depth(<<a, b, b>>) = 3
BY DEF Paths, Depth

LEMMA PrefixElements ==
    ASSUME NEW s \in Paths, NEW t \in Paths
    PROVE  IsPrefix(s, t) <=> Len(s) <= Len(t) /\ \A i \in 1..Len(s) : s[i] = t[i]
<1>1. /\ s \in Seq(Names) /\ t \in Seq(Names) /\ Len(s) \in Nat /\ Len(t) \in Nat
      /\ (\A i \in 1..Len(s) : s[i] \in Names) /\ (\A j \in 1..Len(t) : t[j] \in Names)
  BY PathBasics, ElementOfSeq
<1>2. ASSUME Len(s) <= Len(t)
      PROVE  SubSeq(s, 1, Len(s)) = SubSeq(t, 1, Len(s)) <=> \A i \in 1..Len(s) : s[i] = t[i]
  <2>1. \A i \in 1..Len(s) : s[i] \in Names /\ t[i] \in Names
    BY <1>1, <1>2, ElementOfSeq
  <2>2. /\ SubSeq(s, 1, Len(s)) \in Seq(Names) /\ SubSeq(t, 1, Len(s)) \in Seq(Names)
        /\ Len(SubSeq(s, 1, Len(s))) = Len(s) /\ Len(SubSeq(t, 1, Len(s))) = Len(s)
        /\ \A i \in 1..Len(s) : SubSeq(s, 1, Len(s))[i] = s[i] /\ SubSeq(t, 1, Len(s))[i] = t[i]
    <3>1. /\ SubSeq(s, 1, Len(s)) \in Seq(Names) /\ Len(SubSeq(s, 1, Len(s))) = IF 1 <= Len(s) THEN Len(s) - 1 + 1 ELSE 0
          /\ \A i \in 1..(Len(s) - 1 + 1) : SubSeq(s, 1, Len(s))[i] = s[1 + i - 1]
      BY <1>1, <2>1, SubSeqProperties
    <3>2. /\ SubSeq(t, 1, Len(s)) \in Seq(Names) /\ Len(SubSeq(t, 1, Len(s))) = IF 1 <= Len(s) THEN Len(s) - 1 + 1 ELSE 0
          /\ \A i \in 1..(Len(s) - 1 + 1) : SubSeq(t, 1, Len(s))[i] = t[1 + i - 1]
      BY <1>1, <2>1, SubSeqProperties
    <3> QED BY <1>1, <3>1, <3>2
  <2> QED BY <2>2, SeqEqual
<1> QED BY <1>2 DEF IsPrefix

LEMMA PrefixOne ==
    ASSUME NEW s \in Paths, Depth(s) = 1, NEW t \in Paths
    PROVE  IsPrefix(s, t) <=> t[1] = s[1]
BY PrefixElements, PathBasics DEF Depth

LEMMA PrefixTwo ==
    ASSUME NEW s \in Paths, Depth(s) = 2, NEW t \in Paths
    PROVE  IsPrefix(s, t) <=> Depth(t) > 1 /\ t[1] = s[1] /\ t[2] = s[2]
BY PrefixElements, PathBasics DEF Depth

LEMMA RebaseEntry ==
    ASSUME NEW f \in Entries, NEW from \in Paths, NEW to \in Paths, IsPrefix(from, f.at),
           NEW g, g = Rebase(f, from, to)
    PROVE  /\ g \in Entries /\ g.version = f.version
           /\ Depth(g.at) + Depth(from) = Depth(to) + Depth(f.at) /\ Depth(from) <= Depth(f.at)
           /\ \A i \in 1..Depth(to) : g.at[i] = to[i]
           /\ \A i \in 1..(Depth(f.at) - Depth(from)) : g.at[Depth(to) + i] = f.at[Depth(from) + i]
<1> DEFINE rest == SubSeq(f.at, Len(from) + 1, Len(f.at))
<1>1. f.at \in Seq(Names) /\ from \in Seq(Names) /\ to \in Seq(Names) /\ Len(f.at) \in Nat /\ Len(from) \in Nat
      /\ Len(to) \in Nat /\ Len(to) > 0
  BY PathBasics DEF Entries
<1>2. Len(f.at) >= Len(from)
  BY <1>1 DEF IsPrefix
<1>3. \A i \in (Len(from) + 1)..Len(f.at) : f.at[i] \in Names
  BY <1>1, ElementOfSeq
<1>4. /\ rest \in Seq(Names) /\ Len(rest) = Len(f.at) - Len(from)
      /\ \A i \in 1..(Len(f.at) - Len(from)) : rest[i] = f.at[Len(from) + i]
  BY <1>1, <1>2, <1>3, SubSeqProperties
<1> HIDE DEF rest
<1>5. /\ to \o rest \in Seq(Names) /\ Len(to \o rest) = Len(to) + Len(rest)
      /\ \A i \in 1..(Len(to) + Len(rest)) : (to \o rest)[i] = IF i <= Len(to) THEN to[i] ELSE rest[i - Len(to)]
  BY <1>1, <1>4, ConcatProperties
<1>6. g.at = to \o rest /\ g.version = f.version /\ g = [at |-> to \o rest, version |-> f.version]
  BY DEF rest, Rebase, Entries
<1>7. to \o rest \in Paths
  BY <1>1, <1>4, <1>5 DEF Paths
<1> QED BY <1>1, <1>2, <1>4, <1>5, <1>6, <1>7 DEF Entries, Depth

TopFile(d, v) == Entry(<<d>>, v)

LEMMA ShortEntries ==
    ASSUME NEW f \in Entries
    PROVE  /\ Depth(f.at) = 1 => f = TopFile(f.at[1], f.version)
           /\ Depth(f.at) \in Nat /\ Depth(f.at) >= 1 /\ f.at[1] \in Names /\ f.version \in Versions
<1>1. f.at \in Seq(Names) /\ f.at \in Paths /\ Depth(f.at) \in Nat /\ Depth(f.at) >= 1 /\ f.at[1] \in Names
  BY PathBasics DEF Entries
<1>2. Depth(f.at) = 1 => f.at = <<f.at[1]>>
  BY <1>1, SeqEqual DEF Depth
<1> QED BY <1>1, <1>2 DEF TopFile, Entry, Entries

LEMMA EntryOne ==
    ASSUME NEW a \in Names, NEW v \in Versions, NEW f, f = TopFile(a, v)
    PROVE  f \in Entries /\ Depth(f.at) = 1 /\ f.at[1] = a /\ f.version = v
<1>1. <<a>> \in Paths /\ Depth(<<a>>) = 1
  BY PathsOfNames
<1> QED BY <1>1 DEF TopFile, Entry, Entries

TreeMove(tree, from, to) == (tree \ Under(tree, from)) \cup Rebased(tree, from, to)

LEMMA TreeMoveElements ==
    ASSUME NEW tree \in SUBSET Entries, NEW from \in Paths, NEW to \in Paths
    PROVE  /\ TreeMove(tree, from, to) \subseteq Entries
           /\ \A f \in tree : ~IsPrefix(from, f.at) => f \in TreeMove(tree, from, to)
           /\ \A f \in tree : IsPrefix(from, f.at) => Rebase(f, from, to) \in TreeMove(tree, from, to)
           /\ \A g \in TreeMove(tree, from, to) :
                \/ g \in tree /\ ~IsPrefix(from, g.at)
                \/ \E f \in tree : IsPrefix(from, f.at) /\ g = Rebase(f, from, to)
<1>1. \A f \in tree : ~IsPrefix(from, f.at) => f \in TreeMove(tree, from, to)
  BY DEF TreeMove, Under
<1>2. \A f \in tree : IsPrefix(from, f.at) => Rebase(f, from, to) \in TreeMove(tree, from, to)
  BY DEF TreeMove, Under, Rebased, Rebase
<1>3. \A g \in TreeMove(tree, from, to) :
                \/ g \in tree /\ ~IsPrefix(from, g.at)
                \/ \E f \in tree : IsPrefix(from, f.at) /\ g = Rebase(f, from, to)
  BY DEF TreeMove, Under, Rebased, Rebase
<1>4. TreeMove(tree, from, to) \subseteq Entries
  BY <1>3, RebaseEntry
<1> QED BY <1>1, <1>2, <1>3, <1>4

LEMMA MoveDown ==
    ASSUME NEW tree \in SUBSET Entries, NEW n \in Names, NEW h \in Names, n # h,
           NEW from \in Paths, Depth(from) = 1, from[1] = n,
           NEW to \in Paths, Depth(to) > 1, to[1] = h, to[2] = n,
           NEW moved, moved = TreeMove(tree, from, to)
    PROVE  /\ moved \subseteq Entries
           /\ \A f \in tree : ~Beneath(f, n) => f \in moved
           /\ \A f \in tree : Beneath(f, n) => \E g \in moved : g.version = f.version /\ Beneath2(g, h, n)
           /\ \A g \in moved : (g \in tree /\ ~Beneath(g, n)) \/ Beneath2(g, h, n)
           /\ Depth(to) = 2 => \A v \in Versions : Has2(moved, h, n, v) <=> Has1(tree, n, v) \/ Has2(tree, h, n, v)
<1>1. Depth(from) \in Nat /\ Depth(to) \in Nat
  BY PathBasics
<1>2. \A f \in tree : /\ f \in Entries /\ f.at \in Paths /\ Depth(f.at) \in Nat /\ Depth(f.at) >= 1
                      /\ IsPrefix(from, f.at) <=> Beneath(f, n)
  BY PrefixOne, ShortEntries DEF Entries, Beneath
<1>3. ASSUME NEW f \in tree, NEW g, g = Rebase(f, from, to), Beneath(f, n)
      PROVE  /\ g \in Entries /\ g.version = f.version
             /\ Beneath2(g, h, n) /\ Depth(g.at) = Depth(to) + (Depth(f.at) - 1)
  <2>1. f \in Entries /\ IsPrefix(from, f.at)
    BY <1>2, <1>3
  <2>2. f.at \in Paths /\ Depth(f.at) \in Nat
    BY <1>2
  <2>3. g \in Entries /\ g.version = f.version
    BY <1>3, <2>1, RebaseEntry
  <2>4. Depth(g.at) + Depth(from) = Depth(to) + Depth(f.at)
    BY <1>1, <1>3, <2>1, <2>2, RebaseEntry
  <2>5. \A i \in 1..Depth(to) : g.at[i] = to[i]
    BY <1>1, <1>3, <2>1, <2>2, RebaseEntry
  <2>6. Depth(g.at) \in Nat
    BY <2>3, ShortEntries
  <2>7. g.at[1] = h /\ g.at[2] = n
    BY <1>1, <2>5
  <2>8. Depth(g.at) > 1 /\ Depth(g.at) = Depth(to) + (Depth(f.at) - 1)
    BY <1>1, <1>2, <2>2, <2>4, <2>6
  <2> QED BY <2>3, <2>7, <2>8 DEF Beneath2
<1>4. /\ moved \subseteq Entries
      /\ \A f \in tree : ~IsPrefix(from, f.at) => f \in moved
      /\ \A f \in tree : IsPrefix(from, f.at) => Rebase(f, from, to) \in moved
      /\ \A g \in moved :
                \/ g \in tree /\ ~IsPrefix(from, g.at)
                \/ \E f \in tree : IsPrefix(from, f.at) /\ g = Rebase(f, from, to)
  BY TreeMoveElements
<1>5. ASSUME Depth(to) = 2, NEW v \in Versions
      PROVE  Has2(moved, h, n, v) <=> Has1(tree, n, v) \/ Has2(tree, h, n, v)
  <2>1. ASSUME Has1(tree, n, v) PROVE Has2(moved, h, n, v)
    <3>1. PICK f \in tree : Depth(f.at) = 1 /\ f.at[1] = n /\ f.version = v
      BY <2>1 DEF Has1
    <3>2. Beneath(f, n) /\ IsPrefix(from, f.at)
      BY <1>2, <3>1 DEF Beneath
    <3>3. PICK g \in moved : g = Rebase(f, from, to)
      BY <1>4, <3>2
    <3>4. g.version = f.version /\ Beneath2(g, h, n) /\ Depth(g.at) = Depth(to) + (Depth(f.at) - 1)
      BY <1>3, <3>2, <3>3
    <3> QED BY <1>5, <3>1, <3>4 DEF Has2, Beneath2
  <2>2. ASSUME Has2(tree, h, n, v) PROVE Has2(moved, h, n, v)
    BY <1>2, <1>4, <2>2 DEF Has2, Beneath
  <2>3. ASSUME Has2(moved, h, n, v), ~Has2(tree, h, n, v) PROVE Has1(tree, n, v)
    <3>1. PICK g \in moved : Depth(g.at) = 2 /\ g.at[1] = h /\ g.at[2] = n /\ g.version = v
      BY <2>3 DEF Has2
    <3>2. g \notin tree
      BY <2>3, <3>1 DEF Has2
    <3>3. PICK f \in tree : IsPrefix(from, f.at) /\ g = Rebase(f, from, to)
      BY <1>4, <3>2
    <3>4. Beneath(f, n) /\ f.version = v /\ 2 = 2 + (Depth(f.at) - 1)
      BY <1>2, <1>3, <1>5, <3>1, <3>3
    <3>5. Depth(f.at) = 1
      <4>1. Depth(f.at) \in Nat
        BY <1>2
      <4> QED BY <3>4, <4>1
    <3>6. f.at[1] = n
      BY <3>4 DEF Beneath
    <3> QED BY <3>4, <3>5, <3>6 DEF Has1
  <2> QED BY <2>1, <2>2, <2>3
<1> QED BY <1>2, <1>3, <1>4, <1>5

\* An entry that has been moved up, and how deep it is then.
Among(tree, f, n) == \E g \in tree : g.version = f.version /\ Beneath(g, n)
NoHigher(g, f) == Depth(g.at) >= Depth(f.at) - 1

\* What a move from below a directory h to the top does, the target to given.
MovesUp(tree, moved, h, n, to) ==
    /\ moved \subseteq Entries
    /\ \A f \in tree : ~Beneath2(f, h, n) => f \in moved
    /\ \A f \in tree : Beneath2(f, h, n) => Among(moved, f, n)
    /\ \A g \in moved :
         \/ g \in tree /\ ~Beneath2(g, h, n)
         \/ Beneath(g, n) /\ \E f \in tree : Beneath2(f, h, n) /\ NoHigher(g, f)
    /\ Depth(to) = 1 => \A v \in Versions : Has1(moved, n, v) <=> Has2(tree, h, n, v) \/ Has1(tree, n, v)

LEMMA MoveUp ==
    ASSUME NEW tree \in SUBSET Entries, NEW n \in Names, NEW h \in Names, n # h,
           NEW from \in Paths, Depth(from) = 2, from[1] = h, from[2] = n,
           NEW to \in Paths, to[1] = n,
           NEW moved, moved = TreeMove(tree, from, to)
    PROVE  MovesUp(tree, moved, h, n, to)
<1>1. Depth(from) \in Nat /\ Depth(to) \in Nat /\ Depth(to) >= 1
  BY PathBasics
<1>2. \A f \in tree : /\ f \in Entries /\ f.at \in Paths /\ Depth(f.at) \in Nat /\ Depth(f.at) >= 1
                      /\ IsPrefix(from, f.at) <=> Beneath2(f, h, n)
  BY PrefixTwo, ShortEntries DEF Entries, Beneath2
<1>3. ASSUME NEW f \in tree, NEW g, g = Rebase(f, from, to), Beneath2(f, h, n)
      PROVE  /\ g \in Entries /\ g.version = f.version
             /\ Beneath(g, n) /\ Depth(g.at) = Depth(to) + (Depth(f.at) - 2) /\ NoHigher(g, f)
  <2>1. f \in Entries /\ IsPrefix(from, f.at)
    BY <1>2, <1>3
  <2>2. f.at \in Paths /\ Depth(f.at) \in Nat
    BY <1>2
  <2>3. g \in Entries /\ g.version = f.version
    BY <1>3, <2>1, RebaseEntry
  <2>4. Depth(g.at) + Depth(from) = Depth(to) + Depth(f.at)
    BY <1>1, <1>3, <2>1, <2>2, RebaseEntry
  <2>5. \A i \in 1..Depth(to) : g.at[i] = to[i]
    BY <1>1, <1>3, <2>1, <2>2, RebaseEntry
  <2>6. Depth(g.at) \in Nat
    BY <2>3, ShortEntries
  <2> QED BY <1>1, <1>2, <1>3, <2>2, <2>3, <2>4, <2>5, <2>6 DEF Beneath, Beneath2, NoHigher
<1>4. /\ moved \subseteq Entries
      /\ \A f \in tree : ~IsPrefix(from, f.at) => f \in moved
      /\ \A f \in tree : IsPrefix(from, f.at) => Rebase(f, from, to) \in moved
      /\ \A g \in moved :
                \/ g \in tree /\ ~IsPrefix(from, g.at)
                \/ \E f \in tree : IsPrefix(from, f.at) /\ g = Rebase(f, from, to)
  BY TreeMoveElements
<1>5. ASSUME Depth(to) = 1, NEW v \in Versions
      PROVE  Has1(moved, n, v) <=> Has2(tree, h, n, v) \/ Has1(tree, n, v)
  <2>1. ASSUME Has2(tree, h, n, v) PROVE Has1(moved, n, v)
    <3>1. PICK f \in tree : Depth(f.at) = 2 /\ f.at[1] = h /\ f.at[2] = n /\ f.version = v
      BY <2>1 DEF Has2
    <3>2. Beneath2(f, h, n) /\ IsPrefix(from, f.at)
      BY <1>2, <3>1 DEF Beneath2
    <3>3. PICK g \in moved : g = Rebase(f, from, to)
      BY <1>4, <3>2
    <3>4. g.version = f.version /\ Beneath(g, n) /\ Depth(g.at) = Depth(to) + (Depth(f.at) - 2)
      BY <1>3, <3>2, <3>3
    <3> QED BY <1>5, <3>1, <3>4 DEF Has1, Beneath
  <2>2. ASSUME Has1(tree, n, v) PROVE Has1(moved, n, v)
    BY <1>2, <1>4, <2>2 DEF Has1, Beneath2
  <2>3. ASSUME Has1(moved, n, v), ~Has1(tree, n, v) PROVE Has2(tree, h, n, v)
    <3>1. PICK g \in moved : Depth(g.at) = 1 /\ g.at[1] = n /\ g.version = v
      BY <2>3 DEF Has1
    <3>2. g \notin tree
      BY <2>3, <3>1 DEF Has1
    <3>3. PICK f \in tree : IsPrefix(from, f.at) /\ g = Rebase(f, from, to)
      BY <1>4, <3>2
    <3>4. Beneath2(f, h, n) /\ f.version = v /\ 1 = 1 + (Depth(f.at) - 2)
      BY <1>2, <1>3, <1>5, <3>1, <3>3
    <3> QED BY <1>2, <3>4 DEF Has2, Beneath2
  <2> QED BY <2>1, <2>2, <2>3
<1>6. \A f \in tree : Beneath2(f, h, n) => Among(moved, f, n)
  BY <1>2, <1>3, <1>4 DEF Among
<1> QED BY <1>2, <1>3, <1>4, <1>5, <1>6 DEF MovesUp

LEMMA NamesApart ==
    /\ StagingNames \subseteq Internal /\ HolderNames \subseteq Internal /\ Internal \subseteq Names /\ Dirs \subseteq Names
    /\ \A d \in Dirs : d \notin Internal
    /\ \A s \in StagingNames, h \in HolderNames : s # h
    /\ \A m, n \in 0..MaxRestores : Staging(m) = Staging(n) => m = n
BY PipelineAssumption DEF StagingNames, HolderNames, Internal, Names, Staging, Holder

LEMMA Numbers ==
    /\ MaxChanges \in Nat /\ MaxBackups \in Nat /\ MaxRestores \in Nat /\ MaxErrors \in Nat
    /\ MaxKills \in Nat /\ MaxLate \in Nat
    /\ Late \in Versions /\ 0..MaxChanges \subseteq Versions
    /\ NoDatabase \notin 0..MaxChanges /\ 0..NoDatabase = 0..MaxChanges \cup {NoDatabase}
BY PipelineAssumption DEF Versions, Late, NoDatabase

LEMMA UploadableEntry ==
    ASSUME NEW e \in Uploadable
    PROVE  e \in Entries /\ Depth(e.at) = 1 /\ e.at[1] \in Dirs
<1>1. PICK d \in Dirs, v \in Versions : e = TopFile(d, v)
  BY DEF Uploadable, TopFile
<1>2. d \in Names
  BY NamesApart
<1> QED BY <1>1, <1>2, EntryOne

LEMMA UnderOne ==
    ASSUME NEW tree \in SUBSET Entries, NEW a \in Names
    PROVE  Under(tree, <<a>>) = {f \in tree : Beneath(f, a)}
<1>1. <<a>> \in Paths /\ Depth(<<a>>) = 1 /\ <<a>>[1] = a
  BY PathsOfNames
<1>2. \A f \in tree : f.at \in Paths
  BY DEF Entries
<1> QED BY <1>1, <1>2, PrefixOne DEF Under, Beneath

LEMMA UnderTwo ==
    ASSUME NEW tree \in SUBSET Entries, NEW a \in Names, NEW b \in Names
    PROVE  Under(tree, <<a, b>>) = {f \in tree : Beneath2(f, a, b)}
<1>1. <<a, b>> \in Paths /\ Depth(<<a, b>>) = 2 /\ <<a, b>>[1] = a /\ <<a, b>>[2] = b
  BY PathsOfNames
<1>2. \A f \in tree : f.at \in Paths
  BY DEF Entries
<1> QED BY <1>1, <1>2, PrefixTwo DEF Under, Beneath2

LEMMA UnderAll ==
    ASSUME NEW tree \in SUBSET Entries
    PROVE  Under(tree, <<>>) = tree
<1>1. ASSUME NEW f \in tree PROVE IsPrefix(<<>>, f.at)
  <2>1. f.at \in Paths /\ Len(f.at) \in Nat /\ Len(<<>>) = 0
    BY PathBasics DEF Entries
  <2>2. SubSeq(f.at, 1, 0) = <<>> /\ SubSeq(<<>>, 1, 0) = <<>>
    BY SubSeqEmpty
  <2> QED BY <2>1, <2>2 DEF IsPrefix
<1> QED BY <1>1 DEF Under

LEMMA ChildrenOfAll ==
    ASSUME NEW tree \in SUBSET Entries
    PROVE  Children(tree, <<>>) = {f.at[1] : f \in tree}
<1>1. Len(<<>>) + 1 = 1
  OBVIOUS
<1> QED BY <1>1, UnderAll DEF Children

LEMMA ChildrenOfOne ==
    ASSUME NEW tree \in SUBSET Entries, NEW a \in Names
    PROVE  Children(tree, <<a>>) = {f.at[2] : f \in {f \in tree : Beneath(f, a)}}
<1>1. Len(<<a>>) + 1 = 2
  OBVIOUS
<1> QED BY <1>1, UnderOne DEF Children

LEMMA CleanTree ==
    ASSUME NEW tree \in SUBSET Entries
    PROVE  Children(tree, <<>>) \subseteq Dirs <=> \A f \in tree : f.at[1] \in Dirs
BY ChildrenOfAll

LEMMA SameUploads ==
    ASSUME NEW A \in SUBSET Entries, NEW B \in SUBSET Entries,
           \A f \in A \cup B : Depth(f.at) = 1 /\ f.at[1] \in Dirs,
           \A d \in Dirs, v \in Versions : Has1(A, d, v) <=> Has1(B, d, v)
    PROVE  A = B
<1>1. \A f \in A \cup B : f = TopFile(f.at[1], f.version) /\ f.version \in Versions
  BY ShortEntries
<1>2. ASSUME NEW f \in A PROVE f \in B
  <2>1. f.at[1] \in Dirs /\ f.version \in Versions /\ Has1(A, f.at[1], f.version)
    BY <1>1 DEF Has1
  <2>2. PICK g \in B : g.at[1] = f.at[1] /\ g.version = f.version
    BY <2>1 DEF Has1
  <2> QED BY <1>1, <2>2
<1>3. ASSUME NEW f \in B PROVE f \in A
  <2>1. f.at[1] \in Dirs /\ f.version \in Versions /\ Has1(B, f.at[1], f.version)
    BY <1>1 DEF Has1
  <2>2. PICK g \in A : g.at[1] = f.at[1] /\ g.version = f.version
    BY <2>1 DEF Has1
  <2> QED BY <1>1, <2>2
<1> QED BY <1>2, <1>3

LEMMA StagedEntry ==
    ASSUME NEW b \in Entries, NEW s \in Names, NEW f, f = PutUnder(s, b)
    PROVE  /\ f \in Entries /\ f.version = b.version /\ Depth(f.at) = Depth(b.at) + 1
           /\ f.at[1] = s /\ f.at[2] = b.at[1]
<1>1. b.at \in Seq(Names) /\ Len(b.at) \in Nat /\ Len(b.at) >= 1 /\ <<s>> \in Seq(Names)
      /\ Len(<<s>>) = 1 /\ <<s>>[1] = s
  BY PathBasics, PathsOfNames DEF Entries, Paths
<1> DEFINE p == <<s>> \o b.at
<1>2. /\ p \in Seq(Names) /\ Len(p) = 1 + Len(b.at)
      /\ \A i \in 1..(1 + Len(b.at)) : p[i] = IF i <= 1 THEN <<s>>[i] ELSE b.at[i - 1]
  BY <1>1, ConcatProperties
<1> HIDE DEF p
<1>3. p[1] = s /\ p[2] = b.at[1] /\ p \in Paths /\ Depth(p) = Depth(b.at) + 1
  BY <1>1, <1>2 DEF Depth, Paths
<1>4. f = [at |-> p, version |-> b.version]
  BY DEF PutUnder, Entries, p
<1> QED BY <1>3, <1>4 DEF Entries

(***************************************************************************)
(* Steps                                                                   *)
(***************************************************************************)

LEMMA Basics ==
    ASSUME TypeInv
    PROVE  /\ backups \in Seq([db : 0..MaxChanges, files : SUBSET Entries]) /\ Len(backups) \in Nat
           /\ DOMAIN backups = 1..Len(backups)
           /\ \A b \in DOMAIN backups : backups[b].db \in 0..MaxChanges /\ backups[b].files \in SUBSET Entries
           /\ restore.staging \in StagingNames /\ restore.holder \in HolderNames
           /\ restore.staging \in Names /\ restore.holder \in Names /\ restore.staging # restore.holder
           /\ ~At("idle") => restore.selected \in DOMAIN backups /\ Selected.files \in SUBSET Entries
<1>1. restore.staging \in StagingNames /\ restore.holder \in HolderNames /\ restore.selected \in Nat
  BY DEF TypeInv, Restores
<1>2. /\ backups \in Seq([db : 0..MaxChanges, files : SUBSET Entries]) /\ Len(backups) \in Nat
      /\ DOMAIN backups = 1..Len(backups)
      /\ \A b \in DOMAIN backups : backups[b] \in [db : 0..MaxChanges, files : SUBSET Entries]
  BY LenProperties, ElementOfSeq DEF TypeInv
<1>3. ~At("idle") => restore.selected \in DOMAIN backups
  BY <1>1, <1>2 DEF TypeInv
<1> QED BY <1>1, <1>2, <1>3, NamesApart DEF Selected

LEMMA IdleType ==
    Idle \in Restores /\ Idle.selected = 0 /\ Idle.step = "idle"
<1>1. 0 \in 0..MaxRestores
  BY Numbers
<1> QED BY <1>1 DEF Idle, Restores, Steps, StagingNames, HolderNames

\* A restore ends, with more or less of its files removed.
LEMMA EndStep ==
    ASSUME RunInv, ~At("idle"), files' \subseteq files, NEW said \in Results \ {"none"},
           restore' = Idle, last' = [result |-> said, selected |-> restore.selected],
           UNCHANGED <<db, backups, before, changes, restores, late>>,
           errors' \in 0..MaxErrors, kills' \in 0..MaxKills
    PROVE  RunInv'
<1> USE DEF RunInv
<1>1. restore' \in Restores /\ At("idle")' /\ restore'.selected = 0
  BY IdleType DEF At
<1>0. restore'.left = {}
  BY DEF Idle
<1>2. Len(backups) \in Nat /\ restore.selected \in 0..Len(backups) /\ restore.selected # 0
  BY Basics DEF TypeInv
<1>3. last' \in [result : Results, selected : 0..Len(backups)] /\ last'.selected # 0
  BY <1>2
<1>4. TypeInv'
  BY <1>1, <1>2, <1>3 DEF TypeInv, counters
<1>5. TreesOK'
  BY DEF TreesOK, Deep, Fresh
<1>6. StagingOK' /\ QuietOK' /\ StashOK' /\ SuccessOK' /\ FailureOK' /\ OldOK'
  BY <1>0, <1>1 DEF At, QuietOK, StagingOK, StashOK, SuccessOK, FailureOK, OldOK, Swapping
<1> QED BY <1>4, <1>5, <1>6

\* The tree without one directory.
LEMMA RemovedTree ==
    ASSUME TypeInv, NEW name \in Names
    PROVE  Removed(<<name>>) = {f \in files : ~Beneath(f, name)}
<1>1. files \in SUBSET Entries
  BY DEF TypeInv
<1> QED BY <1>1, UnderOne DEF Removed

LEMMA FaultType == ASSUME TypeInv, Fault PROVE errors' \in 0..MaxErrors
<1>1. errors \in 0..MaxErrors /\ late \in 0..MaxLate
  BY DEF TypeInv
<1>2. errors + late < MaxErrors /\ errors' = errors + 1
  BY DEF Fault
<1> QED BY <1>1, <1>2, Numbers

\* What is left of a tree after rmtree without error messages.
LEMMA DiscardedTree ==
    ASSUME TypeInv, NEW dirs \in SUBSET Names, Discarded(dirs)
    PROVE  /\ files' \subseteq files /\ errors' \in 0..MaxErrors
           /\ \A f \in files : f.at[1] \notin dirs => f \in files'
<1> DEFINE all == UNION {Under(files, <<d>>) : d \in dirs}
<1>1. files \in SUBSET Entries /\ errors \in 0..MaxErrors
  BY DEF TypeInv
<1>2. ASSUME NEW f \in all PROVE f \in files /\ f.at[1] \in dirs
  <2>1. PICK d \in dirs : f \in Under(files, <<d>>)
    OBVIOUS
  <2>2. d \in Names /\ Under(files, <<d>>) = {g \in files : Beneath(g, d)}
    BY <1>1, UnderOne
  <2> QED BY <2>1, <2>2 DEF Beneath
<1>3. PICK left \in SUBSET all : /\ files' = (files \ all) \cup left
                                /\ IF left = {} THEN UNCHANGED errors ELSE Fault
  BY DEF Discarded
<1>4. errors' \in 0..MaxErrors
  BY <1>1, <1>3, FaultType
<1> HIDE DEF all
<1> QED BY <1>2, <1>3, <1>4

LEMMA LiveFiles ==
    ASSUME NEW tree
    PROVE  /\ Live(tree) = {f \in tree : Depth(f.at) = 1}
           /\ \A d, v : Has1(Live(tree), d, v) <=> Has1(tree, d, v)
BY DEF Live, Depth, Has1

LEMMA LiveUploadable ==
    ASSUME NEW tree \in SUBSET Entries, Deep(tree)
    PROVE  Live(tree) \subseteq Uploadable /\ \A f \in Live(tree) : f.at[1] \in Dirs
<1>1. ASSUME NEW f \in Live(tree)
      PROVE  f \in Uploadable /\ f.at[1] \in Dirs
  <2>1. f \in Entries /\ f \in tree /\ Depth(f.at) = 1
    BY LiveFiles
  <2>2. f = TopFile(f.at[1], f.version) /\ f.at[1] \in Names /\ f.version \in Versions
    BY <2>1, ShortEntries
  <2>3. f.at[1] \in Dirs
    BY <2>1, <2>2 DEF Deep, Names
  <2> QED BY <2>2, <2>3 DEF Uploadable, TopFile
<1> QED BY <1>1

(***************************************************************************)
(* Around the restore                                                      *)
(***************************************************************************)

LEMMA InitInv == Init => PipelineInv
<1> SUFFICES ASSUME Init PROVE PipelineInv
  OBVIOUS
<1>1. ASSUME NEW f \in files PROVE f \in Entries /\ f.at[1] \in Dirs /\ Depth(f.at) = 1
  <2>1. 0 \in Versions
    BY Numbers
  <2>2. PICK d \in Dirs : f = TopFile(d, 0)
    BY DEF Init, Uploads, TopFile
  <2> QED BY <2>1, <2>2, EntryOne, NamesApart
<1>2. backups = <<>> /\ Len(backups) = 0 /\ DOMAIN backups = {} /\ last = None /\ restore = Idle /\ before = {}
  BY DEF Init
<1>3. last \in [result : Results, selected : 0..0] /\ backups \in Seq([db : 0..MaxChanges, files : SUBSET Entries])
      /\ last.result = "none"
  BY <1>2 DEF None, Results
<1>4. TypeInv
  BY <1>1, <1>2, <1>3, IdleType, Numbers DEF Init, TypeInv, At
<1>5. TreesOK
  BY <1>1, <1>2, NamesApart DEF TreesOK, Deep, Fresh, StagingNames
<1>6. At("idle") /\ restore.left = {}
  BY <1>2, IdleType DEF At, Idle
<1>7. StagingOK /\ QuietOK /\ StashOK /\ SuccessOK /\ FailureOK /\ OldOK
  BY <1>6 DEF At, QuietOK, StagingOK, StashOK, SuccessOK, FailureOK, OldOK, Swapping
<1> QED BY <1>3, <1>4, <1>5, <1>7
        DEF RunInv, PipelineInv, SuccessIsComplete, FailureLeavesUploads, OldRemain, Exchanged, Unfinished

LEMMA ChangeInv == ASSUME PipelineInv, Change PROVE PipelineInv'
<1> USE DEF PipelineInv, RunInv
<1>1. /\ At("idle") /\ changes' \in 0..MaxChanges /\ db' = changes' /\ last' = None
      /\ UNCHANGED <<backups, restore, before, restores, errors, kills, late>>
      /\ files' = (files \ Live(files)) \cup Uploads(changes')
  BY Numbers DEF Change, TypeInv
<1>2. ASSUME NEW f \in files' PROVE f \in files \/ (f \in Entries /\ f.at[1] \in Dirs /\ Depth(f.at) = 1)
  <2> SUFFICES ASSUME f \notin files PROVE f \in Entries /\ f.at[1] \in Dirs /\ Depth(f.at) = 1
    OBVIOUS
  <2>1. changes' \in Versions
    BY <1>1, Numbers
  <2>2. PICK d \in Dirs : f = TopFile(d, changes')
    BY <1>1 DEF Uploads, TopFile
  <2> QED BY <2>1, <2>2, EntryOne, NamesApart
<1>8. restore'.left = {}
  BY <1>1 DEF QuietOK, At
<1>3. At("idle")' /\ last' \in [result : Results, selected : 0..Len(backups')] /\ last'.result = "none"
  <2>1. Len(backups) \in Nat
    BY Basics
  <2> QED BY <1>1, <2>1 DEF At, None, Results
<1>4. TypeInv'
  BY <1>1, <1>2, <1>3, Numbers DEF TypeInv, At
<1>5. TreesOK'
  BY <1>1, <1>2, NamesApart DEF TreesOK, Deep, Fresh, StagingNames
<1>6. StagingOK' /\ QuietOK' /\ StashOK' /\ SuccessOK' /\ FailureOK' /\ OldOK'
  BY <1>3, <1>8 DEF At, QuietOK, StagingOK, StashOK, SuccessOK, FailureOK, OldOK, Swapping
<1> QED BY <1>3, <1>4, <1>5, <1>6 DEF SuccessIsComplete, FailureLeavesUploads, OldRemain, Exchanged, Unfinished

LEMMA SavedBackups ==
    ASSUME TypeInv, TreesOK, db # NoDatabase, backups' = Saved
    PROVE  /\ backups' \in Seq([db : 0..MaxChanges, files : SUBSET Entries])
           /\ Len(backups') = Len(backups) + 1 /\ DOMAIN backups' = 1..(Len(backups) + 1)
           /\ \A b \in DOMAIN backups : b \in DOMAIN backups' /\ backups'[b] = backups[b]
           /\ backups'[Len(backups')] = [db |-> db, files |-> files]
           /\ \A b \in DOMAIN backups' : Deep(backups'[b].files) /\ Fresh(backups'[b].files)
<1> DEFINE new == [db |-> db, files |-> files]
<1>1. new \in [db : 0..MaxChanges, files : SUBSET Entries]
  BY Numbers DEF TypeInv
<1>2. /\ backups \in Seq([db : 0..MaxChanges, files : SUBSET Entries]) /\ Len(backups) \in Nat
      /\ DOMAIN backups = 1..Len(backups) /\ backups' = Append(backups, new)
  BY Basics DEF Saved
<1>3. new.files = files
  OBVIOUS
<1> HIDE DEF new
<1>4. /\ backups' \in Seq([db : 0..MaxChanges, files : SUBSET Entries])
      /\ Len(backups') = Len(backups) + 1 /\ DOMAIN backups' = 1..(Len(backups) + 1)
      /\ \A b \in DOMAIN backups : b \in DOMAIN backups' /\ backups'[b] = backups[b]
      /\ backups'[Len(backups')] = new
  BY <1>1, <1>2
<1>5. ASSUME NEW b \in DOMAIN backups' PROVE b \in DOMAIN backups \/ backups'[b].files = files
  BY <1>2, <1>3, <1>4
<1> QED BY <1>4, <1>5 DEF TreesOK, new

LEMMA BackupInv == ASSUME PipelineInv, Backup PROVE PipelineInv'
<1> USE DEF PipelineInv, RunInv
<1>1. /\ At("idle") /\ db # NoDatabase /\ backups' = Saved /\ Len(backups) - restores < MaxBackups
      /\ UNCHANGED <<files, db, restore, before, last, changes, restores, errors, kills, late>>
  BY DEF Backup, counters
<1>2. /\ backups' \in Seq([db : 0..MaxChanges, files : SUBSET Entries])
      /\ Len(backups') = Len(backups) + 1
      /\ \A b \in DOMAIN backups : b \in DOMAIN backups' /\ backups'[b] = backups[b]
      /\ \A b \in DOMAIN backups' : Deep(backups'[b].files) /\ Fresh(backups'[b].files)
      /\ Len(backups) \in Nat /\ DOMAIN backups = 1..Len(backups)
  BY <1>1, SavedBackups, Basics
<1>3. TypeInv'
  <2> DEFINE m == Len(backups)
             n == Len(backups')
  <2>3. m \in Nat /\ n = m + 1
    BY <1>2
  <2> HIDE DEF m, n
  <2>4. 0..m \subseteq 0..n
    BY <2>3
  <2>1. restore.selected \in 0..Len(backups') /\ last \in [result : Results, selected : 0..Len(backups')]
    BY <2>4 DEF TypeInv, m, n
  <2>2. restores <= Len(backups') /\ Len(backups') - restores <= MaxBackups
    BY <1>1, <1>2, Numbers DEF TypeInv
  <2> QED BY <1>1, <1>2, <2>1, <2>2 DEF TypeInv, At
<1>4. TreesOK'
  BY <1>1, <1>2 DEF TreesOK, Deep, Fresh
<1>5. At("idle")' /\ restore'.left = {}
  BY <1>1 DEF At, QuietOK
<1>6. StagingOK' /\ QuietOK' /\ StashOK' /\ SuccessOK' /\ FailureOK' /\ OldOK'
  BY <1>5 DEF At, QuietOK, StagingOK, StashOK, SuccessOK, FailureOK, OldOK, Swapping
<1>7. last.result # "none" => last.selected \in DOMAIN backups
  BY <1>2 DEF TypeInv
<1>8. SuccessIsComplete' /\ FailureLeavesUploads' /\ OldRemain'
  BY <1>1, <1>2, <1>7 DEF SuccessIsComplete, FailureLeavesUploads, OldRemain, Clean, Somewhere, At, Exchanged, Unfinished
<1> QED BY <1>3, <1>4, <1>6, <1>8

LEMMA LateUploadInv == ASSUME PipelineInv, NEW d \in Dirs, LateUpload(d) PROVE PipelineInv'
<1> USE DEF PipelineInv, RunInv
<1> DEFINE new == TopFile(d, Late)
<1>1. new \in Entries /\ Depth(new.at) = 1 /\ new.at[1] = d /\ d \in Names /\ d \notin Internal
  BY EntryOne, NamesApart, Numbers
<1>2. /\ ~At("idle") /\ late' \in 0..MaxLate /\ late' # 0 /\ files' = files \cup {new}
      /\ UNCHANGED <<db, backups, restore, before, last, changes, restores, errors, kills>>
  BY Numbers DEF LateUpload, TopFile, TypeInv
<1> HIDE DEF new
<1>3. TypeInv'
  BY <1>1, <1>2 DEF TypeInv, At
<1>4. TreesOK'
  BY <1>1, <1>2, NamesApart DEF TreesOK, Deep, Fresh, StagingNames
<1>5. StagingOK'
  <2>1. ~Beneath(new, restore.staging)
    BY <1>1, Basics, NamesApart DEF Beneath
  <2>2. /\ ~At("idle") /\ restore' = restore /\ Selected' = Selected /\ UNCHANGED <<restores, backups>>
        /\ \A f \in files' : Beneath(f, restore.staging) => f \in files
        /\ files \subseteq files'
    BY <1>2, <2>1 DEF Selected
  <2>3. (\A b : Staged(b)' = Staged(b)) /\ (\A step : At(step)' = At(step))
    BY <2>2 DEF Staged, At
  <2> QED BY <2>2, <2>3 DEF StagingOK
<1>6. QuietOK' /\ StashOK' /\ SuccessOK' /\ FailureOK' /\ OldOK'
  BY <1>2 DEF QuietOK, StashOK, SuccessOK, FailureOK, OldOK, At, Selected, Swapping, Clean, Beneath, Beneath2
<1>7. SuccessIsComplete' /\ FailureLeavesUploads' /\ OldRemain'
  BY <1>2 DEF SuccessIsComplete, FailureLeavesUploads, OldRemain, At
<1> QED BY <1>3, <1>4, <1>5, <1>6, <1>7

(***************************************************************************)
(* restore_backup up to the swap                                           *)
(***************************************************************************)

LEMMA StagedTree ==
    ASSUME NEW tree \in SUBSET Entries, NEW s \in Names
    PROVE  Rebased(tree, <<>>, <<s>>) = {PutUnder(s, e) : e \in tree}
<1>1. ASSUME NEW e \in tree PROVE SubSeq(e.at, Len(<<>>) + 1, Len(e.at)) = e.at
  <2>1. e.at \in Seq(Names) /\ Len(<<>>) + 1 = 1
    BY PathBasics DEF Entries
  <2> QED BY <2>1, SubSeqFull
<1> QED BY <1>1, UnderAll DEF Rebased, PutUnder

LEMMA RestoreBeginInv ==
    ASSUME PipelineInv, NEW b \in DOMAIN backups, RestoreBegin(b)
    PROVE  PipelineInv'
<1> USE DEF PipelineInv, RunInv
<1> DEFINE s == Staging(restores + 1)
<1>20. /\ At("idle") /\ db # NoDatabase /\ restores' = restores + 1 /\ backups' = Saved
      /\ UNCHANGED <<db, changes, errors, kills, late>> /\ last' = None /\ before' = Live(files)
  BY DEF RestoreBegin, Extracted
<1>21. restores' \in 0..MaxRestores /\ restores \in 0..MaxRestores /\ restores' > restores
  <2>1. restores < MaxRestores /\ restores \in 0..MaxRestores
    BY DEF RestoreBegin, Extracted, TypeInv
  <2> QED BY <1>20, <2>1, Numbers
<1>1. /\ At("idle") /\ db # NoDatabase /\ restores' = restores + 1 /\ restores' \in 0..MaxRestores
      /\ restores \in 0..MaxRestores /\ restores' > restores /\ backups' = Saved
      /\ UNCHANGED <<db, changes, errors, kills, late>> /\ last' = None /\ before' = Live(files)
  BY <1>20, <1>21
<1>2. /\ restore' = [step |-> "load", selected |-> b, staging |-> s, holder |-> Holder(0),
                     todo |-> {}, stashed |-> {}, placed |-> {}, left |-> {}]
      /\ s \in StagingNames /\ s \in Names
  BY <1>1, NamesApart DEF RestoreBegin, Extracted, Idle, StagingNames
<1>3. /\ backups' \in Seq([db : 0..MaxChanges, files : SUBSET Entries])
      /\ Len(backups') = Len(backups) + 1
      /\ \A c \in DOMAIN backups : c \in DOMAIN backups' /\ backups'[c] = backups[c]
      /\ \A c \in DOMAIN backups' : Deep(backups'[c].files) /\ Fresh(backups'[c].files)
      /\ Len(backups) \in Nat /\ DOMAIN backups = 1..Len(backups)
  BY <1>1, SavedBackups, Basics
<1>4. Selected' = backups[b] /\ Selected'.files \in SUBSET Entries /\ ~At("idle")' /\ restore'.selected = b
      /\ restore'.staging = s /\ s = Staging(restores') /\ restore'.step = "load"
  BY <1>1, <1>2, <1>3, Basics DEF Selected, At
<1>5. files' = files \cup {Staged(e)' : e \in Selected'.files}
  <2>1. Rebased(backups[b].files, <<>>, <<s>>) = {PutUnder(s, e) : e \in backups[b].files}
    BY <1>2, <1>4, StagedTree
  <2>2. files' = files \cup Rebased(backups[b].files, <<>>, <<s>>)
    BY <1>1 DEF RestoreBegin, Extracted
  <2>3. \A e : Staged(e)' = PutUnder(s, e)
    BY <1>4 DEF Staged
  <2> QED BY <1>4, <2>1, <2>2, <2>3
<1> HIDE DEF s
<1>6. ASSUME NEW e \in Selected'.files
      PROVE  Staged(e)' \in Entries /\ Depth(Staged(e)'.at) > 1 /\ Beneath(Staged(e)', s)
  <2>1. e \in Entries /\ Depth(e.at) \in Nat /\ Depth(e.at) >= 1 /\ restore'.staging \in Names
    BY <1>2, <1>4, ShortEntries
  <2>2. /\ Staged(e)' \in Entries /\ Depth(Staged(e)'.at) = Depth(e.at) + 1 /\ Staged(e)'.at[1] = s
    BY <1>4, <2>1, StagedEntry DEF Staged
  <2> QED BY <2>1, <2>2 DEF Beneath
<1>7. ASSUME NEW f \in files PROVE ~Beneath(f, s)
  BY <1>1 DEF Beneath, TreesOK, Fresh, s
<1>8. ASSUME NEW e \in Selected'.files PROVE ~Beneath(e, s)
  BY <1>1, <1>4 DEF Beneath, TreesOK, Fresh, s
<1>9. before' \subseteq Uploadable /\ Live(files)' = before'
  <2>1. files \in SUBSET Entries /\ Deep(files)
    BY DEF TypeInv, TreesOK
  <2>2. Live(files)' = {f \in files' : Depth(f.at) = 1} /\ Live(files) = {f \in files : Depth(f.at) = 1}
    BY LiveFiles
  <2> QED BY <1>1, <1>5, <1>6, <2>1, <2>2, LiveUploadable
<1>10. TypeInv'
  <2> DEFINE m == Len(backups)
             n == Len(backups')
  <2>1. m \in Nat /\ n = m + 1 /\ b \in 1..m /\ restores <= m /\ m - restores <= MaxBackups
    BY <1>3 DEF TypeInv
  <2>2. restore'.selected \in 0..n /\ restores' <= n /\ n - restores' <= MaxBackups
        /\ last' \in [result : Results, selected : 0..n] /\ last'.result = "none" /\ restore'.selected # 0
    <3> HIDE DEF m, n
    <3> QED BY <1>1, <1>4, <2>1, Numbers DEF None, Results
  <2>3. restore' \in Restores
    <3>1. b \in Nat
      <4> HIDE DEF m
      <4> QED BY <2>1
    <3>2. Holder(0) \in HolderNames
      BY Numbers DEF HolderNames
    <3> QED BY <1>2, <3>1, <3>2 DEF Restores, Steps
  <2>4. files' \subseteq Entries
    BY <1>5, <1>6 DEF TypeInv
  <2> QED BY <1>1, <1>3, <1>4, <1>9, <2>2, <2>3, <2>4 DEF TypeInv, At
<1>11. TreesOK'
  <2>1. \A tree : Fresh(tree) => Fresh(tree)'
    BY <1>1 DEF Fresh
  <2>2. Deep(files)' /\ Fresh(files)'
    BY <1>1, <1>5, <1>6, NamesApart DEF TreesOK, Deep, Fresh, Beneath, s
  <2> QED BY <1>1, <1>3, <2>2 DEF TreesOK, Fresh, Deep
<1>12. StagingOK'
  <2>1. \A f \in files' : Beneath(f, restore'.staging) => \E e \in Selected'.files : f = Staged(e)'
    BY <1>4, <1>5, <1>7
  <2>2. \A e \in Selected'.files : Staged(e)' \in files' /\ ~Beneath(e, restore'.staging)
    BY <1>4, <1>5, <1>8
  <2>3. ~At("place")'
    BY <1>4 DEF At
  <2> QED BY <1>4, <2>1, <2>2, <2>3 DEF StagingOK
<1>13. QuietOK' /\ StashOK' /\ SuccessOK' /\ FailureOK' /\ OldOK'
  <2>1. before' \subseteq files'
    BY <1>9, LiveFiles DEF Live
  <2>2. restore'.stashed = {} /\ restore'.placed = {} /\ restore'.left = {}
    BY <1>2
  <2> QED BY <1>4, <1>9, <2>1, <2>2 DEF QuietOK, StashOK, SuccessOK, FailureOK, OldOK, At, Swapping
<1>14. SuccessIsComplete' /\ FailureLeavesUploads' /\ OldRemain'
  BY <1>1, <1>4 DEF SuccessIsComplete, FailureLeavesUploads, OldRemain, None, At, Exchanged, Unfinished
<1> QED BY <1>10, <1>11, <1>12, <1>13, <1>14

\* A step of a restore that goes on.
LEMMA GoesOn ==
    ASSUME PipelineInv, ~At("idle"), files' \subseteq Entries, Deep(files'), Fresh(files'),
           restore' \in Restores, restore'.selected = restore.selected, restore'.staging = restore.staging,
           restore'.step # "idle", db' \in 0..NoDatabase, errors' \in 0..MaxErrors,
           UNCHANGED <<backups, before, last, changes, restores, kills, late>>
    PROVE  /\ TypeInv' /\ TreesOK'
           /\ SuccessIsComplete' /\ FailureLeavesUploads' /\ OldRemain'
           /\ ~At("idle")' /\ Selected' = Selected /\ \A b : Staged(b)' = Staged(b)
           /\ Clean(restore.selected)' <=> Clean(restore.selected)
<1> USE DEF PipelineInv, RunInv
<1>1. /\ ~At("idle")' /\ Selected' = Selected /\ \A b : Staged(b)' = Staged(b)
      /\ Clean(restore.selected)' <=> Clean(restore.selected)
  BY DEF At, Selected, Staged, Clean
<1>2. last = None /\ last.result = "none"
  BY DEF TypeInv, None
<1>3. TypeInv'
  BY <1>1, <1>2 DEF TypeInv, At
<1>4. TreesOK'
  BY DEF TreesOK, Deep, Fresh
<1>5. SuccessIsComplete' /\ FailureLeavesUploads' /\ OldRemain'
  BY <1>2 DEF SuccessIsComplete, FailureLeavesUploads, OldRemain, Exchanged, Unfinished
<1> QED BY <1>1, <1>3, <1>4, <1>5

\* The steps before the swap only change the database.
LEMMA LoadInv == ASSUME PipelineInv, DropTables \/ LoadDump PROVE PipelineInv'
<1> USE DEF PipelineInv, RunInv
<1>1. /\ ~At("idle") /\ files' = files /\ restore' \in Restores
      /\ restore'.selected = restore.selected /\ restore'.staging = restore.staging
      /\ restore'.step \in {"loading", "commands"} /\ restore.step \in {"load", "loading"}
      /\ UNCHANGED <<backups, before, last, changes, restores, errors, kills, late>>
      /\ restore'.step = "commands" => db' = Selected.db
      /\ restore'.stashed = restore.stashed /\ restore'.placed = restore.placed /\ restore'.left = restore.left
  BY DEF DropTables, LoadDump, Goto, At, Restores, Steps, TypeInv, counters, Selected
<1>2. db' \in 0..NoDatabase
  <2>1. CASE DropTables
    BY <2>1, Numbers DEF DropTables
  <2>2. CASE LoadDump
    BY <2>2, Basics, Numbers DEF LoadDump, At
  <2> QED BY <2>1, <2>2
<1>3. /\ TypeInv' /\ TreesOK' /\ SuccessIsComplete' /\ FailureLeavesUploads' /\ OldRemain'
      /\ ~At("idle")' /\ Selected' = Selected /\ \A b : Staged(b)' = Staged(b)
      /\ errors' \in 0..MaxErrors
  <2>1. files' \subseteq Entries /\ Deep(files') /\ Fresh(files') /\ errors' \in 0..MaxErrors
    BY <1>1 DEF TypeInv, TreesOK
  <2> QED BY <1>1, <1>2, <2>1, GoesOn
<1>4. StagingOK'
  BY <1>1, <1>3 DEF StagingOK, At
<1>5. QuietOK' /\ StashOK' /\ SuccessOK' /\ FailureOK' /\ OldOK'
  BY <1>1, <1>3 DEF QuietOK, StashOK, SuccessOK, FailureOK, OldOK, At, Swapping
<1> QED BY <1>3, <1>4, <1>5

LEMMA SwapBeginInv == ASSUME PipelineInv, SwapBegin PROVE PipelineInv'
<1> USE DEF PipelineInv, RunInv
<1>1. PICK n \in 0..MaxRestores :
        /\ ~Exists(<<Holder(n)>>)
        /\ restore' = [restore EXCEPT !.step = "stash", !.holder = Holder(n),
                                      !.todo = Children(files, <<>>) \ Internal]
  BY DEF SwapBegin
<1> DEFINE h == Holder(n)
<1>2. h \in HolderNames /\ h \in Names /\ h \notin Dirs
  BY NamesApart DEF HolderNames
<1>3. Children(files, <<>>) = {f.at[1] : f \in files}
  BY ChildrenOfAll DEF TypeInv
<1>4. At("commands") /\ ~At("idle") /\ UNCHANGED <<files, db, backups, before, last, changes, restores, errors, kills, late>>
  BY DEF SwapBegin, counters, At
<1>5. \A f \in files : ~Beneath(f, h)
  BY <1>1, <1>2, UnderOne DEF Exists, TypeInv
<1> HIDE DEF h
<1>6. /\ restore'.step = "stash" /\ restore'.holder = h /\ restore'.selected = restore.selected
      /\ restore'.staging = restore.staging /\ restore'.stashed = restore.stashed /\ restore'.placed = restore.placed
      /\ restore'.left = restore.left
      /\ restore'.todo = {f.at[1] : f \in files} \ Internal
  BY <1>1, <1>3 DEF h, TypeInv, Restores
<1>7. \A f \in files : f.at[1] \in Names
  BY ShortEntries DEF TypeInv
<1>8. restore'.todo \subseteq Dirs /\ \A f \in files : f.at[1] \in Dirs => f.at[1] \in restore'.todo
  BY <1>6, <1>7, NamesApart DEF Names
<1>9. restore' \in Restores
  <2>1. {f.at[1] : f \in files} \ Internal \subseteq Names /\ restore \in Restores /\ "stash" \in Steps
    BY <1>7 DEF TypeInv, Steps
  <2>2. restore' = [restore EXCEPT !.step = "stash", !.holder = h, !.todo = {f.at[1] : f \in files} \ Internal]
    BY <1>1, <1>3 DEF h
  <2> QED BY <1>2, <2>1, <2>2 DEF Restores
<1>10. restore.stashed = {} /\ restore.placed = {}
  BY <1>4 DEF QuietOK, At
<1>11. /\ TypeInv' /\ TreesOK' /\ SuccessIsComplete' /\ FailureLeavesUploads' /\ OldRemain'
       /\ ~At("idle")' /\ Selected' = Selected /\ \A b : Staged(b)' = Staged(b)
  <2>1. files' \subseteq Entries /\ Deep(files') /\ Fresh(files') /\ errors' \in 0..MaxErrors /\ db' \in 0..NoDatabase
    BY <1>4 DEF TypeInv, TreesOK
  <2> QED BY <1>4, <1>6, <1>9, <2>1, GoesOn
<1>12. StagingOK'
  BY <1>4, <1>6, <1>11 DEF StagingOK, At
<1>13. QuietOK' /\ StashOK' /\ SuccessOK'
  BY <1>4, <1>6, <1>8, <1>11 DEF QuietOK, StashOK, SuccessOK, At
<1>14. FailureOK'
  <2>1. late = 0 => \A d, v : Has1(files, d, v) <=> Has1(before, d, v)
    BY <1>4, LiveFiles DEF FailureOK, At
  <2> QED BY <1>4, <1>5, <1>6, <1>10, <2>1 DEF FailureOK
<1>15. OldOK'
  <2>1. \A e \in before : e \in files /\ e.at[1] \in Dirs
    BY <1>4, UploadableEntry DEF OldOK, TypeInv, At
  <2> QED BY <1>4, <1>6, <1>8, <1>10, <2>1 DEF OldOK, At, Beneath
<1> QED BY <1>11, <1>12, <1>13, <1>14, <1>15

LEMMA PlaceBeginInv == ASSUME PipelineInv, PlaceBegin PROVE PipelineInv'
<1> USE DEF PipelineInv, RunInv
<1> DEFINE tops == {b.at[1] : b \in Selected.files}
<1>1. /\ At("stash") /\ ~At("idle") /\ restore.todo = {} /\ restore.placed = {}
      /\ UNCHANGED <<files, db, backups, before, last, changes, restores, errors, kills, late>>
      /\ restore' = [restore EXCEPT !.step = "place", !.todo = Children(files, <<restore.staging>>)]
  BY DEF PlaceBegin, counters, At, StashOK
<1>2. Selected.files \in SUBSET Entries /\ restore.staging \in Names /\ restore \in Restores
  BY <1>1, Basics DEF TypeInv
<1>3. \A b \in Selected.files :
        /\ Staged(b) \in files /\ Beneath(Staged(b), restore.staging) /\ Staged(b).at[2] = b.at[1]
        /\ Beneath2(Staged(b), restore.staging, b.at[1]) /\ b.at[1] \in Names
  <2> SUFFICES ASSUME NEW b \in Selected.files
               PROVE  /\ Staged(b) \in files /\ Beneath(Staged(b), restore.staging) /\ Staged(b).at[2] = b.at[1]
                      /\ Beneath2(Staged(b), restore.staging, b.at[1]) /\ b.at[1] \in Names
    OBVIOUS
  <2>1. /\ Depth(Staged(b).at) = Depth(b.at) + 1 /\ Staged(b).at[1] = restore.staging /\ Staged(b).at[2] = b.at[1]
        /\ Depth(b.at) \in Nat /\ Depth(b.at) >= 1 /\ b.at[1] \in Names
    BY <1>2, StagedEntry, ShortEntries DEF Staged
  <2>2. Staged(b) \in files
    BY <1>1 DEF StagingOK, At
  <2> QED BY <2>1, <2>2 DEF Beneath, Beneath2
<1>4. Children(files, <<restore.staging>>) = tops
  <2>1. Children(files, <<restore.staging>>) = {f.at[2] : f \in {f \in files : Beneath(f, restore.staging)}}
    BY <1>2, ChildrenOfOne DEF TypeInv
  <2>2. \A f \in files : Beneath(f, restore.staging) => \E b \in Selected.files : f = Staged(b)
    BY <1>1 DEF StagingOK
  <2> QED BY <1>3, <2>1, <2>2
<1>5. tops \subseteq Names
  BY <1>3
<1> HIDE DEF tops
<1>6. /\ restore'.step = "place" /\ restore'.selected = restore.selected /\ restore'.holder = restore.holder
      /\ restore'.staging = restore.staging /\ restore'.stashed = restore.stashed /\ restore'.placed = {}
      /\ restore'.left = restore.left /\ restore'.todo = tops /\ restore' \in Restores
  BY <1>1, <1>2, <1>4, <1>5 DEF Restores, Steps
<1>7. /\ TypeInv' /\ TreesOK' /\ SuccessIsComplete' /\ FailureLeavesUploads' /\ OldRemain'
      /\ ~At("idle")' /\ Selected' = Selected /\ \A b : Staged(b)' = Staged(b)
      /\ Clean(restore.selected)' <=> Clean(restore.selected)
  <2>1. files' \subseteq Entries /\ Deep(files') /\ Fresh(files') /\ errors' \in 0..MaxErrors /\ db' \in 0..NoDatabase
    BY <1>1 DEF TypeInv, TreesOK
  <2> QED BY <1>1, <1>6, <2>1, GoesOn
<1>8. \A b \in Selected.files : b.at[1] \in tops
  BY DEF tops
<1>9. StagingOK'
  <2>1. restore.staging = Staging(restores) /\ \A b \in Selected.files : ~Beneath(b, restore.staging)
    BY <1>1 DEF StagingOK
  <2>2. ASSUME NEW f \in files, Beneath(f, restore.staging)
        PROVE  \E b \in Selected.files : f = Staged(b) /\ Beneath2(f, restore.staging, f.at[2]) /\ f.at[2] \in tops
    <3>1. PICK b \in Selected.files : f = Staged(b)
      BY <1>1, <2>2 DEF StagingOK
    <3> QED BY <1>3, <1>8, <3>1
  <2>3. ASSUME NEW name \in tops PROVE \E f \in files : Beneath2(f, restore.staging, name)
    <3>1. PICK b \in Selected.files : name = b.at[1]
      BY DEF tops
    <3> QED BY <1>3, <3>1
  <2> QED BY <1>1, <1>3, <1>6, <1>7, <2>1, <2>2, <2>3 DEF StagingOK, At
<1>10. QuietOK' /\ StashOK' /\ SuccessOK'
  BY <1>1, <1>6, <1>7, <1>8 DEF QuietOK, StashOK, SuccessOK, At
<1>11. FailureOK'
  BY <1>1, <1>6, <1>7 DEF FailureOK, At, Swapping
<1>12. OldOK'
  <2>1. Clean(restore.selected) => tops \subseteq Dirs
    BY <1>2, CleanTree DEF Clean, Selected, tops
  <2> QED BY <1>1, <1>6, <1>7, <2>1 DEF OldOK, At, Swapping
<1> QED BY <1>7, <1>9, <1>10, <1>11, <1>12

LEMMA SwapFailsInv == ASSUME PipelineInv, SwapFails PROVE PipelineInv'
<1> USE DEF PipelineInv, RunInv
<1>1. /\ restore.step \in {"stash", "place"} /\ ~At("idle") /\ restore' = [restore EXCEPT !.step = "remove"]
      /\ UNCHANGED <<files, db, backups, before, last, changes, restores, kills, late>>
      /\ Fault \/ UNCHANGED errors
  BY DEF SwapFails, At, Goto
<1>2. errors' \in 0..MaxErrors
  BY <1>1, FaultType DEF TypeInv
<1>3. /\ restore'.step = "remove" /\ restore'.selected = restore.selected /\ restore'.holder = restore.holder
      /\ restore'.staging = restore.staging /\ restore'.stashed = restore.stashed /\ restore'.placed = restore.placed
      /\ restore'.left = restore.left /\ restore' \in Restores
  BY <1>1 DEF TypeInv, Restores, Steps
<1>4. /\ TypeInv' /\ TreesOK' /\ SuccessIsComplete' /\ FailureLeavesUploads' /\ OldRemain'
      /\ ~At("idle")' /\ Selected' = Selected /\ \A b : Staged(b)' = Staged(b)
      /\ Clean(restore.selected)' <=> Clean(restore.selected)
  <2>1. files' \subseteq Entries /\ Deep(files') /\ Fresh(files') /\ db' \in 0..NoDatabase
    BY <1>1 DEF TypeInv, TreesOK
  <2> QED BY <1>1, <1>2, <1>3, <2>1, GoesOn
<1>5. StagingOK'
  BY <1>1, <1>3, <1>4 DEF StagingOK, At
<1>6. QuietOK' /\ StashOK' /\ SuccessOK'
  BY <1>1, <1>3, <1>4 DEF QuietOK, StashOK, SuccessOK, At
<1>7. FailureOK' /\ OldOK'
  BY <1>1, <1>3, <1>4 DEF FailureOK, OldOK, StashOK, At, Swapping
<1> QED BY <1>4, <1>5, <1>6, <1>7

(***************************************************************************)
(* How a restore ends                                                      *)
(***************************************************************************)

LEMMA NamesInRange ==
    ASSUME NEW f \in Entries
    PROVE  f.at[1] \in Range(f.at) /\ (Depth(f.at) > 1 => f.at[2] \in Range(f.at))
<1>1. DOMAIN f.at = 1..Depth(f.at) /\ Depth(f.at) \in Nat /\ Depth(f.at) >= 1
  BY PathBasics, LenProperties DEF Entries, Depth
<1>2. 1 \in DOMAIN f.at /\ (Depth(f.at) > 1 => 2 \in DOMAIN f.at)
  BY <1>1
<1> QED BY <1>2 DEF Range

\* The old files are there, if no more than the staging directory is removed.
LEMMA OldStays ==
    ASSUME RunInv, ~At("idle"), ~At("finish"), Clean(restore.selected), UNCHANGED before,
           \A f \in files : ~Beneath(f, restore.staging) => f \in files',
           NEW e \in before
    PROVE  Somewhere(e)'
<1> USE DEF RunInv
<1>1. e.at[1] \in Dirs /\ e.at[1] # restore.staging /\ restore.holder # restore.staging /\ e \in Entries
  BY UploadableEntry, Basics, NamesApart DEF TypeInv
<1>2. \E f \in files : f.version = e.version /\ ~Beneath(f, restore.staging) /\ e.at[1] \in Range(f.at)
  <2>1. CASE restore.step \in {"load", "loading", "commands"}
    BY <1>1, <2>1, NamesInRange DEF OldOK, Beneath
  <2>2. CASE Swapping
    <3>1. PICK f \in files : /\ f.version = e.version
                             /\ Beneath2(f, restore.holder, e.at[1]) \/ Beneath(f, e.at[1])
      BY <2>2 DEF OldOK
    <3>2. f \in Entries
      BY DEF TypeInv
    <3>3. e.at[1] \in Range(f.at) /\ ~Beneath(f, restore.staging)
      BY <1>1, <3>1, <3>2, NamesInRange DEF Beneath, Beneath2
    <3> QED BY <3>1, <3>3
  <2> QED BY <2>1, <2>2 DEF TypeInv, Restores, Steps, At, Swapping
<1> QED BY <1>2 DEF Somewhere

LEMMA SwapEndsInv == ASSUME PipelineInv, SwapEnds PROVE PipelineInv'
<1> USE DEF PipelineInv, RunInv
<1>1. /\ At("place") /\ ~At("idle") /\ restore.todo = {} /\ restore' = [restore EXCEPT !.step = "finish"]
      /\ UNCHANGED <<db, backups, before, last, changes, restores, kills, late>>
      /\ Discarded({restore.holder, restore.staging})
  BY DEF SwapEnds, Goto, At
<1>2. restore.holder \in Names /\ restore.holder \in HolderNames /\ Selected.files \in SUBSET Entries
      /\ Selected = backups[restore.selected] /\ restore.selected \in DOMAIN backups
      /\ restore.staging \in Names /\ restore.staging \in StagingNames
  BY <1>1, Basics DEF Selected
<1>3. files' \subseteq files /\ (\A f \in files : f.at[1] \in Dirs => f \in files') /\ errors' \in 0..MaxErrors
  <2>1. {restore.holder, restore.staging} \in SUBSET Names
    BY <1>2
  <2> QED BY <1>1, <1>2, <2>1, DiscardedTree, NamesApart
<1>4. /\ restore'.step = "finish" /\ restore'.selected = restore.selected /\ restore'.staging = restore.staging
      /\ restore'.left = restore.left /\ restore' \in Restores
  BY <1>1 DEF TypeInv, Restores, Steps
<1>5. /\ TypeInv' /\ TreesOK' /\ SuccessIsComplete' /\ FailureLeavesUploads' /\ OldRemain'
      /\ ~At("idle")' /\ Selected' = Selected /\ \A b : Staged(b)' = Staged(b)
  <2>1. files' \subseteq Entries /\ Deep(files') /\ Fresh(files') /\ db' \in 0..NoDatabase
    BY <1>1, <1>3 DEF TypeInv, TreesOK, Deep, Fresh
  <2> QED BY <1>1, <1>3, <1>4, <2>1, GoesOn
<1>6. ASSUME late = 0
      PROVE  db = Selected.db /\ Live(files') = Live(Selected.files)
  <2>1. db = Selected.db
    BY <1>1 DEF SuccessOK, At
  <2>2. Live(files') \in SUBSET Entries /\ Live(Selected.files) \in SUBSET Entries
        /\ \A f \in Live(files') \cup Live(Selected.files) : Depth(f.at) = 1 /\ f.at[1] \in Dirs
    <3>1. files' \in SUBSET Entries /\ Deep(files') /\ Deep(Selected.files)
      BY <1>2, <1>3 DEF TypeInv, TreesOK, Deep
    <3> QED BY <1>2, <3>1, LiveFiles, LiveUploadable
  <2>3. ASSUME NEW d \in Dirs, NEW v \in Versions
        PROVE  Has1(files', d, v) <=> Has1(Selected.files, d, v)
    <3>1. Has1(files', d, v) <=> Has1(files, d, v)
      BY <1>3 DEF Has1
    <3>2. CASE d \in restore.placed
      BY <1>1, <1>6, <3>1, <3>2 DEF SuccessOK
    <3>3. CASE d \notin restore.placed
      <4>1. /\ \A f \in files : f.at[1] # d
            /\ \A b \in Selected.files : b.at[1] # d
        BY <1>1, <1>6, <3>3 DEF SuccessOK
      <4> QED BY <3>1, <4>1 DEF Has1
    <3> QED BY <3>2, <3>3
  <2>4. \A d \in Dirs, v \in Versions : Has1(Live(files'), d, v) <=> Has1(Live(Selected.files), d, v)
    BY <2>3, LiveFiles
  <2> QED BY <2>1, <2>2, <2>4, SameUploads
<1>7. StagingOK'
  BY <1>1, <1>3, <1>4, <1>5 DEF StagingOK, At
<1>8. QuietOK' /\ StashOK' /\ FailureOK' /\ OldOK'
  BY <1>1, <1>4 DEF QuietOK, StashOK, FailureOK, OldOK, At, Swapping
<1>9. SuccessOK'
  BY <1>1, <1>4, <1>5, <1>6 DEF SuccessOK, At, Live
<1> QED BY <1>5, <1>7, <1>8, <1>9

\* A restore ends after its swap, whatever is recorded of it.
LEMMA FinishInv ==
    ASSUME PipelineInv, RestoreSucceeds \/ FinishFails \/ (Killed /\ At("finish"))
    PROVE  PipelineInv'
<1> USE DEF PipelineInv, RunInv
<1>1. /\ At("finish") /\ ~At("idle") /\ restore' = Idle /\ files' = files
      /\ UNCHANGED <<db, backups, before, changes, restores, late>>
      /\ errors' \in 0..MaxErrors /\ kills' \in 0..MaxKills
  <2>1. CASE RestoreSucceeds
    BY <2>1 DEF RestoreSucceeds, Ended, At, counters, TypeInv
  <2>2. CASE FinishFails
    BY <2>2, FaultType DEF FinishFails, Ended, At, TypeInv
  <2>3. CASE Killed /\ At("finish")
    BY <2>3, Numbers DEF Killed, Ended, At, TypeInv
  <2> QED BY <2>1, <2>2, <2>3
<1>2. PICK said \in Exchanged : last' = [result |-> said, selected |-> restore.selected]
  BY <1>1 DEF RestoreSucceeds, FinishFails, Killed, Ended, Exchanged
<1>3. said \in Results \ {"none"} /\ last'.result \in Exchanged /\ last'.selected = restore.selected
  BY <1>2 DEF Results, Exchanged
<1>4. RunInv'
  BY <1>1, <1>2, <1>3, EndStep
<1>5. late = 0 => db = backups[restore.selected].db /\ Live(files) = Live(backups[restore.selected].files)
  BY <1>1 DEF SuccessOK, Selected, At
<1>6. SuccessIsComplete'
  BY <1>1, <1>3, <1>5 DEF SuccessIsComplete, Live
<1>7. FailureLeavesUploads' /\ OldRemain'
  BY <1>3 DEF FailureLeavesUploads, OldRemain, Exchanged, Unfinished
<1> QED BY <1>4, <1>6, <1>7

LEMMA KilledInv == ASSUME PipelineInv, Killed, ~At("finish") PROVE PipelineInv'
<1> USE DEF PipelineInv, RunInv
<1>1. /\ ~At("idle") /\ files' = files /\ restore' = Idle /\ kills' \in 0..MaxKills
      /\ last' = [result |-> "killed", selected |-> restore.selected]
      /\ UNCHANGED <<db, backups, before, changes, restores, errors, late>>
  BY Numbers DEF Killed, Ended, At, TypeInv
<1>2. RunInv'
  BY <1>1, EndStep DEF Results, Unfinished, TypeInv
<1>3. OldRemain'
  BY <1>1, OldStays DEF OldRemain, Clean
<1> QED BY <1>1, <1>2, <1>3 DEF SuccessIsComplete, FailureLeavesUploads, Exchanged

LEMMA RestoreFailsInv == ASSUME PipelineInv, RestoreFails PROVE PipelineInv'
<1> USE DEF PipelineInv, RunInv
<1>1. /\ restore.step \in {"load", "loading", "commands"} /\ ~At("idle") /\ ~At("finish") /\ restore' = Idle
      /\ Discarded({restore.staging})
      /\ last' = [result |-> "failed", selected |-> restore.selected]
      /\ UNCHANGED <<db, backups, before, changes, restores, kills, late>>
  BY DEF RestoreFails, Ended, At
<1>2. /\ files' \subseteq files /\ errors' \in 0..MaxErrors /\ restore.staging \in StagingNames
      /\ \A f \in files : ~Beneath(f, restore.staging) => f \in files'
  <2>1. {restore.staging} \in SUBSET Names /\ restore.staging \in StagingNames
    BY Basics
  <2> QED BY <1>1, <2>1, DiscardedTree DEF Beneath
<1>3. RunInv'
  BY <1>1, <1>2, EndStep DEF Results, Unfinished, TypeInv
<1>4. OldRemain'
  BY <1>1, <1>2, OldStays DEF OldRemain, Clean
<1>5. Live(files') = Live(files)
  <2>1. \A f \in Live(files) : f.at[1] \in Dirs
    BY LiveUploadable DEF TypeInv, TreesOK
  <2>2. \A f \in Live(files) : ~Beneath(f, restore.staging)
    BY <1>2, <2>1, NamesApart DEF Beneath
  <2> QED BY <1>2, <2>2 DEF Live
<1>6. FailureLeavesUploads'
  BY <1>1, <1>5 DEF FailureLeavesUploads, FailureOK, Live
<1> QED BY <1>1, <1>3, <1>4, <1>6 DEF SuccessIsComplete, Exchanged

LEMMA RollbackFailsInv == ASSUME PipelineInv, RollbackFails PROVE PipelineInv'
<1> USE DEF PipelineInv, RunInv
<1>1. /\ restore.step \in {"remove", "return"} /\ ~At("idle") /\ ~At("finish") /\ restore' = Idle
      /\ (Fault /\ files' \in {files, Removed(<<restore.staging>>)}) \/ Discarded({restore.staging})
      /\ last' = [result |-> "stranded", selected |-> restore.selected]
      /\ UNCHANGED <<db, backups, before, changes, restores, kills, late>>
  BY DEF RollbackFails, Ended, At
<1>2. /\ files' \subseteq files /\ errors' \in 0..MaxErrors
      /\ \A f \in files : ~Beneath(f, restore.staging) => f \in files'
  <2>1. {restore.staging} \in SUBSET Names /\ restore.staging \in Names
    BY Basics
  <2>2. CASE Discarded({restore.staging})
    BY <2>1, <2>2, DiscardedTree DEF Beneath
  <2>3. CASE Fault /\ files' \in {files, Removed(<<restore.staging>>)}
    BY <2>1, <2>3, RemovedTree, FaultType
  <2> QED BY <1>1, <2>2, <2>3
<1>3. RunInv'
  BY <1>1, <1>2, EndStep DEF Results, Unfinished, TypeInv
<1>4. OldRemain'
  BY <1>1, <1>2, OldStays DEF OldRemain, Clean
<1> QED BY <1>1, <1>3, <1>4 DEF SuccessIsComplete, FailureLeavesUploads, Exchanged

LEMMA RollbackEndsInv == ASSUME PipelineInv, RollbackEnds PROVE PipelineInv'
<1> USE DEF PipelineInv, RunInv
<1>1. /\ restore.step \in {"remove", "return"} /\ ~At("idle") /\ Swapping /\ restore' = Idle
      /\ restore.stashed = {} /\ restore.placed = {}
      /\ Discarded({restore.holder, restore.staging})
      /\ last' = [result |-> IF restore.left = {} THEN "failed" ELSE "littered", selected |-> restore.selected]
      /\ UNCHANGED <<db, backups, before, changes, restores, kills, late>>
  BY DEF RollbackEnds, Ended, At, Swapping
<1>2. /\ files' \subseteq files /\ errors' \in 0..MaxErrors
      /\ restore.staging \in StagingNames /\ restore.holder \in HolderNames /\ files \in SUBSET Entries
      /\ \A f \in files : ~Beneath(f, restore.staging) /\ ~Beneath(f, restore.holder) => f \in files'
  <2>1. /\ files \in SUBSET Entries /\ {restore.holder, restore.staging} \in SUBSET Names
        /\ restore.staging \in StagingNames /\ restore.holder \in HolderNames
    BY Basics DEF TypeInv
  <2> QED BY <1>1, <2>1, DiscardedTree DEF Beneath
<1>3. RunInv'
  BY <1>1, <1>2, EndStep DEF Results, Unfinished, TypeInv
<1>4. OldRemain'
  <2> SUFFICES ASSUME Clean(restore.selected), NEW e \in before
               PROVE  Somewhere(e)'
    BY <1>1 DEF OldRemain, Clean
  <2>1. PICK f \in files : f.version = e.version /\ Beneath(f, e.at[1])
    BY <1>1 DEF OldOK
  <2>2. e.at[1] \in Dirs /\ f \in Entries
    BY <1>2, UploadableEntry DEF TypeInv
  <2>3. f \in files'
    BY <1>2, <2>1, <2>2, NamesApart DEF Beneath
  <2> QED BY <2>1, <2>2, <2>3, NamesInRange DEF Somewhere, Beneath
<1>5. FailureLeavesUploads'
  <2> SUFFICES ASSUME late = 0, restore.left = {}, Clean(restore.selected)
               PROVE  Live(files') = before
    BY <1>1 DEF FailureLeavesUploads, Clean, Live
  <2>1. \A d \in Dirs, v \in Versions : Has1(files, d, v) <=> Has1(before, d, v)
    BY <1>1 DEF FailureOK
  <2>2. ASSUME NEW d \in Dirs, NEW v PROVE Has1(files', d, v) <=> Has1(files, d, v)
    BY <1>2, NamesApart DEF Has1, Beneath
  <2>3. \A d \in Dirs, v \in Versions : Has1(Live(files'), d, v) <=> Has1(before, d, v)
    BY <2>1, <2>2, LiveFiles
  <2>4. Live(files') \in SUBSET Entries /\ before \in SUBSET Entries
        /\ \A f \in Live(files') \cup before : Depth(f.at) = 1 /\ f.at[1] \in Dirs
    <3>1. files' \in SUBSET Entries /\ Deep(files')
      BY <1>2 DEF TreesOK, Deep
    <3> QED BY <3>1, LiveFiles, LiveUploadable, UploadableEntry DEF TypeInv
  <2> QED BY <2>3, <2>4, SameUploads
<1> QED BY <1>1, <1>3, <1>4, <1>5 DEF SuccessIsComplete, Exchanged

(***************************************************************************)
(* The swap                                                                *)
(***************************************************************************)

LEMMA AppendElements ==
    ASSUME NEW q \in Seq(Names), NEW b \in Names
    PROVE  /\ Append(q, b) \in Seq(Names) /\ Len(Append(q, b)) = Len(q) + 1
           /\ \A i \in 1..Len(q) : Append(q, b)[i] = q[i]
           /\ Append(q, b)[Len(q) + 1] = b
OBVIOUS

LEMMA AppendTwo ==
    ASSUME NEW a \in Names, NEW b \in Names
    PROVE  Append(<<a>>, b) = <<a, b>> /\ Append(<<a, b>>, b) = <<a, b, b>>
<1> DEFINE p == <<a>>
           q == <<a, b>>
           r == <<a, b, b>>
<1>1. /\ p \in Seq(Names) /\ q \in Seq(Names) /\ r \in Seq(Names)
      /\ Len(p) = 1 /\ Len(q) = 2 /\ Len(r) = 3
  OBVIOUS
<1>2. /\ p[1] = a /\ q[1] = a /\ q[2] = b /\ r[1] = a /\ r[2] = b /\ r[3] = b
  OBVIOUS
<1> HIDE DEF p, q, r
<1>3. /\ Append(p, b) \in Seq(Names) /\ Len(Append(p, b)) = 2 /\ Append(p, b)[1] = a /\ Append(p, b)[2] = b
  <2>1. /\ Append(p, b) \in Seq(Names) /\ Len(Append(p, b)) = Len(p) + 1
        /\ (\A i \in 1..Len(p) : Append(p, b)[i] = p[i]) /\ Append(p, b)[Len(p) + 1] = b
    BY <1>1, AppendElements
  <2> DEFINE t == Append(p, b)
  <2> HIDE DEF t
  <2>2. t \in Seq(Names) /\ Len(t) = 2 /\ (\A i \in 1..1 : t[i] = p[i]) /\ t[2] = b
    BY <1>1, <2>1 DEF t
  <2>3. t \in Seq(Names) /\ Len(t) = 2 /\ t[1] = p[1] /\ t[2] = b
    BY <2>2
  <2> QED BY <1>2, <2>3 DEF t
<1>4. /\ Append(q, b) \in Seq(Names) /\ Len(Append(q, b)) = 3
      /\ Append(q, b)[1] = a /\ Append(q, b)[2] = b /\ Append(q, b)[3] = b
  <2>1. /\ Append(q, b) \in Seq(Names) /\ Len(Append(q, b)) = Len(q) + 1
        /\ (\A i \in 1..Len(q) : Append(q, b)[i] = q[i]) /\ Append(q, b)[Len(q) + 1] = b
    BY <1>1, AppendElements
  <2> DEFINE t == Append(q, b)
  <2> HIDE DEF t
  <2>2. t \in Seq(Names) /\ Len(t) = 3 /\ (\A i \in 1..2 : t[i] = q[i]) /\ t[3] = b
    BY <1>1, <2>1 DEF t
  <2>3. t \in Seq(Names) /\ Len(t) = 3 /\ t[1] = q[1] /\ t[2] = q[2] /\ t[3] = b
    BY <2>2
  <2> QED BY <1>2, <2>3 DEF t
<1>5. Append(p, b) = q
  <2>1. \A i \in 1..2 : Append(p, b)[i] = q[i]
    BY <1>2, <1>3
  <2> QED BY <1>1, <1>3, <2>1, SeqEqual
<1>6. Append(q, b) = r
  <2>1. \A i \in 1..3 : Append(q, b)[i] = r[i]
    BY <1>2, <1>4
  <2> QED BY <1>1, <1>4, <2>1, SeqEqual
<1> QED BY <1>5, <1>6 DEF p, q, r

\* Where a move goes, and what is there then.
LEMMA TargetOne ==
    ASSUME TypeInv, NEW a \in Names, NEW from \in Paths, Last(from) = a
    PROVE  /\ Destination(from, <<a>>) \in {<<a>>, <<a, a>>}
           /\ a # restore.holder /\ (\A f \in files : ~Beneath(f, a)) => Destination(from, <<a>>) = <<a>>
<1>1. Append(<<a>>, a) = <<a, a>> /\ (a # restore.holder => <<a>> # <<restore.holder>>)
  <2>1. Append(<<a>>, a) = <<a, a>>
    BY AppendTwo
  <2>2. a # restore.holder => <<a>> # <<restore.holder>>
    OBVIOUS
  <2> QED BY <2>1, <2>2
<1>2. a # restore.holder /\ (\A f \in files : ~Beneath(f, a)) => ~Exists(<<a>>)
  <2>1. Under(files, <<a>>) = {f \in files : Beneath(f, a)}
    BY UnderOne DEF TypeInv
  <2> QED BY <1>1, <2>1 DEF Exists
<1> QED BY <1>1, <1>2 DEF Destination

LEMMA TargetTwo ==
    ASSUME TypeInv, NEW h \in Names, NEW a \in Names
    PROVE  /\ Destination(<<a>>, <<h, a>>) \in {<<h, a>>, <<h, a, a>>}
           /\ (\A f \in files : ~Beneath2(f, h, a)) => Destination(<<a>>, <<h, a>>) = <<h, a>>
<1>1. Append(<<h, a>>, a) = <<h, a, a>> /\ Last(<<a>>) = a /\ <<h, a>> # <<restore.holder>>
  <2>1. Append(<<h, a>>, a) = <<h, a, a>>
    BY AppendTwo
  <2>2. Last(<<a>>) = a
    BY DEF Last
  <2>3. <<h, a>> # <<restore.holder>>
    OBVIOUS
  <2> QED BY <2>1, <2>2, <2>3
<1>2. (\A f \in files : ~Beneath2(f, h, a)) => ~Exists(<<h, a>>)
  <2>1. files \in SUBSET Entries
    BY DEF TypeInv
  <2>2. Under(files, <<h, a>>) = {f \in files : Beneath2(f, h, a)}
    BY <2>1, UnderTwo, Zenon
  <2> QED BY <1>1, <2>2 DEF Exists
<1> QED BY <1>1, <1>2 DEF Destination

LEMMA StashInv == ASSUME PipelineInv, NEW name \in Names, Stash(name) PROVE PipelineInv'
<1> USE DEF PipelineInv, RunInv
<1> DEFINE h == restore.holder
           to == Destination(<<name>>, <<h, name>>)
<1>1. /\ At("stash") /\ ~At("idle") /\ Swapping /\ name \in restore.todo /\ files' = Moved(<<name>>, <<h, name>>)
      /\ restore' = [restore EXCEPT !.todo = restore.todo \ {name}, !.stashed = restore.stashed \cup {name}]
      /\ UNCHANGED <<db, backups, before, last, changes, restores, errors, kills, late>>
  BY DEF Stash, counters, At, Swapping
<1>2. /\ name \in Dirs /\ h \in HolderNames /\ h \in Names /\ name # h /\ restore.placed = {}
      /\ restore \in Restores /\ files \in SUBSET Entries /\ restore.left = {}
  BY <1>1, Basics, NamesApart DEF StashOK, QuietOK, At, TypeInv
<1>3. /\ restore'.step = "stash" /\ restore'.selected = restore.selected /\ restore'.holder = h
      /\ restore'.staging = restore.staging /\ restore'.stashed = restore.stashed \cup {name} /\ restore'.placed = {}
      /\ restore'.todo = restore.todo \ {name} /\ restore'.left = {}
  BY <1>1, <1>2 DEF Restores, At
<1>4. restore' \in Restores
  BY <1>1, <1>2 DEF Restores, At
<1>5. /\ to \in {<<h, name>>, <<h, name, name>>}
      /\ (\A f \in files : ~Beneath2(f, h, name)) => to = <<h, name>>
  BY <1>2, TargetTwo
<1>6. /\ to \in Paths /\ Depth(to) > 1 /\ to[1] = h /\ to[2] = name
      /\ (\A f \in files : ~Beneath2(f, h, name)) => Depth(to) = 2
      /\ <<name>> \in Paths /\ Depth(<<name>>) = 1 /\ <<name>>[1] = name
  <2>1. /\ <<h, name>> \in Paths /\ <<h, name, name>> \in Paths /\ Depth(<<h, name>>) = 2
        /\ Depth(<<h, name, name>>) = 3 /\ <<name>> \in Paths /\ Depth(<<name>>) = 1
    BY <1>2, PathsOfNames
  <2> QED BY <1>5, <2>1
<1>7. files' = TreeMove(files, <<name>>, to)
  BY <1>1 DEF Moved, TreeMove
<1> HIDE DEF h, to
<1>8. /\ files' \subseteq Entries
      /\ \A f \in files : ~Beneath(f, name) => f \in files'
      /\ \A f \in files : Beneath(f, name) => \E g \in files' : g.version = f.version /\ Beneath2(g, h, name)
      /\ \A g \in files' : (g \in files /\ ~Beneath(g, name)) \/ Beneath2(g, h, name)
      /\ Depth(to) = 2 => \A v \in Versions : Has2(files', h, name, v) <=> Has1(files, name, v) \/ Has2(files, h, name, v)
  <2> DEFINE from == <<name>>
  <2>1. from \in Paths /\ Depth(from) = 1 /\ from[1] = name /\ files' = TreeMove(files, from, to)
    BY <1>6, <1>7
  <2> HIDE DEF from
  <2>2. to \in Paths /\ Depth(to) > 1 /\ to[1] = h /\ to[2] = name
    BY <1>6
  <2> QED BY <1>2, <2>1, <2>2, MoveDown
<1>9. Deep(files') /\ Fresh(files')
  BY <1>1, <1>2, <1>8, NamesApart DEF TreesOK, Deep, Fresh, Beneath2, StagingNames
<1>10. /\ TypeInv' /\ TreesOK' /\ SuccessIsComplete' /\ FailureLeavesUploads' /\ OldRemain'
       /\ ~At("idle")' /\ Selected' = Selected /\ \A b : Staged(b)' = Staged(b)
       /\ Clean(restore.selected)' <=> Clean(restore.selected)
  <2>1. db' \in 0..NoDatabase /\ errors' \in 0..MaxErrors
    BY <1>1 DEF TypeInv
  <2> QED BY <1>1, <1>3, <1>4, <1>8, <1>9, <2>1, GoesOn
<1>11. h # restore.staging /\ restore.staging \in StagingNames /\ name # restore.staging
       /\ Selected.files \in SUBSET Entries /\ restore.staging \in Names
  BY <1>1, <1>2, Basics, NamesApart DEF h
<1>12. StagingOK'
  <2>1. \A f \in files' : Beneath(f, restore.staging) => f \in files
    BY <1>8, <1>11 DEF Beneath, Beneath2
  <2>2. \A b \in Selected.files : Staged(b) \in files'
    <3>1. \A b \in Selected.files : Staged(b).at[1] = restore.staging
      BY <1>11, StagedEntry DEF Staged
    <3> QED BY <1>1, <1>8, <1>11, <3>1 DEF StagingOK, At, Beneath
  <2> QED BY <1>1, <1>3, <1>10, <2>1, <2>2 DEF StagingOK, At
<1>13. QuietOK' /\ StashOK'
  BY <1>1, <1>3, <1>10 DEF QuietOK, StashOK, At
<1>14. SuccessOK'
  <2>1. \A f \in files' : f.at[1] \in Dirs => f \in files /\ f.at[1] # name
    BY <1>2, <1>8, NamesApart DEF Beneath, Beneath2
  <2> QED BY <1>1, <1>3, <1>10, <2>1 DEF SuccessOK, At
<1>15. FailureOK'
  <2> SUFFICES ASSUME late = 0, Clean(restore.selected)
               PROVE /\ \A f \in files' : Beneath(f, h) => f.at[2] \in restore'.stashed
                     /\ \A d \in Dirs, v \in Versions :
                         /\ d \notin restore'.stashed => (Has1(files', d, v) <=> Has1(before, d, v))
                         /\ d \in restore'.stashed => (Has2(files', h, d, v) <=> Has1(before, d, v))
                     /\ \A d \in restore'.stashed, f \in files' : ~Beneath(f, d)
    BY <1>1, <1>3, <1>10 DEF FailureOK, h
  <2>1. /\ \A f \in files : Beneath(f, h) => f.at[2] \in restore.stashed
        /\ \A d \in Dirs, v \in Versions :
            /\ d \notin restore.stashed => (Has1(files, d, v) <=> Has1(before, d, v))
            /\ d \in restore.stashed => (Has2(files, h, d, v) <=> Has1(before, d, v))
        /\ \A d \in restore.stashed, f \in files : ~Beneath(f, d)
    BY <1>1, <1>2 DEF FailureOK, h
  <2>2. \A f \in files' : Beneath(f, h) => f.at[2] \in restore'.stashed
    BY <1>3, <1>8, <2>1 DEF Beneath2
  <2>3. \A d \in restore'.stashed, f \in files' : ~Beneath(f, d)
    <3>1. restore.stashed \subseteq Dirs
      BY <1>2 DEF Restores
    <3> QED BY <1>2, <1>3, <1>8, <2>1, <3>1, NamesApart DEF Beneath, Beneath2
  <2>4. ASSUME NEW d \in Dirs, NEW v \in Versions, d # name
        PROVE  /\ Has1(files', d, v) <=> Has1(files, d, v)
               /\ Has2(files', h, d, v) <=> Has2(files, h, d, v)
    <3>1. d # h
      BY <1>2, NamesApart
    <3> QED BY <1>2, <1>8, <2>4, <3>1 DEF Has1, Has2, Beneath, Beneath2
  <2>5. ASSUME NEW v \in Versions
        PROVE  Has2(files', h, name, v) <=> Has1(before, name, v)
    <3>1. CASE name \in restore.stashed
      <4>1. \A f \in files : ~Beneath(f, name)
        BY <2>1, <3>1
      <4>2. \A f \in files : Beneath2(f, h, name) => f \in files'
        BY <1>2, <1>8 DEF Beneath, Beneath2
      <4>3. files' = files
        <5>1. TreeMove(files, <<name>>, to) = files
          <6>1. Under(files, <<name>>) = {}
            BY <1>2, <4>1, UnderOne
          <6> QED BY <6>1 DEF TreeMove, Rebased, Under
        <5> QED BY <1>7, <5>1
      <4> QED BY <1>2, <2>1, <3>1, <4>3
    <3>2. CASE name \notin restore.stashed
      <4>1. \A f \in files : ~Beneath2(f, h, name)
        BY <2>1, <3>2 DEF Beneath, Beneath2
      <4>2. ~Has2(files, h, name, v)
        BY <4>1 DEF Has2, Beneath2
      <4> QED BY <1>2, <1>6, <1>8, <2>1, <3>2, <4>1, <4>2
    <3> QED BY <3>1, <3>2
  <2> QED BY <1>3, <2>1, <2>2, <2>3, <2>4, <2>5
<1>16. OldOK'
  <2> SUFFICES ASSUME Clean(restore.selected), NEW e \in before
               PROVE  /\ \E f \in files' : /\ f.version = e.version
                                           /\ IF e.at[1] \in restore'.stashed THEN Beneath2(f, h, e.at[1]) ELSE Beneath(f, e.at[1])
                      /\ e.at[1] \in restore'.todo \cup restore'.stashed
    BY <1>1, <1>3, <1>10 DEF OldOK, At, Swapping, h
  <2>1. /\ e.at[1] \in restore.todo \cup restore.stashed
        /\ \E f \in files : /\ f.version = e.version
                            /\ IF e.at[1] \in restore.stashed THEN Beneath2(f, h, e.at[1]) ELSE Beneath(f, e.at[1])
    BY <1>1 DEF OldOK, h
  <2>2. e.at[1] \in Dirs
    BY UploadableEntry DEF TypeInv
  <2>3. \A f \in files : Beneath2(f, h, e.at[1]) => f \in files'
    BY <1>2, <1>8 DEF Beneath, Beneath2
  <2>4. e.at[1] # name => \A f \in files : Beneath(f, e.at[1]) => f \in files'
    BY <1>8 DEF Beneath
  <2>5. e.at[1] = name => \A f \in files : Beneath(f, name) => \E g \in files' : g.version = f.version /\ Beneath2(g, h, name)
    BY <1>8
  <2> QED BY <1>3, <2>1, <2>3, <2>4, <2>5
<1> QED BY <1>10, <1>12, <1>13, <1>14, <1>15, <1>16

\* The move out of a directory of MEDIA_ROOT, back to the top.
LEMMA MovedUp ==
    ASSUME TypeInv, NEW s \in Names, NEW name \in Names, name # s, files' = Moved(<<s, name>>, <<name>>)
    PROVE  /\ files' \subseteq Entries
           /\ \A f \in files : ~Beneath2(f, s, name) => f \in files'
           /\ \A f \in files : Beneath2(f, s, name) => Among(files', f, name)
           /\ \A g \in files' :
                \/ g \in files /\ ~Beneath2(g, s, name)
                \/ Beneath(g, name) /\ \E f \in files : Beneath2(f, s, name) /\ NoHigher(g, f)
           /\ name # restore.holder /\ (\A f \in files : ~Beneath(f, name))
                => \A v \in Versions : Has1(files', name, v) <=> Has2(files, s, name, v)
<1> DEFINE from == <<s, name>>
           to == Destination(from, <<name>>)
<1>1. from \in Paths /\ Depth(from) = 2 /\ from[1] = s /\ from[2] = name /\ Last(from) = name
  BY PathsOfNames DEF Last
<1>2. /\ to \in {<<name>>, <<name, name>>}
      /\ name # restore.holder /\ (\A f \in files : ~Beneath(f, name)) => to = <<name>>
  BY <1>1, TargetOne
<1>3. /\ to \in Paths /\ to[1] = name
      /\ name # restore.holder /\ (\A f \in files : ~Beneath(f, name)) => Depth(to) = 1
  <2>1. <<name>> \in Paths /\ <<name, name>> \in Paths /\ Depth(<<name>>) = 1
    BY PathsOfNames
  <2> QED BY <1>2, <2>1
<1>4. files' = TreeMove(files, from, to)
  BY DEF Moved, TreeMove
<1> HIDE DEF from, to
<1>5. /\ files' \subseteq Entries
      /\ \A f \in files : ~Beneath2(f, s, name) => f \in files'
      /\ \A f \in files : Beneath2(f, s, name) => Among(files', f, name)
      /\ \A g \in files' :
           \/ g \in files /\ ~Beneath2(g, s, name)
           \/ Beneath(g, name) /\ \E f \in files : Beneath2(f, s, name) /\ NoHigher(g, f)
      /\ Depth(to) = 1 => \A v \in Versions : Has1(files', name, v) <=> Has2(files, s, name, v) \/ Has1(files, name, v)
  <2>1. files \in SUBSET Entries /\ to \in Paths /\ to[1] = name
    BY <1>3 DEF TypeInv
  <2>2. MovesUp(files, files', s, name, to)
    BY <1>1, <1>4, <2>1, MoveUp
  <2> QED BY <2>2 DEF MovesUp
<1>6. (\A f \in files : ~Beneath(f, name)) => \A v \in Versions : ~Has1(files, name, v)
  BY DEF Has1, Beneath
<1> QED BY <1>3, <1>5, <1>6

LEMMA PlaceInv == ASSUME PipelineInv, NEW name \in Names, Place(name) PROVE PipelineInv'
<1> USE DEF PipelineInv, RunInv
<1> DEFINE h == restore.holder
           s == restore.staging
<1>1. /\ At("place") /\ ~At("idle") /\ Swapping /\ name \in restore.todo /\ files' = Moved(<<s, name>>, <<name>>)
      /\ restore' = [restore EXCEPT !.todo = restore.todo \ {name}, !.placed = restore.placed \cup {name}]
      /\ UNCHANGED <<db, backups, before, last, changes, restores, errors, kills, late>>
  BY DEF Place, counters, At, Swapping
<1>2. /\ h \in HolderNames /\ h \in Names /\ s \in StagingNames /\ s \in Names /\ h # s /\ h \notin Dirs /\ s \notin Dirs
      /\ restore \in Restores /\ files \in SUBSET Entries /\ Selected.files \in SUBSET Entries
      /\ Selected = backups[restore.selected] /\ restore.selected \in DOMAIN backups /\ restore.left = {}
  BY <1>1, Basics, NamesApart DEF TypeInv, Selected, QuietOK, At
<1>3. /\ restore'.step = "place" /\ restore'.selected = restore.selected /\ restore'.holder = h
      /\ restore'.staging = s /\ restore'.stashed = restore.stashed
      /\ restore'.placed = restore.placed \cup {name} /\ restore'.todo = restore.todo \ {name}
      /\ restore'.left = {}
  BY <1>1, <1>2 DEF Restores, At
<1>4. restore' \in Restores
  BY <1>1, <1>2 DEF Restores, At
<1> HIDE DEF h, s
<1>5. /\ \A b \in Selected.files : ~Beneath(b, s)
      /\ \A f \in files : Beneath(f, s) =>
            /\ \E b \in Selected.files : f = Staged(b)
            /\ Beneath2(f, s, f.at[2]) /\ f.at[2] \in restore.todo
      /\ \A b \in Selected.files : b.at[1] \in restore.todo => Staged(b) \in files
      /\ \A n \in restore.todo : \E f \in files : Beneath2(f, s, n)
      /\ s = Staging(restores)
  BY <1>1 DEF StagingOK, s
<1>6. ASSUME NEW b \in Selected.files
      PROVE  /\ Staged(b).version = b.version /\ Depth(Staged(b).at) = Depth(b.at) + 1
             /\ Staged(b).at[1] = s /\ Staged(b).at[2] = b.at[1]
             /\ Depth(b.at) \in Nat /\ Depth(b.at) >= 1
  BY <1>2, StagedEntry, ShortEntries DEF Staged, s
<1>7. \A f \in files : Beneath2(f, s, name) =>
            \E b \in Selected.files : f = Staged(b) /\ b.at[1] = name /\ Depth(f.at) - 1 = Depth(b.at)
  BY <1>5, <1>6 DEF Beneath, Beneath2
<1>8. name # s
  BY <1>1, <1>5, <1>7 DEF Beneath
<1>9. /\ files' \subseteq Entries
      /\ \A f \in files : ~Beneath2(f, s, name) => f \in files'
      /\ \A g \in files' :
           \/ g \in files /\ ~Beneath2(g, s, name)
           \/ Beneath(g, name) /\ \E f \in files : Beneath2(f, s, name) /\ NoHigher(g, f)
      /\ name # h /\ (\A f \in files : ~Beneath(f, name))
           => \A v \in Versions : Has1(files', name, v) <=> Has2(files, s, name, v)
  BY <1>1, <1>2, <1>8, MovedUp DEF h
<1>10. ASSUME NEW g \in files', g \notin files
       PROVE  g.at[1] = name /\ \E b \in Selected.files : b.at[1] = name /\ Depth(g.at) >= Depth(b.at)
  BY <1>7, <1>9, <1>10 DEF Beneath, NoHigher
<1>11. Deep(files') /\ Fresh(files')
  <2>1. Deep(Selected.files) /\ Fresh(Selected.files) /\ Deep(files) /\ Fresh(files)
    BY <1>2 DEF TreesOK
  <2>2. Deep(files')
    <3>1. ASSUME NEW g \in files', g \notin files, g.at[1] \in Internal PROVE Depth(g.at) > 1
      <4>1. PICK b \in Selected.files : b.at[1] = name /\ Depth(g.at) >= Depth(b.at) /\ g.at[1] = name
        BY <1>10, <3>1
      <4>2. Depth(b.at) > 1 /\ Depth(b.at) \in Nat
        BY <1>6, <2>1, <3>1, <4>1 DEF Deep
      <4>3. Depth(g.at) \in Nat
        BY <1>9, ShortEntries
      <4> QED BY <4>1, <4>2, <4>3
    <3> QED BY <2>1, <3>1 DEF Deep
  <2>3. Fresh(files')
    BY <1>1, <1>10, <2>1 DEF Fresh
  <2> QED BY <2>2, <2>3
<1>12. /\ TypeInv' /\ TreesOK' /\ SuccessIsComplete' /\ FailureLeavesUploads' /\ OldRemain'
       /\ ~At("idle")' /\ Selected' = Selected /\ \A b : Staged(b)' = Staged(b)
       /\ Clean(restore.selected)' <=> Clean(restore.selected)
  <2>1. db' \in 0..NoDatabase /\ errors' \in 0..MaxErrors
    BY <1>1 DEF TypeInv
  <2> QED BY <1>1, <1>3, <1>4, <1>9, <1>11, <2>1, GoesOn DEF s
<1>13. StagingOK'
  <2>1. ASSUME NEW f \in files', Beneath(f, s)
        PROVE  (\E b \in Selected.files : f = Staged(b)) /\ Beneath2(f, s, f.at[2]) /\ f.at[2] \in restore.todo \ {name}
    <3>1. f \in files /\ ~Beneath2(f, s, name)
      BY <1>8, <1>9, <2>1 DEF Beneath
    <3> QED BY <1>5, <2>1, <3>1 DEF Beneath2
  <2>2. ASSUME NEW b \in Selected.files, b.at[1] \in restore.todo \ {name} PROVE Staged(b) \in files'
    BY <1>5, <1>6, <1>9, <2>2 DEF Beneath2
  <2>3. ASSUME NEW n \in restore.todo \ {name} PROVE \E f \in files' : Beneath2(f, s, n)
    BY <1>5, <1>9, <2>3 DEF Beneath2
  <2> QED BY <1>1, <1>3, <1>5, <1>12, <2>1, <2>2, <2>3 DEF StagingOK, At
<1>14. QuietOK' /\ StashOK'
  BY <1>3 DEF QuietOK, StashOK, At
<1>15. \A d \in Dirs, v \in Versions : d # name =>
          /\ Has1(files', d, v) <=> Has1(files, d, v)
          /\ name \in Dirs => (Has2(files', h, d, v) <=> Has2(files, h, d, v))
  BY <1>2, <1>9 DEF Has1, Has2, Beneath, Beneath2
<1>16. SuccessOK'
  <2> SUFFICES ASSUME late = 0
               PROVE  /\ restore'.todo \cap restore'.placed = {}
                      /\ \A f \in files' : f.at[1] \in Dirs => f.at[1] \in restore'.placed
                      /\ \A b \in Selected.files : b.at[1] \in restore'.todo \cup restore'.placed
                      /\ \A d \in restore'.placed \cap Dirs, v \in Versions :
                            Has1(files', d, v) <=> Has1(Selected.files, d, v)
    BY <1>1, <1>3, <1>12 DEF SuccessOK, At
  <2>1. /\ restore.todo \cap restore.placed = {}
        /\ \A f \in files : f.at[1] \in Dirs => f.at[1] \in restore.placed
        /\ \A b \in Selected.files : b.at[1] \in restore.todo \cup restore.placed
        /\ \A d \in restore.placed \cap Dirs, v \in Versions :
              Has1(files, d, v) <=> Has1(Selected.files, d, v)
    BY <1>1 DEF SuccessOK
  <2>2. \A f \in files' : f.at[1] \in Dirs => f.at[1] \in restore'.placed
    BY <1>3, <1>10, <2>1
  <2>3. ASSUME NEW v \in Versions, name \in Dirs PROVE Has1(files', name, v) <=> Has1(Selected.files, name, v)
    <3>1. \A f \in files : ~Beneath(f, name)
      BY <1>1, <2>1, <2>3 DEF Beneath
    <3>2. Has1(files', name, v) <=> Has2(files, s, name, v)
      BY <1>2, <1>9, <2>3, <3>1
    <3>3. ASSUME Has2(files, s, name, v) PROVE Has1(Selected.files, name, v)
      <4>1. PICK f \in files : Depth(f.at) = 2 /\ f.at[1] = s /\ f.at[2] = name /\ f.version = v
        BY <3>3 DEF Has2
      <4>2. PICK b \in Selected.files : f = Staged(b) /\ b.at[1] = name /\ Depth(f.at) - 1 = Depth(b.at)
        BY <1>7, <4>1 DEF Beneath2
      <4> QED BY <1>6, <4>1, <4>2 DEF Has1
    <3>4. ASSUME Has1(Selected.files, name, v) PROVE Has2(files, s, name, v)
      <4>1. PICK b \in Selected.files : Depth(b.at) = 1 /\ b.at[1] = name /\ b.version = v
        BY <3>4 DEF Has1
      <4> QED BY <1>1, <1>5, <1>6, <4>1 DEF Has2
    <3> QED BY <3>2, <3>3, <3>4
  <2> QED BY <1>3, <1>15, <2>1, <2>2, <2>3
<1>17. FailureOK'
  <2> SUFFICES ASSUME late = 0, Clean(restore.selected)
               PROVE /\ \A f \in files' : Beneath(f, h) => f.at[2] \in restore.stashed
                     /\ \A d \in Dirs, v \in Versions :
                         /\ d \notin restore.stashed /\ d \notin restore'.placed => (Has1(files', d, v) <=> Has1(before, d, v))
                         /\ d \in restore.stashed => (Has2(files', h, d, v) <=> Has1(before, d, v))
                         /\ d \in restore'.placed \ restore.stashed => ~Has1(before, d, v)
                     /\ \A d \in restore.stashed \ restore'.placed, f \in files' : ~Beneath(f, d)
    BY <1>1, <1>3, <1>12 DEF FailureOK, At, h
  <2>1. /\ \A f \in files : Beneath(f, h) => f.at[2] \in restore.stashed
        /\ \A d \in Dirs, v \in Versions :
            /\ d \notin restore.stashed /\ d \notin restore.placed => (Has1(files, d, v) <=> Has1(before, d, v))
            /\ d \in restore.stashed => (Has2(files, h, d, v) <=> Has1(before, d, v))
            /\ d \in restore.placed \ restore.stashed => ~Has1(before, d, v)
        /\ \A d \in restore.stashed \ restore.placed, f \in files : ~Beneath(f, d)
    BY <1>1, <1>2 DEF FailureOK, h
  <2>2. name \in Dirs /\ name \notin restore.placed /\ \A f \in files : ~Beneath(f, name)
    BY <1>1 DEF OldOK, SuccessOK, Beneath
  <2>3. \A v : ~Has1(files, name, v)
    BY <2>2 DEF Has1, Beneath
  <2>4. \A f \in files' : Beneath(f, h) => f.at[2] \in restore.stashed
    BY <1>2, <1>10, <2>1, <2>2 DEF Beneath
  <2>5. \A d \in restore.stashed \ restore'.placed, f \in files' : ~Beneath(f, d)
    BY <1>3, <1>10, <2>1 DEF Beneath
  <2>6. \A v \in Versions : Has2(files', h, name, v) <=> Has2(files, h, name, v)
    BY <1>2, <1>9, <2>2 DEF Has2, Beneath, Beneath2
  <2> QED BY <1>3, <1>15, <2>1, <2>2, <2>3, <2>4, <2>5, <2>6
<1>18. OldOK'
  <2> SUFFICES ASSUME Clean(restore.selected)
               PROVE  /\ restore'.placed \subseteq Dirs /\ restore'.todo \subseteq Dirs
                      /\ \A e \in before : /\ e.at[1] \in restore.stashed
                                           /\ \E f \in files' : f.version = e.version /\ Beneath2(f, h, e.at[1])
    BY <1>1, <1>3, <1>12 DEF OldOK, At, Swapping, h
  <2>1. /\ restore.placed \subseteq Dirs /\ restore.todo \subseteq Dirs
        /\ \A e \in before : /\ e.at[1] \in restore.stashed
                             /\ \E f \in files : f.version = e.version /\ Beneath2(f, h, e.at[1])
    BY <1>1 DEF OldOK, At, h
  <2> QED BY <1>1, <1>2, <1>3, <1>9, <2>1 DEF Beneath2
<1> QED BY <1>12, <1>13, <1>14, <1>16, <1>17, <1>18

LEMMA RollbackRemoveInv == ASSUME PipelineInv, NEW name \in Names, RollbackRemove(name) PROVE PipelineInv'
<1> USE DEF PipelineInv, RunInv
<1> DEFINE h == restore.holder
           s == restore.staging
<1>1. /\ At("remove") /\ ~At("idle") /\ Swapping /\ name \in restore.placed
      /\ Discarded({name})
      /\ restore' = [restore EXCEPT !.placed = restore.placed \ {name},
                                    !.left = restore.left \cup {n \in {name} : Under(files', <<n>>) # {}}]
      /\ UNCHANGED <<db, backups, before, last, changes, restores, kills, late>>
  BY DEF RollbackRemove, At, Swapping
<1>2. /\ h \in HolderNames /\ restore \in Restores /\ files \in SUBSET Entries
  BY Basics DEF TypeInv
<1>3. /\ restore'.step = "remove" /\ restore'.selected = restore.selected /\ restore'.holder = h
      /\ restore'.staging = s /\ restore'.stashed = restore.stashed
      /\ restore'.placed = restore.placed \ {name}
      /\ restore'.left = restore.left \cup {n \in {name} : Under(files', <<n>>) # {}}
      /\ restore' \in Restores
  BY <1>1, <1>2 DEF Restores, At
<1> HIDE DEF h, s
<1>4. /\ files' \subseteq files /\ errors' \in 0..MaxErrors
      /\ \A f \in files : ~Beneath(f, name) => f \in files'
  BY <1>1, DiscardedTree DEF Beneath
<1>14. restore'.left = {} => restore.left = {} /\ \A f \in files' : ~Beneath(f, name)
  <2>1. Under(files', <<name>>) = {f \in files' : Beneath(f, name)}
    BY <1>2, <1>4, UnderOne
  <2> QED BY <1>3, <2>1
<1>5. /\ TypeInv' /\ TreesOK' /\ SuccessIsComplete' /\ FailureLeavesUploads' /\ OldRemain'
      /\ ~At("idle")' /\ Selected' = Selected /\ \A b : Staged(b)' = Staged(b)
      /\ Clean(restore.selected)' <=> Clean(restore.selected)
  <2>1. files' \subseteq Entries /\ Deep(files') /\ Fresh(files') /\ db' \in 0..NoDatabase
    BY <1>1, <1>4 DEF TypeInv, TreesOK, Deep, Fresh
  <2> QED BY <1>1, <1>3, <1>4, <2>1, GoesOn DEF s
<1>6. StagingOK'
  BY <1>1, <1>3, <1>4, <1>5 DEF StagingOK, At, s
<1>7. QuietOK' /\ StashOK' /\ SuccessOK'
  BY <1>3 DEF QuietOK, StashOK, SuccessOK, At
<1>8. Clean(restore.selected) => name \in Dirs /\ name # h /\ restore.placed \subseteq Dirs
  BY <1>1, <1>2, NamesApart DEF OldOK
<1>9. ASSUME name # h, \A f \in files' : ~Beneath(f, name), NEW d, NEW v
      PROVE  /\ d # name => (Has1(files', d, v) <=> Has1(files, d, v))
             /\ ~Has1(files', name, v)
             /\ Has2(files', h, d, v) <=> Has2(files, h, d, v)
  BY <1>4, <1>9 DEF Has1, Has2, Beneath
<1>10. FailureOK'
  <2> SUFFICES ASSUME late = 0, restore'.left = {}, Clean(restore.selected)
               PROVE /\ \A f \in files' : Beneath(f, h) => f.at[2] \in restore.stashed
                     /\ \A d \in Dirs, v \in Versions :
                         /\ d \notin restore.stashed /\ d \notin restore'.placed => (Has1(files', d, v) <=> Has1(before, d, v))
                         /\ d \in restore.stashed => (Has2(files', h, d, v) <=> Has1(before, d, v))
                         /\ d \in restore'.placed \ restore.stashed => ~Has1(before, d, v)
                     /\ \A d \in restore.stashed \ restore'.placed, f \in files' : ~Beneath(f, d)
    BY <1>1, <1>3, <1>5 DEF FailureOK, At, h
  <2>1. /\ \A f \in files : Beneath(f, h) => f.at[2] \in restore.stashed
        /\ \A d \in Dirs, v \in Versions :
            /\ d \notin restore.stashed /\ d \notin restore.placed => (Has1(files, d, v) <=> Has1(before, d, v))
            /\ d \in restore.stashed => (Has2(files, h, d, v) <=> Has1(before, d, v))
            /\ d \in restore.placed \ restore.stashed => ~Has1(before, d, v)
        /\ \A d \in restore.stashed \ restore.placed, f \in files : ~Beneath(f, d)
    BY <1>1, <1>14 DEF FailureOK, h
  <2> QED BY <1>1, <1>3, <1>4, <1>8, <1>9, <1>14, <2>1
<1>11. OldOK'
  <2> SUFFICES ASSUME Clean(restore.selected)
               PROVE  /\ restore'.placed \subseteq Dirs
                      /\ \A e \in before : /\ e.at[1] \in restore.stashed
                                           /\ \E f \in files' : f.version = e.version /\ Beneath2(f, h, e.at[1])
    BY <1>1, <1>3, <1>5 DEF OldOK, At, Swapping, h
  <2>1. \A e \in before : /\ e.at[1] \in restore.stashed
                          /\ \E f \in files : f.version = e.version /\ Beneath2(f, h, e.at[1])
    BY <1>1 DEF OldOK, At, h
  <2> QED BY <1>3, <1>4, <1>8, <2>1 DEF Beneath, Beneath2
<1> QED BY <1>5, <1>6, <1>7, <1>10, <1>11

LEMMA RollbackReturnInv == ASSUME PipelineInv, NEW name \in Names, RollbackReturn(name) PROVE PipelineInv'
<1> USE DEF PipelineInv, RunInv
<1> DEFINE h == restore.holder
           s == restore.staging
<1>1. /\ restore.step \in {"remove", "return"} /\ ~At("idle") /\ Swapping /\ name \in restore.stashed
      /\ restore.placed = {} /\ files' = Moved(<<h, name>>, <<name>>)
      /\ restore' = [restore EXCEPT !.step = "return", !.stashed = restore.stashed \ {name}]
      /\ UNCHANGED <<db, backups, before, last, changes, restores, errors, kills, late>>
  BY DEF RollbackReturn, counters, At, Swapping
<1>2. /\ h \in HolderNames /\ h \in Names /\ h \in Internal /\ s \in StagingNames /\ h # s /\ h \notin Dirs /\ s \notin Dirs
      /\ restore \in Restores /\ files \in SUBSET Entries
      /\ name \in Dirs /\ name # h /\ name # s /\ name \notin Internal
  <2>1. restore \in Restores /\ name \in Dirs
    BY <1>1 DEF TypeInv, Restores
  <2> QED BY <2>1, Basics, NamesApart DEF TypeInv
<1>3. /\ restore'.step = "return" /\ restore'.selected = restore.selected /\ restore'.holder = h
      /\ restore'.staging = s /\ restore'.stashed = restore.stashed \ {name} /\ restore'.placed = {}
      /\ restore'.left = restore.left /\ restore' \in Restores
  BY <1>1, <1>2 DEF Restores, Steps
<1> HIDE DEF h, s
<1>4. /\ files' \subseteq Entries
      /\ \A f \in files : ~Beneath2(f, h, name) => f \in files'
      /\ \A f \in files : Beneath2(f, h, name) => Among(files', f, name)
      /\ \A g \in files' : (g \in files /\ ~Beneath2(g, h, name)) \/ Beneath(g, name)
      /\ (\A f \in files : ~Beneath(f, name)) => \A v \in Versions : Has1(files', name, v) <=> Has2(files, h, name, v)
  BY <1>1, <1>2, MovedUp DEF h
<1>5. /\ TypeInv' /\ TreesOK' /\ SuccessIsComplete' /\ FailureLeavesUploads' /\ OldRemain'
      /\ ~At("idle")' /\ Selected' = Selected /\ \A b : Staged(b)' = Staged(b)
      /\ Clean(restore.selected)' <=> Clean(restore.selected)
  <2>1. Deep(files') /\ Fresh(files')
    BY <1>1, <1>2, <1>4, NamesApart DEF TreesOK, Deep, Fresh, Beneath, StagingNames
  <2>2. errors' \in 0..MaxErrors /\ db' \in 0..NoDatabase
    BY <1>1 DEF TypeInv
  <2> QED BY <1>1, <1>3, <1>4, <2>1, <2>2, GoesOn DEF s
<1>6. StagingOK'
  <2>1. \A f \in files' : Beneath(f, s) => f \in files
    BY <1>2, <1>4 DEF Beneath
  <2> QED BY <1>1, <1>3, <1>5, <2>1 DEF StagingOK, At, s
<1>7. QuietOK' /\ StashOK' /\ SuccessOK'
  BY <1>3 DEF QuietOK, StashOK, SuccessOK, At
<1>8. \A d, v : d # name => /\ d # h => (Has1(files', d, v) <=> Has1(files, d, v))
                            /\ Has2(files', h, d, v) <=> Has2(files, h, d, v)
  BY <1>2, <1>4 DEF Has1, Has2, Beneath, Beneath2
<1>9. FailureOK'
  <2> SUFFICES ASSUME late = 0, restore.left = {}, Clean(restore.selected)
               PROVE /\ \A f \in files' : Beneath(f, h) => f.at[2] \in restore'.stashed
                     /\ \A d \in Dirs, v \in Versions :
                         /\ d \notin restore'.stashed => (Has1(files', d, v) <=> Has1(before, d, v))
                         /\ d \in restore'.stashed => (Has2(files', h, d, v) <=> Has1(before, d, v))
                     /\ \A d \in restore'.stashed, f \in files' : ~Beneath(f, d)
    BY <1>1, <1>3, <1>5 DEF FailureOK, At, h
  <2>1. /\ \A f \in files : Beneath(f, h) => f.at[2] \in restore.stashed
        /\ \A d \in Dirs, v \in Versions :
            /\ d \notin restore.stashed => (Has1(files, d, v) <=> Has1(before, d, v))
            /\ d \in restore.stashed => (Has2(files, h, d, v) <=> Has1(before, d, v))
        /\ \A d \in restore.stashed, f \in files : ~Beneath(f, d)
    BY <1>1 DEF FailureOK, h
  <2>2. ASSUME NEW f \in files', Beneath(f, h) PROVE f.at[2] \in restore'.stashed
    <3>1. f \in files /\ ~Beneath2(f, h, name)
      BY <1>2, <1>4, <2>2 DEF Beneath
    <3>2. Depth(f.at) > 1
      BY <1>2, <2>2, <3>1 DEF TreesOK, Deep, Beneath
    <3> QED BY <1>3, <2>1, <2>2, <3>1, <3>2 DEF Beneath, Beneath2
  <2>3. \A d \in restore'.stashed, f \in files' : ~Beneath(f, d)
    BY <1>3, <1>4, <2>1 DEF Beneath
  <2>4. \A v \in Versions : Has1(files', name, v) <=> Has1(before, name, v)
    BY <1>1, <1>2, <1>4, <2>1
  <2> QED BY <1>2, <1>3, <1>8, <2>1, <2>2, <2>3, <2>4
<1>10. OldOK'
  <2> SUFFICES ASSUME Clean(restore.selected), NEW e \in before
               PROVE  \E f \in files' : /\ f.version = e.version
                                        /\ IF e.at[1] \in restore'.stashed THEN Beneath2(f, h, e.at[1]) ELSE Beneath(f, e.at[1])
    BY <1>1, <1>3, <1>5 DEF OldOK, At, Swapping, h
  <2>1. PICK f \in files : /\ f.version = e.version
                           /\ IF e.at[1] \in restore.stashed THEN Beneath2(f, h, e.at[1]) ELSE Beneath(f, e.at[1])
    BY <1>1 DEF OldOK, h
  <2>2. e.at[1] \in Dirs /\ e.at[1] # h
    BY <1>2, UploadableEntry DEF TypeInv
  <2>3. CASE e.at[1] = name
    BY <1>1, <1>3, <1>4, <2>1, <2>3 DEF Among
  <2>4. CASE e.at[1] # name
    BY <1>1, <1>3, <1>4, <2>1, <2>2, <2>4 DEF Beneath, Beneath2
  <2> QED BY <2>3, <2>4
<1> QED BY <1>5, <1>6, <1>7, <1>9, <1>10

(***************************************************************************)
(* The theorems                                                            *)
(***************************************************************************)

LEMMA NextInv == PipelineInv /\ [Next]_vars => PipelineInv'
<1> SUFFICES ASSUME PipelineInv, [Next]_vars PROVE PipelineInv'
  OBVIOUS
<1>1. CASE Change BY <1>1, ChangeInv
<1>2. CASE Backup BY <1>2, BackupInv
<1>3. ASSUME NEW d \in Dirs, LateUpload(d) PROVE PipelineInv'
  BY <1>3, LateUploadInv
<1>4. ASSUME NEW b \in DOMAIN backups, RestoreBegin(b) PROVE PipelineInv'
  BY <1>4, RestoreBeginInv
<1>5. CASE DropTables \/ LoadDump BY <1>5, LoadInv
<1>6. CASE RestoreFails BY <1>6, RestoreFailsInv
<1>7. CASE Killed BY <1>7, KilledInv, FinishInv
<1>8. CASE SwapBegin BY <1>8, SwapBeginInv
<1>9. ASSUME NEW name \in Names, Stash(name) \/ Place(name) \/ RollbackRemove(name) \/ RollbackReturn(name)
      PROVE  PipelineInv'
  BY <1>9, StashInv, PlaceInv, RollbackRemoveInv, RollbackReturnInv
<1>10. CASE PlaceBegin BY <1>10, PlaceBeginInv
<1>11. CASE SwapEnds BY <1>11, SwapEndsInv
<1>16. CASE RestoreSucceeds \/ FinishFails BY <1>16, FinishInv
<1>12. CASE SwapFails BY <1>12, SwapFailsInv
<1>13. CASE RollbackFails BY <1>13, RollbackFailsInv
<1>14. CASE RollbackEnds BY <1>14, RollbackEndsInv
<1>15. CASE UNCHANGED vars
  <2>1. UNCHANGED <<files, db, backups, restore, before, last, changes, restores, errors, kills, late>>
    BY <1>15 DEF vars, counters
  <2>2. TypeInv' /\ TreesOK' /\ StagingOK' /\ QuietOK' /\ StashOK'
    BY <2>1 DEF PipelineInv, RunInv, TypeInv, TreesOK, Deep, Fresh, StagingOK, Staged, Selected, QuietOK, StashOK, At
  <2>3. SuccessOK' /\ FailureOK' /\ OldOK'
    BY <2>1 DEF PipelineInv, RunInv, SuccessOK, FailureOK, OldOK, Selected, At, Swapping, Clean
  <2>4. SuccessIsComplete' /\ FailureLeavesUploads' /\ OldRemain'
    BY <2>1 DEF PipelineInv, SuccessIsComplete, FailureLeavesUploads, OldRemain, Clean, Somewhere, At
  <2> QED BY <2>2, <2>3, <2>4 DEF PipelineInv, RunInv
<1> QED BY <1>1, <1>2, <1>3, <1>4, <1>5, <1>6, <1>7, <1>8, <1>9, <1>10, <1>11, <1>12, <1>13, <1>14, <1>15, <1>16
        DEF Next, Swap

\* What every behaviour keeps.
THEOREM PipelineInvariant == Spec => []PipelineInv
BY InitInv, NextInv, PTL DEF Spec

LEMMA EntryTypes == ASSUME NEW e \in Entries PROVE IsEntry(e)
<1>1. e.at \in Seq(Names) /\ e.version \in Versions
  BY DEF Entries, Paths
<1>2. \A i \in DOMAIN e.at : e.at[i] \in Names
  BY <1>1, ElementOfSeq, LenProperties
<1> QED BY <1>1, <1>2 DEF IsEntry, Range

\* Every variable keeps its type.
THEOREM PipelineTyping == Spec => []TypeOK
<1>1. ASSUME PipelineInv PROVE TypeOK
  <2>1. TypeInv
    BY <1>1 DEF PipelineInv, RunInv
  <2>2. /\ \A e \in files : IsEntry(e)
        /\ \A b \in DOMAIN backups : backups[b].db \in 0..MaxChanges /\ \A e \in backups[b].files : IsEntry(e)
    BY <2>1, Basics, EntryTypes DEF TypeInv
  <2>3. Len(backups) <= MaxBackups + MaxRestores /\ restores <= MaxRestores
    <3> DEFINE m == Len(backups)
    <3>1. m \in Nat /\ m - restores <= MaxBackups /\ restores \in 0..MaxRestores
      BY <2>1, Basics DEF TypeInv
    <3> HIDE DEF m
    <3>2. m <= MaxBackups + MaxRestores /\ restores <= MaxRestores
      BY <3>1, Numbers
    <3> QED BY <3>2 DEF m
  <2>4. /\ restore.step \in Steps /\ restore.selected \in 0..Len(backups)
        /\ restore.staging \in Internal /\ restore.holder \in Internal
        /\ restore.todo \cup restore.stashed \cup restore.placed \cup restore.left \subseteq Names
    BY <2>1, NamesApart DEF TypeInv, Restores
  <2>5. before \subseteq {Entry(<<d>>, v) : d \in Dirs, v \in Versions}
    <3> SUFFICES ASSUME NEW e \in before
                 PROVE  e \in {Entry(<<d>>, v) : d \in Dirs, v \in Versions}
      OBVIOUS
    <3>1. e \in Uploadable
      BY <2>1 DEF TypeInv
    <3>2. PICK d \in Dirs, v \in Versions : e = Entry(<<d>>, v)
      BY <3>1 DEF Uploadable
    <3> QED BY <3>2
  <2>6. /\ db \in 0..NoDatabase /\ last.result \in Results /\ last.selected \in 0..Len(backups)
    BY <2>1 DEF TypeInv
  <2>7. changes <= MaxChanges /\ errors <= MaxErrors /\ kills <= MaxKills /\ late <= MaxLate
    BY <2>1, Numbers DEF TypeInv
  <2> QED BY <2>2, <2>3, <2>4, <2>5, <2>6, <2>7 DEF TypeOK
<1> QED BY <1>1, PipelineInvariant, PTL

\* Once the swap is done, and whatever is recorded of the restore, the database and
\* the uploads are those of the backup that was selected.
THEOREM SuccessComplete == Spec => []SuccessIsComplete
<1>1. PipelineInv => SuccessIsComplete BY DEF PipelineInv
<1> QED BY <1>1, PipelineInvariant, PTL

\* A restore that fails before its swap is done leaves the uploads as they were, if
\* its rollback does not raise and rmtree leaves nothing that was placed.
THEOREM FailureLeaves == Spec => []FailureLeavesUploads
<1>1. PipelineInv => FailureLeavesUploads BY DEF PipelineInv
<1> QED BY <1>1, PipelineInvariant, PTL

\* No file that was there is lost before the swap is done, whatever fails, is left
\* behind or killed.
THEOREM OldUploadsRemain == Spec => []OldUploadsExist
<1>1. ASSUME PipelineInv PROVE OldUploadsExist
  <2>1. ASSUME restore.step \notin {"idle", "finish"}, Clean(restore.selected), NEW e \in before PROVE Somewhere(e)
    <3>1. RunInv
      BY <1>1 DEF PipelineInv
    <3>2. e.at[1] \in Dirs /\ e \in Entries
      BY <3>1, UploadableEntry DEF RunInv, TypeInv
    <3>3. CASE restore.step \in {"load", "loading", "commands"}
      BY <3>1, <3>2, <3>3, NamesInRange DEF RunInv, OldOK, Somewhere
    <3>4. CASE Swapping
      <4>1. PICK f \in files : /\ f.version = e.version
                               /\ Beneath2(f, restore.holder, e.at[1]) \/ Beneath(f, e.at[1])
        BY <2>1, <3>1, <3>4 DEF RunInv, OldOK
      <4>2. f \in Entries
        BY <3>1 DEF RunInv, TypeInv
      <4> QED BY <4>1, <4>2, NamesInRange DEF Somewhere, Beneath, Beneath2
    <3> QED BY <2>1, <3>1, <3>3, <3>4 DEF RunInv, TypeInv, Restores, Steps, At, Swapping
  <2> QED BY <1>1, <2>1 DEF PipelineInv, OldRemain, OldUploadsExist
<1> QED BY <1>1, PipelineInvariant, PTL

(***************************************************************************)
(* A restore is a restore as its reader sees it                            *)
(***************************************************************************)

\* The mapping of the refinement.
SiteNow == IF At("idle") THEN [db |-> db, uploads |-> Live(files)]
           ELSE [db |-> Last(backups).db, uploads |-> before]
SavedAs(b) == [db |-> backups[b].db, uploads |-> Live(backups[b].files), pure |-> Clean(b)]
SavedNow == [b \in DOMAIN backups |-> SavedAs(b)]
Saves == [db : 0..MaxChanges, uploads : SUBSET Uploadable, pure : BOOLEAN]
SiteValues == [db : 0..MaxChanges \cup {NoDatabase}, uploads : SUBSET Uploadable]

SavedOK ==
    /\ SavedNow \in Seq(Saves) /\ Len(SavedNow) = Len(backups) /\ DOMAIN SavedNow = DOMAIN backups
    /\ \A b \in DOMAIN backups : SavedNow[b] = SavedAs(b) /\ SavedAs(b) \in Saves

LEMMA SavedIsSeq == PipelineInv => SavedOK
<1> SUFFICES ASSUME PipelineInv PROVE SavedOK
  OBVIOUS
<1> DEFINE m == Len(backups)
<1>1. TypeInv /\ TreesOK
  BY DEF PipelineInv, RunInv
<1>2. m \in Nat /\ DOMAIN backups = 1..m
  BY <1>1, Basics
<1>3. ASSUME NEW b \in DOMAIN backups PROVE SavedAs(b) \in Saves
  <2>1. backups[b].db \in 0..MaxChanges /\ backups[b].files \in SUBSET Entries /\ Deep(backups[b].files)
    BY <1>1, Basics DEF TreesOK
  <2>2. Live(backups[b].files) \in SUBSET Uploadable
    BY <2>1, LiveUploadable
  <2>3. Clean(b) \in BOOLEAN
    BY DEF Clean
  <2> QED BY <2>1, <2>2, <2>3 DEF SavedAs, Saves
<1>4. SavedNow \in [1..m -> Saves] /\ \A b \in DOMAIN backups : SavedNow[b] = SavedAs(b)
  BY <1>2, <1>3 DEF SavedNow
<1> HIDE DEF m
<1>5. SavedNow \in Seq(Saves)
  BY <1>2, <1>4, SeqDef
<1>6. Len(SavedNow) = m
  <2>1. Len(SavedNow) \in Nat /\ DOMAIN SavedNow = 1..Len(SavedNow)
    BY <1>5, LenProperties
  <2>2. DOMAIN SavedNow = 1..m
    BY <1>4
  <2> DEFINE k == Len(SavedNow)
  <2> HIDE DEF k
  <2>3. k \in Nat /\ 1..k = 1..m
    BY <2>1, <2>2 DEF k
  <2>4. k = m
    BY <1>2, <2>3
  <2> QED BY <2>4 DEF k
<1> QED BY <1>2, <1>3, <1>4, <1>5, <1>6 DEF m, SavedOK

SiteOK == SiteNow \in SiteValues

LEMMA SiteValue == PipelineInv => SiteOK
<1> SUFFICES ASSUME PipelineInv PROVE SiteNow \in SiteValues
  BY DEF SiteOK
<1>1. TypeInv /\ TreesOK
  BY DEF PipelineInv, RunInv
<1>2. Live(files) \in SUBSET Uploadable
  BY <1>1, LiveUploadable DEF TypeInv, TreesOK
<1>3. ~At("idle") => Last(backups).db \in 0..MaxChanges
  <2>1. ~At("idle") => Len(backups) \in DOMAIN backups
    <3> DEFINE m == Len(backups)
    <3>1. ~At("idle") => restore.selected \in 1..m
      BY <1>1, Basics
    <3>2. m \in Nat /\ DOMAIN backups = 1..m
      BY <1>1, Basics
    <3> HIDE DEF m
    <3>3. ~At("idle") => m \in DOMAIN backups
      BY <3>1, <3>2
    <3> QED BY <3>3 DEF m
  <2> QED BY <1>1, <2>1, Basics DEF Last
<1> QED BY <1>1, <1>2, <1>3, Numbers DEF SiteNow, SiteValues, TypeInv

\* A backup, as its reader sees it.
LEMMA SavedGrows ==
    ASSUME PipelineInv, PipelineInv', At("idle"), db # NoDatabase, backups' = Saved
    PROVE  /\ SavedNow' = Append(SavedNow, [db |-> SiteNow.db, uploads |-> SiteNow.uploads,
                                            pure |-> (Children(files, <<>>) \subseteq Dirs)])
           /\ Last(backups').db = db
<1> DEFINE m == Len(backups)
           new == [db |-> SiteNow.db, uploads |-> SiteNow.uploads, pure |-> (Children(files, <<>>) \subseteq Dirs)]
<1>1. TypeInv /\ TreesOK
  BY DEF PipelineInv, RunInv
<1>2. /\ Len(backups') = m + 1 /\ DOMAIN backups' = 1..(m + 1) /\ m \in Nat /\ DOMAIN backups = 1..m
      /\ \A b \in DOMAIN backups : b \in DOMAIN backups' /\ backups'[b] = backups[b]
      /\ backups'[Len(backups')] = [db |-> db, files |-> files]
  BY <1>1, SavedBackups, Basics
<1>3. /\ SavedNow \in Seq(Saves) /\ Len(SavedNow) = m /\ DOMAIN SavedNow = DOMAIN backups
      /\ \A b \in DOMAIN backups : SavedNow[b] = SavedAs(b)
  BY SavedIsSeq DEF SavedOK
<1>4. /\ SavedNow' \in Seq(Saves) /\ Len(SavedNow') = Len(backups') /\ DOMAIN SavedNow' = DOMAIN backups'
      /\ \A b \in DOMAIN backups' : SavedNow'[b] = SavedAs(b)' /\ SavedAs(b)' \in Saves
  <2>1. SavedOK'
    BY SavedIsSeq, PTL
  <2> QED BY <2>1 DEF SavedOK
<1>5. \A b \in DOMAIN backups : SavedAs(b)' = SavedAs(b)
  BY <1>2 DEF SavedAs, Clean, Live
<1>6. ASSUME NEW b, b = m + 1 PROVE SavedAs(b)' = new
  <2>1. SavedAs(b)' = [db |-> backups'[b].db, uploads |-> Live(backups'[b].files),
                       pure |-> (Children(backups'[b].files, <<>>) \subseteq Dirs)]
    BY DEF SavedAs, Clean
  <2>2. backups'[b].db = db /\ backups'[b].files = files
    BY <1>2, <1>6
  <2>3. SiteNow.db = db /\ SiteNow.uploads = Live(files)
    BY DEF SiteNow
  <2> QED BY <2>1, <2>2, <2>3, Zenon
<1>7. new \in Saves
  <2>1. PICK b \in DOMAIN backups' : b = m + 1
    BY <1>2
  <2> QED BY <1>4, <1>6, <2>1
<1> HIDE DEF m, new
<1>8. /\ Append(SavedNow, new) \in Seq(Saves) /\ Len(Append(SavedNow, new)) = m + 1
      /\ \A b \in 1..m : Append(SavedNow, new)[b] = SavedNow[b]
      /\ Append(SavedNow, new)[m + 1] = new
  BY <1>3, <1>7, AppendProperties
<1>9. ASSUME NEW b \in 1..(m + 1) PROVE SavedNow'[b] = Append(SavedNow, new)[b]
  <2>1. SavedNow'[b] = SavedAs(b)'
    BY <1>2, <1>4
  <2>2. CASE b \in 1..m
    BY <1>2, <1>3, <1>5, <1>8, <2>1, <2>2
  <2>3. CASE b = m + 1
    BY <1>6, <1>8, <2>1, <2>3
  <2>4. m \in Nat
    BY <1>2
  <2>5. b \in 1..m \/ b = m + 1
    BY <2>4
  <2> QED BY <2>2, <2>3, <2>5
<1>10. SavedNow' = Append(SavedNow, new)
  BY <1>2, <1>4, <1>8, <1>9, SeqEqual
<1> QED BY <1>2, <1>10 DEF Last, new

LEMMA OutcomeStarts == Init => Outcome!OutcomeInit
<1> SUFFICES ASSUME Init PROVE Outcome!OutcomeInit
  OBVIOUS
<1>1. PipelineInv
  BY InitInv
<1>2. SiteNow \in SiteValues /\ SavedOK
  BY <1>1, SiteValue, SavedIsSeq DEF SiteOK
<1>3. backups = <<>> /\ restore = Idle /\ last = None /\ late = 0 /\ db = 0
  BY DEF Init
<1>4. restore.selected = 0 /\ At("idle") /\ last.result = "none"
  BY <1>3, IdleType DEF At, None
<1>5. SavedNow = <<>>
  <2>1. Len(SavedNow) = 0 /\ SavedNow \in Seq(Saves)
    BY <1>2, <1>3 DEF SavedOK
  <2> QED BY <2>1, EmptySeq
<1>6. SiteNow.db # NoDatabase
  BY <1>3, <1>4, Numbers DEF SiteNow, NoDatabase
<1>7. SiteNow \in Outcome!Sites
  BY <1>2 DEF Outcome!Sites, SiteValues, Uploadable
<1> QED BY <1>3, <1>4, <1>5, <1>6, <1>7 DEF Outcome!OutcomeInit, SiteNow, SavedNow, SavedAs

\* A step that its reader does not see.
LEMMA Unseen ==
    ASSUME PipelineInv, PipelineInv', ~At("idle"), ~At("idle")',
           UNCHANGED <<backups, before, last, late>>, restore'.selected = restore.selected
    PROVE  UNCHANGED Outcome!outcomeVars
<1>1. /\ SiteNow' = SiteNow /\ SavedNow' = SavedNow
      /\ last'.result = last.result /\ (late > 0)' = (late > 0)
  BY DEF SiteNow, SavedNow, SavedAs, Clean
<1> QED BY <1>1 DEF Outcome!outcomeVars, SiteNow, SavedNow, SavedAs

\* The last step of a restore, as its reader sees it.
LEMMA Ends ==
    ASSUME PipelineInv, PipelineInv', ~At("idle"), restore' = Idle, NEW said,
           last' = [result |-> said, selected |-> restore.selected], UNCHANGED <<backups, before, late>>
    PROVE  /\ Outcome!End(said)
           /\ SiteNow.uploads = before /\ SiteNow'.db = db' /\ SiteNow'.uploads = Live(files')
           /\ SavedNow[restore.selected].db = backups[restore.selected].db
           /\ SavedNow[restore.selected].uploads = Live(backups[restore.selected].files)
           /\ SavedNow[restore.selected].pure = Clean(restore.selected)
<1>1. restore.selected # 0 /\ restore.selected \in DOMAIN backups
  BY Basics DEF PipelineInv, RunInv, TypeInv
<1>2. SiteNow' \in Outcome!Sites
  <2>1. SiteOK'
    BY SiteValue, PTL
  <2> QED BY <2>1 DEF SiteOK, Outcome!Sites, SiteValues, Uploadable
<1>3. SavedNow' = SavedNow
  BY DEF SavedNow, SavedAs, Clean
<1>4. restore'.selected = 0 /\ At("idle")'
  BY IdleType DEF At
<1>5. Outcome!End(said)
  BY <1>1, <1>2, <1>3, <1>4 DEF Outcome!End, SiteNow, SavedNow, SavedAs
<1>6. SiteNow.uploads = before /\ SiteNow'.db = db' /\ SiteNow'.uploads = Live(files')
  BY <1>4 DEF SiteNow
<1>7. SavedNow[restore.selected] = SavedAs(restore.selected)
  BY <1>1 DEF SavedNow
<1> QED BY <1>5, <1>6, <1>7 DEF SavedAs

LEMMA OutcomeSteps ==
    PipelineInv /\ PipelineInv' /\ [Next]_vars => [Outcome!OutcomeNext]_(Outcome!outcomeVars)
<1> SUFFICES ASSUME PipelineInv, PipelineInv', [Next]_vars
             PROVE  Outcome!OutcomeNext \/ UNCHANGED Outcome!outcomeVars
  OBVIOUS
<1>1. CASE Change
  <2>1. /\ At("idle") /\ At("idle")' /\ restore.selected = 0 /\ db # NoDatabase /\ last'.result = "none"
        /\ UNCHANGED <<backups, restore, late>>
    BY <1>1 DEF Change, At, PipelineInv, RunInv, TypeInv, None
  <2>2. SiteNow.db # NoDatabase
    BY <2>1 DEF SiteNow
  <2>3. SiteNow' \in Outcome!Sites
    <3>1. SiteOK'
      BY SiteValue, PTL
    <3> QED BY <3>1 DEF SiteOK, Outcome!Sites, SiteValues, Uploadable
  <2>4. SavedNow' = SavedNow
    BY <2>1 DEF SavedNow, SavedAs, Clean
  <2>5. Outcome!Use
    BY <2>1, <2>2, <2>3, <2>4 DEF Outcome!Use, Outcome!Working, SiteNow, SavedNow, SavedAs
  <2> QED BY <2>5 DEF Outcome!OutcomeNext
<1>2. CASE Backup
  <2>1. /\ At("idle") /\ restore.selected = 0 /\ db # NoDatabase /\ backups' = Saved
        /\ UNCHANGED <<files, db, restore, before, last, late>>
    BY <1>2 DEF Backup, counters, PipelineInv, RunInv, TypeInv
  <2>2. SiteNow.db # NoDatabase /\ SiteNow' = SiteNow
    BY <2>1 DEF SiteNow, At
  <2>3. \E pure \in BOOLEAN : SavedNow' = Append(SavedNow, [db |-> SiteNow.db, uploads |-> SiteNow.uploads, pure |-> pure])
    BY <2>1, SavedGrows
  <2>4. Outcome!Save
    BY <2>1, <2>2, <2>3 DEF Outcome!Save, Outcome!Working, Outcome!Copy, SiteNow, SavedNow, SavedAs
  <2> QED BY <2>4 DEF Outcome!OutcomeNext
<1>3. ASSUME NEW d \in Dirs, LateUpload(d) PROVE Outcome!OutcomeNext
  <2>1. /\ ~At("idle") /\ late' > 0 /\ UNCHANGED <<backups, restore, before, last>>
    <3>1. late \in Nat
      BY Numbers DEF PipelineInv, RunInv, TypeInv
    <3> QED BY <1>3, <3>1 DEF LateUpload
  <2>2. SiteNow' = SiteNow /\ SavedNow' = SavedNow /\ restore.selected # 0
    BY <2>1 DEF SiteNow, SavedNow, SavedAs, Clean, At, PipelineInv, RunInv, TypeInv
  <2>3. Outcome!Disturb
    BY <2>1, <2>2 DEF Outcome!Disturb, SiteNow, SavedNow, SavedAs
  <2> QED BY <2>3 DEF Outcome!OutcomeNext
<1>4. ASSUME NEW b \in DOMAIN backups, RestoreBegin(b) PROVE Outcome!OutcomeNext
  <2>1. /\ At("idle") /\ ~At("idle")' /\ restore.selected = 0 /\ db # NoDatabase /\ backups' = Saved
        /\ restore'.selected = b /\ last'.result = "none" /\ before' = Live(files)
        /\ UNCHANGED <<db, late>>
    BY <1>4 DEF RestoreBegin, PipelineInv, RunInv, TypeInv, At, Idle, None
  <2>2. SiteNow.db # NoDatabase
    BY <2>1 DEF SiteNow
  <2>3. SiteNow' = SiteNow
    <3>1. Last(backups').db = db
      BY <2>1, SavedGrows
    <3> QED BY <2>1, <3>1 DEF SiteNow
  <2>4. \E pure \in BOOLEAN : SavedNow' = Append(SavedNow, [db |-> SiteNow.db, uploads |-> SiteNow.uploads, pure |-> pure])
    BY <2>1, SavedGrows
  <2>5. Outcome!Begin(b)
    BY <2>1, <2>2, <2>3, <2>4 DEF Outcome!Begin, Outcome!Working, Outcome!Copy, SiteNow, SavedNow, SavedAs
  <2>6. DOMAIN SavedNow = DOMAIN backups
    BY DEF SavedNow
  <2> QED BY <2>5, <2>6 DEF Outcome!OutcomeNext, SavedNow, SavedAs
<1>5. CASE DropTables \/ LoadDump
  <2>1. ~At("idle") /\ ~At("idle")' /\ UNCHANGED <<backups, before, last, late>> /\ restore'.selected = restore.selected
    BY <1>5 DEF DropTables, LoadDump, Goto, At, counters, PipelineInv, RunInv, TypeInv, Restores
  <2> QED BY <2>1, Unseen
<1>6. CASE last' = [result |-> "failed", selected |-> restore.selected] /\ (RestoreFails \/ RollbackEnds)
  <2>1. /\ ~At("idle") /\ restore' = Idle /\ UNCHANGED <<backups, before, late>>
    BY <1>6 DEF RestoreFails, RollbackEnds, Ended, At
  <2>2. /\ Outcome!End("failed")
        /\ SiteNow.uploads = before /\ SiteNow'.uploads = Live(files')
        /\ SavedNow[restore.selected].pure = Clean(restore.selected)
    BY <1>6, <2>1, Ends
  <2>3. late = 0 /\ Clean(restore.selected) => Live(files') = before
    BY <1>6, <2>1 DEF PipelineInv, FailureLeavesUploads, Clean, Live
  <2>4. late = 0 \/ late > 0
    BY Numbers DEF PipelineInv, RunInv, TypeInv
  <2>5. Outcome!Fail
    BY <2>2, <2>3, <2>4 DEF Outcome!Fail, SiteNow, SavedNow, SavedAs
  <2> QED BY <2>5 DEF Outcome!OutcomeNext
<1>7. CASE \/ last'.result = "littered" /\ RollbackEnds
           \/ ~At("finish") /\ Killed
           \/ RollbackFails
  <2>1. /\ ~At("idle") /\ restore' = Idle /\ UNCHANGED <<backups, before, late>>
        /\ \E said \in {"littered", "stranded", "killed"} : last' = [result |-> said, selected |-> restore.selected]
    BY <1>7 DEF Killed, RollbackEnds, RollbackFails, Ended, At
  <2>2. \E said \in {"littered", "stranded", "killed"} : Outcome!End(said)
    BY <2>1, Ends
  <2> QED BY <2>2 DEF Outcome!OutcomeNext, Outcome!Break
<1>8. CASE RestoreSucceeds \/ FinishFails \/ (Killed /\ At("finish"))
  <2>1. /\ ~At("idle") /\ restore' = Idle /\ UNCHANGED <<backups, before, late>>
        /\ \E said \in Exchanged : last' = [result |-> said, selected |-> restore.selected]
    BY <1>8 DEF RestoreSucceeds, FinishFails, Killed, Ended, At, counters, Exchanged
  <2>2. PICK said \in Exchanged : last' = [result |-> said, selected |-> restore.selected]
    BY <2>1
  <2>3. /\ Outcome!End(said)
        /\ SiteNow'.db = db' /\ SiteNow'.uploads = Live(files')
        /\ SavedNow[restore.selected].db = backups[restore.selected].db
        /\ SavedNow[restore.selected].uploads = Live(backups[restore.selected].files)
    BY <2>1, <2>2, Ends
  <2>4. late = 0 => db' = backups[restore.selected].db /\ Live(files') = Live(backups[restore.selected].files)
    BY <2>1, <2>2 DEF PipelineInv, SuccessIsComplete, Live
  <2>5. late = 0 \/ late > 0
    BY Numbers DEF PipelineInv, RunInv, TypeInv
  <2>6. \E result \in {"success", "denied", "unsaid"} : Outcome!End(result)
    BY <2>2, <2>3 DEF Exchanged
  <2>7. Outcome!Succeed
    BY <2>3, <2>4, <2>5, <2>6 DEF Outcome!Succeed, SiteNow, SavedNow, SavedAs
  <2> QED BY <2>7 DEF Outcome!OutcomeNext
<1>9. ASSUME NEW name \in Names, Stash(name) \/ Place(name) \/ RollbackRemove(name) \/ RollbackReturn(name)
      PROVE  UNCHANGED Outcome!outcomeVars
  <2>1. ~At("idle") /\ ~At("idle")' /\ UNCHANGED <<backups, before, last, late>> /\ restore'.selected = restore.selected
    BY <1>9 DEF Stash, Place, RollbackRemove, RollbackReturn, At, counters, PipelineInv, RunInv, TypeInv, Restores
  <2> QED BY <2>1, Unseen
<1>10. CASE SwapBegin \/ PlaceBegin \/ SwapFails \/ SwapEnds
  <2>1. ~At("idle") /\ ~At("idle")' /\ UNCHANGED <<backups, before, last, late>> /\ restore'.selected = restore.selected
    BY <1>10 DEF SwapBegin, PlaceBegin, SwapFails, SwapEnds, Goto, At, counters, PipelineInv, RunInv, TypeInv, Restores
  <2> QED BY <2>1, Unseen
<1>11. CASE UNCHANGED vars
  <2>1. UNCHANGED <<files, db, backups, restore, before, last, late>>
    BY <1>11 DEF vars, counters
  <2>2. SiteNow' = SiteNow /\ SavedNow' = SavedNow /\ last'.result = last.result /\ (late > 0)' = (late > 0)
        /\ restore'.selected = restore.selected
    BY <2>1 DEF SiteNow, SavedNow, SavedAs, Clean, At
  <2> QED BY <2>2 DEF Outcome!outcomeVars, SiteNow, SavedNow, SavedAs
<1>12. RestoreFails \/ RollbackEnds =>
         \/ last' = [result |-> "failed", selected |-> restore.selected]
         \/ last'.result = "littered" /\ RollbackEnds
  BY DEF RestoreFails, RollbackEnds, Ended
<1> QED BY <1>1, <1>2, <1>3, <1>4, <1>5, <1>6, <1>7, <1>8, <1>9, <1>10, <1>11, <1>12 DEF Next, Swap

\* The many steps of a restore are one step for its reader, which leaves the site of
\* the backup, the uploads of before, or one that needs help.
THEOREM RestoreRefines == Spec => ImplementsOutcome
<1>1. PipelineInv /\ PipelineInv' /\ [Next]_vars => [Outcome!OutcomeNext]_(Outcome!outcomeVars)
  BY OutcomeSteps
<1> QED BY <1>1, OutcomeStarts, PipelineInvariant, PTL DEF Spec, ImplementsOutcome, Outcome!OutcomeSpec
=============================================================================
