------------------------------- MODULE Release -------------------------------
(***************************************************************************)
(* The release pipeline (release/release.py, release/package.py,           *)
(* release/evidence.py) and the audit package made of its outputs          *)
(* (release/audit_package.py), beside a developer who edits, commits and   *)
(* checks out.                                                             *)
(*                                                                         *)
(* Simplifications. The content of the tree, without the files that git    *)
(* ignores, is a number, one of its own for every edit; a commit is the    *)
(* content it holds. The ignored files that a package takes have one       *)
(* content or another, and the gates leave none behind. The gates run on   *)
(* the tree as it is, and the files are copied in two portions. git        *)
(* answers, and nobody asks for a stale or a chosen output. An output is   *)
(* named by the time of its build, in UTC, or has a given name; a commit   *)
(* made here and a build never fall into the same hour. One release and    *)
(* one audit package are made at a time, and one audit package is kept.    *)
(* The staging folder of a killed run, which latest_release_output         *)
(* considers when there is no output with a time in its name, is left out. *)
(***************************************************************************)
EXTENDS Integers, FiniteSets

CONSTANTS
    MaxTime,          \* bound on the hours, and with them on commits, builds and faults
    MaxEdits,         \* bound on the edits, and on the commits made elsewhere
    Zones,            \* offsets of local time from UTC, in hours
    Named,            \* the output with a given name
    NoPackage         \* no package

ASSUME ReleaseAssumption ==
    /\ MaxTime \in Nat /\ MaxEdits \in Nat
    /\ Zones \subseteq Int /\ Named \notin Nat

VARIABLES
    now,
    head, committed,  \* the commit that HEAD is, and its time
    content,          \* the working tree, but for the files that git ignores
    ignored,          \* the ignored files under app/
    commits,          \* the commits there are, with their times
    edits,            \* the contents there have been
    outputs,          \* [OutputNames -> package]: release/output
    leftBehind,       \* history: outputs that HEAD was moved away from, and not to a newer commit
    release,          \* the run of release.py
    auditRun,         \* the run of audit_package.py
    auditFolder, auditZip \* the audit package: what it holds, and its archive

releaseVars == <<now, head, committed, content, ignored, commits, edits, outputs, leftBehind,
                 release, auditRun, auditFolder, auditZip>>
treeVars == <<head, committed, content, ignored, commits, edits>>
outputVars == <<outputs, leftBehind>>
auditVars == <<auditRun, auditFolder, auditZip>>

OutputNames == (0..MaxTime) \cup {Named}

\* git status --porcelain, which says nothing of ignored files.
Dirty == content # head

\* A run, with what the files, and the ignored ones among them, were copied from.
\* Of a package: whether it has BUILD_INFO.json, the commit in it, its contents,
\* whether its files are the ones of SHA256SUMS, the time of a folder with a given
\* name. History: the ignored files there were when the tree was found clean, and
\* whether nobody changed the tree during the run.
NoRun == [pc |-> "idle", name |-> Named, force |-> FALSE, commit |-> 0, copied |-> {},
          found |-> 0, strays |-> {}, quiet |-> TRUE]
Package(run, official) ==
    [official |-> official, commit |-> run.commit, copied |-> run.copied,
     found |-> run.found, strays |-> run.strays, intact |-> official,
     mtime |-> IF run.name = Named THEN now ELSE 0, quiet |-> run.quiet]

\* A run. Of an audit package: whether what it shows is an official release, and
\* made of the source beside it, ignored files apart. History: whether it was made
\* west of UTC, whether HEAD was moved away from what it shows, and whether nobody
\* changed the tree during the two runs or the outputs during the second.
NoAudit == [pc |-> "idle", force |-> FALSE, selected |-> NoPackage, copied |-> 0, west |-> FALSE, quiet |-> TRUE]

\* There may be an output of the first commit.
ReleaseInit ==
    /\ now = 0
    /\ head = 0 /\ committed = 0 /\ content = 0 /\ ignored = 0
    /\ commits = {<<0, 0>>} /\ edits = 0
    /\ \E first \in {NoPackage, Package([NoRun EXCEPT !.name = 0, !.copied = {0}, !.strays = {0}], TRUE)} :
         outputs = [n \in OutputNames |-> IF n = 0 THEN first ELSE NoPackage]
    /\ leftBehind = {}
    /\ release = NoRun /\ auditRun = NoAudit
    /\ auditFolder = NoPackage /\ auditZip = NoPackage

(***************************************************************************)
(* The developer and the clock                                             *)
(***************************************************************************)

Disturb ==
    /\ release' = [release EXCEPT !.quiet = release.pc = "idle"]
    /\ auditRun' = [auditRun EXCEPT !.quiet = auditRun.pc = "idle"]

\* A commit, a build and a fault each take the next hour.
TimePasses == now < MaxTime /\ now' = now + 1

\* The next content, in the tree or in a commit made elsewhere.
NewContent == edits < MaxEdits /\ edits' = edits + 1

Edit ==
    /\ NewContent
    /\ content' = edits'
    /\ Disturb
    /\ UNCHANGED <<now, head, committed, ignored, commits, outputVars, auditFolder, auditZip>>

\* A dump, local_settings.py or the like comes under app/ or goes.
Litter ==
    /\ ignored' = 1 - ignored
    /\ Disturb
    /\ UNCHANGED <<now, head, committed, content, commits, edits, outputVars, auditFolder, auditZip>>

Commit ==
    /\ Dirty
    /\ TimePasses
    /\ head' = content /\ committed' = now' /\ commits' = commits \cup {<<content, now'>>}
    /\ Disturb
    /\ UNCHANGED <<content, ignored, edits, outputVars, auditFolder, auditZip>>

\* git fetch, of a commit somebody made before.
CommitElsewhere ==
    /\ NewContent
    /\ \E time \in 0..now : commits' = commits \cup {<<edits', time>>}
    /\ UNCHANGED <<now, head, committed, content, ignored, outputVars, release, auditVars>>

\* The hour an output is from.
BuiltAt(n) == IF n = Named THEN outputs[n].mtime ELSE n

\* git checkout, or a pull that moves HEAD forward to what was fetched: the times
\* of the commits do not follow the moves of HEAD.
Checkout(commit) ==
    /\ ~Dirty
    /\ head' = commit[1] /\ content' = commit[1] /\ committed' = commit[2]
    /\ leftBehind' = {n \in OutputNames : /\ outputs[n] # NoPackage /\ outputs[n].commit # head'
                                         /\ committed' <= BuiltAt(n)}
    /\ Disturb
    /\ UNCHANGED <<now, ignored, commits, edits, outputs, auditFolder, auditZip>>

(***************************************************************************)
(* release.py                                                              *)
(***************************************************************************)

\* One step of the run, which moves on to pc.
Step(from, pc) == release.pc = from /\ release' = [release EXCEPT !.pc = pc]
EndsRun(from) == release.pc = from /\ release' = NoRun
ReleaseOnly == UNCHANGED <<now, treeVars, auditVars>>

\* An output changes under the hands of the audit package, which does not notice.
OutputBecomes(n, package) ==
    /\ outputs' = [outputs EXCEPT ![n] = package]
    /\ auditRun' = [auditRun EXCEPT !.quiet = auditRun.pc = "idle"]
    /\ UNCHANGED <<treeVars, auditFolder, auditZip>>

\* git_commit, before the tree is looked at.
ReleaseBegins(name, force) ==
    /\ release.pc = "idle"
    /\ release' = [NoRun EXCEPT !.pc = "identified", !.name = name, !.force = force, !.commit = head]
    /\ UNCHANGED outputVars /\ ReleaseOnly

\* The name given, or the time of the build.
Identify(name) ==
    /\ TimePasses
    /\ release' = [release EXCEPT !.pc = "gates", !.name = IF name = Named THEN Named ELSE now',
                                  !.found = ignored]

\* Mutant: local changes are released with the commit they are based on.
SourceUsedAsIs(ok) == ok /\ Identify(release.name)

\* source_is_dirty, and the time that names the build.
SourceChecked(ok) ==
    \/ ok /\ ~Dirty /\ Identify(release.name)
    \/ ~ok /\ Dirty /\ UNCHANGED now /\ release' = NoRun

IdentityPreflight ==
    /\ release.pc = "identified"
    /\ \E ok \in BOOLEAN : SourceChecked(ok)
    /\ UNCHANGED <<treeVars, outputVars, auditVars>>

\* GateRunner.run and record_internal: a gate that fails ends the run.
GatesPass == Step("gates", "passed") /\ UNCHANGED outputVars /\ ReleaseOnly
GateFails == EndsRun("gates") /\ UNCHANGED outputVars /\ ReleaseOnly

\* collect_files and _copy_files: the files of the customer's package as they are
\* now, with local changes, and with the ignored files that lie among them.
Collected(run) == [run EXCEPT !.copied = @ \cup {content}, !.strays = @ \cup {ignored}]

\* prepare_official_package: the staging folder and the first files. An output
\* of that name stops the run, unless it may be replaced.
PrepareBegins ==
    /\ release.pc = "passed"
    /\ release' = IF outputs[release.name] # NoPackage /\ ~release.force THEN NoRun
                  ELSE Collected([release EXCEPT !.pc = "copying"])
    /\ UNCHANGED outputVars /\ ReleaseOnly

\* The other files and the metadata; check_forbidden and check_customer_docs may
\* object.
PrepareEnds ==
    /\ release.pc = "copying"
    /\ release' = Collected([release EXCEPT !.pc = "prepared"])
    /\ UNCHANGED outputVars /\ ReleaseOnly
PrepareFails == EndsRun("copying") /\ UNCHANGED outputVars /\ ReleaseOnly

\* _run_docker_gates and _run_supply_chain_gates: one that cannot run here is
\* listed as still to be done after the deployment, one that fails ends the run.
DockerGates == Step("prepared", "finalizing") /\ UNCHANGED outputVars /\ ReleaseOnly
DockerGatesFail == EndsRun("prepared") /\ UNCHANGED outputVars /\ ReleaseOnly

\* finalize_official_package up to the validation of the staging folder; an
\* objection removes it.
FinalizeValid ==
    /\ release.pc = "finalizing"
    /\ release' = IF outputs[release.name] # NoPackage /\ ~release.force THEN NoRun
                  ELSE [release EXCEPT !.pc = "replacing"]
    /\ UNCHANGED outputVars /\ ReleaseOnly
FinalizeInvalid == EndsRun("finalizing") /\ UNCHANGED outputVars /\ ReleaseOnly

\* shutil.rmtree(prepared.target)
RemoveOldOutput ==
    /\ Step("replacing", "renaming")
    /\ OutputBecomes(release.name, NoPackage)
    /\ leftBehind' = leftBehind \ {release.name}
    /\ UNCHANGED now

\* staging.replace(prepared.target)
Publish ==
    /\ EndsRun("renaming")
    /\ OutputBecomes(release.name, Package(release, TRUE))
    /\ leftBehind' = leftBehind \ {release.name}
    /\ UNCHANGED now

\* The rename fails: the staging folder goes the way of the old output.
PublishFails ==
    /\ EndsRun("renaming")
    /\ TimePasses
    /\ UNCHANGED <<treeVars, auditVars, outputVars>>

\* release.py is killed: a staging folder stays behind under its hidden name.
ReleaseKilled ==
    /\ release.pc # "idle"
    /\ TimePasses
    /\ release' = NoRun
    /\ UNCHANGED <<treeVars, auditVars, outputVars>>

\* build_scratch_package into the same folder: marked UNVALIDATED.
Scratch(force) ==
    /\ release.pc = "idle"
    /\ outputs[Named] # NoPackage => force
    /\ OutputBecomes(Named, Package(Collected(NoRun), FALSE))
    /\ leftBehind' = leftBehind \ {Named}
    /\ UNCHANGED <<now, release>>

\* Somebody alters a file of an output.
Alter(n) ==
    /\ outputs[n] # NoPackage
    /\ TimePasses
    /\ OutputBecomes(n, [outputs[n] EXCEPT !.intact = FALSE])
    /\ UNCHANGED <<leftBehind, release>>

(***************************************************************************)
(* audit_package.py                                                        *)
(***************************************************************************)

AuditOnly == UNCHANGED <<treeVars, outputVars, release>>
Folders == UNCHANGED <<now, auditFolder, auditZip>>

\* latest_release_output: the last in the order of the names; a given name only
\* when no other output is there.
Latest ==
    LET stamped == {n \in 0..MaxTime : outputs[n] # NoPackage} IN
    IF stamped # {} THEN CHOOSE n \in stamped : \A m \in stamped : m <= n
    ELSE IF outputs[Named] # NoPackage THEN Named ELSE NoPackage

\* load_build_info and validate_build_info: the BUILD_INFO.json of an official
\* build is there.
HasBuildInfo(n) == outputs[n].official

\* validate_official_release_output: evidence and checksums.
Official(n) == HasBuildInfo(n) /\ outputs[n].intact

\* The selection, and the evidence of what is selected.
AuditBegins(force) ==
    /\ auditRun.pc = "idle"
    /\ Latest # NoPackage => Official(Latest)
    /\ auditRun' = [NoAudit EXCEPT !.pc = "selected", !.force = force, !.selected = Latest]
    /\ AuditOnly /\ Folders

\* build_audit_package: --force removes the old folder before anything else.
AuditRemovesOld ==
    /\ auditRun.pc = "selected"
    /\ auditFolder # NoPackage \/ auditZip # NoPackage => auditRun.force
    /\ auditRun' = [auditRun EXCEPT !.pc = "checking", !.force = FALSE]
    /\ auditFolder' = NoPackage
    /\ AuditOnly /\ UNCHANGED <<now, auditZip>>
AuditExists ==
    /\ auditRun.pc = "selected"
    /\ (auditFolder # NoPackage \/ auditZip # NoPackage) /\ ~auditRun.force
    /\ auditRun' = NoAudit
    /\ AuditOnly /\ Folders

\* release_output_epoch: the name holds UTC and is read as local time; a folder
\* with a given name has the time it was written.
OutputTime(n, zone) == IF n = Named THEN outputs[n].mtime ELSE n - zone

\* Mutant: edits that are not committed do not count.
CurrentByTime(n, zone) == OutputTime(n, zone) >= committed

\* validate_release_output_is_current
Current(n, zone) == ~Dirty /\ OutputTime(n, zone) >= committed

AuditChecks ==
    /\ auditRun.pc = "checking"
    /\ \E zone \in Zones :
         auditRun' = IF \/ auditRun.selected = NoPackage
                        \/ outputs[auditRun.selected] # NoPackage /\ Current(auditRun.selected, zone)
                     THEN [auditRun EXCEPT !.pc = "copying source", !.west = zone < 0]
                     ELSE NoAudit
    /\ AuditOnly /\ Folders

\* collect_source_files and copy_files: the source, with local changes (and with
\* ignored files, which are not compared with those of the package).
SourceFiles == content

AuditCopiesSource ==
    /\ auditRun.pc = "copying source"
    /\ auditRun' = [auditRun EXCEPT !.pc = "copying release", !.copied = SourceFiles]
    /\ AuditOnly /\ Folders

\* The release and the history are copied, the readme is written.
AuditCopiesRelease ==
    /\ auditRun.pc = "copying release"
    /\ auditRun' = [NoAudit EXCEPT !.pc = "packing"]
    /\ auditFolder' =
         IF auditRun.selected = NoPackage \/ outputs[auditRun.selected] = NoPackage
         THEN [official |-> TRUE, same |-> TRUE, west |-> FALSE, left |-> FALSE, quiet |-> auditRun.quiet]
         ELSE LET package == outputs[auditRun.selected] IN
              [official |-> package.official /\ package.intact, same |-> package.copied = {auditRun.copied},
               west |-> auditRun.west, left |-> auditRun.selected \in leftBehind,
               quiet |-> auditRun.quiet /\ package.quiet]
    /\ AuditOnly /\ UNCHANGED <<now, auditZip>>

\* make_zip, over an older archive of the name.
AuditPacks ==
    /\ auditRun.pc = "packing"
    /\ auditZip' = auditFolder
    /\ auditRun' = NoAudit
    /\ AuditOnly /\ UNCHANGED <<now, auditFolder>>

AuditKilled ==
    /\ auditRun.pc # "idle"
    /\ TimePasses
    /\ auditRun' = NoAudit
    /\ AuditOnly /\ UNCHANGED <<auditFolder, auditZip>>

DeveloperNext ==
    \/ Edit \/ Litter \/ Commit \/ CommitElsewhere
    \/ \E commit \in commits : Checkout(commit)
    \/ \E n \in OutputNames : Alter(n)

PipelineNext ==
    \/ \E name \in {0, Named}, force \in BOOLEAN : ReleaseBegins(name, force)
    \/ IdentityPreflight \/ GatesPass \/ GateFails
    \/ PrepareBegins \/ PrepareEnds \/ PrepareFails
    \/ DockerGates \/ DockerGatesFail \/ FinalizeValid \/ FinalizeInvalid
    \/ RemoveOldOutput \/ Publish \/ PublishFails \/ ReleaseKilled
    \/ \E force \in BOOLEAN : Scratch(force)

AuditPackageNext ==
    \/ \E force \in BOOLEAN : AuditBegins(force)
    \/ AuditRemovesOld \/ AuditExists \/ AuditChecks
    \/ AuditCopiesSource \/ AuditCopiesRelease \/ AuditPacks \/ AuditKilled

ReleaseNext == DeveloperNext \/ PipelineNext \/ AuditPackageNext

ReleaseSpec == ReleaseInit /\ [][ReleaseNext]_releaseVars

-----------------------------------------------------------------------------

\* Types of the variables.
ReleaseTypeOK ==
    /\ now \in 0..MaxTime /\ committed <= now
    /\ edits \in 0..MaxEdits /\ {head, content} \subseteq 0..edits /\ ignored \in 0..1
    /\ commits \subseteq (0..edits) \X (0..now)
    /\ \A n \in OutputNames : outputs[n] # NoPackage => outputs[n].copied \subseteq 0..edits
    /\ {auditFolder, auditZip} \subseteq
         {NoPackage} \cup [official : BOOLEAN, same : BOOLEAN, west : BOOLEAN, left : BOOLEAN, quiet : BOOLEAN]

\* What is published as official is the commit it names and the ignored files that
\* lay among its files when the tree was found clean, for git does not show them;
\* unless somebody changed the tree or moved HEAD while the pipeline ran.
PublishedIsItsCommit ==
    \A n \in OutputNames :
        outputs[n] # NoPackage /\ outputs[n].official /\ outputs[n].quiet =>
            outputs[n].copied = {outputs[n].commit} /\ outputs[n].strays = {outputs[n].found}

\* A complete audit package shows an official release next to the source it was
\* built from (ignored files apart), unless somebody changed the tree or moved HEAD
\* during one of the runs or replaced the output during the second. Times alone are
\* compared. So the source is another one too when a checkout or a pull has moved
\* HEAD, since the release, to a commit that is not newer; or, for the time in the
\* name of an output is read in the time zone of the machine, when a newer commit
\* was made west of UTC.
AuditShowsOneVersion ==
    auditZip # NoPackage /\ auditZip.quiet => auditZip.official /\ (auditZip.same \/ auditZip.west \/ auditZip.left)
=============================================================================
