----------------------------- MODULE Deployment -----------------------------
(***************************************************************************)
(* A site in production over its life: images of several versions are      *)
(* started with an environment, which deploy/entrypoint.sh checks          *)
(* (core/deploy_security.py) before it migrates the database; the running  *)
(* application makes backups, labelled with its version, and restores      *)
(* backups of its own or of another site after it has compared the         *)
(* versions (core/system_ops/version_preflight.py).                        *)
(*                                                                         *)
(* Simplifications. A version is its numbers and the identifiers of its    *)
(* pre-release; two that differ in their build metadata only have the same *)
(* rank. The schema of a database is the newest version whose migrations   *)
(* were applied, and migrations do not fail. How backup and restore run is *)
(* the subject of other modules: here each is one step. The keys,          *)
(* passwords, cookies, redirects, HSTS and trusted proxies the check asks  *)
(* for are one Boolean: whether users reach the site, through which proxy  *)
(* or over which connection, is not modelled.                              *)
(***************************************************************************)
EXTENDS Integers, Sequences, FiniteSets

CONSTANTS
    AppVersions,  \* versions there are images of
    Semver,       \* [AppVersions -> [major, minor, patch, pre]]
    Rank,         \* [AppVersions -> Nat]: their order, as SemVer defines it
    OtherLabels,  \* texts that are no version
    Foreign,      \* backups of another site: [label, schema]
    MaxSiteBackups  \* bound

NoVersion == ""

ASSUME DeploymentAssumption ==
    /\ NoVersion \notin AppVersions /\ OtherLabels \cap AppVersions = {}
    /\ \A v \in AppVersions : Rank[v] \in Nat

\* The other site was never rolled back: what its backups hold is not newer than
\* the version they name.
ASSUME ForeignAssumption ==
    \A b \in Foreign :
        /\ b.schema \in AppVersions
        /\ b.label \in AppVersions \cup OtherLabels \cup {NoVersion}
        /\ b.label \in AppVersions => Rank[b.schema] <= Rank[b.label]

VARIABLES
    running,    \* [image, label], or Down
    schema,     \* the database
    siteBackups,  \* [label, schema, from]
    rolledBack, \* history: an image older than the database was started
    refusedOwn, \* history: a backup was refused by the version that made it
    disguised   \* history: an image ran under settings of the site's own, with an
                \* identity that is not its release's

deployVars == <<running, schema, siteBackups, rolledBack, refusedOwn, disguised>>

\* APP_VERSION, or app_version of a manifest.
Labels == AppVersions \cup OtherLabels \cup {NoVersion}

\* What the image embeds: the file of a release, none, or one that was changed.
BuildInfos == {"released", "missing", "altered"}

\* DJANGO_SETTINGS_MODULE: unset, one of the three modules of config/settings, or a
\* copy of prod.py that the site keeps under a name of its own.
Modules == {"unset", "prod", "dev", "test_mariadb", "own"}

\* The environment: the settings module, DEPLOY_SECURITY_PROFILE, 127.0.0.1 in
\* ALLOWED_HOSTS, and the rest of what the check asks for.
Configs == [module : Modules, profile : {"django_https", "synology_reverse_proxy", "other"},
            localhost : BOOLEAN, rest : BOOLEAN]

Down == [image |-> NoVersion, label |-> NoVersion]

DeployInit ==
    /\ running = Down /\ schema \in AppVersions
    /\ siteBackups = {} /\ rolledBack = FALSE /\ refusedOwn = FALSE /\ disguised = FALSE

-----------------------------------------------------------------------------
(* SemVer, as version_preflight.py compares it                             *)

\* _SEMVER_RE; a leading v, which it ignores, is left out.
Parses(label) == label \in AppVersions

Core(v) == <<Semver[v].major, Semver[v].minor, Semver[v].patch>>
Pre(v) == Semver[v].pre

\* The place where two sequences differ first; 0 if one begins with the other.
FirstDifference(s, t) ==
    LET differ == {i \in 1..Len(s) \cap 1..Len(t) : s[i] # t[i]} IN
    IF differ = {} THEN 0 ELSE CHOOSE i \in differ : \A j \in differ : i <= j

\* Numbers by value and before words; words in their order.
IdentifierBefore(a, b) ==
    IF a.numeric # b.numeric THEN a.numeric ELSE a.value < b.value

\* i is the place where two sequences differ first.
DifferAt(i, s, t) ==
    /\ i \in 1..Len(s) \cap 1..Len(t) /\ s[i] # t[i]
    /\ \A j \in 1..(i - 1) : s[j] = t[j]

\* A version is numbers and identifiers, and Rank keeps the rules of precedence of
\* SemVer 2.0.0 (item 11): the numbers from the left; a pre-release before its
\* release; the identifiers from the left; the shorter list first.
ASSUME SemverAssumption ==
    /\ \A v \in AppVersions :
           Semver[v] \in [major : Nat, minor : Nat, patch : Nat,
                          pre : Seq([numeric : BOOLEAN, value : Nat])]
    /\ \A l, r \in AppVersions :
           /\ (\E i \in 1..3 : DifferAt(i, Core(l), Core(r)) /\ Core(l)[i] < Core(r)[i])
              => Rank[l] < Rank[r]
           /\ Core(l) = Core(r) /\ Pre(l) # <<>> =>
                  /\ Pre(r) = <<>> => Rank[l] < Rank[r]
                  /\ \A i \in 1..Len(Pre(l)) :
                         DifferAt(i, Pre(l), Pre(r)) /\ IdentifierBefore(Pre(l)[i], Pre(r)[i])
                         => Rank[l] < Rank[r]
                  /\ (/\ Len(Pre(l)) < Len(Pre(r))
                      /\ \A i \in 1..Len(Pre(l)) : Pre(l)[i] = Pre(r)[i])
                     => Rank[l] < Rank[r]

\* Mutant: a pre-release follows its release.
OlderVersionUnlessRelease(l, r) ==
    LET core == FirstDifference(Core(l), Core(r))
        pre == FirstDifference(Pre(l), Pre(r)) IN
    IF core # 0 THEN Core(l)[core] < Core(r)[core]
    ELSE IF pre # 0 THEN IdentifierBefore(Pre(l)[pre], Pre(r)[pre])
    ELSE Len(Pre(l)) < Len(Pre(r))

\* _compare_semver is negative. No pre-release is None, after every pre-release.
OlderVersion(l, r) ==
    LET core == FirstDifference(Core(l), Core(r))
        pre == FirstDifference(Pre(l), Pre(r)) IN
    IF core # 0 THEN Core(l)[core] < Core(r)[core]
    ELSE IF Pre(l) = <<>> \/ Pre(r) = <<>> THEN Pre(l) # <<>> /\ Pre(r) = <<>>
    ELSE IF pre # 0 THEN IdentifierBefore(Pre(l)[pre], Pre(r)[pre])
    ELSE Len(Pre(l)) < Len(Pre(r))

\* _restore_version_preflight; full and incremental must be of one version.
Decision(full, last, current) ==
    IF ~Parses(current) \/ ~Parses(full) \/ ~Parses(last) \/ full # last THEN "BLOCK"
    ELSE IF last = current THEN "ALLOW"
    ELSE IF OlderVersion(last, current) /\ Semver[last].major = Semver[current].major THEN "WARN"
    ELSE "BLOCK"

-----------------------------------------------------------------------------
(* The check before the start                                              *)

\* What manage.py runs under: check_deploy_security, migrate and the seeds. The
\* application itself (wsgi.py) runs under prod.py when the variable is unset.
ManageModule(module) == IF module = "unset" THEN "dev" ELSE module

\* prod.py reads the environment where the modules for development and tests have
\* values of their own: they trust no proxy, ...
ReadsEnvironment(config) == ManageModule(config.module) \in {"prod", "own"}
ProxyHeader(config) == ReadsEnvironment(config) /\ config.profile = "synology_reverse_proxy"

\* ... and their ALLOWED_HOSTS is ["*"], which does not contain 127.0.0.1
\* (_validate_healthcheck_allowed_host).
LocalhostAllowed(config) == ReadsEnvironment(config) /\ config.localhost

\* A profile, and the header it needs (_validate_proxy_ssl_header).
ProfileValid(config) ==
    \/ config.profile = "synology_reverse_proxy" /\ ProxyHeader(config)
    \/ config.profile = "django_https" /\ ~ProxyHeader(config)

\* The version of the environment is the one embedded, in a file that is complete
\* and whose build_id fits.
IdentityFits(image, info, label) == label = image /\ info = "released"

\* Mutant: a build without metadata starts with the version of the environment.
IdentityOfEnvironment(module, image, info, label) == ManageModule(module) = "prod" => Parses(label)

\* _validate_build_identity asks for it only where the name of the settings module
\* ends with .prod.
IdentityValid(module, image, info, label) ==
    ManageModule(module) = "prod" => IdentityFits(image, info, label)

\* validate_deploy_security: every error, of any part, stops the container.
DeploySecure(image, info, label, config) ==
    /\ ProfileValid(config) /\ LocalhostAllowed(config) /\ config.rest
    /\ IdentityValid(config.module, image, info, label)

\* _runtime_build_identity: APP_VERSION, or what the image embeds.
RuntimeLabel(image, info, label) ==
    IF label # NoVersion \/ info = "missing" THEN label ELSE image

-----------------------------------------------------------------------------

\* migrate applies what the image has and the database has not; it takes nothing
\* back.
Migrated(db, image) == IF Rank[db] < Rank[image] THEN image ELSE db

\* entrypoint.sh ends at the check, or migrates and serves. dev.py has a database
\* of its own: under it the site's would not be migrated.
StartContainer(image, info, label, config) ==
    /\ running = Down
    /\ DeploySecure(image, info, label, config)
    /\ running' = [image |-> image, label |-> RuntimeLabel(image, info, label)]
    /\ schema' = IF ManageModule(config.module) = "dev" THEN schema ELSE Migrated(schema, image)
    /\ disguised' = (disguised \/ (config.module = "own" /\ ~IdentityFits(image, info, label)))
    /\ rolledBack' = (rolledBack \/ Rank[image] < Rank[schema])
    /\ UNCHANGED <<siteBackups, refusedOwn>>

StopContainer ==
    /\ running # Down
    /\ running' = Down
    /\ UNCHANGED <<schema, siteBackups, rolledBack, refusedOwn, disguised>>

\* _runtime_build_identity goes into the manifest.
MakeBackup ==
    /\ running # Down /\ Cardinality(siteBackups) < MaxSiteBackups
    /\ siteBackups' = siteBackups \cup {[label |-> running.label, schema |-> schema, from |-> running.image]}
    /\ UNCHANGED <<running, schema, rolledBack, refusedOwn, disguised>>

\* The backup directory is copied from a site that was never rolled back, made
\* by a version of its own, or by one from before there were labels.
CopyBackup(backup) ==
    /\ Cardinality(siteBackups) < MaxSiteBackups
    /\ siteBackups' = siteBackups \cup {[label |-> backup.label, schema |-> backup.schema, from |-> NoVersion]}
    /\ UNCHANGED <<running, schema, rolledBack, refusedOwn, disguised>>

\* The dump of the last backup replaces the database and is migrated.
RestoreBackup(full, last) ==
    /\ running # Down
    /\ LET decision == Decision(full.label, last.label, running.label) IN
       /\ schema' = IF decision = "BLOCK" THEN schema ELSE Migrated(last.schema, running.image)
       /\ refusedOwn' = (refusedOwn \/ (decision = "BLOCK" /\ {full.from, last.from} = {running.image}))
    /\ UNCHANGED <<running, siteBackups, rolledBack, disguised>>

DeployNext ==
    \/ \E image \in AppVersions, info \in BuildInfos, label \in Labels, config \in Configs :
           StartContainer(image, info, label, config)
    \/ StopContainer \/ MakeBackup
    \/ \E backup \in Foreign : CopyBackup(backup)
    \/ \E full, last \in siteBackups : RestoreBackup(full, last)

DeploymentSpec == DeployInit /\ [][DeployNext]_deployVars

-----------------------------------------------------------------------------

\* Types.
DeploymentTypeOK ==
    /\ running # Down => running \in [image : AppVersions, label : Labels]
    /\ schema \in AppVersions
    /\ \A b \in siteBackups : b.schema \in AppVersions /\ b.from \in AppVersions \cup {NoVersion}

\* No start and no restore leaves an application with a database that is newer than
\* itself, unless the site was rolled back to an older image, from when on the label
\* of a backup says less than what the database holds, or an image ran disguised.
SchemaFollowsCode == running # Down /\ ~rolledBack /\ ~disguised => Rank[schema] <= Rank[running.image]

\* What a version backed up, the same version restores, unless an image ran
\* disguised: whatever the variable that names the settings module holds, or when it
\* is unset, the check lets none of the settings of the repository serve an image
\* under a label that the preflight refuses.
OwnBackupsAllowed == refusedOwn => disguised

\* A site that was let start restores what it backed up, and nothing newer than its
\* code.
DeployedSiteRestores == SchemaFollowsCode /\ OwnBackupsAllowed
=============================================================================
