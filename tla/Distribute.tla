----------------------------- MODULE Distribute -----------------------------
(***************************************************************************)
(* What publish distributes beside images and releases: the archives of a  *)
(* build as a generic package (an immutable version per commit, a rolling  *)
(* alias, retention) and a static site on Cloudflare or GitHub Pages.      *)
(* Each commit of the branch has a pipeline; its jobs may fail, be killed  *)
(* and be retried, and publish jobs of two commits may overlap (only       *)
(* perform is serialized by the rendered pipeline).                        *)
(*                                                                         *)
(* A file's content is the build that made it, a pair <<commit, attempt>>; *)
(* the version a commit resolves to is the commit.                         *)
(***************************************************************************)
EXTENDS Naturals, Sequences, FiniteSets, SequencesExt

CONSTANTS
    DsCommits,    \* commits pushed to the branch, 1 .. DsCommits
    DsTries,      \* builds of one commit, and attempts of its publish job
    DsFiles,      \* the archives, in the manifest's order
    DsSetOf,      \* the archive set of each
    DsPages,      \* the site's files, in walk order
    DsStable,     \* those whose content no commit changes
    DsWeight,     \* the size of each
    DsMaxAsset, DsMaxBucket, DsMaxCount,   \* Cloudflare's upload limits
    DsFaults,     \* bound on calls that fail and jobs that are killed
    DsConfigs     \* [forge, set, keep, pages, from, exclude, owned]

ASSUME DsBoundsAssumption == {DsCommits, DsTries, DsFaults, DsMaxAsset, DsMaxBucket, DsMaxCount} \subseteq Nat
ASSUME DsLimitsAssumption == DsMaxAsset <= DsMaxBucket /\ DsMaxCount > 0

VARIABLES
    dsCfg,                   \* the repository's package and pages targets
    dsHead,                  \* the branch's newest commit
    dsWs,                    \* what perform left in each pipeline's workspace
    dsAt, dsOut, dsTries,    \* each pipeline's publish job: where, result, attempts
    dsFresh,                 \* its memoized answer on being the branch's head
    dsTodo,                  \* what its current loop has left
    dsPkg, dsOrder,          \* the package: version -> file -> content; versions by age
    dsStore, dsSite, dsProject,   \* Cloudflare: stored hashes, live manifest, project
    dsGh,                    \* the gh-pages branch
    dsEver, dsSaid,          \* builds that were live; builds reported deployed
    dsSpoilt, dsTorn,        \* contents no manifest vouches for; versions cut short or deleted
                             \* while they were filled
    dsAsked,                 \* where each job's commit was when it asked for the head
    dsCrossed,               \* jobs into whose current loop another one wrote
    dsReached,               \* the newest commit the alias has held
    dsFaults
dsVars == <<dsCfg, dsHead, dsWs, dsAt, dsOut, dsTries, dsFresh, dsTodo, dsPkg, dsOrder, dsStore, dsSite,
            dsProject, dsGh, dsEver, dsSaid, dsSpoilt, dsTorn, dsAsked, dsCrossed, dsReached, dsFaults>>
dsJob == <<dsAt, dsOut, dsTodo>>
dsHosts == <<dsStore, dsSite, dsProject, dsGh, dsEver, dsSaid>>
dsPast == <<dsTorn, dsCrossed, dsReached>>

Commit == 1 .. DsCommits
NoBuild == <<0, 0>>
Build == Commit \X (1 .. DsTries)
DsAlias == 0
NoWs == [build |-> NoBuild, outs |-> "absent", res |-> "absent", ok |-> {}]
DsArtifacts == Range(DsFiles) \cup {"bin"}
SiteSet == "site"        \* the archive the pages target's build is packed in
NoPackage == [f \in Range(DsFiles) |-> NoBuild]
NoSite == [p \in Range(DsPages) |-> NoBuild]

DsFrom(at) ==
    /\ dsHead = 1
    /\ dsWs = [c \in Commit |-> NoWs] /\ dsAt = [c \in Commit |-> at]
    /\ dsOut = [c \in Commit |-> "none"] /\ dsTries = [c \in Commit |-> 0]
    /\ dsFresh = [c \in Commit |-> "unknown"] /\ dsTodo = [c \in Commit |-> <<>>]
    /\ dsPkg = [v \in 0 .. DsCommits |-> NoPackage] /\ dsOrder = <<>>
    /\ dsStore = {} /\ dsSite = NoSite /\ dsProject = IF dsCfg.owned THEN "theirs" ELSE "none"
    /\ dsGh = <<NoBuild, 0>> /\ dsEver = {} /\ dsSaid = {}
    /\ dsSpoilt = {} /\ dsTorn = {} /\ dsCrossed = {} /\ dsReached = 0
    /\ dsAsked = [c \in Commit |-> "never"] /\ dsFaults = 0
DsInit == dsCfg \in DsConfigs /\ DsFrom("new")

\* One of the calls this model makes fail, of at most DsFaults.
DsFault == dsFaults < DsFaults /\ dsFaults' = dsFaults + 1
NoFault == UNCHANGED dsFaults

---------------------------------------------------------------------------
(* The pipelines around publish. *)

DsPush ==
    /\ dsHead < DsCommits /\ dsHead' = dsHead + 1 /\ dsAt[1] # "off"
    /\ UNCHANGED <<dsCfg, dsWs, dsJob, dsTries, dsFresh, dsPkg, dsOrder, dsHosts, dsSpoilt, dsPast, dsAsked, dsFaults>>

Contents(w) == {<<w.build, f>> : f \in Range(DsFiles)}

\* Perform builds; its manifests may be lost or damaged on the way to publish
\* and some archives may have failed.  Also the rerun of a whole pipeline.
Perform(c) ==
    /\ c <= dsHead /\ dsAt[c] \in {"new", "done"} /\ dsWs[c].build[2] < DsTries
    /\ \E outs, res \in {"good", "absent", "bad"}, ok \in {DsArtifacts} \cup {DsArtifacts \ {a} : a \in DsArtifacts} :
         LET w == [build |-> <<c, dsWs[c].build[2] + 1>>, outs |-> outs, res |-> res, ok |-> ok]
             fine == outs = "good" /\ res = "good"
         IN  /\ fine \/ (ok = DsArtifacts /\ "good" \in {outs, res})     \* one thing goes wrong at a time
             /\ IF fine /\ ok = DsArtifacts THEN NoFault ELSE DsFault
             /\ dsWs' = [dsWs EXCEPT ![c] = w]
             /\ dsSpoilt' = dsSpoilt \cup {x \in Contents(w) : ~fine \/ x[2] \notin ok}
    /\ dsAt' = [dsAt EXCEPT ![c] = "built"] /\ dsTries' = [dsTries EXCEPT ![c] = 0]
    /\ UNCHANGED <<dsCfg, dsHead, dsOut, dsTodo, dsFresh, dsPkg, dsOrder, dsHosts, dsPast, dsAsked>>

\* A missing file is its own error; one that does not parse, whose artifacts
\* or outcomes are not well formed, or that does not match its embedded
\* checksum is another.  The outputs are read first.
ManifestError == [good |-> "ok", absent |-> "notfound", bad |-> "invalid"]
ReadOutputsManifest(w) == ManifestError[w.outs]
ReadResultsManifest(w) == ManifestError[w.res]
ReadManifests(w) == IF ReadOutputsManifest(w) # "ok" THEN ReadOutputsManifest(w) ELSE ReadResultsManifest(w)

\* BuildArchiveExecutionViews and SuccessfulArchiveAssets: in the manifest's
\* order, the archives whose outcome was success.
BuildArchiveExecutionViews(w) == [i \in 1 .. Len(DsFiles) |-> [name |-> DsFiles[i], ok |-> DsFiles[i] \in w.ok]]
SuccessfulArchiveAssets(w) ==
    LET good == SelectSeq(BuildArchiveExecutionViews(w), LAMBDA v : v.ok) IN [i \in 1 .. Len(good) |-> good[i].name]

AssetsForArchiveSet(assets, set) == SelectSeq(assets, LAMBDA f : DsSetOf[f] = set)
TargetAssets(c) == AssetsForArchiveSet(SuccessfulArchiveAssets(dsWs[c]), dsCfg.set)

Publishing(c) == dsAt[c] \notin {"off", "new", "built", "done"}
Goto(c, at, todo) == dsAt' = [dsAt EXCEPT ![c] = at] /\ dsTodo' = [dsTodo EXCEPT ![c] = todo] /\ UNCHANGED dsOut
End(c, out) ==
    dsAt' = [dsAt EXCEPT ![c] = "done"] /\ dsTodo' = [dsTodo EXCEPT ![c] = <<>>] /\ dsOut' = [dsOut EXCEPT ![c] = out]
Fail(c) == End(c, "failed")

\* A fresh process of the publish job asks for the branch's head once and
\* remembers the answer; a failed lookup counts as fresh.
IsBranchHeadFreshBlind(c) == dsFresh' = [dsFresh EXCEPT ![c] = "yes"] /\ UNCHANGED dsFaults
DsBranchHeadFresh(c) ==
    \/ dsFresh' = [dsFresh EXCEPT ![c] = IF c = dsHead THEN "yes" ELSE "no"] /\ NoFault
    \/ dsFresh' = [dsFresh EXCEPT ![c] = "yes"] /\ DsFault

DsStartPublish(c) ==
    /\ dsAt[c] = "built" /\ dsTries[c] < DsTries
    /\ dsTries' = [dsTries EXCEPT ![c] = @ + 1]
    /\ DsBranchHeadFresh(c)
    /\ dsAsked' = [dsAsked EXCEPT ![c] = IF dsFaults' # dsFaults THEN "failed" ELSE IF c = dsHead THEN "head" ELSE "behind"]
    /\ Goto(c, IF dsCfg.set = "none" THEN "pages" ELSE "package", <<>>)
    /\ UNCHANGED <<dsCfg, dsHead, dsWs, dsPkg, dsOrder, dsHosts, dsSpoilt, dsPast>>

Exists(v) == dsPkg[v] # NoPackage
\* An upload that ends early leaves part of a version, or nothing.
CutShort(c) == {v \in {c} : Exists(v)}

\* The job is killed (a timeout, a lost runner) wherever it is.
Kill(c) ==
    /\ Publishing(c) /\ DsFault /\ Fail(c)
    /\ dsTorn' = IF dsAt[c] = "files" THEN dsTorn \cup CutShort(c) ELSE dsTorn
    /\ UNCHANGED <<dsCfg, dsHead, dsWs, dsTries, dsFresh, dsPkg, dsOrder, dsHosts, dsSpoilt, dsAsked, dsCrossed, dsReached>>

Retry(c) ==
    /\ dsAt[c] = "done" /\ dsOut[c] = "failed" /\ dsTries[c] < DsTries
    /\ Goto(c, "built", <<>>)
    /\ UNCHANGED <<dsCfg, dsHead, dsWs, dsTries, dsFresh, dsPkg, dsOrder, dsHosts, dsSpoilt, dsPast, dsAsked, dsFaults>>

---------------------------------------------------------------------------
(* packagePublishRunner *)

ToPages(c) == Goto(c, "pages", <<>>)
PackageOnly == UNCHANGED <<dsCfg, dsHead, dsWs, dsTries, dsFresh, dsHosts, dsSpoilt, dsAsked>>

\* Whom a job's write disturbs: another that refills the alias, one that works off
\* its listing, or one that fills a version.
Crossed(c, at) == {d \in Commit \ {c} : dsAt[d] = at}

\* The guards in front of publishPackageTarget.
PackageStart(c) ==
    /\ dsAt[c] = "package"
    /\ LET got == ReadManifests(dsWs[c]) IN
       IF dsFresh[c] = "no" \/ got = "notfound" \/ (got = "ok" /\ SuccessfulArchiveAssets(dsWs[c]) = <<>>) THEN ToPages(c)
       ELSE IF got = "invalid" THEN Fail(c)
       ELSE IF TargetAssets(c) = <<>> THEN ToPages(c)
       ELSE Goto(c, "list", <<>>)
    /\ PackageOnly /\ UNCHANGED <<dsPkg, dsOrder, dsPast>> /\ NoFault

\* An existing immutable version is left alone; a forge without a generic
\* package registry refuses the listing.
ListVersions(c) ==
    /\ dsAt[c] = "list"
    /\ IF dsCfg.forge # "gitlab" THEN NoFault /\ Fail(c)
       ELSE \/ DsFault /\ Fail(c)
            \/ /\ NoFault
               /\ IF Exists(c) THEN Goto(c, "alias", <<>>) ELSE Goto(c, "files", TargetAssets(c))
    /\ dsTorn' = IF Exists(c) THEN dsTorn ELSE dsTorn \ {c}
    /\ PackageOnly /\ UNCHANGED <<dsPkg, dsOrder, dsCrossed, dsReached>>

\* GitLab's PUT: the version exists from its first file on.
Upload(v, c, f) ==
    /\ dsPkg' = [dsPkg EXCEPT ![v][f] = dsWs[c].build]
    /\ dsOrder' = IF Exists(v) THEN dsOrder ELSE Append(dsOrder, v)

PublishFile(c) ==
    /\ dsAt[c] = "files"
    /\ \/ DsFault /\ Fail(c) /\ dsTorn' = dsTorn \cup CutShort(c) /\ UNCHANGED <<dsPkg, dsOrder, dsCrossed>>
       \/ /\ NoFault /\ Upload(c, c, Head(dsTodo[c])) /\ UNCHANGED dsTorn
          /\ dsCrossed' = dsCrossed \cup Crossed(c, "prune")
          /\ Goto(c, IF Len(dsTodo[c]) = 1 THEN "alias" ELSE "files", Tail(dsTodo[c]))
    /\ PackageOnly /\ UNCHANGED dsReached

\* Deleting what is not there succeeds.
DeletePackageVersion(v) ==
    dsPkg' = [dsPkg EXCEPT ![v] = NoPackage] /\ dsOrder' = SelectSeq(dsOrder, LAMBDA x : x # v)

DeleteAlias(c) ==
    /\ dsAt[c] = "alias"
    /\ \/ DsFault /\ Fail(c) /\ UNCHANGED <<dsPkg, dsOrder, dsCrossed>>
       \/ /\ NoFault /\ DeletePackageVersion(DsAlias) /\ Goto(c, "refresh", TargetAssets(c))
          /\ dsCrossed' = (dsCrossed \ {c}) \cup Crossed(c, "refresh")
    /\ PackageOnly /\ UNCHANGED <<dsTorn, dsReached>>

RefreshAlias(c) ==
    /\ dsAt[c] = "refresh"
    /\ \/ DsFault /\ Fail(c) /\ UNCHANGED <<dsPkg, dsOrder, dsCrossed, dsReached>>
       \/ /\ NoFault /\ Upload(DsAlias, c, Head(dsTodo[c]))
          /\ dsCrossed' = dsCrossed \cup Crossed(c, "refresh")
          /\ dsReached' = IF c > dsReached THEN c ELSE dsReached
          /\ Goto(c, IF Len(dsTodo[c]) > 1 THEN "refresh" ELSE IF dsCfg.keep > 0 THEN "retain" ELSE "pages", Tail(dsTodo[c]))
    /\ PackageOnly /\ UNCHANGED dsTorn

\* The immutable family by age and what keep_last leaves of it, newest first
\* (the alias matches no template of the family).
Doomed(keep) ==
    LET family == SelectSeq(Reverse(dsOrder), LAMBDA v : v # DsAlias)
    IN  IF keep < Len(family) THEN SubSeq(family, keep + 1, Len(family)) ELSE <<>>

Retain(c) ==
    /\ dsAt[c] = "retain"
    /\ \/ DsFault /\ Fail(c)
       \/ /\ NoFault
          /\ IF Doomed(dsCfg.keep) = <<>> THEN ToPages(c) ELSE Goto(c, "prune", Doomed(dsCfg.keep))
    /\ dsCrossed' = dsCrossed \ {c}
    /\ PackageOnly /\ UNCHANGED <<dsPkg, dsOrder, dsTorn, dsReached>>

\* A delete that fails is noted; the others are still tried.
Prune(c) ==
    /\ dsAt[c] = "prune"
    /\ \/ DsFault /\ UNCHANGED <<dsPkg, dsOrder, dsTorn, dsCrossed>>
       \/ LET v == Head(dsTodo[c]) IN
          /\ NoFault /\ DeletePackageVersion(v) /\ dsTorn' = (dsTorn \ {v}) \cup ({v} \cap Crossed(c, "files"))
          /\ dsCrossed' = dsCrossed \cup Crossed(c, "prune")
    /\ Goto(c, IF Len(dsTodo[c]) > 1 THEN "prune" ELSE "pages", Tail(dsTodo[c]))
    /\ PackageOnly /\ UNCHANGED dsReached

---------------------------------------------------------------------------
(* pagesPublishRunner *)

PagesOnly == UNCHANGED <<dsCfg, dsHead, dsWs, dsTries, dsFresh, dsPkg, dsOrder, dsSpoilt, dsPast, dsAsked>>

BuildBinaryExecutionViews(w) == {[name |-> "bin", ok |-> "bin" \in w.ok]}

\* resolveBuildTransport: the build succeeded and an archive was made of it.
ResolveBuildTransport(w) ==
    /\ ReadManifests(w) = "ok"
    /\ \E v \in BuildBinaryExecutionViews(w) : v.ok
    /\ \E f \in Range(SuccessfulArchiveAssets(w)) : DsSetOf[f] = SiteSet

\* FilterWorkspace: what the target's include and exclude leave.
FilterWorkspace == SelectSeq(DsPages, LAMBDA p : p \notin dsCfg.exclude)

PagesStart(c) ==
    /\ dsAt[c] = "pages"
    /\ IF dsCfg.pages = "none" \/ dsFresh[c] = "no" THEN End(c, "done")
       ELSE IF dsCfg.from = "build" /\ ~ResolveBuildTransport(dsWs[c]) THEN Fail(c)
       ELSE Goto(c, IF dsCfg.pages = "github" THEN "push" ELSE "collect", <<>>)
    /\ PagesOnly /\ UNCHANGED dsHosts /\ NoFault

\* What a deployment of pipeline c serves: the hash of a file stands for its
\* content.
DsHash(p, b) == <<p, IF p \in DsStable THEN NoBuild ELSE b>>
Hashes(c) == {DsHash(p, dsWs[c].build) : p \in Range(FilterWorkspace)}

\* collectAssets and ensureProject: the name is ours, free, or somebody's.
EnsureProject(c) ==
    /\ dsAt[c] = "collect"
    /\ IF FilterWorkspace = <<>> \/ (\E p \in Range(FilterWorkspace) : DsWeight[p] > DsMaxAsset) \/ dsProject = "theirs"
       THEN NoFault /\ Fail(c) /\ UNCHANGED dsProject
       ELSE \/ DsFault /\ Fail(c) /\ UNCHANGED dsProject
            \/ NoFault /\ dsProject' = "ours" /\ Goto(c, "missing", <<>>)
    /\ PagesOnly /\ UNCHANGED <<dsStore, dsSite, dsGh, dsEver, dsSaid>>

\* bucketize: a bucket takes assets until the next one would not fit.
Weight(bucket) == FoldLeft(LAMBDA n, p : n + DsWeight[p], 0, bucket)
Fits(bucket, p) == bucket = <<>> \/ (Len(bucket) < DsMaxCount /\ Weight(bucket) + DsWeight[p] <= DsMaxBucket)
Bucketize(pending) ==
    FoldLeft(LAMBDA bs, p : IF bs # <<>> /\ Fits(Last(bs), p) THEN Front(bs) \o <<Append(Last(bs), p)>>
                            ELSE Append(bs, <<p>>), <<>>, pending)

\* checkMissing, then the buckets of what the host does not have.
CheckMissing(c) ==
    /\ dsAt[c] = "missing"
    /\ \/ DsFault /\ Fail(c)
       \/ /\ NoFault
          /\ LET pending == SelectSeq(FilterWorkspace, LAMBDA p : DsHash(p, dsWs[c].build) \notin dsStore)
             IN  Goto(c, IF pending = <<>> THEN "deploy" ELSE "upload", Bucketize(pending))
    /\ PagesOnly /\ UNCHANGED dsHosts

DsUploadAssets(c) ==
    /\ dsAt[c] = "upload"
    /\ \/ DsFault /\ Fail(c) /\ UNCHANGED dsStore
       \/ /\ NoFault /\ dsStore' = dsStore \cup {DsHash(p, dsWs[c].build) : p \in Range(Head(dsTodo[c]))}
          /\ Goto(c, IF Len(dsTodo[c]) = 1 THEN "deploy" ELSE "upload", Tail(dsTodo[c]))
    /\ PagesOnly /\ UNCHANGED <<dsSite, dsProject, dsGh, dsEver, dsSaid>>

\* One deployment of one attempt of the job.
DsDeployment(c) == <<dsWs[c].build, dsTries[c]>>

\* createDeployment; attaching domains afterwards cannot fail the run.
CreateDeployment(c) ==
    /\ dsAt[c] = "deploy"
    /\ \/ DsFault /\ Fail(c) /\ UNCHANGED <<dsSite, dsEver, dsSaid>>
       \/ /\ NoFault
          /\ dsSite' = [p \in Range(DsPages) |-> IF p \in Range(FilterWorkspace) THEN dsWs[c].build ELSE NoBuild]
          /\ dsEver' = dsEver \cup {DsDeployment(c)} /\ dsSaid' = dsSaid \cup {DsDeployment(c)}
          /\ End(c, "done")
    /\ PagesOnly /\ UNCHANGED <<dsStore, dsProject, dsGh>>

\* Prepare and Deploy make a new commit each time; the forced push to gh-pages may fail, or report nothing and not land.
GithubPush(c) ==
    /\ dsAt[c] = "push"
    /\ \/ DsFault /\ Fail(c) /\ UNCHANGED <<dsGh, dsEver>>
       \/ DsFault /\ Goto(c, "verify", <<>>) /\ UNCHANGED <<dsGh, dsEver>>
       \/ NoFault /\ Goto(c, "verify", <<>>) /\ dsGh' = DsDeployment(c) /\ dsEver' = dsEver \cup {dsGh'}
    /\ PagesOnly /\ UNCHANGED <<dsStore, dsSite, dsProject, dsSaid>>

\* verifyGHPagesRef; enabling Pages afterwards only adds a note.
VerifyGHPagesRef(c) ==
    /\ dsAt[c] = "verify"
    /\ \/ DsFault /\ Fail(c) /\ UNCHANGED dsSaid
       \/ NoFault /\ dsGh # DsDeployment(c) /\ Fail(c) /\ UNCHANGED dsSaid
       \/ NoFault /\ dsGh = DsDeployment(c) /\ End(c, "done") /\ dsSaid' = dsSaid \cup {dsGh}
    /\ PagesOnly /\ UNCHANGED <<dsStore, dsSite, dsProject, dsGh, dsEver>>

DsNext ==
    \/ DsPush
    \/ \E c \in Commit :
         \/ Perform(c) \/ DsStartPublish(c) \/ Kill(c) \/ Retry(c)
         \/ PackageStart(c) \/ ListVersions(c) \/ PublishFile(c) \/ DeleteAlias(c) \/ RefreshAlias(c) \/ Retain(c) \/ Prune(c)
         \/ PagesStart(c) \/ EnsureProject(c) \/ CheckMissing(c) \/ DsUploadAssets(c) \/ CreateDeployment(c)
         \/ GithubPush(c) \/ VerifyGHPagesRef(c)
DsSpec == DsInit /\ [][DsNext]_dsVars

---------------------------------------------------------------------------
(* Properties *)

\* Every variable keeps its type; a package version exists exactly while the
\* registry lists it.
DsTypeOK ==
    /\ dsCfg \in DsConfigs /\ dsHead \in Commit /\ dsReached \in 0 .. DsCommits /\ dsFaults \in 0 .. DsFaults
    /\ \A c \in Commit : dsWs[c].build \in Build \cup {NoBuild} /\ dsWs[c].ok \subseteq DsArtifacts
    /\ dsAt \in [Commit -> {"off", "new", "built", "done", "package", "list", "files", "alias", "refresh", "retain", "prune",
                            "pages", "collect", "missing", "upload", "deploy", "push", "verify"}]
    /\ dsOut \in [Commit -> {"none", "failed", "done"}] /\ dsFresh \in [Commit -> {"unknown", "yes", "no"}]
    /\ dsPkg \in [0 .. DsCommits -> [Range(DsFiles) -> Build \cup {NoBuild}]]
    /\ Range(dsOrder) = {v \in 0 .. DsCommits : Exists(v)} /\ IsInjective(dsOrder)
    /\ dsProject \in {"none", "ours", "theirs"} /\ dsGh \in (Build \cup {NoBuild}) \X (0 .. DsTries)
    /\ dsTorn \subseteq Commit /\ dsCrossed \subseteq Commit /\ dsAsked \in [Commit -> {"never", "head", "behind", "failed"}]

\* A published file of an immutable version is never replaced, by a retry,
\* by a rerun of its pipeline with other bytes or by another commit's run; it
\* only goes with its whole version (docs/config/package-distribution.md,
\* package_publish.go publishPackageTarget).
ImmutableStays ==
    [][\A v \in Commit : dsPkg'[v] # NoPackage =>
         \A f \in Range(DsFiles) : dsPkg[v][f] # NoBuild => dsPkg'[v][f] = dsPkg[v][f]]_dsVars

\* An immutable version holds one build's archives, whatever was cut short or
\* rerun; and when the package part of a job ends well, it holds every good one of
\* them.  Except a version an earlier attempt was cut short in: every later run
\* takes it for published (package_publish.go:200-206), so it stays partial until
\* retention takes it.  And except one another job's retention deleted while this
\* job was filling it: the rest of the uploads make part of it again.
VersionWhole ==
    [][/\ \A c \in Commit, f, g \in Range(DsFiles) :
            dsPkg'[c][f] # NoBuild /\ dsPkg'[c][g] # NoBuild => dsPkg'[c][f] = dsPkg'[c][g]
       /\ \A c \in Commit :
            dsAt[c] \in {"files", "refresh"} /\ dsAt'[c] \in {"alias", "retain", "pages"} /\ c \notin dsTorn =>
                \A f, g \in Range(DsFiles) :
                    LET b == dsPkg'[c][g] IN
                    b # NoBuild /\ DsSetOf[f] = dsCfg.set /\ <<b, f>> \notin dsSpoilt => dsPkg'[c][f] = b]_dsVars

\* The alias a job refreshed holds that job's archives and nothing of another
\* build, unless another job deleted or filled it between this job's delete and
\* its last upload: nothing keeps the publish jobs of two pipelines apart.
AliasExact ==
    [][\A c \in Commit \ dsCrossed : dsAt[c] = "refresh" /\ dsAt'[c] \in {"retain", "pages"} =>
         \A f \in Range(DsFiles) :
             dsPkg'[DsAlias][f] = IF f \in Range(TargetAssets(c)) THEN dsWs[c].build ELSE NoBuild]_dsVars

\* Nothing is distributed that no manifest vouches for: a failed archive, one
\* of a damaged manifest, one of another set (artifact SuccessfulArchiveAssets,
\* AssetsForArchiveSet, ReadResultsManifest).
OnlyVouched ==
    \A v \in 0 .. DsCommits, f \in Range(DsFiles) :
        dsPkg[v][f] # NoBuild => DsSetOf[f] = dsCfg.set /\ <<dsPkg[v][f], f>> \notin dsSpoilt

\* Retention never deletes the alias, and deletes a version only when keep newer
\* ones exist, also after deletes that failed and attempts that were killed, unless
\* another job changed the package since this one listed it (prunePackageTarget).
RetentionKeeps ==
    [][\A c \in Commit : dsAt[c] = "prune" /\ dsTodo'[c] # dsTodo[c] =>
         \A v \in Range(dsOrder) \ Range(dsOrder') :
             v # DsAlias /\
             (c \notin dsCrossed =>
                Cardinality({i \in 1 .. Len(dsOrder) : dsOrder[i] # DsAlias /\ \E j \in 1 .. i - 1 : dsOrder[j] = v}) >= dsCfg.keep)]_dsVars

\* Every file of the live site is stored by the host: a deployment is made
\* only when all its uploads were accepted (cloudflare_api.go deploy).
SiteServed == \A p \in Range(DsPages) : dsSite[p] # NoBuild => DsHash(p, dsSite[p]) \in dsStore

\* No upload exceeds the host's limits (cloudflare_api.go bucketize).
BucketsFit ==
    \A c \in Commit : dsAt[c] = "upload" =>
        \A i \in 1 .. Len(dsTodo[c]) : Len(dsTodo[c][i]) <= DsMaxCount /\ Weight(dsTodo[c][i]) <= DsMaxBucket

\* A site reported as deployed was live (pages/github.go verifyGHPagesRef:
\* a push may report nothing and not land).
DeployedWasLive == dsSaid \subseteq dsEver

\* Neither the alias nor the site goes back to an older commit, whatever is
\* retried or rerun, except by a job whose question for the head failed, or was
\* answered before the newer commit was pushed: the answer holds for the whole job,
\* so of two that overlap the older may have the last word (ci/handoff.go
\* IsBranchHeadFresh; docs/config/package-distribution.md:62 promises the newest).
NeverBackwards ==
    [][\A c \in Commit : dsAsked[c] \in {"never", "behind"} =>
         /\ dsGh' # dsGh => dsGh'[1][1] # c \/ c >= dsGh[1][1]
         /\ \A p \in Range(DsPages) : dsSite'[p] # dsSite[p] => dsSite'[p][1] # c \/ c >= dsSite[p][1]
         /\ \A f \in Range(DsFiles) :
               dsPkg'[DsAlias][f] # dsPkg[DsAlias][f] => dsPkg'[DsAlias][f][1] # c \/ c >= dsReached]_dsVars

\* What the publication of packages and pages leaves true: only what the
\* build vouched for goes out, a site serves what it deployed, uploads fit
\* their limits, a published version never changes or mixes builds and is whole
\* unless an attempt was cut short in it, the alias is exact and retention keeps
\* what it must unless another job writes between, and nothing goes back but by a
\* job that asked for the head too early or in vain (cli/cmd/package_publish.go,
\* cli/cmd/pages_publish.go).
DistributeKeeps ==
  /\ [](DsTypeOK /\ OnlyVouched /\ SiteServed /\ BucketsFit /\ DeployedWasLive)
  /\ ImmutableStays
  /\ VersionWhole
  /\ AliasExact
  /\ RetentionKeeps
  /\ NeverBackwards
=============================================================================
