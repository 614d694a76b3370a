------------------------------- MODULE Release -------------------------------
(***************************************************************************)
(* The release subsystem of the publish phase (cli/cmd/ci_runners.go       *)
(* releaseRunner, cli/cmd/release_create.go RunReleaseCreate) against one  *)
(* forge.  Pipelines of several commits of one branch, re-run in any       *)
(* later, publish each its own release, move the rolling alias of the      *)
(* channel and prune old releases.  A commit's number is its version.      *)
(***************************************************************************)
EXTENDS Naturals, FiniteSets

CONSTANTS
  RelJobs,         \* publish jobs; each runs once
  RelCommits,      \* number of commits the branch may get
  RelMaxFaults     \* forge calls, lookups and jobs that fail

ASSUME ReleaseAssumption ==
  RelJobs # {} /\ RelCommits \in Nat \ {0} /\ RelMaxFaults \in Nat

VARIABLES
  relCfg,     \* the configuration: forge, kind of target, run_from, keep_last
  branch,     \* head of the branch: the number of its newest commit
  rel,        \* releases at the forge, one per commit: is it there, a draft, with assets
  later,      \* per commit with a release: the releases that were created after it and exist
  tagged,     \* commits whose own tag exists
  alias,      \* the release at the rolling alias
  aliasTag,   \* the commit the alias's git tag points at, 0 when there is none
  jpc, jc,    \* per job: label, commit
  fresh,      \* IsBranchHeadFresh memoized for the job, or "unknown"
  doomed,     \* per job: releases its retention pass decided to delete
  untag,      \* per job: the commit whose release it just deleted and whose tag goes next, or 0
  partial,    \* jobs that reported a failed upload, link or tag
  record,     \* per job: what the ledger says of the release subsystem
  past,       \* jobs that re-release an old tag by hand (pastTag)
  authored,   \* commits with a release in the second repository of the target
  wasHead,    \* ghost: jobs whose commit was the branch's head while they ran
  top,        \* ghost: the newest version the alias's release ever had
  raced,      \* ghost: two jobs were at the alias at the same time
  revived,    \* ghost: a release that a job is about to delete, or to untag, was created again
  relFaults

forgeState == <<rel, later, tagged, alias, aliasTag, authored>>
jobState == <<jpc, jc, fresh, doomed, untag, partial, record, past>>
relGhosts == <<wasHead, top, raced, revived>>
releaseVars == <<relCfg, branch, forgeState, jobState, relGhosts, relFaults>>

RelCommitSet == 1..RelCommits
NoRelease == [here |-> FALSE, draft |-> FALSE, asset |-> FALSE]
NoAlias == [ver |-> 0, draft |-> FALSE, asset |-> 0]

AtAlias == {"alias", "alias delete", "alias again", "hold", "refresh", "recreate", "attach"}
JobDone == {"idle", "done", "dead"}

RelConfigs ==
  [forge : {"gitlab", "github"}, channel : BOOLEAN,
   runFrom : {"matched", "read-only", "exit"}, eligible : BOOLEAN, keep : 1..RelCommits]

-----------------------------------------------------------------------------
JobGoto(j, l) ==
  /\ jpc' = [jpc EXCEPT ![j] = l]
  /\ raced' = (raced \/ (l \in AtAlias /\ \E k \in RelJobs \ {j} : jpc[k] \in AtAlias))

\* A forge call may fail.
Ok == relFaults' = relFaults
Fault == relFaults < RelMaxFaults /\ relFaults' = relFaults + 1

\* RecordSubsystem("release"); the release create command keeps no ledger.
RecordRelease(j, outcome) ==
  record' = IF j \in past THEN record ELSE [record EXCEPT ![j] = outcome]

ReleaseInit ==
  /\ relCfg \in RelConfigs
  /\ branch = 1
  /\ rel = [c \in RelCommitSet |-> NoRelease]
  /\ later = [c \in RelCommitSet |-> {}]
  /\ tagged = {}
  /\ alias = NoAlias
  /\ aliasTag = 0
  /\ jpc = [j \in RelJobs |-> "idle"]
  /\ jc = [j \in RelJobs |-> 1]
  /\ fresh = [j \in RelJobs |-> "unknown"]
  /\ doomed = [j \in RelJobs |-> {}]
  /\ untag = [j \in RelJobs |-> 0]
  /\ partial = {}
  /\ record = [j \in RelJobs |-> "none"]
  /\ past = {}
  /\ authored = {}
  /\ wasHead = {}
  /\ top = 0
  /\ raced = FALSE
  /\ revived = FALSE
  /\ relFaults = 0

-----------------------------------------------------------------------------
(* The branch and the forge's pipelines *)

\* Someone pushes: a new head.
PushCommit ==
  /\ branch < RelCommits
  /\ branch' = branch + 1
  /\ UNCHANGED <<relCfg, forgeState, jobState, relGhosts, relFaults>>

\* A publish job starts: of a new pipeline, of an old one re-run, of a retry.
\* The pipeline of a stable release is a tag pipeline: the tag is there.
StartPublish(j, c) ==
  /\ jpc[j] = "idle"
  /\ c <= branch
  /\ jc' = [jc EXCEPT ![j] = c]
  /\ JobGoto(j, "freshness")
  /\ tagged' = IF relCfg.channel THEN tagged ELSE tagged \cup {c}
  /\ wasHead' = IF c = branch THEN wasHead \cup {j} ELSE wasHead
  /\ UNCHANGED <<relCfg, branch, rel, later, alias, aliasTag, authored, fresh, doomed, untag, partial,
                 record, past, top, revived, relFaults>>

\* An operator releases an existing tag again with the release create command.
StartBackfill(j, c) ==
  /\ jpc[j] = "idle"
  /\ c < branch /\ c \in tagged
  /\ jc' = [jc EXCEPT ![j] = c]
  /\ past' = past \cup {j}
  /\ JobGoto(j, "detect")
  /\ UNCHANGED <<relCfg, branch, forgeState, fresh, doomed, untag, partial, record, wasHead, top, revived, relFaults>>

\* Mutant: the answer is not compared with the pipeline's commit.
IsBranchHeadFreshAlways(j) ==
  /\ jpc[j] = "freshness"
  /\ fresh' = [fresh EXCEPT ![j] = "yes"]
  /\ Ok
  /\ JobGoto(j, "gate")
  /\ UNCHANGED <<relCfg, branch, forgeState, jc, doomed, untag, partial, record, wasHead, top, revived, past>>

\* IsBranchHeadFresh: asked first by promotion, memoized for the job.  A tag is
\* always fresh, a lookup that fails lets the job go on.
IsBranchHeadFresh(j) ==
  /\ jpc[j] = "freshness"
  /\ \/ fresh' = [fresh EXCEPT ![j] = IF ~relCfg.channel \/ jc[j] = branch THEN "yes" ELSE "no"] /\ Ok
     \/ relCfg.channel /\ fresh' = [fresh EXCEPT ![j] = "yes"] /\ Fault
  /\ JobGoto(j, "gate")
  /\ UNCHANGED <<relCfg, branch, forgeState, jc, doomed, untag, partial, record, wasHead, top, revived, past>>

-----------------------------------------------------------------------------
(* releaseRunner *)

\* run_from: exit, a pipeline that is not the branch's head, or no release target
\* for its tag.
SkipRelease(j) ==
  /\ jpc[j] = "gate"
  /\ relCfg.runFrom = "exit" \/ fresh[j] = "no" \/ ~relCfg.eligible
  /\ RecordRelease(j, "skipped")
  /\ JobGoto(j, "done")
  /\ UNCHANGED <<relCfg, branch, forgeState, jc, fresh, doomed, untag, partial, wasHead, top, revived, relFaults, past>>

\* Marked failed before the work starts.
PremarkRelease(j) ==
  /\ jpc[j] = "gate"
  /\ relCfg.runFrom # "exit" /\ fresh[j] = "yes" /\ relCfg.eligible
  /\ RecordRelease(j, "failed")
  /\ JobGoto(j, "detect")
  /\ UNCHANGED <<relCfg, branch, forgeState, jc, fresh, doomed, untag, partial, wasHead, top, revived, relFaults, past>>

\* RunReleaseCreate returned an error: recorded, and the job fails.
ReleaseFails(j) ==
  /\ RecordRelease(j, "failed")
  /\ JobGoto(j, "done")

-----------------------------------------------------------------------------
(* RunReleaseCreate *)

\* A step that prepares the release and changes nothing, or fails.
Prepare(j, at, next) ==
  /\ jpc[j] = at
  /\ \/ Ok /\ JobGoto(j, next) /\ UNCHANGED record
     \/ Fault /\ ReleaseFails(j)
  /\ UNCHANGED <<relCfg, branch, forgeState, jc, fresh, doomed, untag, partial, past, wasHead, top, revived>>

\* The version, whether the tag is a past one, the security summary.
DetectRelease(j) == Prepare(j, "detect", "verify")

\* Every push that promotion recorded as a success is read back from its
\* registry; one that does not verify refuses the release.
VerifyPublished(j) == Prepare(j, "verify", "rows")

\* What the notes list, found by the artifacts' identities.
DiscoverRows(j) == Prepare(j, "rows", "assets")

\* Archives, signatures and checksums of the archive set; a manifest that is
\* there and invalid refuses the release.
CollectAssets(j) == Prepare(j, "assets", "notes")

\* Notes, release type and forge client; read-only mode ends here.
WriteNotes(j) ==
  /\ jpc[j] = "notes"
  /\ \/ /\ Ok
        /\ IF relCfg.runFrom = "read-only" /\ j \notin past
           THEN RecordRelease(j, "success") /\ JobGoto(j, "done")
           ELSE JobGoto(j, "create") /\ UNCHANGED record
     \/ Fault /\ ReleaseFails(j)
  /\ UNCHANGED <<relCfg, branch, forgeState, jc, fresh, doomed, untag, partial, past, wasHead, top, revived>>

\* POST of a release that is not there mints the tag at the commit.
CreateRelease(j) ==
  /\ jpc[j] = "create"
  /\ ~rel[jc[j]].here
  /\ \/ /\ Ok
        /\ rel' = [rel EXCEPT ![jc[j]] = [NoRelease EXCEPT !.here = TRUE]]
        /\ later' = [c \in RelCommitSet |-> IF rel[c].here THEN later[c] \cup {jc[j]} ELSE {}]
        /\ revived' = (revived \/ \E k \in RelJobs : jpc[k] # "dead" /\ jc[j] \in doomed[k] \cup {untag[k]})
        /\ tagged' = tagged \cup {jc[j]}
        /\ JobGoto(j, "upload")
        /\ UNCHANGED record
     \/ Fault /\ ReleaseFails(j) /\ UNCHANGED <<rel, later, tagged, revived>>
  /\ UNCHANGED <<relCfg, branch, alias, aliasTag, jc, fresh, doomed, untag, partial, wasHead, top, past, authored>>

\* A release that exists: GitLab's POST is refused, GitHub and Gitea update it
\* in place, beginning with draft: true.
RecreateRelease(j) ==
  /\ jpc[j] = "create"
  /\ rel[jc[j]].here
  /\ \/ relCfg.forge = "gitlab" /\ Ok /\ ReleaseFails(j) /\ UNCHANGED rel
     \/ /\ relCfg.forge = "github" /\ Ok
        /\ rel' = [rel EXCEPT ![jc[j]].draft = TRUE]
        /\ JobGoto(j, "content")
        /\ UNCHANGED record
     \/ relCfg.forge = "github" /\ Fault /\ ReleaseFails(j) /\ UNCHANGED rel
  /\ UNCHANGED <<relCfg, branch, later, tagged, alias, aliasTag, jc, fresh, doomed, untag, partial, wasHead, top, revived, past, authored>>

\* PATCH with draft: false; publishing mints the tag when it is gone.
PublishDraft(j) ==
  /\ Ok
  /\ rel' = [rel EXCEPT ![jc[j]].draft = FALSE]
  /\ tagged' = tagged \cup IF rel[jc[j]].here THEN {jc[j]} ELSE {}

\* The content PATCH publishes again; when it fails the release is restored.
Republish(j) ==
  /\ jpc[j] = "content"
  /\ \/ PublishDraft(j) /\ rel[jc[j]].here /\ JobGoto(j, "upload") /\ UNCHANGED record
     \/ ~rel[jc[j]].here /\ Ok /\ ReleaseFails(j) /\ UNCHANGED <<rel, tagged>>
     \/ rel[jc[j]].here /\ Fault /\ JobGoto(j, "restore") /\ UNCHANGED <<rel, tagged, record>>
  /\ UNCHANGED <<relCfg, branch, later, alias, aliasTag, jc, fresh, doomed, untag, partial, wasHead, top, revived, past, authored>>

\* republishWithDraftToggle's fail-safe, itself one PATCH.
RestoreVisible(j) ==
  /\ jpc[j] = "restore"
  /\ PublishDraft(j) \/ (Fault /\ UNCHANGED <<rel, tagged>>)
  /\ ReleaseFails(j)
  /\ UNCHANGED <<relCfg, branch, later, alias, aliasTag, jc, fresh, doomed, untag, partial, wasHead, top, revived, past, authored>>

\* Assets and links: each failure is a warning.  An asset that is there is
\* refused by GitHub and replaced by GitLab.
UploadAssets(j) ==
  /\ jpc[j] = "upload"
  /\ LET c == jc[j]
     IN \/ /\ Ok
           /\ rel[c].here /\ ~(relCfg.forge = "github" /\ rel[c].asset)
           /\ rel' = [rel EXCEPT ![c].asset = TRUE]
           /\ UNCHANGED partial
        \/ /\ Ok
           /\ ~rel[c].here \/ (relCfg.forge = "github" /\ rel[c].asset)
           /\ partial' = partial \cup {j}
           /\ UNCHANGED rel
        \/ Fault /\ partial' = partial \cup {j} /\ UNCHANGED rel
  /\ JobGoto(j, IF j \in past THEN "project" ELSE "alias")
  /\ UNCHANGED <<relCfg, branch, later, tagged, alias, aliasTag, jc, fresh, doomed, untag, record, wasHead, top, revived, past, authored>>

-----------------------------------------------------------------------------
(* The rolling alias *)

\* CreateTag fails when the tag exists, or when the release's tag is gone.
CanTag(j) == aliasTag = 0 /\ jc[j] \in tagged

CreateAliasTag(j) ==
  /\ jpc[j] = "alias"
  /\ \/ CanTag(j) /\ Ok /\ aliasTag' = jc[j] /\ JobGoto(j, "hold")
     \/ ~CanTag(j) /\ Ok /\ UNCHANGED aliasTag /\ JobGoto(j, "alias delete")
     \/ CanTag(j) /\ Fault /\ UNCHANGED aliasTag /\ JobGoto(j, "alias delete")
  /\ UNCHANGED <<relCfg, branch, rel, later, tagged, alias, jc, fresh, doomed, untag, partial, record, wasHead, top, revived, past, authored>>

\* On GitHub a release whose tag is deleted becomes a draft.
DeleteAliasTag(j) ==
  /\ jpc[j] = "alias delete"
  /\ \/ /\ Ok /\ aliasTag' = 0
        /\ alias' = [alias EXCEPT !.draft = relCfg.forge = "github" /\ alias.ver # 0]
     \/ Fault /\ UNCHANGED <<aliasTag, alias>>
  /\ JobGoto(j, "alias again")
  /\ UNCHANGED <<relCfg, branch, rel, later, tagged, jc, fresh, doomed, untag, partial, record, wasHead, top, revived, past, authored>>

RecreateAliasTag(j) ==
  /\ jpc[j] = "alias again"
  /\ \/ CanTag(j) /\ Ok /\ aliasTag' = jc[j] /\ JobGoto(j, "hold") /\ UNCHANGED partial
     \/ /\ IF CanTag(j) THEN Fault ELSE Ok
        /\ partial' = partial \cup {j}
        /\ JobGoto(j, "project")
        /\ UNCHANGED aliasTag
  /\ UNCHANGED <<relCfg, branch, rel, later, tagged, alias, jc, fresh, doomed, untag, record, wasHead, top, revived, past, authored>>

\* holdsFor: only a strictly newer incumbent holds the alias.
holdsFor(recorded, newVersion) == recorded > newVersion

\* The alias of a channel is a release too.  aliasHolds lists the releases and
\* reads the version in the incumbent's marker; it fails open.
AliasHolds(j) ==
  /\ jpc[j] = "hold"
  /\ \/ /\ Ok
        /\ JobGoto(j, IF ~relCfg.channel \/ holdsFor(alias.ver, jc[j])
                      THEN "project" ELSE "refresh")
     \/ relCfg.channel /\ Fault /\ JobGoto(j, "refresh")
  /\ UNCHANGED <<relCfg, branch, forgeState, jc, fresh, doomed, untag, partial, record, wasHead, top, revived, past>>

\* refreshRollingRelease: delete, create, attach.
RefreshDelete(j) ==
  /\ jpc[j] = "refresh"
  /\ \/ Ok /\ alias' = NoAlias
     \/ Fault /\ UNCHANGED alias
  /\ JobGoto(j, "recreate")
  /\ UNCHANGED <<relCfg, branch, rel, later, tagged, aliasTag, jc, fresh, doomed, untag, partial, record, wasHead, top, revived, past, authored>>

RefreshCreate(j) ==
  /\ jpc[j] = "recreate"
  /\ \/ /\ Ok
        /\ alias.ver = 0 \/ relCfg.forge = "github"
        /\ alias' = [alias EXCEPT !.ver = jc[j], !.draft = FALSE]
        /\ aliasTag' = IF aliasTag = 0 THEN jc[j] ELSE aliasTag
        /\ top' = IF jc[j] > top THEN jc[j] ELSE top
        /\ JobGoto(j, "attach")
        /\ UNCHANGED partial
     \/ /\ IF alias.ver # 0 /\ relCfg.forge = "gitlab" THEN Ok ELSE Fault
        /\ partial' = partial \cup {j}
        /\ JobGoto(j, "project")
        /\ UNCHANGED <<alias, aliasTag, top>>
  /\ UNCHANGED <<relCfg, branch, rel, later, tagged, jc, fresh, doomed, untag, record, wasHead, revived, past, authored>>

\* GitLab attaches by the alias's name, to whatever release is there by now.
RefreshAttach(j) ==
  /\ jpc[j] = "attach"
  /\ \/ /\ Ok
        /\ alias' = IF \/ relCfg.forge = "gitlab" /\ alias.ver # 0
                       \/ relCfg.forge = "github" /\ alias.ver = jc[j] /\ alias.asset = 0
                    THEN [alias EXCEPT !.asset = jc[j]] ELSE alias
     \/ Fault /\ UNCHANGED alias
  /\ JobGoto(j, "project")
  /\ UNCHANGED <<relCfg, branch, rel, later, tagged, aliasTag, jc, fresh, doomed, untag, partial, record, wasHead, top, revived, past, authored>>

-----------------------------------------------------------------------------
(* The target's other repositories, applyChannelRetention, and the end *)

\* projectAuthoredRelease: what fails there is a warning.
ProjectAuthored(j) ==
  /\ jpc[j] = "project"
  /\ \/ Ok /\ authored' = authored \cup {jc[j]}
     \/ Fault /\ UNCHANGED authored
  /\ JobGoto(j, IF j \in past THEN "prune" ELSE "retention")
  /\ UNCHANGED <<relCfg, branch, rel, later, tagged, alias, aliasTag, jc, fresh, doomed, untag, partial, record, past, wasHead, top, revived>>

\* retention.Apply over one template: everything but the newest n.
beyond(n) == {c \in RelCommitSet : rel[c].here /\ Cardinality(later[c]) >= n}

\* Only a channel's own releases are in scope: the aliases of a target without a
\* tag pattern are both its templates and its protected names.
ListReleases(j) ==
  /\ jpc[j] = "retention"
  /\ \/ Ok /\ doomed' = [doomed EXCEPT ![j] = IF relCfg.channel THEN beyond(relCfg.keep) ELSE {}]
     \/ Fault /\ UNCHANGED doomed
  /\ JobGoto(j, "prune")
  /\ UNCHANGED <<relCfg, branch, forgeState, jc, fresh, untag, partial, record, wasHead, top, revived, past>>

Deleted(c) ==
  /\ rel' = [rel EXCEPT ![c] = NoRelease]
  /\ later' = [d \in RelCommitSet |-> IF d = c THEN {} ELSE later[d] \ {c}]

\* forgeStore.Delete: the release, and when that went well its tag.  GitLab also
\* deletes the uploads behind the release's links, and reports one that is left.
DeleteRelease(j, c) ==
  /\ jpc[j] = "prune" /\ untag[j] = 0
  /\ c \in doomed[j]
  /\ doomed' = [doomed EXCEPT ![j] = @ \ {c}]
  /\ \/ Ok /\ Deleted(c) /\ untag' = [untag EXCEPT ![j] = IF rel[c].here THEN c ELSE 0]
     \/ relCfg.forge = "gitlab" /\ Fault /\ Deleted(c) /\ UNCHANGED untag
     \/ Fault /\ UNCHANGED <<rel, later, untag>>
  /\ UNCHANGED <<relCfg, branch, tagged, alias, aliasTag, jpc, jc, fresh, partial, record, relGhosts, past, authored>>

\* Best effort: the error is dropped.  A release that was created again meanwhile
\* loses its tag, and on GitHub becomes a draft.
DeleteReleaseTag(j) ==
  /\ jpc[j] = "prune" /\ untag[j] # 0
  /\ untag' = [untag EXCEPT ![j] = 0]
  /\ \/ /\ Ok
        /\ tagged' = tagged \ {untag[j]}
        /\ rel' = [rel EXCEPT ![untag[j]].draft = @ \/ (rel[untag[j]].here /\ relCfg.forge = "github")]
     \/ Fault /\ UNCHANGED <<tagged, rel>>
  /\ UNCHANGED <<relCfg, branch, later, alias, aliasTag, jpc, jc, fresh, doomed, partial, record, relGhosts, past, authored>>

\* What went wrong on the way was a warning: the release is a success.
RecordSuccess(j) ==
  /\ jpc[j] = "prune" /\ doomed[j] = {} /\ untag[j] = 0
  /\ RecordRelease(j, "success")
  /\ JobGoto(j, "done")
  /\ UNCHANGED <<relCfg, branch, forgeState, jc, fresh, doomed, untag, partial, wasHead, top, revived, relFaults, past>>

\* The job is cancelled or its runner dies.
KillPublish(j) ==
  /\ jpc[j] \notin JobDone
  /\ Fault
  /\ JobGoto(j, "dead")
  /\ UNCHANGED <<relCfg, branch, forgeState, jc, fresh, doomed, untag, partial, record, wasHead, top, revived, past>>

ReleaseStep(j) ==
  \/ IsBranchHeadFresh(j) \/ SkipRelease(j) \/ PremarkRelease(j) \/ DetectRelease(j) \/ VerifyPublished(j) \/ DiscoverRows(j)
  \/ CollectAssets(j) \/ WriteNotes(j)
  \/ CreateRelease(j) \/ RecreateRelease(j) \/ Republish(j) \/ RestoreVisible(j) \/ UploadAssets(j)
  \/ CreateAliasTag(j) \/ DeleteAliasTag(j) \/ RecreateAliasTag(j) \/ AliasHolds(j)
  \/ RefreshDelete(j) \/ RefreshCreate(j) \/ RefreshAttach(j)
  \/ ProjectAuthored(j) \/ ListReleases(j) \/ (\E c \in RelCommitSet : DeleteRelease(j, c)) \/ DeleteReleaseTag(j)
  \/ RecordSuccess(j)

ReleaseNext ==
  \/ PushCommit
  \/ \E j \in RelJobs :
       ReleaseStep(j) \/ KillPublish(j) \/ \E c \in RelCommitSet : StartPublish(j, c) \/ StartBackfill(j, c)

\* A started job goes on: its calls are sequential and each returns.
ReleaseSpec ==
  ReleaseInit /\ [][ReleaseNext]_releaseVars /\ \A j \in RelJobs : WF_releaseVars(ReleaseStep(j))

-----------------------------------------------------------------------------
ReleaseTypeOK ==
  /\ relCfg \in RelConfigs
  /\ branch \in RelCommitSet
  /\ rel \in [RelCommitSet -> [here : BOOLEAN, draft : BOOLEAN, asset : BOOLEAN]]
  /\ later \in [RelCommitSet -> SUBSET {c \in RelCommitSet : rel[c].here}]
  /\ \A c, d \in RelCommitSet : rel[c].here /\ rel[d].here /\ c # d => (c \in later[d] <=> d \notin later[c])
  /\ tagged \subseteq RelCommitSet
  /\ alias \in [ver : 0..RelCommits, draft : BOOLEAN, asset : 0..RelCommits]
  /\ aliasTag \in 0..RelCommits
  /\ jc \in [RelJobs -> RelCommitSet]
  /\ fresh \in [RelJobs -> {"unknown", "yes", "no"}]
  /\ doomed \in [RelJobs -> SUBSET RelCommitSet] /\ untag \in [RelJobs -> 0..RelCommits]
  /\ partial \subseteq RelJobs /\ wasHead \subseteq RelJobs
  /\ past \subseteq RelJobs /\ authored \subseteq RelCommitSet
  /\ record \in [RelJobs -> {"none", "skipped", "failed", "success"}]

Quiet == \A j \in RelJobs : jpc[j] \in JobDone

\* "A rolling alias may only ADVANCE" (release_create.go:794): the release behind
\* the alias is never an older version than it once was, whatever old pipelines
\* are re-run, unless two jobs were at the alias at once or a call failed.
AliasReleaseAdvances == alias.ver < top => raced \/ relFaults > 0 \/ ~Quiet

\* A superseded pipeline moves neither releases nor the alias of a channel
\* (handoff.go:112): past the gate its commit was the head at some moment of the
\* job, though no longer necessarily.
SupersededStops ==
  \A j \in RelJobs :
    relCfg.channel /\ relFaults = 0 /\ j \notin past /\ jpc[j] \notin JobDone \cup {"freshness", "gate"} => j \in wasHead

\* One failed call never hides a release: the draft toggle of a re-publish is
\* undone unless the undoing fails as well, or the job is killed in between.  The
\* tag that a job deletes with a release may by then be that of its successor.
NeverLeftDraft ==
  Quiet /\ (\E c \in RelCommitSet : rel[c].draft) =>
    relFaults > 1 \/ revived \/ \E j \in RelJobs : jpc[j] = "dead"

\* "a pruned release leaves no orphan tag" (release_prune.go:158), with jobs
\* pruning, creating and re-publishing concurrently: once no job is between the
\* two deletions, unless one of them failed or died there.
NoOrphanTag ==
  relCfg.channel /\ relFaults = 0 =>
    \A c \in tagged : rel[c].here \/ \E j \in RelJobs : untag[j] = c

\* Retention keeps the newest releases also when several jobs prune and publish
\* at the same time: what it deletes has keep_last later ones at that moment.  The
\* exception is a release that was deleted and created again between the listing
\* and the deletion of one job: it goes, however new it is.
NewestKept ==
  [][\A c \in RelCommitSet :
       rel[c].here /\ ~rel'[c].here => Cardinality(later[c]) >= relCfg.keep \/ revived]_releaseVars

\* A release recorded as a success, with nothing reported missing, was complete
\* when the job ended and stays so until it is pruned.  Only another job of the
\* same commit, which created it again, may still owe its assets: it is about to
\* upload them, reported them missing, or died.
SuccessIsWhole ==
  \A j \in RelJobs :
    record[j] = "success" /\ j \notin partial =>
      \/ rel[jc[j]].here => rel[jc[j]].asset
      \/ \E k \in RelJobs \ {j} : jc[k] = jc[j] /\ (jpc[k] \in {"upload", "dead"} \/ k \in partial)

\* What publishing a release leaves true of the forge, whichever jobs overlap
\* and wherever one fails: a rolling release only advances, a superseded job
\* publishes nothing, no release is left a draft nor its tag an orphan, a
\* success is whole, and retention keeps the newest
\* (cli/cmd/release_create.go).
ReleaseKeeps ==
  /\ [](ReleaseTypeOK /\ AliasReleaseAdvances /\ SupersededStops /\ NeverLeftDraft)
  /\ [](NoOrphanTag /\ SuccessIsWhole)
  /\ NewestKept
=============================================================================
