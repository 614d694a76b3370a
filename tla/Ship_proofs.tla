------------------------------ MODULE Ship_proofs ------------------------------
(***************************************************************************)
(* Proofs about what ships: Release, for any finite number of jobs,        *)
(* commits and faults, Promotion, for any number of images, faults and     *)
(* runs, MirrorSync, for any number of commits, passes and events, and     *)
(* Tagging, for any clones, any finite set of versions, any history and    *)
(* any number of commands, tags cut by hand and failing pushes.            *)
(* They share no state; each has its own inductive invariant.              *)
(*                                                                         *)
(* Release.  Retention keeps the newest because what is later than a       *)
(* doomed release is later than everything before it (Ordered, DoomedOld): *)
(* a deletion takes one release from those that are older and leaves them  *)
(* all of its own later ones.  What is half done belongs to someone: a     *)
(* draft (DraftOwned), a release without assets (AssetsOwed), the alias    *)
(* between its deletion and its creation (AliasUp).                        *)
(*                                                                         *)
(* Promotion.  A handle is worth what perform saw: verifyLayout does not   *)
(* look for a missing blob, but the index is copied last, so a layout with *)
(* an index has its blobs until publish starts (Stored).  Success is       *)
(* counted image by image: what has a handle, a target and a verified      *)
(* layout is at the registry or in refused (Shipped), and signed           *)
(* (SignedUp).  The tag that retention deletes is never one of the run's:  *)
(* it is as it was listed, and alone on its version unless the rival moved *)
(* the rolling tag there after the lookup (AsListed).                      *)
(*                                                                         *)
(* Mirror.  A marker tells the truth about its release, or its tag owes an *)
(* upload or a link (MarkersTrue); while a pass converges, a release is as *)
(* the pass listed it or as the pass made it (AsListedOrDone), so what the *)
(* fast path skips is in sync and what prune deletes was marked; a ref     *)
(* that is not as listed was moved by somebody else (ListedOrMoved).  What *)
(* the channel's retention deletes it deletes beside one that stays, a tag *)
(* with its release (RetentionWrites).                                     *)
(*                                                                         *)
(* Tagging.  Notes are written from the tags that origin has at that time, *)
(* and tags come in any order; that none of the changes is left out of all *)
(* notes rests on the boundary of every release that has its notes: it is  *)
(* a release of origin still, below it.  The changes up to a release that  *)
(* its own notes leave out are in those of the lowest release that has     *)
(* them.  Both "the greatest earlier version" and "the lowest release" are *)
(* there to be chosen because the versions are finitely many.              *)
(***************************************************************************)
EXTENDS Release, Promotion, MirrorSync, Tagging, FiniteSetTheorems, WellFoundedInduction, TLAPS

-----------------------------------------------------------------------------
(* Release: the inductive invariant *)

Early == {"freshness", "gate"}
Late == {"detect", "verify", "rows", "assets", "notes", "create", "content", "restore", "upload",
         "project", "retention", "prune"}
Labels == JobDone \cup Early \cup Late \cup AtAlias
Releases == [here : BOOLEAN, draft : BOOLEAN, asset : BOOLEAN]
Aliases == [ver : 0..RelCommits, draft : BOOLEAN, asset : 0..RelCommits]
Here == {c \in RelCommitSet : rel[c].here}

\* The type invariant, by what it is about.
ForgeOK ==
  /\ relCfg \in RelConfigs /\ branch \in RelCommitSet
  /\ rel \in [RelCommitSet -> Releases]
  /\ tagged \subseteq RelCommitSet /\ authored \subseteq RelCommitSet
  /\ alias \in Aliases
  /\ aliasTag \in 0..RelCommits

JobsOK ==
  /\ jpc \in [RelJobs -> Labels] /\ jc \in [RelJobs -> RelCommitSet]
  /\ fresh \in [RelJobs -> {"unknown", "yes", "no"}]
  /\ record \in [RelJobs -> {"none", "skipped", "failed", "success"}]
  /\ partial \subseteq RelJobs /\ wasHead \subseteq RelJobs /\ past \subseteq RelJobs
  /\ top \in 0..RelCommits /\ raced \in BOOLEAN /\ revived \in BOOLEAN
  /\ relFaults \in Nat
  /\ doomed \in [RelJobs -> SUBSET RelCommitSet]

\* later orders the releases that are there.
Ordered ==
  /\ later \in [RelCommitSet -> SUBSET Here]
  /\ \A c \in RelCommitSet : ~rel[c].here => rel[c] = NoRelease
  /\ \A c \in RelCommitSet : c \notin later[c] /\ (later[c] # {} => rel[c].here)
  /\ \A c, d \in Here : c # d => (c \in later[d] <=> d \notin later[c])
  /\ \A c, d, e \in RelCommitSet : d \in later[c] /\ e \in later[d] => e \in later[c]

\* What a job is about to delete keeps enough later ones, however the others delete.
DoomedOld ==
  \A j \in RelJobs : \A c \in doomed[j] : jpc[j] # "dead" /\ rel[c].here => Cardinality(later[c]) >= relCfg.keep \/ revived

\* What a job that is past the gate knows of the branch.
HeadKnown ==
  \A j \in RelJobs :
    /\ jc[j] <= branch
    /\ relCfg.channel /\ jpc[j] = "freshness" /\ jc[j] = branch => j \in wasHead
    /\ relCfg.channel /\ relFaults = 0 /\ fresh[j] = "yes" => j \in wasHead
    /\ jpc[j] \in Late \cup AtAlias /\ j \notin past => fresh[j] = "yes"

\* A draft has someone who will publish it, or two calls failed, or a job died.
DraftOwned ==
  /\ \A c \in RelCommitSet : rel[c].draft =>
       \/ relFaults > 1 \/ revived
       \/ \E j \in RelJobs : jpc[j] = "dead" \/ (jc[j] = c /\ jpc[j] \in {"content", "restore"})
  /\ \A j \in RelJobs : jpc[j] = "restore" => relFaults > 0

\* A job that still owes a tag's deletion deleted the release: it is there only if
\* it was created again.
Untagging ==
  /\ untag \in [RelJobs -> 0..RelCommits]
  /\ \A j \in RelJobs : untag[j] # 0 /\ jpc[j] # "dead" /\ rel[untag[j]].here => revived

\* A release without its assets has someone who will upload them, reported them
\* missing or died.
AssetsOwed ==
  /\ \A c \in RelCommitSet : rel[c].here /\ ~rel[c].asset =>
       \E j \in RelJobs : jc[j] = c /\ (jpc[j] \in {"upload", "dead"} \/ j \in partial)
  /\ \A j \in RelJobs : /\ jpc[j] = "idle" => j \notin partial
                        /\ record[j] = "success" => jpc[j] = "done"

\* One job at the alias: it is at the newest version, or about to be created there.
AliasUp ==
  /\ ~raced => \A j, k \in RelJobs : jpc[j] \in AtAlias /\ jpc[k] \in AtAlias => j = k
  /\ ~raced /\ relFaults = 0 =>
       /\ alias.ver = top \/ \E j \in RelJobs : jpc[j] = "recreate"
       /\ \A j \in RelJobs : /\ jpc[j] \in {"refresh", "recreate"} => jc[j] >= top
                             /\ jpc[j] = "recreate" => alias.ver = 0

ReleaseIInv ==
  /\ ForgeOK /\ JobsOK /\ Ordered /\ DoomedOld /\ NoOrphanTag /\ Untagging
  /\ HeadKnown /\ DraftOwned /\ AssetsOwed /\ AliasUp
-----------------------------------------------------------------------------
(* Lemmas *)

\* What moves none of the releases: the steps of a job but seven, and the rest.
StepsBeside(j) ==
  \/ IsBranchHeadFresh(j) \/ SkipRelease(j) \/ PremarkRelease(j) \/ DetectRelease(j) \/ VerifyPublished(j)
  \/ DiscoverRows(j) \/ CollectAssets(j) \/ WriteNotes(j)
  \/ CreateAliasTag(j) \/ DeleteAliasTag(j) \/ RecreateAliasTag(j) \/ AliasHolds(j)
  \/ RefreshDelete(j) \/ RefreshCreate(j) \/ RefreshAttach(j)
  \/ ProjectAuthored(j) \/ RecordSuccess(j) \/ KillPublish(j)

\* What changes a release that is there and leaves it there.
StepsAtRelease(j) == RecreateRelease(j) \/ Republish(j) \/ RestoreVisible(j) \/ UploadAssets(j)

(* Where a job goes is one of the labels.                                   *)
LEMMA Goes ==
  ASSUME JobsOK, NEW j \in RelJobs, NEW l \in Labels, JobGoto(j, l)
  PROVE  jpc' \in [RelJobs -> Labels] /\ raced' \in BOOLEAN
BY DEF JobGoto, JobsOK

(* The ledger's outcomes.                                                   *)
LEMMA Recorded ==
  ASSUME JobsOK, NEW j \in RelJobs, NEW o \in {"skipped", "failed", "success"}, RecordRelease(j, o)
  PROVE  record' \in [RelJobs -> {"none", "skipped", "failed", "success"}]
BY DEF RecordRelease, JobsOK

LEMMA Faults == ASSUME JobsOK, Ok \/ Fault PROVE relFaults' \in Nat
BY DEF Ok, Fault, JobsOK

(* The records of a release and of the alias, field by field.               *)
LEMMA OneRelease ==
  /\ NoRelease \in Releases /\ [NoRelease EXCEPT !.here = TRUE] \in Releases
  /\ \A r \in Releases, b \in BOOLEAN :
       [r EXCEPT !.draft = b] \in Releases /\ [r EXCEPT !.asset = b] \in Releases
BY DEF NoRelease, Releases

LEMMA OneAlias ==
  /\ NoAlias \in Aliases /\ 0 \in 0..RelCommits /\ RelCommitSet \subseteq 0..RelCommits
  /\ \A r \in Aliases, b \in BOOLEAN : [r EXCEPT !.draft = b] \in Aliases
  /\ \A r \in Aliases, n \in 0..RelCommits :
       [r EXCEPT !.asset = n] \in Aliases /\ [r EXCEPT !.ver = n, !.draft = FALSE] \in Aliases
<1>1. 0 \in 0..RelCommits /\ RelCommitSet \subseteq 0..RelCommits
  BY ReleaseAssumption DEF RelCommitSet
<1> QED BY <1>1 DEF NoAlias, Aliases

LEMMA OneCommit == 1 \in RelCommitSet
BY ReleaseAssumption DEF RelCommitSet

LEMMA TypesInit == ReleaseInit => ForgeOK /\ JobsOK
<1> SUFFICES ASSUME ReleaseInit PROVE ForgeOK /\ JobsOK
  OBVIOUS
<1>1. 1 \in RelCommitSet
  BY ReleaseAssumption DEF RelCommitSet
<1>2. ForgeOK
  BY <1>1, OneRelease, OneAlias DEF ReleaseInit, ForgeOK
<1>3. JobsOK
  BY <1>1, OneAlias DEF ReleaseInit, JobsOK, Labels, JobDone
<1> QED BY <1>2, <1>3

LEMMA TypesBeside ==
  ASSUME ForgeOK, JobsOK, NEW j \in RelJobs, StepsBeside(j)
  PROVE  ForgeOK' /\ JobsOK'
<1> USE DEF Labels, JobDone, Early, Late, AtAlias
<1>0. 0 \in 0..RelCommits /\ jc[j] \in 0..RelCommits /\ RelCommitSet \subseteq 0..RelCommits
  BY OneAlias DEF JobsOK
<1>1. CASE IsBranchHeadFresh(j)
  <2>1. jpc' \in [RelJobs -> Labels] /\ raced' \in BOOLEAN /\ relFaults' \in Nat
    BY <1>1, Goes, Faults DEF IsBranchHeadFresh
  <2> QED BY <1>1, <2>1 DEF IsBranchHeadFresh, ForgeOK, JobsOK, forgeState
<1>2. CASE SkipRelease(j) \/ PremarkRelease(j) \/ RecordSuccess(j)
  <2>1. jpc' \in [RelJobs -> Labels] /\ raced' \in BOOLEAN
        /\ record' \in [RelJobs -> {"none", "skipped", "failed", "success"}]
    BY <1>2, Goes, Recorded DEF SkipRelease, PremarkRelease, RecordSuccess
  <2> QED BY <1>2, <2>1 DEF SkipRelease, PremarkRelease, RecordSuccess, ForgeOK, JobsOK, forgeState
<1>3. ASSUME NEW label, NEW next \in Labels, Prepare(j, label, next) PROVE ForgeOK' /\ JobsOK'
  <2>1. jpc' \in [RelJobs -> Labels] /\ raced' \in BOOLEAN /\ relFaults' \in Nat
        /\ record' \in [RelJobs -> {"none", "skipped", "failed", "success"}]
    BY <1>3, Goes, Recorded, Faults DEF Prepare, ReleaseFails, JobsOK
  <2> QED BY <1>3, <2>1 DEF Prepare, ForgeOK, JobsOK, forgeState
<1>4. CASE DetectRelease(j) \/ VerifyPublished(j) \/ DiscoverRows(j) \/ CollectAssets(j)
  BY <1>3, <1>4 DEF DetectRelease, VerifyPublished, DiscoverRows, CollectAssets
<1>5. CASE WriteNotes(j)
  <2>1. jpc' \in [RelJobs -> Labels] /\ raced' \in BOOLEAN /\ relFaults' \in Nat
        /\ record' \in [RelJobs -> {"none", "skipped", "failed", "success"}]
    BY <1>5, Goes, Recorded, Faults DEF WriteNotes, ReleaseFails, JobsOK
  <2> QED BY <1>5, <2>1 DEF WriteNotes, ForgeOK, JobsOK, forgeState
<1>6. CASE CreateAliasTag(j) \/ DeleteAliasTag(j) \/ RecreateAliasTag(j) \/ AliasHolds(j)
  <2>1. jpc' \in [RelJobs -> Labels] /\ raced' \in BOOLEAN /\ relFaults' \in Nat
    BY <1>6, Goes, Faults DEF CreateAliasTag, DeleteAliasTag, RecreateAliasTag, AliasHolds
  <2>2. aliasTag' \in 0..RelCommits /\ partial' \subseteq RelJobs
    BY <1>0, <1>6 DEF CreateAliasTag, DeleteAliasTag, RecreateAliasTag, AliasHolds, ForgeOK, JobsOK, forgeState
  <2>3. CASE DeleteAliasTag(j)
    <3>1. PICK b \in BOOLEAN : alias' = [alias EXCEPT !.draft = b] \/ alias' = alias
      BY <2>3 DEF DeleteAliasTag
    <3>2. alias' \in Aliases
      BY <3>1, OneAlias DEF ForgeOK
    <3> QED BY <1>6, <2>1, <2>2, <2>3, <3>2 DEF DeleteAliasTag, ForgeOK, JobsOK
  <2> QED BY <1>6, <2>1, <2>2, <2>3 DEF CreateAliasTag, RecreateAliasTag, AliasHolds, ForgeOK, JobsOK, forgeState
<1>7. CASE RefreshDelete(j) \/ RefreshCreate(j) \/ RefreshAttach(j)
  <2>1. jpc' \in [RelJobs -> Labels] /\ raced' \in BOOLEAN /\ relFaults' \in Nat
    BY <1>7, Goes, Faults DEF RefreshDelete, RefreshCreate, RefreshAttach
  <2>2. aliasTag' \in 0..RelCommits /\ partial' \subseteq RelJobs /\ top' \in 0..RelCommits
    BY <1>0, <1>7 DEF RefreshDelete, RefreshCreate, RefreshAttach, ForgeOK, JobsOK
  <2>3. alias' \in Aliases
    BY <1>0, <1>7, OneAlias DEF RefreshDelete, RefreshCreate, RefreshAttach, ForgeOK
  <2> QED BY <1>7, <2>1, <2>2, <2>3 DEF RefreshDelete, RefreshCreate, RefreshAttach, ForgeOK, JobsOK
<1>8. CASE ProjectAuthored(j)
  <2>1. jpc' \in [RelJobs -> Labels] /\ raced' \in BOOLEAN /\ relFaults' \in Nat
    BY <1>8, Goes, Faults DEF ProjectAuthored
  <2> QED BY <1>8, <2>1 DEF ProjectAuthored, ForgeOK, JobsOK
<1>9. CASE KillPublish(j)
  <2>1. jpc' \in [RelJobs -> Labels] /\ raced' \in BOOLEAN /\ relFaults' \in Nat
    BY <1>9, Goes, Faults DEF KillPublish
  <2> QED BY <1>9, <2>1 DEF KillPublish, ForgeOK, JobsOK, forgeState
<1> QED BY <1>1, <1>2, <1>4, <1>5, <1>6, <1>7, <1>8, <1>9 DEF StepsBeside

LEMMA TypesAtRelease ==
  ASSUME ForgeOK, JobsOK, NEW j \in RelJobs,
         \/ StepsAtRelease(j) \/ CreateRelease(j) \/ ListReleases(j)
         \/ (\E c \in RelCommitSet : DeleteRelease(j, c)) \/ DeleteReleaseTag(j)
  PROVE  ForgeOK' /\ JobsOK'
<1> USE DEF Labels, JobDone, Early, Late, AtAlias
<1>0. jc[j] \in RelCommitSet
  BY DEF JobsOK
<1>1. CASE StepsAtRelease(j)
  <2>1. jpc' \in [RelJobs -> Labels] /\ raced' \in BOOLEAN /\ relFaults' \in Nat
        /\ record' \in [RelJobs -> {"none", "skipped", "failed", "success"}]
    BY <1>1, Goes, Recorded, Faults DEF StepsAtRelease, RecreateRelease, Republish, RestoreVisible, UploadAssets,
       ReleaseFails, PublishDraft, JobsOK
  <2>2. partial' \subseteq RelJobs /\ tagged' \subseteq RelCommitSet
    BY <1>0, <1>1 DEF StepsAtRelease, RecreateRelease, Republish, RestoreVisible, UploadAssets, PublishDraft, ForgeOK, JobsOK
  <2>3. rel' \in [RelCommitSet -> Releases]
    <3>1. \A b \in BOOLEAN : /\ [rel EXCEPT ![jc[j]].draft = b] \in [RelCommitSet -> Releases]
                             /\ [rel EXCEPT ![jc[j]].asset = b] \in [RelCommitSet -> Releases]
      BY <1>0, OneRelease DEF ForgeOK
    <3>2. \E b \in BOOLEAN : rel' \in {rel, [rel EXCEPT ![jc[j]].draft = b], [rel EXCEPT ![jc[j]].asset = b]}
      <4>1. CASE RecreateRelease(j)
        BY <4>1 DEF RecreateRelease
      <4>2. CASE Republish(j) \/ RestoreVisible(j)
        BY <4>2 DEF Republish, RestoreVisible, PublishDraft
      <4>3. CASE UploadAssets(j)
        BY <4>3 DEF UploadAssets
      <4> QED BY <1>1, <4>1, <4>2, <4>3 DEF StepsAtRelease
    <3> QED BY <3>1, <3>2 DEF ForgeOK
  <2> QED BY <1>1, <2>1, <2>2, <2>3 DEF StepsAtRelease, RecreateRelease, Republish, RestoreVisible, UploadAssets, ForgeOK, JobsOK
<1>2. CASE CreateRelease(j)
  <2>1. jpc' \in [RelJobs -> Labels] /\ raced' \in BOOLEAN /\ relFaults' \in Nat
        /\ record' \in [RelJobs -> {"none", "skipped", "failed", "success"}]
    BY <1>2, Goes, Recorded, Faults DEF CreateRelease, ReleaseFails, JobsOK
  <2>2. tagged' \subseteq RelCommitSet /\ revived' \in BOOLEAN
    BY <1>0, <1>2 DEF CreateRelease, ForgeOK, JobsOK
  <2>3. rel' \in [RelCommitSet -> Releases]
    BY <1>0, <1>2, OneRelease DEF CreateRelease, ForgeOK
  <2> QED BY <1>2, <2>1, <2>2, <2>3 DEF CreateRelease, ForgeOK, JobsOK
<1>3. CASE ListReleases(j)
  <2>1. jpc' \in [RelJobs -> Labels] /\ raced' \in BOOLEAN /\ relFaults' \in Nat
    BY <1>3, Goes, Faults DEF ListReleases
  <2>2. doomed' \in [RelJobs -> SUBSET RelCommitSet]
    BY <1>3 DEF ListReleases, JobsOK, beyond
  <2> QED BY <1>3, <2>1, <2>2 DEF ListReleases, ForgeOK, JobsOK, forgeState
<1>4. ASSUME NEW c \in RelCommitSet, DeleteRelease(j, c) PROVE ForgeOK' /\ JobsOK'
  <2>1. relFaults' \in Nat /\ doomed' \in [RelJobs -> SUBSET RelCommitSet]
    BY <1>4, Faults DEF DeleteRelease, JobsOK
  <2>2. rel' \in [RelCommitSet -> Releases] /\ tagged' \subseteq RelCommitSet
    BY <1>4, OneRelease DEF DeleteRelease, Deleted, ForgeOK
  <2> QED BY <1>4, <2>1, <2>2 DEF DeleteRelease, ForgeOK, JobsOK, relGhosts
<1>5. CASE DeleteReleaseTag(j)
  <2>1. relFaults' \in Nat
    BY <1>5, Faults DEF DeleteReleaseTag
  <2>2. PICK b \in BOOLEAN : rel' = rel \/ rel' = [rel EXCEPT ![untag[j]].draft = b]
    BY <1>5 DEF DeleteReleaseTag, ForgeOK, Releases
  <2>3. rel' \in [RelCommitSet -> Releases]
    <3>1. untag[j] \in RelCommitSet => [rel EXCEPT ![untag[j]].draft = b] \in [RelCommitSet -> Releases]
      BY OneRelease DEF ForgeOK
    <3>2. untag[j] \notin RelCommitSet => [rel EXCEPT ![untag[j]].draft = b] = rel
      BY DEF ForgeOK
    <3> QED BY <2>2, <3>1, <3>2 DEF ForgeOK
  <2> QED BY <1>5, <2>1, <2>3 DEF DeleteReleaseTag, ForgeOK, JobsOK, relGhosts
<1> QED BY <1>1, <1>2, <1>3, <1>4, <1>5

LEMMA TypesStart ==
  ASSUME ForgeOK, JobsOK,
         \/ PushCommit
         \/ \E j \in RelJobs, c \in RelCommitSet : StartPublish(j, c) \/ StartBackfill(j, c)
  PROVE  ForgeOK' /\ JobsOK'
<1> USE DEF Labels, JobDone, Early, Late, AtAlias
<1>1. CASE PushCommit
  <2>1. branch' \in RelCommitSet
    BY <1>1, ReleaseAssumption DEF PushCommit, ForgeOK, RelCommitSet
  <2> QED BY <1>1, <2>1 DEF PushCommit, ForgeOK, JobsOK, forgeState, jobState, relGhosts
<1>2. ASSUME NEW j \in RelJobs, NEW c \in RelCommitSet, StartPublish(j, c) PROVE ForgeOK' /\ JobsOK'
  <2>1. jpc' \in [RelJobs -> Labels] /\ raced' \in BOOLEAN
    BY <1>2, Goes DEF StartPublish
  <2> QED BY <1>2, <2>1 DEF StartPublish, ForgeOK, JobsOK
<1>3. ASSUME NEW j \in RelJobs, NEW c \in RelCommitSet, StartBackfill(j, c) PROVE ForgeOK' /\ JobsOK'
  <2>1. jpc' \in [RelJobs -> Labels] /\ raced' \in BOOLEAN
    BY <1>3, Goes DEF StartBackfill
  <2> QED BY <1>3, <2>1 DEF StartBackfill, ForgeOK, JobsOK, forgeState
<1> QED BY <1>1, <1>2, <1>3

-----------------------------------------------------------------------------
(* The releases: their order, their tags, what retention deletes *)

LEMMA LaterFinite ==
  ASSUME Ordered
  PROVE  /\ \A c \in RelCommitSet : IsFiniteSet(later[c]) /\ Cardinality(later[c]) \in Nat
         /\ \A S \in SUBSET RelCommitSet : IsFiniteSet(S) /\ Cardinality(S) \in Nat
<1>1. IsFiniteSet(RelCommitSet)
  BY FS_Interval, ReleaseAssumption DEF RelCommitSet
<1>2. \A S \in SUBSET RelCommitSet : IsFiniteSet(S) /\ Cardinality(S) \in Nat
  BY <1>1, FS_Subset, FS_CardinalityType
<1> QED BY <1>2 DEF Ordered, Here

LEMMA MoreLater ==
  ASSUME Ordered, NEW S \in SUBSET RelCommitSet, NEW T \in SUBSET S
  PROVE  Cardinality(T) <= Cardinality(S)
BY LaterFinite, FS_Subset

(* The order, as the steps below use it.                                    *)
LEMMA OrderFacts ==
  ASSUME Ordered
  PROVE  /\ \A c \in Here : c \in RelCommitSet
         /\ \A c \in RelCommitSet : \A e : e \in later[c] => c \in Here /\ e \in Here /\ e # c
         /\ \A c, d \in Here : c # d => (c \in later[d] <=> d \notin later[c])
         /\ \A c, d, e \in Here : d \in later[c] /\ e \in later[d] => e \in later[c]
BY DEF Ordered, Here

LEMMA OrderFrom ==
  ASSUME later' \in [RelCommitSet -> SUBSET Here'],
         \A c \in RelCommitSet : ~rel'[c].here => rel'[c] = NoRelease,
         \A c \in RelCommitSet : \A e : e \in later'[c] => c \in Here' /\ e # c,
         \A c, d \in Here' : c # d => (c \in later'[d] <=> d \notin later'[c]),
         \A c, d, e \in RelCommitSet : d \in later'[c] /\ e \in later'[d] => e \in later'[c]
  PROVE  Ordered'
BY DEF Ordered, Here

(* What does not go away: a death, a fault, the ghost of a re-creation.      *)
LEMMA StepsLast ==
  ASSUME JobsOK, [ReleaseNext]_releaseVars
  PROVE  /\ \A k \in RelJobs : jpc[k] = "dead" => jpc'[k] = "dead"
         /\ revived => revived'
         /\ relFaults' = 0 => relFaults = 0
<1> DEFINE Endures == /\ \A k \in RelJobs : jpc[k] = "dead" => jpc'[k] = "dead"
                      /\ revived => revived'
                      /\ relFaults' = 0 => relFaults = 0
<1>0. ASSUME UNCHANGED jpc \/ \E j \in RelJobs : \E l : jpc[j] # "dead" /\ jpc' = [jpc EXCEPT ![j] = l],
             revived' = revived, relFaults' \in {relFaults, relFaults + 1}
      PROVE  Endures
  BY <1>0 DEF JobsOK
<1> USE DEF JobGoto, ReleaseFails, Ok, Fault
<1>1. CASE UNCHANGED releaseVars \/ PushCommit
  BY <1>1 DEF releaseVars, PushCommit, jobState, relGhosts
<1>2. ASSUME NEW j \in RelJobs, NEW c \in RelCommitSet, StartPublish(j, c) \/ StartBackfill(j, c) PROVE Endures
  BY <1>0, <1>2 DEF StartPublish, StartBackfill
<1>3. ASSUME NEW j \in RelJobs,
             \/ IsBranchHeadFresh(j) \/ SkipRelease(j) \/ PremarkRelease(j) \/ DetectRelease(j)
             \/ VerifyPublished(j) \/ DiscoverRows(j) \/ CollectAssets(j) \/ WriteNotes(j)
      PROVE  Endures
  BY <1>0, <1>3 DEF IsBranchHeadFresh, SkipRelease, PremarkRelease, DetectRelease, VerifyPublished,
     DiscoverRows, CollectAssets, Prepare, WriteNotes
<1>4. ASSUME NEW j \in RelJobs, StepsAtRelease(j) PROVE Endures
  BY <1>0, <1>4 DEF StepsAtRelease, RecreateRelease, Republish, RestoreVisible, UploadAssets, PublishDraft
<1>5. ASSUME NEW j \in RelJobs, CreateRelease(j) PROVE Endures
  <2>1. jpc[j] = "create" /\ relFaults' \in {relFaults, relFaults + 1}
        /\ \E l \in {"upload", "done"} : jpc' = [jpc EXCEPT ![j] = l]
    BY <1>5 DEF CreateRelease
  <2>2. revived => revived'
    BY <1>5, Zenon DEF CreateRelease
  <2> QED BY <2>1, <2>2 DEF JobsOK
<1>6. ASSUME NEW j \in RelJobs,
             \/ CreateAliasTag(j) \/ DeleteAliasTag(j) \/ RecreateAliasTag(j) \/ AliasHolds(j)
             \/ RefreshDelete(j) \/ RefreshCreate(j) \/ RefreshAttach(j)
      PROVE  Endures
  BY <1>0, <1>6 DEF CreateAliasTag, DeleteAliasTag, RecreateAliasTag, AliasHolds, RefreshDelete, RefreshCreate,
     RefreshAttach
<1>7. ASSUME NEW j \in RelJobs,
             \/ ProjectAuthored(j) \/ ListReleases(j) \/ (\E c \in RelCommitSet : DeleteRelease(j, c))
             \/ DeleteReleaseTag(j) \/ RecordSuccess(j) \/ KillPublish(j)
      PROVE  Endures
  BY <1>0, <1>7 DEF ProjectAuthored, ListReleases, DeleteRelease, DeleteReleaseTag, RecordSuccess, KillPublish,
     JobDone, relGhosts
<1> QED BY <1>1, <1>2, <1>3, <1>4, <1>5, <1>6, <1>7 DEF ReleaseNext, ReleaseStep, StepsAtRelease

(* What leaves the releases where they are leaves their order and what is   *)
(* doomed alone.                                                            *)
LEMMA OrderStays ==
  ASSUME JobsOK, Ordered, DoomedOld, UNCHANGED <<relCfg, later, doomed, revived>>,
         \A k \in RelJobs : jpc[k] = "dead" => jpc'[k] = "dead",
         \A c \in RelCommitSet : /\ rel'[c].here = rel[c].here
                                 /\ ~rel[c].here => rel'[c] = rel[c]
  PROVE  Ordered' /\ DoomedOld'
<1>1. Here' = Here
  BY DEF Here
<1>2. Ordered'
  BY <1>1 DEF Ordered, Here
<1>3. DoomedOld'
  <2>1. \A j \in RelJobs : doomed[j] \subseteq RelCommitSet
    BY DEF JobsOK
  <2> QED BY <2>1 DEF DoomedOld
<1> QED BY <1>2, <1>3

(* A release that is created is the latest of all.                          *)
LEMMA OrderOfCreated ==
  ASSUME ForgeOK, JobsOK, Ordered, DoomedOld, NEW j \in RelJobs, CreateRelease(j),
         \A k \in RelJobs : jpc[k] = "dead" => jpc'[k] = "dead"
  PROVE  Ordered' /\ DoomedOld'
<1>0. jc[j] \in RelCommitSet /\ ~rel[jc[j]].here /\ NoRelease.here = FALSE
  BY DEF CreateRelease, JobsOK, NoRelease
<1>1. CASE rel' = rel
  <2>1. UNCHANGED <<relCfg, later, doomed, revived>>
    BY <1>0, <1>1 DEF CreateRelease, ForgeOK, Releases, NoRelease
  <2> QED BY <1>1, <2>1, OrderStays
<1>2. CASE rel' # rel
  <2> DEFINE c0 == jc[j]
  <2>1. /\ rel' = [rel EXCEPT ![c0] = [NoRelease EXCEPT !.here = TRUE]]
        /\ later' = [c \in RelCommitSet |-> IF rel[c].here THEN later[c] \cup {c0} ELSE {}]
        /\ revived' = (revived \/ \E k \in RelJobs : jpc[k] # "dead" /\ c0 \in doomed[k] \cup {untag[k]})
        /\ UNCHANGED <<relCfg, doomed>>
    BY <1>2 DEF CreateRelease
  <2>2. /\ \A c \in RelCommitSet : rel'[c].here <=> rel[c].here \/ c = c0
        /\ \A c \in RelCommitSet : c # c0 => rel'[c] = rel[c]
    BY <1>0, <2>1 DEF ForgeOK, NoRelease
  <2>3. Here' = Here \cup {c0} /\ c0 \notin Here /\ c0 \in RelCommitSet
    BY <1>0, <2>2 DEF Here
  <2>4. \A c \in RelCommitSet : later'[c] = IF c \in Here THEN later[c] \cup {c0} ELSE {}
    BY <2>1 DEF Here
  <2> HIDE DEF c0
  <2>9. /\ \A c \in Here : c \in RelCommitSet
        /\ \A c \in RelCommitSet : \A e : e \in later[c] => c \in Here /\ e \in Here /\ e # c
        /\ \A c, d \in Here : c # d => (c \in later[d] <=> d \notin later[c])
        /\ \A c, d, e \in Here : d \in later[c] /\ e \in later[d] => e \in later[c]
    BY OrderFacts
  <2>10. /\ \A c : c \in Here' <=> c \in Here \/ c = c0
         /\ \A c \in RelCommitSet : \A e : e \in later'[c] <=> c \in Here /\ (e \in later[c] \/ e = c0)
    BY <2>3, <2>4
  <2>5. Ordered'
    <3>1. later' \in [RelCommitSet -> SUBSET Here']
      BY <2>1, <2>9, <2>10
    <3>2. \A c \in RelCommitSet : ~rel'[c].here => rel'[c] = NoRelease
      BY <2>2 DEF Ordered
    <3>3. \A c \in RelCommitSet : \A e : e \in later'[c] => c \in Here' /\ e # c
      BY <2>3, <2>9, <2>10
    <3>4. \A c, d \in Here' : c # d => (c \in later'[d] <=> d \notin later'[c])
      BY <2>3, <2>9, <2>10
    <3>5. \A c, d, e \in RelCommitSet : d \in later'[c] /\ e \in later'[d] => e \in later'[c]
      BY <2>3, <2>9, <2>10
    <3> QED BY <3>1, <3>2, <3>3, <3>4, <3>5, OrderFrom
  <2>6. DoomedOld'
    <3> SUFFICES ASSUME NEW k \in RelJobs, NEW c \in doomed'[k], jpc'[k] # "dead", rel'[c].here, ~revived'
                 PROVE  Cardinality(later'[c]) >= relCfg'.keep
      BY DEF DoomedOld
    <3>1. c \in doomed[k] /\ c # c0 /\ c \in RelCommitSet
      BY <2>1 DEF JobsOK
    <3>2. rel[c].here /\ Cardinality(later[c]) >= relCfg.keep
      BY <2>1, <2>2, <3>1 DEF DoomedOld
    <3>3. Cardinality(later[c]) <= Cardinality(later'[c])
      <4>1. c \in Here
        BY <3>1, <3>2 DEF Here
      <4>2. later'[c] \in SUBSET RelCommitSet /\ later[c] \in SUBSET later'[c]
        BY <2>3, <2>9, <2>10, <4>1
      <4> QED BY <4>2, MoreLater
    <3>4. Cardinality(later[c]) \in Nat /\ Cardinality(later'[c]) \in Nat /\ relCfg.keep \in Nat
      <4>1. later'[c] \in SUBSET RelCommitSet
        BY <2>3, <2>9, <2>10, <3>1
      <4> QED BY <3>1, <4>1, LaterFinite DEF ForgeOK, RelConfigs
    <3> QED BY <2>1, <3>2, <3>3, <3>4
  <2> QED BY <2>5, <2>6
<1> QED BY <1>1, <1>2

(* Who deletes a release takes it out of the later ones of the others, which *)
(* keeps enough of them: what was later than it is later than they are.      *)
LEMMA OrderOfDeleted ==
  ASSUME ForgeOK, JobsOK, Ordered, DoomedOld, NEW j \in RelJobs, NEW x \in RelCommitSet,
         DeleteRelease(j, x)
  PROVE  Ordered' /\ DoomedOld'
<1>0. /\ x \in doomed[j] /\ jpc[j] = "prune" /\ UNCHANGED <<relCfg, jpc, revived>>
      /\ \A k \in RelJobs : doomed'[k] \in SUBSET doomed[k]
      /\ \A k \in RelJobs : doomed[k] \in SUBSET RelCommitSet
  BY DEF DeleteRelease, JobsOK, relGhosts
<1>1. CASE UNCHANGED <<rel, later>>
  <2>1. Ordered'
    BY <1>0, <1>1 DEF Ordered, Here
  <2>2. DoomedOld'
    BY <1>0, <1>1 DEF DoomedOld
  <2> QED BY <2>1, <2>2
<1>2. CASE /\ rel' = [rel EXCEPT ![x] = NoRelease]
           /\ later' = [d \in RelCommitSet |-> IF d = x THEN {} ELSE later[d] \ {x}]
  <2>1. /\ \A c \in RelCommitSet : rel'[c] = IF c = x THEN NoRelease ELSE rel[c]
        /\ \A c \in RelCommitSet : later'[c] = IF c = x THEN {} ELSE later[c] \ {x}
        /\ NoRelease.here = FALSE
    BY <1>2 DEF ForgeOK, NoRelease
  <2>2. Here' = Here \ {x}
    BY <2>1 DEF Here
  <2>9. /\ \A c \in Here : c \in RelCommitSet
        /\ \A c \in RelCommitSet : \A e : e \in later[c] => c \in Here /\ e \in Here /\ e # c
        /\ \A c, d \in Here : c # d => (c \in later[d] <=> d \notin later[c])
        /\ \A c, d, e \in Here : d \in later[c] /\ e \in later[d] => e \in later[c]
    BY OrderFacts
  <2>10. /\ \A c : c \in Here' <=> c \in Here /\ c # x
         /\ \A c \in RelCommitSet : \A e : e \in later'[c] <=> c # x /\ e \in later[c] /\ e # x
    BY <2>1, <2>2
  <2>3. Ordered'
    <3>1. later' \in [RelCommitSet -> SUBSET Here']
      BY <1>2, <2>9, <2>10
    <3>2. \A c \in RelCommitSet : ~rel'[c].here => rel'[c] = NoRelease
      BY <2>1 DEF Ordered
    <3>3. \A c \in RelCommitSet : \A e : e \in later'[c] => c \in Here' /\ e # c
      BY <2>9, <2>10
    <3>4. \A c, d \in Here' : c # d => (c \in later'[d] <=> d \notin later'[c])
      BY <2>9, <2>10
    <3>5. \A c, d, e \in RelCommitSet : d \in later'[c] /\ e \in later'[d] => e \in later'[c]
      BY <2>9, <2>10
    <3> QED BY <3>1, <3>2, <3>3, <3>4, <3>5, OrderFrom
  <2>4. DoomedOld'
    <3> SUFFICES ASSUME NEW k \in RelJobs, NEW c \in doomed'[k], jpc'[k] # "dead", rel'[c].here, ~revived'
                 PROVE  Cardinality(later'[c]) >= relCfg'.keep
      BY DEF DoomedOld
    <3>1. c \in doomed[k] /\ c \in RelCommitSet /\ c # x /\ rel[c].here /\ jpc[k] # "dead"
      BY <1>0, <2>1
    <3>2. Cardinality(later[c]) >= relCfg.keep
      BY <1>0, <3>1 DEF DoomedOld
    <3>3. CASE x \notin later[c]
      <4>1. later'[c] = later[c]
        BY <2>1, <3>1, <3>3
      <4> QED BY <1>0, <3>2, <4>1
    <3>4. CASE x \in later[c]
      <4>1. rel[x].here /\ Cardinality(later[x]) >= relCfg.keep
        BY <1>0, <3>1, <3>4 DEF DoomedOld, Ordered, Here
      <4>2. later'[c] \in SUBSET RelCommitSet /\ later[x] \in SUBSET later'[c]
        <5>1. later'[c] \in SUBSET RelCommitSet
          BY <2>9, <2>10, <3>1
        <5>2. \A e : e \in later[x] => e \in later'[c]
          BY <2>9, <2>10, <3>1, <3>4
        <5> QED BY <5>1, <5>2
      <4>3. Cardinality(later[x]) <= Cardinality(later'[c])
        BY <4>2, MoreLater
      <4>4. Cardinality(later[x]) \in Nat /\ Cardinality(later'[c]) \in Nat /\ relCfg.keep \in Nat
        BY <4>2, LaterFinite DEF ForgeOK, RelConfigs
      <4> QED BY <1>0, <4>1, <4>3, <4>4
    <3> QED BY <3>3, <3>4
  <2> QED BY <2>3, <2>4
<1> QED BY <1>1, <1>2 DEF DeleteRelease, Deleted

(* A tag's deletion moves no release.                                       *)
LEMMA TagGoes ==
  ASSUME ForgeOK, Ordered, Untagging, NEW j \in RelJobs, DeleteReleaseTag(j)
  PROVE  /\ untag[j] \in RelCommitSet /\ jpc[j] = "prune"
         /\ \A c \in RelCommitSet :
              /\ rel'[c].here = rel[c].here /\ rel'[c].asset = rel[c].asset
              /\ ~rel[c].here => rel'[c] = rel[c]
              /\ rel'[c].draft => rel[c].draft \/ revived
<1> DEFINE u == untag[j]
<1>1. u \in RelCommitSet /\ jpc[j] = "prune"
  BY DEF DeleteReleaseTag, Untagging, RelCommitSet
<1>2. \A c \in RelCommitSet : rel[c] \in Releases
  BY DEF ForgeOK
<1>3. CASE rel' = rel
  BY <1>1, <1>3
<1>4. CASE rel' # rel
  <2>1. rel' = [rel EXCEPT ![u].draft = @ \/ (rel[u].here /\ relCfg.forge = "github")]
    BY <1>4 DEF DeleteReleaseTag
  <2>2. \A c \in RelCommitSet : c # u => rel'[c] = rel[c]
    BY <2>1 DEF ForgeOK
  <2>3. rel'[u] = [rel[u] EXCEPT !.draft = @ \/ (rel[u].here /\ relCfg.forge = "github")]
    BY <1>1, <2>1 DEF ForgeOK
  <2>4. /\ rel'[u].here = rel[u].here /\ rel'[u].asset = rel[u].asset
        /\ rel'[u].draft => rel[u].draft \/ rel[u].here
    BY <1>1, <1>2, <2>3 DEF Releases
  <2>5. ~rel[u].here => rel'[u] = rel[u]
    <3>1. \A r \in Releases, b \in BOOLEAN : r.draft = b => [r EXCEPT !.draft = b] = r
      BY DEF Releases
    <3>2. ASSUME ~rel[u].here PROVE rel[u].draft = (rel[u].draft \/ (rel[u].here /\ relCfg.forge = "github"))
      BY <1>1, <1>2, <3>2 DEF Releases
    <3>3. ASSUME ~rel[u].here PROVE (rel[u].draft \/ (rel[u].here /\ relCfg.forge = "github")) \in BOOLEAN
      BY Zenon
    <3> QED BY <1>1, <1>2, <2>3, <3>1, <3>2, <3>3
  <2>6. rel[u].here => revived
    BY <1>1 DEF Untagging, DeleteReleaseTag
  <2> QED BY <1>1, <2>2, <2>4, <2>5, <2>6
<1> QED BY <1>3, <1>4

(* A step at a release leaves it there.                                     *)
LEMMA AtReleaseMoves ==
  ASSUME ForgeOK, JobsOK, Ordered, NEW j \in RelJobs, StepsAtRelease(j)
  PROVE  \A c \in RelCommitSet : rel'[c].here = rel[c].here /\ (~rel[c].here => rel'[c] = rel[c])
<1>2. jc[j] \in RelCommitSet /\ \A c \in RelCommitSet : ~rel[c].here => rel[c] = NoRelease
  BY DEF JobsOK, Ordered
<1>3. ASSUME rel' = [rel EXCEPT ![jc[j]].draft = FALSE] \/ (rel[jc[j]].here /\ rel' = [rel EXCEPT ![jc[j]].draft = TRUE])
             \/ (rel[jc[j]].here /\ rel' = [rel EXCEPT ![jc[j]].asset = TRUE]) \/ rel' = rel
      PROVE  \A c \in RelCommitSet : rel'[c].here = rel[c].here /\ (~rel[c].here => rel'[c] = rel[c])
  <2>1. \A c \in RelCommitSet : rel[c] \in Releases
    BY DEF ForgeOK
  <2>2. CASE rel' = [rel EXCEPT ![jc[j]].draft = FALSE]
    <3>1. \A c \in RelCommitSet : c # jc[j] => rel'[c] = rel[c]
      BY <2>2 DEF ForgeOK
    <3>2. rel'[jc[j]] = [rel[jc[j]] EXCEPT !.draft = FALSE]
      BY <1>2, <2>2 DEF ForgeOK
    <3>3. rel'[jc[j]].here = rel[jc[j]].here
      BY <1>2, <2>1, <3>2 DEF Releases
    <3>4. ~rel[jc[j]].here => rel'[jc[j]] = rel[jc[j]]
      <4>1. [NoRelease EXCEPT !.draft = FALSE] = NoRelease
        <5>1. \A r \in Releases : r.draft = FALSE => [r EXCEPT !.draft = FALSE] = r
          BY DEF Releases
        <5> QED BY <5>1, OneRelease DEF NoRelease
      <4> QED BY <1>2, <3>2, <4>1
    <3> QED BY <3>1, <3>3, <3>4
  <2>3. CASE rel[jc[j]].here /\ rel' = [rel EXCEPT ![jc[j]].draft = TRUE]
    <3>1. /\ \A c \in RelCommitSet : c # jc[j] => rel'[c] = rel[c]
          /\ rel'[jc[j]] = [rel[jc[j]] EXCEPT !.draft = TRUE]
      BY <1>2, <2>3 DEF ForgeOK
    <3>2. rel'[jc[j]].here = rel[jc[j]].here
      BY <1>2, <2>1, <3>1 DEF Releases
    <3> QED BY <2>3, <3>1, <3>2
  <2>4. CASE rel[jc[j]].here /\ rel' = [rel EXCEPT ![jc[j]].asset = TRUE]
    <3>1. /\ \A c \in RelCommitSet : c # jc[j] => rel'[c] = rel[c]
          /\ rel'[jc[j]] = [rel[jc[j]] EXCEPT !.asset = TRUE]
      BY <1>2, <2>4 DEF ForgeOK
    <3>2. rel'[jc[j]].here = rel[jc[j]].here
      BY <1>2, <2>1, <3>1 DEF Releases
    <3> QED BY <2>4, <3>1, <3>2
  <2> QED BY <1>3, <2>2, <2>3, <2>4
<1>4. \A c \in RelCommitSet : rel'[c].here = rel[c].here /\ (~rel[c].here => rel'[c] = rel[c])
  BY <1>3 DEF StepsAtRelease, RecreateRelease, Republish, RestoreVisible, UploadAssets, PublishDraft
<1> QED BY <1>4

LEMMA OrderInv ==
  ASSUME ForgeOK, JobsOK, Ordered, DoomedOld, Untagging, [ReleaseNext]_releaseVars
  PROVE  Ordered' /\ DoomedOld'
<1>1. CASE UNCHANGED releaseVars \/ PushCommit
  <2>1. UNCHANGED <<relCfg, rel, later, doomed, revived>>
    BY <1>1 DEF PushCommit, releaseVars, forgeState, jobState, relGhosts
  <2> QED BY <2>1, StepsLast, OrderStays
<1>2. ASSUME NEW j \in RelJobs, StepsBeside(j) PROVE Ordered' /\ DoomedOld'
  <2>1. UNCHANGED <<relCfg, rel, later, doomed, revived>>
    BY <1>2 DEF StepsBeside, IsBranchHeadFresh, SkipRelease, PremarkRelease, DetectRelease, VerifyPublished,
       DiscoverRows, CollectAssets, Prepare, WriteNotes, CreateAliasTag, DeleteAliasTag, RecreateAliasTag,
       AliasHolds, RefreshDelete, RefreshCreate, RefreshAttach, ProjectAuthored, RecordSuccess, KillPublish,
       forgeState
  <2> QED BY <2>1, StepsLast, OrderStays
<1>3. ASSUME NEW j \in RelJobs, StepsAtRelease(j) PROVE Ordered' /\ DoomedOld'
  <2>1. UNCHANGED <<relCfg, later, doomed, revived>>
    BY <1>3 DEF StepsAtRelease, RecreateRelease, Republish, RestoreVisible, UploadAssets, PublishDraft
  <2> QED BY <1>3, <2>1, AtReleaseMoves, StepsLast, OrderStays
<1>4. ASSUME NEW j \in RelJobs, ListReleases(j) PROVE Ordered' /\ DoomedOld'
  <2>1. UNCHANGED <<relCfg, rel, later, revived>>
    BY <1>4 DEF ListReleases, forgeState
  <2>2. Ordered'
    BY <2>1 DEF Ordered, Here
  <2>3. \A k \in RelJobs : doomed'[k] \in {doomed[k], beyond(relCfg.keep), {}}
    BY <1>4 DEF ListReleases, JobsOK
  <2>4. DoomedOld'
    BY <2>1, <2>3, StepsLast DEF DoomedOld, beyond
  <2> QED BY <2>2, <2>4
<1>5. ASSUME NEW j \in RelJobs, NEW c \in RelCommitSet, StartPublish(j, c) \/ StartBackfill(j, c)
      PROVE  Ordered' /\ DoomedOld'
  <2>1. UNCHANGED <<relCfg, rel, later, doomed, revived>>
    BY <1>5 DEF StartPublish, StartBackfill, forgeState
  <2>2. Ordered' /\ DoomedOld'
    BY <2>1, StepsLast DEF Ordered, DoomedOld, Here
  <2> QED BY <2>2
<1>6. ASSUME NEW j \in RelJobs, DeleteReleaseTag(j) PROVE Ordered' /\ DoomedOld'
  <2>1. UNCHANGED <<relCfg, later, doomed, revived>>
    BY <1>6 DEF DeleteReleaseTag, relGhosts
  <2> QED BY <1>6, <2>1, TagGoes, StepsLast, OrderStays
<1> QED BY <1>1, <1>2, <1>3, <1>4, <1>5, <1>6, StepsLast, OrderOfCreated, OrderOfDeleted
        DEF ReleaseNext, ReleaseStep, StepsBeside, StepsAtRelease

(* Tags follow the releases: what has its release deleted is untagged next.  *)
LEMMA TagsStay ==
  ASSUME JobsOK, NoOrphanTag, Untagging, [ReleaseNext]_releaseVars, UNCHANGED <<relCfg, untag>>,
         \A c \in RelCommitSet : rel'[c].here = rel[c].here,
         relCfg.channel => \A c \in tagged' : c \in tagged \/ rel[c].here,
         tagged' \subseteq RelCommitSet
  PROVE  NoOrphanTag' /\ Untagging'
<1>1. NoOrphanTag'
  <2> SUFFICES ASSUME relCfg.channel, relFaults' = 0, NEW c \in tagged', ~rel'[c].here
               PROVE  \E j \in RelJobs : untag'[j] = c
    BY DEF NoOrphanTag
  <2>1. c \in tagged /\ ~rel[c].here
    OBVIOUS
  <2> QED BY <2>1, StepsLast DEF NoOrphanTag
<1>2. Untagging'
  <2>1. \A j \in RelJobs : untag[j] # 0 => untag[j] \in RelCommitSet
    BY DEF Untagging, RelCommitSet
  <2> QED BY <2>1, StepsLast DEF Untagging
<1> QED BY <1>1, <1>2

LEMMA TagInv ==
  ASSUME ForgeOK, ForgeOK', JobsOK, Ordered, NoOrphanTag, Untagging, [ReleaseNext]_releaseVars
  PROVE  NoOrphanTag' /\ Untagging'
<1>0. tagged' \subseteq RelCommitSet /\ \A j \in RelJobs : untag[j] # 0 => untag[j] \in RelCommitSet
  BY DEF ForgeOK, Untagging, RelCommitSet
<1>1. CASE UNCHANGED releaseVars \/ PushCommit
  <2>1. UNCHANGED <<relCfg, rel, tagged, untag>>
    BY <1>1 DEF PushCommit, releaseVars, forgeState, jobState
  <2> QED BY <1>0, <2>1, TagsStay
<1>2. ASSUME NEW j \in RelJobs, StepsBeside(j) \/ ListReleases(j) PROVE NoOrphanTag' /\ Untagging'
  <2>1. UNCHANGED <<relCfg, rel, tagged, untag>>
    BY <1>2 DEF StepsBeside, IsBranchHeadFresh, SkipRelease, PremarkRelease, DetectRelease, VerifyPublished,
       DiscoverRows, CollectAssets, Prepare, WriteNotes, CreateAliasTag, DeleteAliasTag, RecreateAliasTag,
       AliasHolds, RefreshDelete, RefreshCreate, RefreshAttach, ProjectAuthored, ListReleases, RecordSuccess,
       KillPublish, forgeState
  <2> QED BY <1>0, <2>1, TagsStay
<1>3. ASSUME NEW j \in RelJobs, NEW c \in RelCommitSet, StartPublish(j, c) \/ StartBackfill(j, c)
      PROVE  NoOrphanTag' /\ Untagging'
  <2>1. UNCHANGED <<relCfg, rel, untag>> /\ (relCfg.channel => tagged' = tagged)
    BY <1>3 DEF StartPublish, StartBackfill, forgeState
  <2> QED BY <1>0, <2>1, TagsStay
<1>4. ASSUME NEW j \in RelJobs, StepsAtRelease(j) PROVE NoOrphanTag' /\ Untagging'
  <2>1. UNCHANGED <<relCfg, untag>> /\ \A c \in tagged' : c \in tagged \/ rel[c].here
    BY <1>4 DEF StepsAtRelease, RecreateRelease, Republish, RestoreVisible, UploadAssets, PublishDraft
  <2>2. \A c \in RelCommitSet : rel'[c].here = rel[c].here
    BY <1>4, AtReleaseMoves
  <2> QED BY <1>0, <2>1, <2>2, TagsStay
<1>5. ASSUME NEW j \in RelJobs, CreateRelease(j) PROVE NoOrphanTag' /\ Untagging'
  <2>1. UNCHANGED <<relCfg, untag>> /\ jc[j] \in RelCommitSet /\ NoRelease.here = FALSE
    BY <1>5 DEF CreateRelease, JobsOK, NoRelease
  <2>2. CASE rel' = rel
    <3>1. tagged' = tagged
      <4>1. rel # [rel EXCEPT ![jc[j]] = [NoRelease EXCEPT !.here = TRUE]]
        BY <1>5, <2>1 DEF CreateRelease, ForgeOK, NoRelease
      <4> QED BY <1>5, <2>2, <4>1 DEF CreateRelease
    <3> QED BY <1>0, <2>1, <2>2, <3>1, TagsStay
  <2>3. CASE rel' # rel
    <3>1. /\ rel' = [rel EXCEPT ![jc[j]] = [NoRelease EXCEPT !.here = TRUE]]
          /\ revived' = (revived \/ \E k \in RelJobs : jpc[k] # "dead" /\ jc[j] \in doomed[k] \cup {untag[k]})
          /\ tagged' = tagged \cup {jc[j]}
      BY <1>5, <2>3 DEF CreateRelease
    <3>2. \A c \in RelCommitSet : rel'[c].here <=> rel[c].here \/ c = jc[j]
      BY <2>1, <3>1 DEF ForgeOK, NoRelease
    <3>3. NoOrphanTag'
      <4> SUFFICES ASSUME relCfg.channel, relFaults' = 0, NEW c \in tagged', ~rel'[c].here
                   PROVE  \E k \in RelJobs : untag[k] = c
        BY <2>1 DEF NoOrphanTag
      <4>1. c \in tagged /\ ~rel[c].here
        BY <1>0, <2>1, <3>1, <3>2
      <4> QED BY <4>1, StepsLast DEF NoOrphanTag
    <3>4. Untagging'
      <4> SUFFICES ASSUME NEW k \in RelJobs, untag[k] # 0, jpc'[k] # "dead", rel'[untag[k]].here PROVE revived'
        BY <2>1 DEF Untagging
      <4>1. jpc[k] # "dead" /\ untag[k] \in RelCommitSet
        BY <1>0, StepsLast
      <4> QED BY <3>1, <3>2, <4>1 DEF Untagging
    <3> QED BY <3>3, <3>4
  <2> QED BY <2>2, <2>3
<1>6. ASSUME NEW j \in RelJobs, NEW x \in RelCommitSet, DeleteRelease(j, x) PROVE NoOrphanTag' /\ Untagging'
  <2>1. /\ UNCHANGED <<relCfg, tagged, jpc, revived>> /\ untag[j] = 0 /\ NoRelease.here = FALSE /\ x # 0
        /\ x \in 0..RelCommits
    <3>1. x # 0 /\ x \in 0..RelCommits
      BY ReleaseAssumption DEF RelCommitSet
    <3> QED BY <1>6, <3>1 DEF DeleteRelease, relGhosts, NoRelease
  <2>2. CASE UNCHANGED <<rel, untag>>
    BY <1>0, <2>1, <2>2, TagsStay
  <2>3. CASE Deleted(x)
    <3>1. \A c \in RelCommitSet : rel'[c].here <=> rel[c].here /\ c # x
      BY <2>1, <2>3 DEF Deleted, ForgeOK
    <3>2. \A k \in RelJobs : k # j => untag'[k] = untag[k]
      BY <1>6 DEF DeleteRelease, Untagging
    <3>3. untag' \in [RelJobs -> 0..RelCommits] /\ untag'[j] \in {0, x}
      BY <1>6, <2>1 DEF DeleteRelease, Untagging
    <3>4. Untagging'
      <4> SUFFICES ASSUME NEW k \in RelJobs, untag'[k] # 0, jpc'[k] # "dead", rel'[untag'[k]].here PROVE revived'
        BY <3>3 DEF Untagging
      <4>1. k # j
        BY <1>6, <3>1, <3>3
      <4>2. untag'[k] = untag[k] /\ untag[k] \in RelCommitSet /\ rel[untag[k]].here
        BY <1>0, <3>1, <3>2, <4>1
      <4> QED BY <2>1, <4>2 DEF Untagging
    <3>5. NoOrphanTag'
      <4> SUFFICES ASSUME relCfg.channel, relFaults' = 0, NEW c \in tagged, ~rel'[c].here
                   PROVE  \E k \in RelJobs : untag'[k] = c
        BY <2>1 DEF NoOrphanTag
      <4>0. c \in RelCommitSet /\ relFaults = 0
        BY <1>0, <2>1, StepsLast
      <4>1. CASE rel[c].here
        <5>1. c = x /\ relFaults' # relFaults + 1
          BY <3>1, <4>0, <4>1
        <5>2. untag' = [untag EXCEPT ![j] = x]
          BY <1>6, <4>1, <5>1 DEF DeleteRelease, Ok, Fault
        <5> QED BY <5>1, <5>2 DEF Untagging
      <4>2. CASE ~rel[c].here
        <5>1. PICK k \in RelJobs : untag[k] = c
          BY <4>0, <4>2 DEF NoOrphanTag
        <5>2. k # j
          BY <1>6, <2>1, <4>0, <5>1 DEF RelCommitSet
        <5> QED BY <3>2, <5>1, <5>2
      <4> QED BY <4>1, <4>2
    <3> QED BY <3>4, <3>5
  <2> QED BY <1>6, <2>2, <2>3 DEF DeleteRelease
<1>7. ASSUME NEW j \in RelJobs, DeleteReleaseTag(j) PROVE NoOrphanTag' /\ Untagging'
  <2>1. /\ UNCHANGED <<relCfg, jpc, revived>> /\ untag' = [untag EXCEPT ![j] = 0]
        /\ \/ tagged' = tagged \ {untag[j]}
           \/ relFaults' = relFaults + 1
    BY <1>7 DEF DeleteReleaseTag, relGhosts, Ok, Fault
  <2>2. \A c \in RelCommitSet : rel'[c].here = rel[c].here
    BY <1>7, TagGoes
  <2>3. untag' \in [RelJobs -> 0..RelCommits] /\ \A k \in RelJobs : untag'[k] = IF k = j THEN 0 ELSE untag[k]
    BY <2>1, OneAlias DEF Untagging
  <2>4. Untagging'
    BY <1>0, <2>1, <2>2, <2>3 DEF Untagging
  <2>5. NoOrphanTag'
    <3> SUFFICES ASSUME relCfg.channel, relFaults' = 0, NEW c \in tagged', ~rel'[c].here
                 PROVE  \E k \in RelJobs : untag'[k] = c
      BY <2>1 DEF NoOrphanTag
    <3>1. relFaults = 0 /\ tagged' = tagged \ {untag[j]} /\ ~rel[c].here
      BY <1>0, <2>1, <2>2, StepsLast DEF JobsOK
    <3>2. PICK k \in RelJobs : untag[k] = c
      BY <2>1, <3>1 DEF NoOrphanTag
    <3> QED BY <2>3, <3>1, <3>2
  <2> QED BY <2>4, <2>5
<1> QED BY <1>1, <1>2, <1>3, <1>4, <1>5, <1>6, <1>7 DEF ReleaseNext, ReleaseStep, StepsBeside, StepsAtRelease

-----------------------------------------------------------------------------
(* What a job knows of the branch *)

\* The steps of a job past the gate that go on to another label.
LateSteps(j) ==
  \/ DetectRelease(j) \/ VerifyPublished(j) \/ DiscoverRows(j) \/ CollectAssets(j) \/ WriteNotes(j)
  \/ CreateRelease(j) \/ StepsAtRelease(j)
  \/ CreateAliasTag(j) \/ DeleteAliasTag(j) \/ RecreateAliasTag(j) \/ AliasHolds(j)
  \/ RefreshDelete(j) \/ RefreshCreate(j) \/ RefreshAttach(j)
  \/ ProjectAuthored(j) \/ ListReleases(j) \/ RecordSuccess(j)

LEMMA LateMoves ==
  ASSUME JobsOK, NEW j \in RelJobs, LateSteps(j)
  PROVE  /\ jpc[j] \in Late \cup AtAlias
         /\ \E l \in Late \cup AtAlias \cup {"done"} : jpc' = [jpc EXCEPT ![j] = l]
         /\ UNCHANGED <<relCfg, branch, jc, fresh, past, wasHead>>
         /\ relFaults' \in {relFaults, relFaults + 1}
<1> USE DEF JobGoto, ReleaseFails, Ok, Fault, Late, AtAlias
<1>1. CASE DetectRelease(j) \/ VerifyPublished(j) \/ DiscoverRows(j) \/ CollectAssets(j)
  BY <1>1 DEF DetectRelease, VerifyPublished, DiscoverRows, CollectAssets, Prepare
<1>2. CASE WriteNotes(j) \/ RecordSuccess(j)
  BY <1>2 DEF WriteNotes, RecordSuccess
<1>3. CASE CreateRelease(j)
  BY <1>3 DEF CreateRelease
<1>4. CASE RecreateRelease(j) \/ Republish(j) \/ RestoreVisible(j)
  BY <1>4 DEF RecreateRelease, Republish, RestoreVisible, PublishDraft
<1>5. CASE UploadAssets(j)
  BY <1>5 DEF UploadAssets
<1>6. CASE CreateAliasTag(j) \/ DeleteAliasTag(j) \/ RecreateAliasTag(j) \/ AliasHolds(j)
  BY <1>6 DEF CreateAliasTag, DeleteAliasTag, RecreateAliasTag, AliasHolds
<1>7. CASE RefreshDelete(j) \/ RefreshCreate(j) \/ RefreshAttach(j)
  BY <1>7 DEF RefreshDelete, RefreshCreate, RefreshAttach
<1>8. CASE ProjectAuthored(j) \/ ListReleases(j)
  BY <1>8 DEF ProjectAuthored, ListReleases
<1> QED BY <1>1, <1>2, <1>3, <1>4, <1>5, <1>6, <1>7, <1>8 DEF LateSteps, StepsAtRelease

LEMMA HeadInv ==
  ASSUME ForgeOK, JobsOK, HeadKnown, [ReleaseNext]_releaseVars
  PROVE  HeadKnown'
<1>0. /\ branch \in Nat /\ relFaults \in Nat
      /\ \A j \in RelJobs : jc[j] \in Nat /\ jc[j] <= branch
  BY DEF ForgeOK, JobsOK, HeadKnown, RelCommitSet
<1>1. CASE UNCHANGED releaseVars
  BY <1>1 DEF releaseVars, forgeState, jobState, relGhosts, HeadKnown
<1>2. CASE PushCommit
  <2>1. /\ branch' = branch + 1
        /\ UNCHANGED <<relCfg, jc, jpc, fresh, wasHead, past, relFaults>>
    BY <1>2 DEF PushCommit, jobState, relGhosts
  <2> QED BY <1>0, <2>1 DEF HeadKnown
<1>3. ASSUME NEW j \in RelJobs, NEW c \in RelCommitSet, StartPublish(j, c) PROVE HeadKnown'
  <2>1. /\ c <= branch /\ jc' = [jc EXCEPT ![j] = c] /\ jpc' = [jpc EXCEPT ![j] = "freshness"]
        /\ wasHead' = IF c = branch THEN wasHead \cup {j} ELSE wasHead
        /\ UNCHANGED <<relCfg, branch, fresh, past, relFaults>>
    BY <1>3 DEF StartPublish, JobGoto
  <2> SUFFICES ASSUME NEW k \in RelJobs
               PROVE  /\ jc'[k] <= branch'
                      /\ relCfg'.channel /\ jpc'[k] = "freshness" /\ jc'[k] = branch' => k \in wasHead'
                      /\ relCfg'.channel /\ relFaults' = 0 /\ fresh'[k] = "yes" => k \in wasHead'
                      /\ jpc'[k] \in Late \cup AtAlias /\ k \notin past' => fresh'[k] = "yes"
    BY DEF HeadKnown
  <2>2. CASE k = j
    BY <2>1, <2>2 DEF JobsOK, HeadKnown, Late, AtAlias
  <2>3. CASE k # j
    BY <2>1, <2>3 DEF JobsOK, HeadKnown
  <2> QED BY <2>2, <2>3
<1>4. ASSUME NEW j \in RelJobs, NEW c \in RelCommitSet, StartBackfill(j, c) PROVE HeadKnown'
  <2>1. /\ c < branch /\ jc' = [jc EXCEPT ![j] = c] /\ jpc' = [jpc EXCEPT ![j] = "detect"]
        /\ past' = past \cup {j} /\ UNCHANGED <<relCfg, branch, fresh, wasHead, relFaults>>
    BY <1>4 DEF StartBackfill, JobGoto
  <2> SUFFICES ASSUME NEW k \in RelJobs
               PROVE  /\ jc'[k] <= branch'
                      /\ relCfg'.channel /\ jpc'[k] = "freshness" /\ jc'[k] = branch' => k \in wasHead'
                      /\ relCfg'.channel /\ relFaults' = 0 /\ fresh'[k] = "yes" => k \in wasHead'
                      /\ jpc'[k] \in Late \cup AtAlias /\ k \notin past' => fresh'[k] = "yes"
    BY DEF HeadKnown
  <2>2. CASE k = j
    <3>1. c <= branch
      BY <1>0, <2>1 DEF RelCommitSet
    <3> QED BY <2>1, <2>2, <3>1 DEF JobsOK, HeadKnown
  <2>3. CASE k # j
    BY <2>1, <2>3 DEF JobsOK, HeadKnown
  <2> QED BY <2>2, <2>3
<1>5. ASSUME NEW j \in RelJobs, IsBranchHeadFresh(j) PROVE HeadKnown'
  <2>1. /\ jpc[j] = "freshness" /\ jpc' = [jpc EXCEPT ![j] = "gate"]
        /\ UNCHANGED <<relCfg, branch, jc, past, wasHead>>
        /\ \/ /\ fresh' = [fresh EXCEPT ![j] = IF ~relCfg.channel \/ jc[j] = branch THEN "yes" ELSE "no"]
              /\ relFaults' = relFaults
           \/ fresh' = [fresh EXCEPT ![j] = "yes"] /\ relFaults' = relFaults + 1
    BY <1>5 DEF IsBranchHeadFresh, JobGoto, Ok, Fault
  <2>2. "gate" \notin Late \cup AtAlias
    BY DEF Late, AtAlias
  <2> QED BY <1>0, <2>1, <2>2 DEF JobsOK, HeadKnown
<1>6. ASSUME NEW j \in RelJobs, SkipRelease(j) \/ PremarkRelease(j) PROVE HeadKnown'
  <2>1. /\ jpc' = [jpc EXCEPT ![j] = "done"] \/ (fresh[j] = "yes" /\ jpc' = [jpc EXCEPT ![j] = "detect"])
        /\ UNCHANGED <<relCfg, branch, jc, fresh, past, wasHead, relFaults>>
    BY <1>6 DEF SkipRelease, PremarkRelease, JobGoto
  <2>2. "done" \notin Late \cup AtAlias
    BY DEF Late, AtAlias
  <2> QED BY <1>0, <2>1, <2>2 DEF JobsOK, HeadKnown
<1>7. ASSUME NEW j \in RelJobs, LateSteps(j) \/ KillPublish(j) PROVE HeadKnown'
  <2>1. /\ UNCHANGED <<relCfg, branch, jc, fresh, past, wasHead>>
        /\ relFaults' \in {relFaults, relFaults + 1}
    BY <1>7, LateMoves DEF KillPublish, forgeState, Fault
  <2>2. PICK l \in Late \cup AtAlias \cup {"done", "dead"} : jpc' = [jpc EXCEPT ![j] = l]
    BY <1>7, LateMoves DEF KillPublish, JobGoto
  <2>3. l \in Late \cup AtAlias => jpc[j] \in Late \cup AtAlias
    <3>1. CASE KillPublish(j)
      <4>1. jpc'[j] = "dead" /\ jpc'[j] = l
        BY <2>2, <3>1 DEF KillPublish, JobGoto, JobsOK
      <4> QED BY <4>1 DEF Late, AtAlias
    <3> QED BY <1>7, <3>1, LateMoves
  <2>4. "freshness" \notin Late \cup AtAlias \cup {"done", "dead"}
    BY DEF Late, AtAlias
  <2>5. relFaults' = 0 => relFaults = 0
    BY <1>0, <2>1
  <2> QED BY <2>1, <2>2, <2>3, <2>4, <2>5 DEF JobsOK, HeadKnown
<1>8. ASSUME NEW j \in RelJobs, NEW c \in RelCommitSet, DeleteRelease(j, c) \/ DeleteReleaseTag(j) PROVE HeadKnown'
  <2>1. /\ UNCHANGED <<relCfg, branch, jc, jpc, fresh, past, wasHead>>
        /\ relFaults' \in {relFaults, relFaults + 1}
    BY <1>8 DEF DeleteRelease, DeleteReleaseTag, relGhosts, Ok, Fault
  <2>2. relFaults' = 0 => relFaults = 0
    BY <1>0, <2>1
  <2> QED BY <2>1, <2>2 DEF HeadKnown
<1>9. ASSUME NEW j \in RelJobs, DeleteReleaseTag(j) PROVE HeadKnown'
  BY <1>8, <1>9, OneCommit
<1> QED BY <1>1, <1>2, <1>3, <1>4, <1>5, <1>6, <1>7, <1>8, <1>9 DEF ReleaseNext, ReleaseStep, LateSteps, StepsAtRelease

-----------------------------------------------------------------------------
(* Drafts and assets *)

(* A draft keeps its owner over every step that makes none.                 *)
LEMMA DraftStays ==
  ASSUME JobsOK, DraftOwned, revived => revived', UNCHANGED jc, relFaults' \in {relFaults, relFaults + 1},
         NEW j \in RelJobs, NEW l \in Labels, jpc' = [jpc EXCEPT ![j] = l],
         \A c \in RelCommitSet : rel'[c].draft => rel[c].draft,
         jpc[j] \notin {"content", "restore", "dead"}, l # "restore"
  PROVE  DraftOwned'
<1>1. \A k \in RelJobs : /\ jpc[k] \in {"content", "restore", "dead"} => jpc'[k] = jpc[k]
                         /\ jpc'[k] = "restore" => jpc[k] = "restore"
  BY DEF JobsOK
<1>2. relFaults' >= relFaults /\ relFaults \in Nat /\ relFaults' \in Nat
  BY DEF JobsOK
<1> QED BY <1>1, <1>2 DEF DraftOwned

\* Steps with no part in the draft toggle.
StepsNoDraft(j) ==
  \/ IsBranchHeadFresh(j) \/ SkipRelease(j) \/ PremarkRelease(j) \/ DetectRelease(j) \/ VerifyPublished(j)
  \/ DiscoverRows(j) \/ CollectAssets(j) \/ WriteNotes(j) \/ CreateRelease(j) \/ UploadAssets(j)
  \/ CreateAliasTag(j) \/ DeleteAliasTag(j) \/ RecreateAliasTag(j) \/ AliasHolds(j)
  \/ RefreshDelete(j) \/ RefreshCreate(j) \/ RefreshAttach(j)
  \/ ProjectAuthored(j) \/ ListReleases(j) \/ RecordSuccess(j)

LEMMA NoDraftMoves ==
  ASSUME JobsOK, NEW j \in RelJobs, StepsNoDraft(j)
  PROVE  /\ jpc[j] \notin {"content", "restore", "dead", "idle", "done"}
         /\ \E l \in Labels \ {"restore", "idle"} : jpc' = [jpc EXCEPT ![j] = l]
         /\ UNCHANGED jc /\ relFaults' \in {relFaults, relFaults + 1}
         /\ \/ UNCHANGED rel
            \/ rel' = [rel EXCEPT ![jc[j]] = [NoRelease EXCEPT !.here = TRUE]]
            \/ rel' = [rel EXCEPT ![jc[j]].asset = TRUE]
<1> USE DEF JobGoto, ReleaseFails, Ok, Fault, Labels, Early, Late, AtAlias, JobDone
<1>1. CASE DetectRelease(j) \/ VerifyPublished(j) \/ DiscoverRows(j) \/ CollectAssets(j)
  BY <1>1 DEF DetectRelease, VerifyPublished, DiscoverRows, CollectAssets, Prepare, forgeState
<1>2. CASE WriteNotes(j) \/ RecordSuccess(j) \/ IsBranchHeadFresh(j) \/ SkipRelease(j) \/ PremarkRelease(j)
  BY <1>2 DEF WriteNotes, RecordSuccess, IsBranchHeadFresh, SkipRelease, PremarkRelease, forgeState
<1>3. CASE CreateRelease(j)
  BY <1>3 DEF CreateRelease
<1>4. CASE UploadAssets(j)
  BY <1>4 DEF UploadAssets
<1>5. CASE CreateAliasTag(j) \/ DeleteAliasTag(j) \/ RecreateAliasTag(j) \/ AliasHolds(j)
  BY <1>5 DEF CreateAliasTag, DeleteAliasTag, RecreateAliasTag, AliasHolds, forgeState
<1>6. CASE RefreshDelete(j) \/ RefreshCreate(j) \/ RefreshAttach(j)
  BY <1>6 DEF RefreshDelete, RefreshCreate, RefreshAttach
<1>7. CASE ProjectAuthored(j) \/ ListReleases(j)
  BY <1>7 DEF ProjectAuthored, ListReleases, forgeState
<1> QED BY <1>1, <1>2, <1>3, <1>4, <1>5, <1>6, <1>7 DEF StepsNoDraft

LEMMA DraftInv ==
  ASSUME ForgeOK, JobsOK, Ordered, Untagging, DraftOwned, [ReleaseNext]_releaseVars
  PROVE  DraftOwned'
<1>00. revived => revived'
  BY StepsLast
<1> USE <1>00
<1>0. /\ relFaults \in Nat /\ \A j \in RelJobs : jc[j] \in RelCommitSet
      /\ \A c \in RelCommitSet : rel[c] \in Releases
      /\ NoRelease.draft = FALSE /\ [NoRelease EXCEPT !.here = TRUE].draft = FALSE
  BY DEF JobsOK, ForgeOK, NoRelease
<1>1. CASE UNCHANGED releaseVars \/ PushCommit
  <2>1. UNCHANGED <<rel, jpc, jc, relFaults>>
    BY <1>1 DEF releaseVars, PushCommit, forgeState, jobState, relGhosts
  <2> QED BY <2>1 DEF DraftOwned
<1>2. ASSUME NEW j \in RelJobs, NEW c \in RelCommitSet, StartPublish(j, c) \/ StartBackfill(j, c)
      PROVE  DraftOwned'
  <2>1. /\ jpc[j] = "idle" /\ UNCHANGED <<rel, relFaults>>
        /\ \E l \in {"freshness", "detect"} : jpc' = [jpc EXCEPT ![j] = l]
        /\ jc' = [jc EXCEPT ![j] = c]
    BY <1>2 DEF StartPublish, StartBackfill, JobGoto, forgeState
  <2>2. \A k \in RelJobs : jpc[k] \in {"content", "restore", "dead"} => jpc'[k] = jpc[k] /\ jc'[k] = jc[k]
    BY <2>1 DEF JobsOK
  <2>3. \A k \in RelJobs : jpc'[k] = "restore" => jpc[k] = "restore"
    BY <2>1 DEF JobsOK
  <2> QED BY <2>1, <2>2, <2>3 DEF DraftOwned
<1>3. ASSUME NEW j \in RelJobs, StepsNoDraft(j) PROVE DraftOwned'
  <2>1. PICK l \in Labels \ {"restore", "idle"} : jpc' = [jpc EXCEPT ![j] = l]
    BY <1>3, NoDraftMoves
  <2>2. \A c \in RelCommitSet : rel'[c].draft => rel[c].draft
    <3>1. CASE UNCHANGED rel
      BY <3>1
    <3>2. CASE rel' = [rel EXCEPT ![jc[j]] = [NoRelease EXCEPT !.here = TRUE]]
      BY <1>0, <3>2 DEF ForgeOK
    <3>3. CASE rel' = [rel EXCEPT ![jc[j]].asset = TRUE]
      <4>1. \A c \in RelCommitSet : rel'[c] = IF c = jc[j] THEN [rel[c] EXCEPT !.asset = TRUE] ELSE rel[c]
        BY <3>3 DEF ForgeOK
      <4> QED BY <1>0, <4>1 DEF Releases
    <3> QED BY <1>3, <3>1, <3>2, <3>3, NoDraftMoves
  <2>3. UNCHANGED jc /\ relFaults' \in {relFaults, relFaults + 1} /\ jpc[j] \notin {"content", "restore", "dead"}
    BY <1>3, NoDraftMoves
  <2> QED BY <2>1, <2>2, <2>3, DraftStays
<1>4. ASSUME NEW j \in RelJobs, RecreateRelease(j) PROVE DraftOwned'
  <2>1. CASE rel' = rel
    <3>1. UNCHANGED jc /\ relFaults' \in {relFaults, relFaults + 1} /\ jpc[j] = "create"
          /\ \E l \in {"done", "content"} : jpc' = [jpc EXCEPT ![j] = l]
      BY <1>4 DEF RecreateRelease, ReleaseFails, JobGoto, Ok, Fault
    <3>2. {"done", "content"} \subseteq Labels
      BY DEF Labels, JobDone, Late
    <3> QED BY <2>1, <3>1, <3>2, DraftStays
  <2>2. CASE rel' # rel
    <3>1. rel' = [rel EXCEPT ![jc[j]].draft = TRUE] /\ jpc[j] = "create" /\ jpc' = [jpc EXCEPT ![j] = "content"]
          /\ UNCHANGED <<jc, relFaults>>
      BY <1>4, <2>2 DEF RecreateRelease, JobGoto, Ok
    <3>2. \A c \in RelCommitSet : c # jc[j] => rel'[c] = rel[c]
      BY <3>1 DEF ForgeOK
    <3>3. jpc'[j] = "content" /\ jc'[j] = jc[j]
      BY <3>1 DEF JobsOK
    <3>4. \A k \in RelJobs : /\ jpc[k] \in {"content", "restore", "dead"} => jpc'[k] = jpc[k]
                             /\ jpc'[k] = "restore" => jpc[k] = "restore"
      BY <3>1 DEF JobsOK
    <3> QED BY <3>1, <3>2, <3>3, <3>4 DEF DraftOwned
  <2> QED BY <2>1, <2>2
<1>5. ASSUME NEW j \in RelJobs, Republish(j) PROVE DraftOwned'
  <2>0. jpc[j] = "content" /\ UNCHANGED jc
    BY <1>5 DEF Republish
  <2>1. CASE rel' = [rel EXCEPT ![jc[j]].draft = FALSE] \/ (~rel[jc[j]].here /\ rel' = rel)
    <3>1. /\ \E l \in {"upload", "done", "restore"} : jpc' = [jpc EXCEPT ![j] = l] /\ (l = "restore" => relFaults' > 0)
          /\ relFaults' \in {relFaults, relFaults + 1}
      BY <1>0, <1>5 DEF Republish, PublishDraft, JobGoto, ReleaseFails, Ok, Fault
    <3>2. ~rel'[jc[j]].draft /\ \A c \in RelCommitSet : c # jc[j] => rel'[c] = rel[c]
      <4>1. CASE rel' = rel
        BY <1>0, <2>1, <4>1 DEF Ordered, ForgeOK, Releases
      <4>2. CASE rel' = [rel EXCEPT ![jc[j]].draft = FALSE]
        <5>1. \A c \in RelCommitSet : rel'[c] = IF c = jc[j] THEN [rel[c] EXCEPT !.draft = FALSE] ELSE rel[c]
          BY <4>2 DEF ForgeOK
        <5> QED BY <1>0, <5>1 DEF Releases
      <4> QED BY <2>1, <4>1, <4>2
    <3>3. \A k \in RelJobs : /\ k # j => jpc'[k] = jpc[k]
                             /\ jpc[k] = "dead" => jpc'[k] = "dead"
                             /\ jpc'[k] = "restore" => jpc[k] = "restore" \/ relFaults' > 0
      BY <2>0, <3>1 DEF JobsOK
    <3> QED BY <1>0, <2>0, <3>1, <3>2, <3>3 DEF DraftOwned
  <2>2. CASE jpc' = [jpc EXCEPT ![j] = "restore"] /\ rel' = rel /\ relFaults' = relFaults + 1
    <3>1. \A k \in RelJobs : /\ k # j => jpc'[k] = jpc[k]
                             /\ jpc'[j] = "restore" /\ jc'[k] = jc[k]
      BY <2>0, <2>2 DEF JobsOK
    <3> QED BY <1>0, <2>0, <2>2, <3>1 DEF DraftOwned
  <2> QED BY <1>5, <2>1, <2>2 DEF Republish, PublishDraft, JobGoto, Fault
<1>6. ASSUME NEW j \in RelJobs, RestoreVisible(j) PROVE DraftOwned'
  <2>0. jpc[j] = "restore" /\ UNCHANGED jc /\ jpc' = [jpc EXCEPT ![j] = "done"] /\ relFaults > 0
    BY <1>6 DEF RestoreVisible, ReleaseFails, JobGoto, DraftOwned
  <2>1. \A k \in RelJobs : /\ k # j => jpc'[k] = jpc[k]
                           /\ jpc'[j] = "done"
    BY <2>0 DEF JobsOK
  <2>2. CASE rel' = [rel EXCEPT ![jc[j]].draft = FALSE] /\ relFaults' = relFaults
    <3>1. \A c \in RelCommitSet : rel'[c] = IF c = jc[j] THEN [rel[c] EXCEPT !.draft = FALSE] ELSE rel[c]
      BY <2>2 DEF ForgeOK
    <3>2. ~rel'[jc[j]].draft /\ \A c \in RelCommitSet : c # jc[j] => rel'[c] = rel[c]
      BY <1>0, <3>1 DEF Releases
    <3> QED BY <1>0, <2>0, <2>1, <2>2, <3>2 DEF DraftOwned
  <2>3. CASE relFaults' = relFaults + 1
    BY <1>0, <2>0, <2>1, <2>3 DEF DraftOwned
  <2> QED BY <1>6, <2>2, <2>3 DEF RestoreVisible, PublishDraft, Ok, Fault
<1>7. ASSUME NEW j \in RelJobs, KillPublish(j) PROVE DraftOwned'
  <2>1. /\ jpc' = [jpc EXCEPT ![j] = "dead"] /\ UNCHANGED <<rel, jc>> /\ relFaults' = relFaults + 1
    BY <1>7 DEF KillPublish, JobGoto, Fault, forgeState
  <2>2. jpc'[j] = "dead" /\ \A k \in RelJobs : k # j => jpc'[k] = jpc[k]
    BY <2>1 DEF JobsOK
  <2> QED BY <1>0, <2>1, <2>2 DEF DraftOwned
<1>8. ASSUME NEW j \in RelJobs, NEW x \in RelCommitSet, DeleteRelease(j, x) PROVE DraftOwned'
  <2>1. /\ UNCHANGED <<jpc, jc>> /\ relFaults' \in {relFaults, relFaults + 1}
        /\ rel' \in {rel, [rel EXCEPT ![x] = NoRelease]}
    BY <1>8 DEF DeleteRelease, Deleted, Ok, Fault
  <2>2. \A c \in RelCommitSet : rel'[c].draft => rel[c].draft
    BY <1>0, <2>1 DEF ForgeOK
  <2> QED BY <1>0, <2>1, <2>2 DEF DraftOwned
<1>9. ASSUME NEW j \in RelJobs, DeleteReleaseTag(j) PROVE DraftOwned'
  <2>1. UNCHANGED <<jpc, jc>> /\ relFaults' \in {relFaults, relFaults + 1}
    BY <1>9 DEF DeleteReleaseTag, Ok, Fault
  <2>2. \A c \in RelCommitSet : rel'[c].draft => rel[c].draft \/ revived
    BY <1>9, TagGoes
  <2> QED BY <1>0, <2>1, <2>2 DEF DraftOwned
<1> QED BY <1>1, <1>2, <1>3, <1>4, <1>5, <1>6, <1>7, <1>8, <1>9 DEF ReleaseNext, ReleaseStep, StepsNoDraft

(* Assets stay owed by the same jobs over every step that loses none.       *)
LEMMA AssetsStay ==
  ASSUME JobsOK, AssetsOwed, UNCHANGED jc,
         NEW j \in RelJobs, NEW l \in Labels, jpc' = [jpc EXCEPT ![j] = l],
         jpc[j] \notin {"dead", "idle", "done"}, l # "idle", jpc[j] = "upload" => l = "dead",
         partial' \in {partial, partial \cup {j}},
         record' = record \/ \E o \in {"skipped", "failed", "success"} :
                               record' = [record EXCEPT ![j] = o] /\ (o = "success" => l = "done"),
         \A c \in RelCommitSet : rel'[c].here /\ ~rel'[c].asset => rel[c].here /\ ~rel[c].asset
  PROVE  AssetsOwed'
<1>1. \A k \in RelJobs : jpc'[k] = IF k = j THEN l ELSE jpc[k]
  BY DEF JobsOK
<1>2. \A k \in RelJobs : jpc[k] \in {"upload", "dead"} => jpc'[k] \in {"upload", "dead"}
  BY <1>1
<1>3. \A k \in RelJobs : k # j => record'[k] = record[k] /\ (k \in partial' <=> k \in partial)
  BY DEF JobsOK
<1>4. record'[j] = "success" => jpc'[j] = "done"
  BY <1>1 DEF JobsOK, AssetsOwed
<1>5. \A k \in RelJobs : /\ jpc'[k] = "idle" => k \notin partial'
                         /\ record'[k] = "success" => jpc'[k] = "done"
  BY <1>1, <1>3, <1>4 DEF AssetsOwed
<1>6. \A c \in RelCommitSet : rel'[c].here /\ ~rel'[c].asset =>
        \E k \in RelJobs : jc'[k] = c /\ (jpc'[k] \in {"upload", "dead"} \/ k \in partial')
  BY <1>2 DEF AssetsOwed
<1> QED BY <1>5, <1>6 DEF AssetsOwed

\* Steps that leave the assets alone.
StepsNoAsset(j) ==
  \/ IsBranchHeadFresh(j) \/ SkipRelease(j) \/ PremarkRelease(j) \/ DetectRelease(j) \/ VerifyPublished(j)
  \/ DiscoverRows(j) \/ CollectAssets(j) \/ WriteNotes(j)
  \/ RecreateRelease(j) \/ Republish(j) \/ RestoreVisible(j)
  \/ CreateAliasTag(j) \/ DeleteAliasTag(j) \/ RecreateAliasTag(j) \/ AliasHolds(j)
  \/ RefreshDelete(j) \/ RefreshCreate(j) \/ RefreshAttach(j)
  \/ ProjectAuthored(j) \/ ListReleases(j) \/ RecordSuccess(j)

LEMMA NoAssetMoves ==
  ASSUME JobsOK, NEW j \in RelJobs, StepsNoAsset(j)
  PROVE  /\ jpc[j] \notin {"upload", "dead", "idle", "done"}
         /\ \E l \in Labels \ {"idle"} :
              /\ jpc' = [jpc EXCEPT ![j] = l]
              /\ record' = record \/ \E o \in {"skipped", "failed", "success"} :
                                       record' = [record EXCEPT ![j] = o] /\ (o = "success" => l = "done")
         /\ UNCHANGED jc /\ partial' \in {partial, partial \cup {j}}
         /\ rel' = rel \/ \E b \in BOOLEAN : rel' = [rel EXCEPT ![jc[j]].draft = b]
<1> USE DEF JobGoto, ReleaseFails, RecordRelease, Ok, Fault, Labels, Early, Late, AtAlias, JobDone
<1>1. CASE DetectRelease(j) \/ VerifyPublished(j) \/ DiscoverRows(j) \/ CollectAssets(j)
  BY <1>1 DEF DetectRelease, VerifyPublished, DiscoverRows, CollectAssets, Prepare, forgeState
<1>2. CASE WriteNotes(j) \/ RecordSuccess(j) \/ IsBranchHeadFresh(j) \/ SkipRelease(j) \/ PremarkRelease(j)
  BY <1>2 DEF WriteNotes, RecordSuccess, IsBranchHeadFresh, SkipRelease, PremarkRelease, forgeState
<1>3. CASE RecreateRelease(j)
  BY <1>3 DEF RecreateRelease
<1>4. CASE Republish(j) \/ RestoreVisible(j)
  BY <1>4 DEF Republish, RestoreVisible, PublishDraft
<1>5. CASE CreateAliasTag(j) \/ DeleteAliasTag(j) \/ RecreateAliasTag(j) \/ AliasHolds(j)
  BY <1>5 DEF CreateAliasTag, DeleteAliasTag, RecreateAliasTag, AliasHolds, forgeState
<1>6. CASE RefreshDelete(j) \/ RefreshCreate(j) \/ RefreshAttach(j)
  BY <1>6 DEF RefreshDelete, RefreshCreate, RefreshAttach
<1>7. CASE ProjectAuthored(j) \/ ListReleases(j)
  BY <1>7 DEF ProjectAuthored, ListReleases, forgeState
<1> QED BY <1>1, <1>2, <1>3, <1>4, <1>5, <1>6, <1>7 DEF StepsNoAsset

LEMMA AssetsInv ==
  ASSUME ForgeOK, JobsOK, Ordered, Untagging, AssetsOwed, [ReleaseNext]_releaseVars
  PROVE  AssetsOwed'
<1>0. /\ \A j \in RelJobs : jc[j] \in RelCommitSet
      /\ \A c \in RelCommitSet : rel[c] \in Releases
      /\ NoRelease.here = FALSE
  BY DEF JobsOK, ForgeOK, NoRelease
<1>1. CASE UNCHANGED releaseVars \/ PushCommit
  <2>1. UNCHANGED <<rel, jpc, jc, partial, record>>
    BY <1>1 DEF releaseVars, PushCommit, forgeState, jobState, relGhosts
  <2> QED BY <2>1 DEF AssetsOwed
<1>2. ASSUME NEW j \in RelJobs, NEW c \in RelCommitSet, StartPublish(j, c) \/ StartBackfill(j, c)
      PROVE  AssetsOwed'
  <2>1. /\ jpc[j] = "idle" /\ UNCHANGED <<rel, partial, record>>
        /\ \E l \in {"freshness", "detect"} : jpc' = [jpc EXCEPT ![j] = l]
        /\ jc' = [jc EXCEPT ![j] = c]
    BY <1>2 DEF StartPublish, StartBackfill, JobGoto, forgeState
  <2>2. \A k \in RelJobs : k # j => jpc'[k] = jpc[k] /\ jc'[k] = jc[k]
    BY <2>1 DEF JobsOK
  <2>3. jpc'[j] # "idle" /\ j \notin partial /\ record[j] # "success"
    BY <2>1 DEF JobsOK, AssetsOwed
  <2> QED BY <2>1, <2>2, <2>3 DEF AssetsOwed
<1>3. ASSUME NEW j \in RelJobs, StepsNoAsset(j) PROVE AssetsOwed'
  <2>1. PICK l \in Labels \ {"idle"} :
          /\ jpc' = [jpc EXCEPT ![j] = l]
          /\ record' = record \/ \E o \in {"skipped", "failed", "success"} :
                                   record' = [record EXCEPT ![j] = o] /\ (o = "success" => l = "done")
    BY <1>3, NoAssetMoves
  <2>2. \A c \in RelCommitSet : rel'[c].here /\ ~rel'[c].asset => rel[c].here /\ ~rel[c].asset
    <3>1. ASSUME NEW b \in BOOLEAN, rel' = [rel EXCEPT ![jc[j]].draft = b]
          PROVE  \A c \in RelCommitSet : rel'[c].here = rel[c].here /\ rel'[c].asset = rel[c].asset
      <4>1. \A c \in RelCommitSet : rel'[c] = IF c = jc[j] THEN [rel[c] EXCEPT !.draft = b] ELSE rel[c]
        BY <3>1 DEF ForgeOK
      <4> QED BY <1>0, <4>1 DEF Releases
    <3> QED BY <1>3, <3>1, NoAssetMoves
  <2>3. UNCHANGED jc /\ partial' \in {partial, partial \cup {j}}
        /\ jpc[j] \notin {"upload", "dead", "idle", "done"}
    BY <1>3, NoAssetMoves
  <2> QED BY <2>1, <2>2, <2>3, AssetsStay
<1>4. ASSUME NEW j \in RelJobs, CreateRelease(j) PROVE AssetsOwed'
  <2>1. jpc[j] = "create" /\ UNCHANGED <<jc, partial>>
    BY <1>4 DEF CreateRelease
  <2>2. CASE rel' = rel /\ ReleaseFails(j)
    <3>1. jpc' = [jpc EXCEPT ![j] = "done"]
          /\ (record' = record \/ record' = [record EXCEPT ![j] = "failed"])
      BY <2>2 DEF ReleaseFails, JobGoto, RecordRelease
    <3>2. "done" \in Labels
      BY DEF Labels, JobDone
    <3> QED BY <2>1, <2>2, <3>1, <3>2, AssetsStay
  <2>3. CASE /\ rel' = [rel EXCEPT ![jc[j]] = [NoRelease EXCEPT !.here = TRUE]]
             /\ jpc' = [jpc EXCEPT ![j] = "upload"] /\ record' = record
    <3>1. \A c \in RelCommitSet : c # jc[j] => rel'[c] = rel[c]
      BY <2>3 DEF ForgeOK
    <3>2. jpc'[j] = "upload" /\ \A k \in RelJobs : k # j => jpc'[k] = jpc[k]
      BY <2>3 DEF JobsOK
    <3> QED BY <2>1, <2>3, <3>1, <3>2 DEF AssetsOwed
  <2> QED BY <1>4, <2>2, <2>3 DEF CreateRelease, JobGoto
<1>5. ASSUME NEW j \in RelJobs, UploadAssets(j) PROVE AssetsOwed'
  <2>1. jpc[j] = "upload" /\ UNCHANGED <<jc, record>>
        /\ \E l \in {"project", "alias"} : jpc' = [jpc EXCEPT ![j] = l]
    BY <1>5 DEF UploadAssets, JobGoto
  <2>2. /\ \A k \in RelJobs : k # j => jpc'[k] = jpc[k]
        /\ jpc'[j] # "idle" /\ record[j] # "success"
    BY <2>1 DEF JobsOK, AssetsOwed
  <2>3. CASE partial' = partial \cup {j} /\ rel' = rel
    BY <2>1, <2>2, <2>3 DEF AssetsOwed
  <2>4. CASE rel' = [rel EXCEPT ![jc[j]].asset = TRUE] /\ partial' = partial
    <3>1. \A c \in RelCommitSet : rel'[c] = IF c = jc[j] THEN [rel[c] EXCEPT !.asset = TRUE] ELSE rel[c]
      BY <2>4 DEF ForgeOK
    <3>2. rel'[jc[j]].asset /\ \A c \in RelCommitSet : c # jc[j] => rel'[c] = rel[c]
      BY <1>0, <3>1 DEF Releases
    <3>3. \A c \in RelCommitSet : rel'[c].here /\ ~rel'[c].asset =>
            \E k \in RelJobs : jc'[k] = c /\ (jpc'[k] \in {"upload", "dead"} \/ k \in partial')
      BY <2>1, <2>2, <2>4, <3>2 DEF AssetsOwed
    <3> QED BY <2>1, <2>2, <2>4, <3>3 DEF AssetsOwed
  <2> QED BY <1>5, <2>3, <2>4 DEF UploadAssets
<1>6. ASSUME NEW j \in RelJobs, KillPublish(j) PROVE AssetsOwed'
  <2>1. /\ jpc' = [jpc EXCEPT ![j] = "dead"] /\ UNCHANGED <<rel, jc, partial, record>>
        /\ jpc[j] \notin {"dead", "idle", "done"} /\ "dead" \in Labels
    BY <1>6 DEF KillPublish, JobGoto, forgeState, JobDone, Labels
  <2> QED BY <2>1, AssetsStay
<1>7. ASSUME NEW j \in RelJobs, NEW x \in RelCommitSet, DeleteRelease(j, x) PROVE AssetsOwed'
  <2>1. /\ UNCHANGED <<jpc, jc, partial, record>>
        /\ rel' \in {rel, [rel EXCEPT ![x] = NoRelease]}
    BY <1>7 DEF DeleteRelease, Deleted
  <2>2. \A c \in RelCommitSet : rel'[c].here /\ ~rel'[c].asset => rel[c].here /\ ~rel[c].asset
    BY <1>0, <2>1 DEF ForgeOK
  <2> QED BY <2>1, <2>2 DEF AssetsOwed
<1>8. ASSUME NEW j \in RelJobs, DeleteReleaseTag(j) PROVE AssetsOwed'
  <2>1. UNCHANGED <<jpc, jc, partial, record>>
    BY <1>8 DEF DeleteReleaseTag
  <2> QED BY <1>8, <2>1, TagGoes DEF AssetsOwed
<1> QED BY <1>1, <1>2, <1>3, <1>4, <1>5, <1>6, <1>7, <1>8 DEF ReleaseNext, ReleaseStep, StepsNoAsset

-----------------------------------------------------------------------------
(* The alias *)

\* Of the jobs, one is at the alias.
OneAtAlias == \A j, k \in RelJobs : jpc[j] \in AtAlias /\ jpc[k] \in AtAlias => j = k

\* What the alias is and who is about to change it, while nothing fails.
AliasFollows ==
  /\ alias.ver = top \/ \E j \in RelJobs : jpc[j] = "recreate"
  /\ \A j \in RelJobs : /\ jpc[j] \in {"refresh", "recreate"} => jc[j] >= top
                        /\ jpc[j] = "recreate" => alias.ver = 0

LEMMA AliasSplit == AliasUp <=> /\ ~raced => OneAtAlias
                                /\ ~raced /\ relFaults = 0 => AliasFollows
BY DEF AliasUp, OneAtAlias, AliasFollows

LEMMA AliasSplitNext == AliasUp' <=> /\ ~raced' => OneAtAlias'
                                     /\ ~raced' /\ relFaults' = 0 => AliasFollows'
BY DEF AliasUp, OneAtAlias, AliasFollows

(* A second job at the alias is a race.                                     *)
LEMMA OneStays ==
  ASSUME JobsOK, AliasUp, NEW j \in RelJobs, NEW l, JobGoto(j, l), ~raced'
  PROVE  OneAtAlias' /\ ~raced
<1>1. ~raced /\ OneAtAlias
  BY AliasSplit DEF JobGoto
<1>2. \A k \in RelJobs : jpc'[k] = IF k = j THEN l ELSE jpc[k]
  BY DEF JobGoto, JobsOK
<1>3. l \in AtAlias => \A k \in RelJobs \ {j} : jpc[k] \notin AtAlias
  BY DEF JobGoto
<1> QED BY <1>1, <1>2, <1>3 DEF OneAtAlias

LEMMA AliasStays ==
  ASSUME JobsOK, AliasUp, NEW j \in RelJobs, NEW l, JobGoto(j, l),
         UNCHANGED <<top, jc>>, alias'.ver = alias.ver, relFaults' \in {relFaults, relFaults + 1},
         l \notin {"refresh", "recreate"}, jpc[j] = "recreate" => relFaults' # 0
  PROVE  AliasUp'
<1>1. \A k \in RelJobs : jpc'[k] = IF k = j THEN l ELSE jpc[k]
  BY DEF JobGoto, JobsOK
<1>2. relFaults' = 0 => relFaults = 0 /\ jpc[j] # "recreate"
  BY DEF JobsOK
<1>3. ASSUME ~raced', relFaults' = 0 PROVE AliasFollows'
  <2>1. AliasFollows
    BY <1>2, <1>3, OneStays, AliasSplit
  <2> QED BY <1>1, <1>2, <1>3, <2>1 DEF AliasFollows
<1> QED BY <1>3, OneStays, AliasSplitNext

LEMMA AliasInv ==
  ASSUME ForgeOK, JobsOK, AliasUp, [ReleaseNext]_releaseVars
  PROVE  AliasUp'
<1>0. /\ relFaults \in Nat /\ top \in Nat /\ alias \in Aliases /\ alias.ver \in Nat
      /\ \A j \in RelJobs : jc[j] \in Nat
  BY DEF ForgeOK, JobsOK, Aliases, RelCommitSet
<1>1. CASE UNCHANGED releaseVars \/ PushCommit
  <2>1. UNCHANGED <<jpc, jc, alias, top, raced, relFaults>>
    BY <1>1 DEF releaseVars, PushCommit, forgeState, jobState, relGhosts
  <2> QED BY <2>1 DEF AliasUp
<1>2. ASSUME NEW j \in RelJobs, NEW c \in RelCommitSet, StartPublish(j, c) \/ StartBackfill(j, c)
      PROVE  AliasUp'
  <2>1. /\ jpc[j] = "idle" /\ UNCHANGED <<alias, top, relFaults>> /\ jc' = [jc EXCEPT ![j] = c]
        /\ \E l \in {"freshness", "detect"} : JobGoto(j, l)
    BY <1>2 DEF StartPublish, StartBackfill, forgeState
  <2>2. PICK l \in {"freshness", "detect"} : JobGoto(j, l)
    BY <2>1
  <2>3. \A k \in RelJobs : /\ jpc'[k] = IF k = j THEN l ELSE jpc[k]
                           /\ k # j => jc'[k] = jc[k]
    BY <2>1, <2>2 DEF JobGoto, JobsOK
  <2>4. ASSUME ~raced', relFaults' = 0 PROVE AliasFollows'
    <3>1. AliasFollows
      BY <2>1, <2>2, <2>4, OneStays, AliasSplit
    <3> QED BY <2>1, <2>3, <3>1 DEF AliasFollows
  <2> QED BY <2>2, <2>4, OneStays, AliasSplitNext
<1>3. ASSUME NEW j \in RelJobs,
             \/ IsBranchHeadFresh(j) \/ SkipRelease(j) \/ PremarkRelease(j) \/ DetectRelease(j)
             \/ VerifyPublished(j) \/ DiscoverRows(j) \/ CollectAssets(j) \/ WriteNotes(j)
      PROVE  AliasUp'
  <2>1. \E l \in {"gate", "done", "detect", "verify", "rows", "assets", "notes", "create"} : JobGoto(j, l)
    BY <1>3 DEF IsBranchHeadFresh, SkipRelease, PremarkRelease, DetectRelease, VerifyPublished,
       DiscoverRows, CollectAssets, Prepare, WriteNotes, ReleaseFails
  <2>2. /\ UNCHANGED <<top, jc, alias>> /\ relFaults' \in {relFaults, relFaults + 1} /\ jpc[j] # "recreate"
    BY <1>3 DEF IsBranchHeadFresh, SkipRelease, PremarkRelease, DetectRelease, VerifyPublished,
       DiscoverRows, CollectAssets, Prepare, WriteNotes, Ok, Fault, forgeState
  <2> QED BY <2>1, <2>2, AliasStays
<1>4. ASSUME NEW j \in RelJobs,
             \/ CreateRelease(j) \/ RecreateRelease(j) \/ Republish(j) \/ RestoreVisible(j) \/ UploadAssets(j)
      PROVE  AliasUp'
  <2>1. \E l \in {"upload", "done", "content", "restore", "project", "alias"} : JobGoto(j, l)
    BY <1>4 DEF CreateRelease, RecreateRelease, Republish, RestoreVisible, UploadAssets, ReleaseFails
  <2>2. /\ UNCHANGED <<top, jc, alias>> /\ relFaults' \in {relFaults, relFaults + 1} /\ jpc[j] # "recreate"
    BY <1>4 DEF CreateRelease, RecreateRelease, Republish, RestoreVisible, UploadAssets, PublishDraft, Ok, Fault
  <2> QED BY <2>1, <2>2, AliasStays
<1>5. ASSUME NEW j \in RelJobs,
             \/ CreateAliasTag(j) \/ DeleteAliasTag(j) \/ RecreateAliasTag(j) \/ RefreshAttach(j)
             \/ ProjectAuthored(j) \/ ListReleases(j) \/ RecordSuccess(j)
      PROVE  AliasUp'
  <2>1. \E l \in {"hold", "alias delete", "alias again", "project", "retention", "prune", "done"} : JobGoto(j, l)
    BY <1>5 DEF CreateAliasTag, DeleteAliasTag, RecreateAliasTag, RefreshAttach, ProjectAuthored, ListReleases,
       RecordSuccess
  <2>2. /\ UNCHANGED <<top, jc>> /\ relFaults' \in {relFaults, relFaults + 1} /\ jpc[j] # "recreate"
    BY <1>5 DEF CreateAliasTag, DeleteAliasTag, RecreateAliasTag, RefreshAttach, ProjectAuthored, ListReleases,
       RecordSuccess, Ok, Fault
  <2>3. alias'.ver = alias.ver
    <3>1. CASE DeleteAliasTag(j) \/ RefreshAttach(j)
      BY <1>0, <3>1 DEF DeleteAliasTag, RefreshAttach, Aliases
    <3>2. CASE CreateAliasTag(j) \/ RecreateAliasTag(j) \/ ProjectAuthored(j) \/ ListReleases(j) \/ RecordSuccess(j)
      BY <3>2 DEF CreateAliasTag, RecreateAliasTag, ProjectAuthored, ListReleases, RecordSuccess, forgeState
    <3> QED BY <1>5, <3>1, <3>2
  <2> QED BY <2>1, <2>2, <2>3, AliasStays
<1>6. ASSUME NEW j \in RelJobs, AliasHolds(j) PROVE AliasUp'
  <2>0. jpc[j] = "hold" /\ UNCHANGED <<top, jc, alias>> /\ relFaults' \in {relFaults, relFaults + 1}
    BY <1>6 DEF AliasHolds, forgeState, Ok, Fault
  <2>1. CASE JobGoto(j, "project")
    BY <2>0, <2>1, AliasStays
  <2>2. CASE JobGoto(j, "refresh") /\ relFaults' = relFaults + 1
    BY <1>0, <2>2, OneStays, AliasSplitNext
  <2>3. CASE JobGoto(j, "refresh") /\ relFaults' = relFaults /\ ~holdsFor(alias.ver, jc[j])
    <3>1. ASSUME ~raced', relFaults' = 0 PROVE AliasFollows'
      <4>1. AliasFollows /\ OneAtAlias
        BY <2>3, <3>1, OneStays, AliasSplit
      <4>2. \A k \in RelJobs : jpc[k] # "recreate"
        BY <2>0, <4>1 DEF OneAtAlias, AtAlias
      <4>3. jc[j] >= top
        BY <1>0, <2>3, <4>1, <4>2 DEF AliasFollows, holdsFor
      <4>4. \A k \in RelJobs : jpc'[k] = IF k = j THEN "refresh" ELSE jpc[k]
        BY <2>3 DEF JobGoto, JobsOK
      <4> QED BY <2>0, <4>1, <4>2, <4>3, <4>4 DEF AliasFollows
    <3> QED BY <2>3, <3>1, OneStays, AliasSplitNext
  <2> QED BY <1>6, <2>1, <2>2, <2>3 DEF AliasHolds, Ok, Fault
<1>7. ASSUME NEW j \in RelJobs, RefreshDelete(j) PROVE AliasUp'
  <2>0. jpc[j] = "refresh" /\ UNCHANGED <<top, jc>> /\ JobGoto(j, "recreate")
    BY <1>7 DEF RefreshDelete
  <2>1. CASE relFaults' = relFaults + 1
    BY <1>0, <2>0, <2>1, OneStays, AliasSplitNext
  <2>2. CASE relFaults' = relFaults /\ alias' = NoAlias
    <3>1. ASSUME ~raced', relFaults' = 0 PROVE AliasFollows'
      <4>1. AliasFollows /\ OneAtAlias
        BY <2>0, <2>2, <3>1, OneStays, AliasSplit
      <4>2. \A k \in RelJobs : k # j => jpc[k] \notin {"refresh", "recreate"}
        BY <2>0, <4>1 DEF OneAtAlias, AtAlias
      <4>3. \A k \in RelJobs : jpc'[k] = IF k = j THEN "recreate" ELSE jpc[k]
        BY <2>0 DEF JobGoto, JobsOK
      <4>4. alias'.ver = 0 /\ jc[j] >= top
        BY <2>0, <2>2, <4>1 DEF AliasFollows, NoAlias
      <4> QED BY <2>0, <4>2, <4>3, <4>4 DEF AliasFollows
    <3> QED BY <2>0, <3>1, OneStays, AliasSplitNext
  <2> QED BY <1>7, <2>1, <2>2 DEF RefreshDelete, Ok, Fault
<1>8. ASSUME NEW j \in RelJobs, RefreshCreate(j) PROVE AliasUp'
  <2>0. jpc[j] = "recreate" /\ UNCHANGED jc
    BY <1>8 DEF RefreshCreate
  <2>1. CASE /\ relFaults' = relFaults /\ alias' = [alias EXCEPT !.ver = jc[j], !.draft = FALSE]
             /\ top' = (IF jc[j] > top THEN jc[j] ELSE top) /\ JobGoto(j, "attach")
    <3>1. ASSUME ~raced', relFaults' = 0 PROVE AliasFollows'
      <4>1. AliasFollows /\ OneAtAlias
        BY <2>1, <3>1, OneStays, AliasSplit
      <4>2. \A k \in RelJobs : k # j => jpc[k] \notin {"refresh", "recreate"}
        BY <2>0, <4>1 DEF OneAtAlias, AtAlias
      <4>3. \A k \in RelJobs : jpc'[k] = IF k = j THEN "attach" ELSE jpc[k]
        BY <2>1 DEF JobGoto, JobsOK
      <4>4. top' = jc[j]
        BY <1>0, <2>0, <2>1, <4>1 DEF AliasFollows
      <4>5. alias'.ver = jc[j]
        BY <1>0, <2>1 DEF Aliases
      <4> QED BY <4>2, <4>3, <4>4, <4>5 DEF AliasFollows
    <3> QED BY <2>1, <3>1, OneStays, AliasSplitNext
  <2>2. CASE JobGoto(j, "project") /\ relFaults' = relFaults + 1 /\ UNCHANGED <<alias, top>>
    BY <1>0, <2>0, <2>2, AliasStays
  <2>3. CASE JobGoto(j, "project") /\ relFaults' = relFaults /\ UNCHANGED <<alias, top>> /\ alias.ver # 0
    <3>1. ~(~raced' /\ relFaults' = 0)
      BY <2>0, <2>3, OneStays, AliasSplit DEF AliasFollows
    <3> QED BY <2>3, <3>1, OneStays, AliasSplitNext
  <2> QED BY <1>8, <2>1, <2>2, <2>3 DEF RefreshCreate, Ok, Fault
<1>9. ASSUME NEW j \in RelJobs, KillPublish(j) PROVE AliasUp'
  <2>1. JobGoto(j, "dead") /\ UNCHANGED <<top, jc, alias>> /\ relFaults' = relFaults + 1
    BY <1>9 DEF KillPublish, forgeState, Fault
  <2> QED BY <1>0, <2>1, AliasStays
<1>10. ASSUME NEW j \in RelJobs, NEW c \in RelCommitSet, DeleteRelease(j, c) \/ DeleteReleaseTag(j) PROVE AliasUp'
  <2>1. UNCHANGED <<jpc, jc, alias, top, raced>> /\ (relFaults' = 0 => relFaults = 0)
    BY <1>0, <1>10 DEF DeleteRelease, DeleteReleaseTag, relGhosts, Ok, Fault
  <2> QED BY <2>1 DEF AliasUp
<1>11. ASSUME NEW j \in RelJobs, DeleteReleaseTag(j) PROVE AliasUp'
  BY <1>10, <1>11, OneCommit
<1> QED BY <1>1, <1>2, <1>3, <1>4, <1>5, <1>6, <1>7, <1>8, <1>9, <1>10, <1>11 DEF ReleaseNext, ReleaseStep

-----------------------------------------------------------------------------
(* What follows *)

LEMMA ReleaseInitInv == ReleaseInit => ReleaseIInv
<1> SUFFICES ASSUME ReleaseInit PROVE ReleaseIInv
  OBVIOUS
<1>1. ForgeOK /\ JobsOK
  BY TypesInit
<1>2. /\ \A c \in RelCommitSet : rel[c] = NoRelease /\ later[c] = {}
      /\ later \in [RelCommitSet -> SUBSET {}]
      /\ NoRelease.here = FALSE /\ NoRelease.draft = FALSE
  BY DEF ReleaseInit, NoRelease
<1>3. Ordered /\ NoOrphanTag /\ DoomedOld /\ Untagging
  BY <1>2, OneAlias DEF ReleaseInit, Ordered, Here, NoOrphanTag, DoomedOld, Untagging
<1>4. HeadKnown
  BY DEF ReleaseInit, HeadKnown, Late, AtAlias
<1>5. DraftOwned /\ AssetsOwed
  BY <1>2 DEF ReleaseInit, DraftOwned, AssetsOwed
<1>6. AliasUp
  BY DEF ReleaseInit, AliasUp, AtAlias, NoAlias
<1> QED BY <1>1, <1>3, <1>4, <1>5, <1>6 DEF ReleaseIInv

LEMMA ReleaseStepInv == ReleaseIInv /\ [ReleaseNext]_releaseVars => ReleaseIInv'
<1> SUFFICES ASSUME ReleaseIInv, [ReleaseNext]_releaseVars PROVE ReleaseIInv'
  OBVIOUS
<1> USE DEF ReleaseIInv
<1>3. ForgeOK' /\ JobsOK'
  <2>1. CASE UNCHANGED releaseVars
    BY <2>1 DEF releaseVars, forgeState, jobState, relGhosts, ForgeOK, JobsOK
  <2>2. CASE ReleaseNext
    BY <2>2, TypesBeside, TypesAtRelease, TypesStart DEF ReleaseNext, ReleaseStep, StepsBeside, StepsAtRelease
  <2> QED BY <2>1, <2>2
<1> QED BY <1>3, OrderInv, TagInv, HeadInv, DraftInv, AssetsInv, AliasInv

LEMMA ReleaseInvariance == ReleaseSpec => []ReleaseIInv
BY ReleaseInitInv, ReleaseStepInv, PTL DEF ReleaseSpec

LEMMA ReleaseIInvKeeps ==
  ReleaseIInv => /\ ReleaseTypeOK /\ AliasReleaseAdvances /\ SupersededStops /\ NeverLeftDraft
             /\ NoOrphanTag /\ SuccessIsWhole
<1> SUFFICES ASSUME ReleaseIInv
             PROVE  /\ ReleaseTypeOK /\ AliasReleaseAdvances /\ SupersededStops /\ NeverLeftDraft
                    /\ NoOrphanTag /\ SuccessIsWhole
  OBVIOUS
<1> USE DEF ReleaseIInv
<1>1. ReleaseTypeOK
  <2>1. /\ later \in [RelCommitSet -> SUBSET {c \in RelCommitSet : rel[c].here}]
        /\ \A c, d \in RelCommitSet : rel[c].here /\ rel[d].here /\ c # d => (c \in later[d] <=> d \notin later[c])
    BY DEF Ordered, Here
  <2> QED BY <2>1 DEF ForgeOK, JobsOK, Untagging, Releases, Aliases, ReleaseTypeOK
<1>2. AliasReleaseAdvances
  <2>1. alias.ver \in Nat /\ top \in Nat /\ relFaults \in Nat
    BY DEF ForgeOK, JobsOK, Aliases
  <2> QED BY <2>1 DEF AliasUp, AliasReleaseAdvances, Quiet, JobDone
<1>3. SupersededStops
  <2>1. \A j \in RelJobs : jpc[j] \notin JobDone \cup {"freshness", "gate"} => jpc[j] \in Late \cup AtAlias
    BY DEF JobsOK, Labels, Early
  <2> QED BY <2>1 DEF HeadKnown, SupersededStops
<1>4. NeverLeftDraft
  BY DEF DraftOwned, NeverLeftDraft, Quiet, JobDone
<1>5. SuccessIsWhole
  <2> SUFFICES ASSUME NEW j \in RelJobs, record[j] = "success", j \notin partial,
                      rel[jc[j]].here, ~rel[jc[j]].asset
               PROVE  \E k \in RelJobs \ {j} : jc[k] = jc[j] /\ (jpc[k] \in {"upload", "dead"} \/ k \in partial)
    BY DEF SuccessIsWhole
  <2>1. jc[j] \in RelCommitSet /\ jpc[j] = "done"
    BY DEF JobsOK, AssetsOwed
  <2> QED BY <2>1 DEF AssetsOwed
<1> QED BY <1>1, <1>2, <1>3, <1>4, <1>5

(* A release goes only by the hand of a job that listed it as too old.      *)
LEMMA StepKeepsNewest ==
  ASSUME ReleaseIInv, [ReleaseNext]_releaseVars, NEW c \in RelCommitSet, rel[c].here, ~rel'[c].here
  PROVE  Cardinality(later[c]) >= relCfg.keep \/ revived
<1> USE DEF ReleaseIInv
<1>1. rel' # rel /\ ~(rel'[c].here = rel[c].here)
  OBVIOUS
<1>2. ASSUME NEW j \in RelJobs, StepsNoAsset(j) \/ UploadAssets(j) \/ CreateRelease(j) PROVE FALSE
  <2>0. jc[j] \in RelCommitSet /\ \A d \in RelCommitSet : rel[d] \in Releases
    BY DEF JobsOK, ForgeOK
  <2>1. ASSUME NEW b \in BOOLEAN, rel' = [rel EXCEPT ![jc[j]].draft = b] \/ rel' = [rel EXCEPT ![jc[j]].asset = b]
        PROVE  FALSE
    <3>1. rel'[c] \in {rel[c], [rel[c] EXCEPT !.draft = b], [rel[c] EXCEPT !.asset = b]}
      BY <2>1 DEF ForgeOK
    <3> QED BY <1>1, <2>0, <3>1 DEF Releases
  <2>2. CASE StepsNoAsset(j)
    BY <1>1, <2>1, <2>2, NoAssetMoves
  <2>3. CASE UploadAssets(j)
    BY <1>1, <2>1, <2>3 DEF UploadAssets
  <2>4. CASE CreateRelease(j)
    <3>1. rel' = [rel EXCEPT ![jc[j]] = [NoRelease EXCEPT !.here = TRUE]] /\ ~rel[jc[j]].here
      BY <1>1, <2>4 DEF CreateRelease
    <3> QED BY <1>1, <2>0, <3>1 DEF ForgeOK
  <2> QED BY <1>2, <2>2, <2>3, <2>4
<1>3. ~PushCommit /\ ~UNCHANGED releaseVars
      /\ \A j \in RelJobs : /\ ~KillPublish(j)
                            /\ \A d \in RelCommitSet : ~StartPublish(j, d) /\ ~StartBackfill(j, d)
  BY <1>1 DEF PushCommit, releaseVars, KillPublish, StartPublish, StartBackfill, forgeState
<1>4. \A j \in RelJobs : ~DeleteReleaseTag(j)
  BY <1>1, TagGoes
<1>5. PICK j \in RelJobs, x \in RelCommitSet : DeleteRelease(j, x)
  BY <1>2, <1>3, <1>4 DEF ReleaseNext, ReleaseStep, StepsNoAsset
<1>6. x = c /\ c \in doomed[j] /\ jpc[j] # "dead"
  BY <1>1, <1>5 DEF DeleteRelease, Deleted, ForgeOK
<1> QED BY <1>6 DEF DoomedOld

(* Whichever jobs overlap, are re-run or killed and whichever calls fail: a *)
(* rolling release only advances, a superseded job publishes nothing, no    *)
(* draft and no orphan tag is left, a success is whole, and retention keeps *)
(* the newest.                                                              *)
THEOREM ReleasesHold == ReleaseSpec => ReleaseKeeps
<1>1. ReleaseIInv /\ [ReleaseNext]_releaseVars =>
        [\A c \in RelCommitSet :
           rel[c].here /\ ~rel'[c].here => Cardinality(later[c]) >= relCfg.keep \/ revived]_releaseVars
  BY StepKeepsNewest
<1> QED BY ReleaseInvariance, ReleaseIInvKeeps, <1>1, PTL DEF ReleaseSpec, ReleaseKeeps, NewestKept

-----------------------------------------------------------------------------
(* Promotion: the inductive invariant *)

FileStates == {"none", "torn", "whole"}
Layouts == [Img -> [Files -> FileStates]]
Performing == {"put", "copy"}
Promoting == {"image", "push", "reread"}
Retaining == {"prune", "delete", "version"}
PrLabels == Performing \cup {"between", "sign", "verdict", "ended"} \cup Promoting \cup Retaining

\* The type invariant, by what it is about.
StoreOK ==
  /\ prCfg \in PrConfigs
  /\ objects \in Layouts /\ handle \subseteq Img /\ stores \subseteq Img
  /\ bundle \in [objects : Layouts, handle : SUBSET Img]

RegistryOK ==
  /\ tags \in [Img -> [TagNames -> Digests]] /\ listed \in [TagNames -> Digests]
  /\ signedAt \subseteq Img

JobOK ==
  /\ img \in Img
  /\ promoted \subseteq Img \X PushedTags
  /\ refused \subseteq Img /\ skipped \subseteq Img /\ signErr \in BOOLEAN
  /\ results \in [Img -> [PushedTags -> {"none", "ok", "failed"}]]
  /\ prRecord \in {"none", "failed", "success"} /\ prRaced \in BOOLEAN
  /\ prTries \in 1..PrMaxTries /\ prFaults \in 0..PrMaxFaults

\* What is left to do at each step.  Retention deletes one tag of an image at most.
ToCopy == {copyOrder, <<"blob2", "index">>, <<"index">>, <<>>}
ToPush == {<<"own", "rolling">>, <<"rolling">>}
ToDelete == {<<"prev">>, <<"old">>}
Steps ==
  /\ prPc \in PrLabels
  /\ todo \in ToCopy \cup ToPush \cup ToDelete
  /\ prPc \in {"put", "between", "image", "sign", "verdict", "prune"} => todo = <<>>
  /\ prPc = "copy" => todo \in ToCopy
  /\ prPc \in {"push", "reread"} => todo \in ToPush
  /\ prPc \in {"delete", "version"} => todo \in ToDelete

\* While perform stores: an index that is there was copied last, what has a handle
\* is done, an image without a directory has no files, and the files of the layout that
\* is copied are whole or not yet there.
Stored ==
  prPc \in Performing =>
    /\ \A i \in Img : objects[i]["index"] = "whole" => Complete(objects[i])
    /\ \A i \in handle : i < img /\ Complete(objects[i])
    /\ \A i \in Img \ stores : objects[i] = NoLayout
    /\ prPc = "copy" => img \in stores /\ \A f \in Files : objects[img][f] = IF f \in Range(todo) THEN "none" ELSE "whole"

\* An image that has a verified layout and a target is at the registry under every
\* tag, or the run has failed.
Handled(i) ==
  i \in (handle \cap prCfg.targeted) \ skipped => i \in refused \/ \A t \in PushedTags : <<i, t>> \in promoted
Shipped ==
  /\ prPc \in Promoting => \A i \in Img : i < img => Handled(i)
  /\ prPc \in {"push", "reread"} /\ todo = <<"rolling">> => <<img, "own">> \in promoted \/ img \in refused
  /\ prPc \in {"sign", "verdict"} \cup Retaining => \A i \in Img : Handled(i)
  /\ prPc \in Retaining => refused = {}

\* What was pushed is signed, or the run has failed, when the profile enforces.
SignedUp ==
  /\ prPc \in Promoting \cup {"sign"} \cup Retaining => ~signErr
  /\ prCfg.sign = "enforce" =>
       /\ prPc = "sign" => \A i \in ToSign : i < img => i \in signedAt
       /\ prPc \in {"verdict"} \cup Retaining => signErr \/ ToSign \subseteq signedAt

\* Only retention takes a tag away, and never the run's own.
OwnKept == \A i \in Img : <<i, "own">> \in promoted => tags[i]["own"] = Digest

\* The tag about to be deleted is as it was listed, and alone on its version unless
\* the other pipeline's rolling tag came to it.
AsListed ==
  prPc \in {"delete", "version"} =>
    /\ listed[Head(todo)] = tags[img][Head(todo)] /\ listed[Head(todo)] # "none"
    /\ prPc = "version" =>
         \A u \in TagNames \ {Head(todo)} : tags[img][u] = listed[Head(todo)] => u = "rolling" /\ prRaced

PromotionIInv ==
  /\ StoreOK /\ RegistryOK /\ JobOK /\ Steps
  /\ Stored /\ HandleMeansComplete
  /\ Shipped /\ SignedUp
  /\ OwnKept /\ AsListed

-----------------------------------------------------------------------------
(* What is left to do, and to delete *)

(* The sequences of Steps, taken apart.                                     *)
LEMMA Todos ==
  /\ Head(copyOrder) = "blob1" /\ Tail(copyOrder) = <<"blob2", "index">>
  /\ Head(<<"blob2", "index">>) = "blob2" /\ Tail(<<"blob2", "index">>) = <<"index">>
  /\ Head(<<"index">>) = "index" /\ Tail(<<"index">>) = <<>>
  /\ Head(<<"own", "rolling">>) = "own" /\ Tail(<<"own", "rolling">>) = <<"rolling">>
  /\ Len(<<"own", "rolling">>) = 2 /\ Len(<<"rolling">>) = 1 /\ Head(<<"rolling">>) = "rolling"
  /\ Len(<<"prev">>) = 1 /\ Len(<<"old">>) = 1 /\ Head(<<"prev">>) = "prev" /\ Head(<<"old">>) = "old"
  /\ <<>> # copyOrder /\ <<>> # <<"blob2", "index">> /\ <<>> # <<"index">>
BY DEF copyOrder

LEMMA Ranges ==
  /\ Range(copyOrder) = {"blob1", "blob2", "index"} /\ Range(<<"blob2", "index">>) = {"blob2", "index"}
  /\ Range(<<"index">>) = {"index"} /\ Range(<<>>) = {}
  /\ Range(<<"own", "rolling">>) = {"own", "rolling"} /\ Range(<<"rolling">>) = {"rolling"}
  /\ Range(<<"prev">>) = {"prev"} /\ Range(<<"old">>) = {"old"}
<1>1. Range(copyOrder) = {"blob1", "blob2", "index"}
  BY DEF Range, copyOrder
<1>2. \A a, b : Range(<<a, b>>) = {a, b}
  BY DEF Range
<1>3. \A a : Range(<<a>>) = {a}
  BY DEF Range
<1>4. Range(<<>>) = {}
  BY DEF Range
<1> QED BY <1>1, <1>2, <1>3, <1>4

(* A set of one element, or none, as a sequence.                            *)
LEMMA SeqOfOne == SetToSeq({}) = <<>> /\ \A t : SetToSeq({t}) = <<t>>
<1>1. SetToSeq({}) = <<>>
  <2>1. Cardinality({}) = 0
    BY FS_EmptySet
  <2>2. <<>> \in [1..0 -> {}] /\ IsInjective(<<>>)
    BY DEF IsInjective
  <2>3. \A f \in [1..0 -> {}] : f = <<>>
    OBVIOUS
  <2> QED BY <2>1, <2>2, <2>3 DEF SetToSeq
<1>2. ASSUME NEW t PROVE SetToSeq({t}) = <<t>>
  <2>1. Cardinality({t}) = 1
    BY FS_Singleton
  <2>2. <<t>> \in [1..1 -> {t}] /\ IsInjective(<<t>>)
    BY DEF IsInjective
  <2>3. \A f \in [1..1 -> {t}] : f = <<t>>
    OBVIOUS
  <2> QED BY <2>1, <2>2, <2>3 DEF SetToSeq
<1> QED BY <1>1, <1>2

(* Two tags may be deleted at all, and the newer of them is kept.           *)
LEMMA OneOutdated ==
  ASSUME NEW l \in [TagNames -> Digests]
  PROVE  \/ Outdated(l) = {}
         \/ \E t \in {"prev", "old"} : Outdated(l) = {t} /\ l[t] # "none"
<1>1. Candidates(l) \subseteq {"prev", "old"} /\ \A t \in Candidates(l) : l[t] # "none"
  BY DEF Candidates, TagNames, ProtectedTags, PushedTags
<1>2. \A t \in TagNames : Created(l[t]) \in Nat
  BY DEF Created, Digests
<1>3. Newest(l) \subseteq Candidates(l)
  BY DEF Newest
<1>4. Candidates(l) # {} => Newest(l) # {}
  <2>1. SUFFICES ASSUME NEW t \in Candidates(l) PROVE Newest(l) # {}
    OBVIOUS
  <2>2. CASE t \in Newest(l)
    BY <2>2
  <2>3. CASE t \notin Newest(l)
    <3>1. PICK u \in Candidates(l) : ~(Created(l[u]) <= Created(l[t]))
      BY <2>3 DEF Newest
    <3>2. \A v \in Candidates(l) : v = t \/ v = u
      BY <1>1, <1>2, <2>1, <3>1 DEF TagNames
    <3>3. u \in Newest(l)
      BY <1>1, <1>2, <2>1, <3>1, <3>2 DEF Newest, TagNames
    <3> QED BY <3>3
  <2> QED BY <2>2, <2>3
<1>5. CASE Newest(l) = {}
  BY <1>4, <1>5 DEF Outdated
<1>6. CASE Newest(l) # {}
  <2>1. PICK m \in Candidates(l) : Outdated(l) = Candidates(l) \ {m}
    BY <1>3, <1>6 DEF Outdated
  <2>2. CASE Outdated(l) = {}
    BY <2>2
  <2>3. CASE Outdated(l) # {}
    <3>1. PICK t \in Outdated(l) : TRUE
      BY <2>3
    <3>2. t \in {"prev", "old"} /\ l[t] # "none"
      BY <1>1, <2>1, <3>1
    <3>3. Outdated(l) = {t}
      BY <1>1, <2>1, <3>1
    <3> QED BY <3>2, <3>3
  <2> QED BY <2>2, <2>3
<1> QED BY <1>5, <1>6

-----------------------------------------------------------------------------
(* The steps *)

LEMMA PromotionInitInv == PromotionInit => PromotionIInv
<1> SUFFICES ASSUME PromotionInit PROVE PromotionIInv
  OBVIOUS
<1>1. \A i \in Img : tags[i] \in [TagNames -> Digests]
  <2> SUFFICES ASSUME NEW i \in Img PROVE tags[i] \in [TagNames -> Digests]
    OBVIOUS
  <2>1. tags[i] = [t \in TagNames |->
                     CASE t = "own" -> "none"
                       [] t \in {"rolling", "prev"} -> "d-prev"
                       [] t = "old" -> IF prCfg.twin THEN "d-prev" ELSE "d-old"]
    BY DEF PromotionInit
  <2> QED BY <2>1 DEF TagNames, Digests
<1>2. RegistryOK
  <2>1. tags = [i \in Img |-> tags[i]]
    BY DEF PromotionInit
  <2> QED BY <1>1, <2>1 DEF PromotionInit, RegistryOK, Digests
<1>3. StoreOK
  BY DEF PromotionInit, StoreOK, Layouts, FileStates, NoLayout
<1>4. JobOK
  <2>1. 1 \in Img /\ 1 \in 1..PrMaxTries /\ 0 \in 0..PrMaxFaults
    BY PromotionAssumption DEF Img
  <2>2. results \in [Img -> [PushedTags -> {"none", "ok", "failed"}]]
    BY DEF PromotionInit
  <2> QED BY <2>1, <2>2 DEF PromotionInit, JobOK
<1>5. Steps
  BY DEF PromotionInit, Steps, PrLabels, Performing, ToCopy
<1>6. Stored
  BY DEF PromotionInit, Stored, Performing, NoLayout, Files
<1>7. HandleMeansComplete
  BY DEF PromotionInit, HandleMeansComplete
<1>8. Shipped /\ SignedUp /\ OwnKept /\ AsListed
  BY DEF PromotionInit, Shipped, SignedUp, OwnKept, AsListed, Promoting, Retaining
<1> QED BY <1>2, <1>3, <1>4, <1>5, <1>6, <1>7, <1>8 DEF PromotionIInv

(* The next image of perform, or its end.                                   *)
LEMMA NextPutIs ==
  ASSUME StoreOK, JobOK, NextPut, objects' \in Layouts, handle' \subseteq Img,
         \A i \in Img : objects'[i]["index"] = "whole" => Complete(objects'[i]),
         \A i \in handle' : i <= img /\ Complete(objects'[i])
  PROVE  /\ prPc' \in {"put", "between"} /\ img' \in Img
         /\ bundle' \in [objects : Layouts, handle : SUBSET Img]
         /\ (\A i \in bundle.handle : Complete(bundle.objects[i])) =>
              (\A i \in bundle'.handle : Complete(bundle'.objects[i]))
         /\ prPc' = "put" => \A i \in handle' : i < img'
BY PromotionAssumption DEF NextPut, StoreOK, JobOK, Img

(* A layout that verifies in perform is complete: its index came last.      *)
LEMMA VerifiedIsComplete ==
  ASSUME NEW l \in [Files -> FileStates], l["index"] = "whole" => Complete(l), verifyLayout(l)
  PROVE  Complete(l)
BY DEF verifyLayout

(* Perform stores layouts, and hands them to the later jobs.                *)
LEMMA PerformInv ==
  ASSUME PromotionIInv, PutBegin \/ CopyFile \/ PutVerify \/ PerformAgain
  PROVE  PromotionIInv'
<1> USE DEF PromotionIInv
<1>0. img \in Img /\ img \in Nat
  BY DEF JobOK, Img
<1>1. /\ UNCHANGED <<prCfg, promoted, refused, skipped, signErr, listed, results, remote, prRecord, prRaced>>
      /\ prPc \in Performing
  BY DEF PutBegin, CopyFile, PutVerify, PerformAgain, Performing
<1>2. prTries' \in 1..PrMaxTries /\ prFaults' \in 0..PrMaxFaults
  BY PromotionAssumption DEF PutBegin, CopyFile, PutVerify, PerformAgain, PrFault, PrOk, JobOK
<1>3. RegistryOK' /\ OwnKept'
  BY <1>1 DEF RegistryOK, OwnKept, remote, Digest
<1>4. ASSUME prPc' \in Performing \cup {"between"}
      PROVE  Shipped' /\ SignedUp' /\ AsListed'
  BY <1>4 DEF Performing, Promoting, Retaining, Shipped, SignedUp, AsListed
<1>5. ASSUME NEW hs \in SUBSET Img,
             hs = IF verifyLayout(objects[img]) THEN handle \cup {img} ELSE handle
      PROVE  \A i \in hs : i <= img /\ Complete(objects[i])
  <2>1. objects[img] \in [Files -> FileStates] /\ (objects[img]["index"] = "whole" => Complete(objects[img]))
    BY <1>0, <1>1 DEF Stored, StoreOK, Layouts
  <2>2. verifyLayout(objects[img]) => Complete(objects[img])
    BY <2>1, VerifiedIsComplete
  <2>3. \A i \in handle : i < img /\ i \in Nat /\ Complete(objects[i])
    BY <1>1 DEF Stored, StoreOK, Img
  <2> QED BY <1>0, <1>5, <2>2, <2>3
<1>6. ASSUME NEW hs \in SUBSET Img, hs = handle', objects' = objects, stores' = stores, NextPut, todo' = <<>>,
             \A i \in hs : i <= img /\ Complete(objects[i])
      PROVE  PromotionIInv'
  <2>1. /\ prPc' \in {"put", "between"} /\ img' \in Img
        /\ bundle' \in [objects : Layouts, handle : SUBSET Img]
        /\ (\A i \in bundle.handle : Complete(bundle.objects[i])) =>
             (\A i \in bundle'.handle : Complete(bundle'.objects[i]))
        /\ prPc' = "put" => \A i \in handle' : i < img'
    BY <1>1, <1>6, NextPutIs DEF Stored, StoreOK
  <2>2. StoreOK' /\ JobOK' /\ HandleMeansComplete'
    BY <1>1, <1>2, <1>6, <2>1 DEF StoreOK, JobOK, HandleMeansComplete
  <2>3. Steps'
    BY <1>6, <2>1 DEF Steps, PrLabels, Performing, ToCopy
  <2>4. Stored'
    BY <1>1, <1>6, <2>1 DEF Stored, Performing
  <2>5. Shipped' /\ SignedUp' /\ AsListed'
    BY <1>4, <2>1 DEF Performing
  <2> QED BY <1>3, <2>2, <2>3, <2>4, <2>5
<1>7. CASE PutBegin
  <2>1. CASE img \notin stores /\ stores' = stores \cup {img} /\ prPc' = "copy" /\ todo' = copyOrder
              /\ UNCHANGED <<handle, img, bundle, objects>>
    <3>0. stores' \subseteq Img /\ objects[img] = NoLayout
      BY <1>0, <1>1, <2>1 DEF StoreOK, Stored
    <3>1. StoreOK' /\ JobOK' /\ HandleMeansComplete'
      BY <1>1, <1>2, <2>1, <3>0 DEF StoreOK, JobOK, HandleMeansComplete
    <3>2. Steps'
      BY <2>1 DEF Steps, PrLabels, Performing, ToCopy
    <3>3. Stored'
      BY <1>1, <2>1, <3>0, Ranges DEF Stored, Performing, NoLayout, Files
    <3>4. Shipped' /\ SignedUp' /\ AsListed'
      BY <1>4, <2>1 DEF Performing
    <3> QED BY <1>3, <3>1, <3>2, <3>3, <3>4
  <2>2. CASE NextPut /\ handle' = (IF verifyLayout(objects[img]) THEN handle \cup {img} ELSE handle)
              /\ UNCHANGED <<objects, stores, todo>>
    <3>1. handle' \in SUBSET Img /\ todo' = <<>>
      BY <1>0, <1>7, <2>2 DEF StoreOK, Steps, PutBegin
    <3>2. \A i \in handle' : i <= img /\ Complete(objects[i])
      BY <1>5, <2>2, <3>1
    <3> QED BY <1>6, <2>2, <3>1, <3>2
  <2> QED BY <1>7, <2>1, <2>2 DEF PutBegin
<1>8. CASE PutVerify
  <2>1. NextPut /\ handle' = (IF verifyLayout(objects[img]) THEN handle \cup {img} ELSE handle)
        /\ UNCHANGED <<objects, stores, todo>> /\ todo = <<>>
    BY <1>8 DEF PutVerify
  <2>2. handle' \in SUBSET Img
    BY <1>0, <2>1 DEF StoreOK
  <2>3. \A i \in handle' : i <= img /\ Complete(objects[i])
    BY <1>5, <2>1, <2>2
  <2> QED BY <1>6, <2>1, <2>2, <2>3
<1>9. CASE CopyFile
  <2>0. /\ prPc = "copy" /\ todo \in {copyOrder, <<"blob2", "index">>, <<"index">>}
        /\ Head(todo) \in Files /\ Tail(todo) \in ToCopy
        /\ Range(Tail(todo)) = Range(todo) \ {Head(todo)}
        /\ Head(todo) \in Range(todo)
        /\ "index" \in Range(Tail(todo)) \/ (Head(todo) = "index" /\ Range(Tail(todo)) = {})
    <3>1. prPc = "copy" /\ todo \in {copyOrder, <<"blob2", "index">>, <<"index">>}
      BY <1>9 DEF CopyFile, Steps, ToCopy
    <3>2. CASE todo = copyOrder
      <4>1. /\ Head(todo) = "blob1" /\ Tail(todo) = <<"blob2", "index">>
            /\ Range(todo) = {"blob1", "blob2", "index"}
        BY <3>2, Todos, Ranges
      <4>2. Range(Tail(todo)) = {"blob2", "index"}
        BY <4>1, Ranges
      <4>3. Tail(todo) \in ToCopy /\ Head(todo) \in Files
        BY <4>1 DEF ToCopy, Files
      <4>4. Range(Tail(todo)) = Range(todo) \ {Head(todo)}
        BY <4>1, <4>2
      <4>5. Head(todo) \in Range(todo) /\ "index" \in Range(Tail(todo))
        BY <4>1, <4>2
      <4> QED BY <3>1, <4>3, <4>4, <4>5
    <3>3. CASE todo = <<"blob2", "index">>
      <4>1. /\ Head(todo) = "blob2" /\ Tail(todo) = <<"index">>
            /\ Range(todo) = {"blob2", "index"}
        BY <3>3, Todos, Ranges
      <4>2. Range(Tail(todo)) = {"index"}
        BY <4>1, Ranges
      <4>3. Tail(todo) \in ToCopy /\ Head(todo) \in Files
        BY <4>1 DEF ToCopy, Files
      <4>4. Range(Tail(todo)) = Range(todo) \ {Head(todo)}
        BY <4>1, <4>2
      <4>5. Head(todo) \in Range(todo) /\ "index" \in Range(Tail(todo))
        BY <4>1, <4>2
      <4> QED BY <3>1, <4>3, <4>4, <4>5
    <3>4. CASE todo = <<"index">>
      BY <3>1, <3>4, Todos, Ranges DEF ToCopy, Files
    <3> QED BY <3>1, <3>2, <3>3, <3>4
  <2>1. \A f \in Files : objects[img][f] = IF f \in Range(todo) THEN "none" ELSE "whole"
    BY <2>0 DEF Stored, Performing
  <2>2. \A i \in handle : i # img /\ i < img /\ Complete(objects[i])
    BY <1>0, <1>1 DEF Stored
  <2>a. stores' = stores /\ img \in stores /\ \A i \in Img \ stores : i # img /\ objects[i] = NoLayout
    BY <1>1, <1>9, <2>0 DEF CopyFile, Stored
  <2>3. CASE objects' = [objects EXCEPT ![img][Head(todo)] = "whole"] /\ todo' = Tail(todo)
              /\ UNCHANGED <<prPc, img, handle, bundle>>
    <3>1. objects' \in Layouts
      BY <1>0, <2>0, <2>3 DEF StoreOK, Layouts, FileStates
    <3>2. objects'[img] = [objects[img] EXCEPT ![Head(todo)] = "whole"]
          /\ \A i \in Img \ {img} : objects'[i] = objects[i]
      BY <1>0, <2>3 DEF StoreOK, Layouts
    <3>3. \A f \in Files : objects'[img][f] = IF f \in Range(todo') THEN "none" ELSE "whole"
      BY <1>0, <2>0, <2>1, <2>3, <3>2 DEF StoreOK, Layouts
    <3>4. objects'[img]["index"] = "whole" => Complete(objects'[img])
      BY <2>0, <2>3, <3>3 DEF Complete, Files
    <3>5. Stored'
      <4>1. \A i \in Img : objects'[i]["index"] = "whole" => Complete(objects'[i])
        BY <1>1, <3>2, <3>4 DEF Stored
      <4>2. \A i \in handle' : i < img' /\ Complete(objects'[i])
        BY <2>2, <2>3, <3>2 DEF StoreOK
      <4>3. \A i \in Img \ stores' : objects'[i] = NoLayout
        BY <2>a, <3>2
      <4> QED BY <2>3, <2>a, <3>3, <4>1, <4>2, <4>3 DEF Stored
    <3>6. StoreOK' /\ JobOK' /\ HandleMeansComplete'
      BY <1>1, <1>2, <2>3, <2>a, <3>1 DEF StoreOK, JobOK, HandleMeansComplete
    <3>7. Steps'
      BY <2>0, <2>3 DEF Steps
    <3>8. Shipped' /\ SignedUp' /\ AsListed'
      BY <1>1, <1>4, <2>3
    <3> QED BY <1>3, <3>5, <3>6, <3>7, <3>8
  <2>4. CASE objects' \in {objects, [objects EXCEPT ![img][Head(todo)] = "torn"]} /\ todo' = <<>>
              /\ NextPut /\ UNCHANGED handle
    <3>1. objects' \in Layouts
      BY <1>0, <2>0, <2>4 DEF StoreOK, Layouts, FileStates
    <3>2. objects'[img] \in {objects[img], [objects[img] EXCEPT ![Head(todo)] = "torn"]}
          /\ \A i \in Img \ {img} : objects'[i] = objects[i]
      BY <1>0, <2>4 DEF StoreOK, Layouts
    <3>a. \A i \in Img \ stores' : objects'[i] = NoLayout
      BY <2>a, <3>2
    <3>3. objects'[img]["index"] # "whole"
      BY <1>0, <2>0, <2>1, <3>2 DEF StoreOK, Layouts, Files
    <3>4. \A i \in Img : objects'[i]["index"] = "whole" => Complete(objects'[i])
      BY <1>1, <3>2, <3>3 DEF Stored
    <3>5. \A i \in handle' : i < img /\ i <= img /\ Complete(objects'[i])
      BY <1>0, <2>2, <2>4, <3>2 DEF StoreOK, Img
    <3>6. /\ prPc' \in {"put", "between"} /\ img' \in Img
          /\ bundle' \in [objects : Layouts, handle : SUBSET Img]
          /\ (\A i \in bundle.handle : Complete(bundle.objects[i])) =>
               (\A i \in bundle'.handle : Complete(bundle'.objects[i]))
          /\ prPc' = "put" => \A i \in handle' : i < img'
      BY <2>4, <3>1, <3>4, <3>5, NextPutIs DEF StoreOK
    <3>7. StoreOK' /\ JobOK' /\ HandleMeansComplete'
      BY <1>1, <1>2, <2>4, <2>a, <3>1, <3>6 DEF StoreOK, JobOK, HandleMeansComplete
    <3>8. Steps' /\ Stored'
      BY <2>4, <3>a, <3>4, <3>5, <3>6 DEF Steps, Stored, PrLabels, Performing, ToCopy
    <3>9. Shipped' /\ SignedUp' /\ AsListed'
      BY <1>4, <3>6 DEF Performing
    <3> QED BY <1>3, <3>7, <3>8, <3>9
  <2> QED BY <1>9, <2>3, <2>4 DEF CopyFile
<1>10. CASE PerformAgain
  <2>1. handle' = {} /\ prPc' = "put" /\ img' = 1 /\ todo' = <<>> /\ UNCHANGED <<bundle, stores>>
    BY <1>10 DEF PerformAgain
  <2>2. /\ objects' \in Layouts /\ \A i \in Img : objects'[i]["index"] = "whole" => Complete(objects'[i])
        /\ \A i \in Img \ stores : objects'[i] = NoLayout
    <3>1. CASE UNCHANGED objects
      BY <1>1, <3>1 DEF StoreOK, Stored
    <3>2. CASE prPc = "copy" /\ todo # <<>> /\ objects' = [objects EXCEPT ![img][Head(todo)] = "torn"]
      <4>0. Head(todo) \in Files /\ Head(todo) \in Range(todo) /\ "index" \in Range(todo)
        BY <3>2, Todos, Ranges DEF Steps, ToCopy, Files
      <4>1. \A f \in Files : objects[img][f] = IF f \in Range(todo) THEN "none" ELSE "whole"
        BY <3>2 DEF Stored, Performing
      <4>2. objects' \in Layouts
        BY <1>0, <3>2, <4>0 DEF StoreOK, Layouts, FileStates
      <4>3. objects'[img] = [objects[img] EXCEPT ![Head(todo)] = "torn"]
            /\ \A i \in Img \ {img} : objects'[i] = objects[i]
        BY <1>0, <3>2 DEF StoreOK, Layouts
      <4>4. objects'[img]["index"] # "whole"
        BY <1>0, <4>0, <4>1, <4>3 DEF StoreOK, Layouts, Files
      <4>5. img \in stores
        BY <3>2 DEF Stored, Performing
      <4> QED BY <1>1, <4>2, <4>3, <4>4, <4>5 DEF Stored
    <3> QED BY <1>10, <3>1, <3>2 DEF PerformAgain
  <2>3. 1 \in Img
    BY PromotionAssumption DEF Img
  <2>4. StoreOK' /\ JobOK' /\ HandleMeansComplete'
    BY <1>1, <1>2, <2>1, <2>2, <2>3 DEF StoreOK, JobOK, HandleMeansComplete
  <2>5. Steps' /\ Stored'
    BY <2>1, <2>2 DEF Steps, Stored, PrLabels, Performing, ToCopy
  <2>6. Shipped' /\ SignedUp' /\ AsListed'
    BY <1>4, <2>1 DEF Performing
  <2> QED BY <1>3, <2>4, <2>5, <2>6
<1> QED BY <1>7, <1>8, <1>9, <1>10

(* The next image of the promotion loop, or its end.                        *)
LEMMA NextImageIs ==
  ASSUME JobOK, NextImage, \A i \in Img : i <= img => Handled(i)'
  PROVE  /\ prPc' \in {"image", "sign"} /\ img' \in Img
         /\ prPc' = "image" => \A i \in Img : i < img' => Handled(i)'
         /\ prPc' = "sign" => img' = 1 /\ \A i \in Img : Handled(i)'
<1>1. img \in Img /\ PrImages \in Nat /\ PrImages >= 1 /\ Img = 1..PrImages
  BY PromotionAssumption DEF JobOK, Img
<1>2. CASE img < PrImages
  <2>1. prPc' = "image" /\ img' = img + 1
    BY <1>2 DEF NextImage
  <2>2. img' \in Img /\ \A i \in Img : i < img' => i <= img
    BY <1>1, <1>2, <2>1
  <2> QED BY <2>1, <2>2
<1>3. CASE ~(img < PrImages)
  <2>1. prPc' = "sign" /\ img' = 1
    BY <1>3 DEF NextImage
  <2>2. img' \in Img /\ \A i \in Img : i <= img
    BY <1>1, <1>3, <2>1
  <2> QED BY <2>1, <2>2
<1> QED BY <1>2, <1>3

(* Promotion pushes image by image and tag by tag.                          *)
LEMMA PromoteInv ==
  ASSUME PromotionIInv, PassOver \/ VerifyImage \/ PushTag \/ Reread
  PROVE  PromotionIInv'
<1> USE DEF PromotionIInv
<1>0. img \in Img /\ img \in Nat /\ Digest \in Digests
  BY DEF JobOK, Img, Digest, Digests
<1>1. /\ UNCHANGED <<prCfg, workspace, bundle, signErr, listed, signedAt, prRecord, prRaced, prTries>>
      /\ prPc \in Promoting /\ ~signErr
  BY DEF PassOver, VerifyImage, PushTag, Reread, remote, Promoting, SignedUp
<1>2. prFaults' \in 0..PrMaxFaults
  BY PromotionAssumption DEF PassOver, VerifyImage, PushTag, Reread, PrFault, PrOk, JobOK
<1>3. StoreOK' /\ HandleMeansComplete'
  BY <1>1 DEF StoreOK, HandleMeansComplete, workspace
<1>4. \A i \in Img : i < img => Handled(i)
  BY <1>1 DEF Shipped
<1>5. ASSUME prPc' \in Promoting \cup {"sign"}
      PROVE  Stored' /\ AsListed'
  BY <1>5 DEF Performing, Promoting, Stored, AsListed
<1>6. ASSUME NextImage, todo' = <<>>, UNCHANGED tags, promoted' = promoted \/ OwnKept', JobOK',
             \A i \in Img : i <= img => Handled(i)'
      PROVE  PromotionIInv'
  <2>1. /\ prPc' \in {"image", "sign"} /\ img' \in Img
        /\ prPc' = "image" => \A i \in Img : i < img' => Handled(i)'
        /\ prPc' = "sign" => img' = 1 /\ \A i \in Img : Handled(i)'
    BY <1>6, NextImageIs
  <2>2. RegistryOK' /\ OwnKept'
    BY <1>1, <1>6 DEF RegistryOK, OwnKept, Digest
  <2>3. Steps'
    BY <1>6, <2>1 DEF Steps, PrLabels, Promoting, ToCopy
  <2>4. Shipped'
    BY <2>1 DEF Shipped, Promoting, Retaining
  <2>5. SignedUp'
    <3>1. \A i \in Img : ~(i < 1)
      BY DEF Img
    <3>2. ToSign' \subseteq Img
      BY DEF ToSign, Img
    <3> QED BY <1>1, <2>1, <3>1, <3>2 DEF SignedUp, Promoting, Retaining
  <2>6. Stored' /\ AsListed'
    BY <1>5, <2>1 DEF Promoting
  <2> QED BY <1>3, <1>6, <2>2, <2>3, <2>4, <2>5, <2>6
<1>7. ASSUME prPc' = "push" \/ prPc' = "reread", img' = img, todo' \in ToPush, UNCHANGED skipped,
             JobOK', RegistryOK', OwnKept', refused \subseteq refused', promoted \subseteq promoted',
             todo' = <<"rolling">> => <<img, "own">> \in promoted' \/ img \in refused'
      PROVE  PromotionIInv'
  <2>1. Steps'
    BY <1>7 DEF Steps, PrLabels, Promoting, ToPush
  <2>2. \A i \in Img : i < img => Handled(i)'
    BY <1>1, <1>4, <1>7 DEF Handled, workspace
  <2>3. Shipped'
    BY <1>7, <2>2 DEF Shipped, Promoting, Retaining
  <2>4. SignedUp' /\ Stored' /\ AsListed'
    BY <1>1, <1>5, <1>7 DEF SignedUp, Promoting, Retaining
  <2> QED BY <1>3, <1>7, <2>1, <2>3, <2>4
<1>8. CASE PassOver
  <2>1. NextImage /\ UNCHANGED <<todo, promoted, refused, skipped, results, tags, prFaults>> /\ todo = <<>>
        /\ img \notin handle \cap prCfg.targeted
    BY <1>8 DEF PassOver, remote, Steps
  <2>2. \A i \in Img : Handled(i)' <=> Handled(i)
    BY <1>1, <2>1 DEF Handled, workspace
  <2>3. \A i \in Img : i <= img => Handled(i)'
    <3>1. \A i \in Img : i <= img => i < img \/ i = img
      BY <1>0 DEF Img
    <3>2. Handled(img)
      BY <2>1 DEF Handled
    <3> QED BY <1>4, <2>2, <3>1, <3>2
  <2>4. img' \in Img
    BY <1>0, <2>1, PromotionAssumption DEF NextImage, Img
  <2>5. JobOK'
    BY <1>1, <1>2, <2>1, <2>4 DEF JobOK
  <2> QED BY <1>6, <2>1, <2>3, <2>5
<1>9. CASE VerifyImage
  <2>0. UNCHANGED <<promoted, results, tags, prFaults>> /\ todo = <<>>
    BY <1>9 DEF VerifyImage, remote, Steps
  <2>1. CASE NextImage /\ UNCHANGED todo /\ skipped \subseteq skipped' /\ refused \subseteq refused'
              /\ img \in skipped' \cup refused' /\ skipped' \subseteq Img /\ refused' \subseteq Img
    <3>1. \A i \in Img : i < img => Handled(i)'
      BY <1>1, <1>4, <2>0, <2>1 DEF Handled, workspace
    <3>2. \A i \in Img : i <= img => Handled(i)'
      <4>1. \A i \in Img : i <= img => i < img \/ i = img
        BY <1>0 DEF Img
      <4>2. \A i \in Img : i = img => Handled(i)'
        BY <2>1 DEF Handled
      <4> QED BY <3>1, <4>1, <4>2
    <3>3. img' \in Img
      BY <1>0, <2>1, PromotionAssumption DEF NextImage, Img
    <3>4. JobOK'
      BY <1>1, <1>2, <2>0, <2>1, <3>3 DEF JobOK
    <3> QED BY <1>6, <2>0, <2>1, <3>2, <3>4
  <2>2. CASE prPc' = "push" /\ todo' = <<"own", "rolling">> /\ UNCHANGED <<img, skipped, refused>>
    <3>1. JobOK' /\ RegistryOK' /\ OwnKept'
      BY <1>1, <1>2, <2>0, <2>2 DEF JobOK, RegistryOK, OwnKept, Digest
    <3>2. todo' # <<"rolling">> /\ todo' \in ToPush
      BY <2>2, Todos DEF ToPush
    <3> QED BY <1>7, <2>0, <2>2, <3>1, <3>2
  <2>3. \/ skipped' = skipped \cup {img} /\ NextImage /\ UNCHANGED <<refused, todo>>
        \/ refused' = refused \cup {img} /\ NextImage /\ UNCHANGED <<skipped, todo>>
        \/ prPc' = "push" /\ todo' = <<"own", "rolling">> /\ UNCHANGED <<img, skipped, refused>>
    BY <1>9 DEF VerifyImage
  <2>4. skipped \subseteq Img /\ refused \subseteq Img
    BY DEF JobOK
  <2> QED BY <1>0, <2>1, <2>2, <2>3, <2>4
<1>10. ASSUME todo \in ToPush, UNCHANGED <<tags, skipped>>, promoted \subseteq promoted', refused \subseteq refused',
              \/ promoted' = promoted /\ refused' = refused \cup {img}
              \/ promoted' = promoted \cup {<<img, Head(todo)>>} /\ refused' = refused /\ tags[img][Head(todo)] = Digest,
              results' \in [Img -> [PushedTags -> {"none", "ok", "failed"}]],
              \/ Len(todo) > 1 /\ todo' = Tail(todo) /\ prPc' = "push" /\ UNCHANGED img
              \/ ~(Len(todo) > 1) /\ todo' = <<>> /\ NextImage
       PROVE  PromotionIInv'
  <2>0. Head(todo) \in PushedTags
    BY <1>10, Todos DEF ToPush, PushedTags
  <2>1. img' \in Img
    BY <1>0, <1>10, PromotionAssumption DEF NextImage, Img
  <2>2. JobOK'
    BY <1>0, <1>1, <1>2, <1>10, <2>0, <2>1 DEF JobOK
  <2>3. OwnKept' /\ RegistryOK'
    BY <1>1, <1>10 DEF OwnKept, RegistryOK, Digest
  <2>4. \A i \in Img : i < img => Handled(i)'
    BY <1>1, <1>4, <1>10 DEF Handled, workspace
  <2>5. <<img, Head(todo)>> \in promoted' \/ img \in refused'
    BY <1>10
  <2>6. CASE todo = <<"own", "rolling">>
    <3>1. todo' = <<"rolling">> /\ prPc' = "push" /\ img' = img
      BY <1>10, <2>6, Todos
    <3>2. <<img, "own">> \in promoted' \/ img \in refused'
      BY <2>5, <2>6, Todos
    <3> QED BY <1>7, <1>10, <2>2, <2>3, <3>1, <3>2 DEF ToPush
  <2>7. CASE todo = <<"rolling">>
    <3>1. todo' = <<>> /\ NextImage
      BY <1>10, <2>7, Todos
    <3>2. prPc \in {"push", "reread"}
      BY <1>1, <2>7 DEF Steps, Promoting
    <3>3. <<img, "own">> \in promoted' \/ img \in refused'
      BY <1>10, <2>7, <3>2 DEF Shipped
    <3>4. \A i \in Img : i <= img => Handled(i)'
      <4>1. \A i \in Img : i <= img => i < img \/ i = img
        BY <1>0 DEF Img
      <4>2. <<img, "rolling">> \in promoted' \/ img \in refused'
        BY <2>5, <2>7, Todos
      <4>3. \A i \in Img : i = img => Handled(i)'
        BY <3>3, <4>2 DEF Handled, PushedTags
      <4> QED BY <2>4, <4>1, <4>3
    <3> QED BY <1>6, <1>10, <2>2, <2>3, <3>1, <3>4
  <2> QED BY <1>10, <2>6, <2>7 DEF ToPush
<1>11. CASE PushTag
  <2>0. todo \in ToPush /\ UNCHANGED <<promoted, skipped>> /\ Head(todo) \in PushedTags
    BY <1>11, Todos DEF PushTag, Steps, ToPush, PushedTags
  <2>1. CASE tags' = [tags EXCEPT ![img][Head(todo)] = Digest] /\ prPc' = "reread"
              /\ UNCHANGED <<todo, img, results, refused>>
    <3>1. RegistryOK'
      BY <1>0, <1>1, <2>0, <2>1 DEF RegistryOK, TagNames, PushedTags
    <3>2. OwnKept'
      BY <1>0, <1>1, <2>0, <2>1 DEF RegistryOK, OwnKept, Digest, TagNames, PushedTags
    <3>3. JobOK'
      BY <1>1, <1>2, <2>0, <2>1 DEF JobOK
    <3>4. prPc = "push" /\ (todo = <<"rolling">> => <<img, "own">> \in promoted \/ img \in refused)
      BY <1>11 DEF PushTag, Shipped
    <3> QED BY <1>7, <2>0, <2>1, <3>1, <3>2, <3>3, <3>4
  <2>2. CASE PushFailed /\ UNCHANGED tags
    <3>1. results' \in [Img -> [PushedTags -> {"none", "ok", "failed"}]] /\ refused' = refused \cup {img}
      BY <1>0, <2>0, <2>2 DEF PushFailed, JobOK
    <3>2. \/ Len(todo) > 1 /\ todo' = Tail(todo) /\ UNCHANGED <<prPc, img>>
          \/ ~(Len(todo) > 1) /\ todo' = <<>> /\ NextImage
      BY <2>2 DEF PushFailed, NextTag
    <3>3. prPc = "push"
      BY <1>11 DEF PushTag
    <3> QED BY <1>10, <2>0, <2>2, <3>1, <3>2, <3>3
  <2> QED BY <1>11, <2>1, <2>2 DEF PushTag
<1>12. CASE Reread
  <2>0. todo \in ToPush /\ UNCHANGED <<tags, skipped>> /\ Head(todo) \in PushedTags
    BY <1>12, Todos DEF Reread, Steps, ToPush, PushedTags, remote
  <2>1. results' \in [Img -> [PushedTags -> {"none", "ok", "failed"}]]
    BY <1>0, <1>12, <2>0 DEF Reread, JobOK
  <2>2. \/ promoted' = promoted /\ refused' = refused \cup {img}
        \/ promoted' = promoted \cup {<<img, Head(todo)>>} /\ refused' = refused /\ tags[img][Head(todo)] = Digest
    BY <1>12 DEF Reread
  <2>3. \/ Len(todo) > 1 /\ todo' = Tail(todo) /\ prPc' = "push" /\ UNCHANGED img
        \/ ~(Len(todo) > 1) /\ todo' = <<>> /\ NextImage
    BY <1>12 DEF Reread
  <2> QED BY <1>10, <2>0, <2>1, <2>2, <2>3
<1> QED BY <1>8, <1>9, <1>11, <1>12

(* Starting, decaying files, signing, the verdict, kills, the other         *)
(* pipeline.                                                                *)
LEMMA RunInv ==
  ASSUME PromotionIInv, StartPromotion \/ SignImages \/ Verdict \/ PublishKilled
  PROVE  PromotionIInv'
<1> USE DEF PromotionIInv
<1>0. img \in Img /\ 1 \in Img /\ Img = 1..PrImages /\ PrImages \in Nat
  BY PromotionAssumption DEF JobOK, Img
<1>1. UNCHANGED <<prCfg, bundle, tags, listed, prRaced>> /\ HandleMeansComplete'
  BY DEF StartPromotion, SignImages, Verdict, PublishKilled, remote, workspace, HandleMeansComplete
<1>2. prFaults' \in 0..PrMaxFaults
  <2>1. prFaults' = prFaults \/ PrFault
    BY DEF StartPromotion, SignImages, Verdict, PublishKilled, PrOk
  <2> QED BY <2>1, PromotionAssumption DEF PrFault, JobOK
<1>3. CASE StartPromotion
  <2>1. /\ promoted' = {} /\ refused' = {} /\ skipped' = {} /\ signErr' = FALSE
        /\ results' = [i \in Img |-> [t \in PushedTags |-> "none"]]
        /\ prPc' = "image" /\ img' = 1 /\ todo' = <<>> /\ objects' = bundle.objects /\ handle' = bundle.handle
        /\ stores' \subseteq Img /\ UNCHANGED <<signedAt, prRecord>>
    BY <1>3 DEF StartPromotion, remote
  <2>2. prTries' \in 1..PrMaxTries
    BY <1>3, PromotionAssumption DEF StartPromotion, JobOK
  <2>3. StoreOK' /\ RegistryOK'
    BY <1>1, <2>1 DEF StoreOK, RegistryOK
  <2>4. results' \in [Img -> [PushedTags -> {"none", "ok", "failed"}]]
    BY <2>1
  <2>5. JobOK'
    BY <1>0, <1>1, <1>2, <2>1, <2>2, <2>4 DEF JobOK
  <2>6. Steps' /\ Stored' /\ AsListed' /\ OwnKept' /\ SignedUp'
    BY <2>1 DEF Steps, PrLabels, Promoting, Performing, Retaining, ToCopy, Stored, AsListed, OwnKept, SignedUp
  <2>7. \A i \in Img : ~(i < 1)
    BY <1>0
  <2>8. Shipped'
    BY <2>1, <2>7 DEF Shipped, Promoting, Retaining
  <2> QED BY <1>1, <2>3, <2>5, <2>6, <2>8
<1>4. CASE SignImages
  <2>1. /\ UNCHANGED <<workspace, todo, promoted, refused, skipped, results, prRecord, prTries>>
        /\ prPc = "sign" /\ ~signErr /\ todo = <<>>
        /\ img' = IF img < PrImages THEN img + 1 ELSE img
    BY <1>4 DEF SignImages, Steps, SignedUp
  <2>2. /\ signedAt \subseteq signedAt' /\ signedAt' \subseteq signedAt \cup {img} /\ signErr' \in BOOLEAN
        /\ prPc' = "sign" => img < PrImages /\ ~signErr'
        /\ prPc' \in {"sign", "verdict"}
        /\ prPc' = "verdict" => signErr' \/ ~(img < PrImages)
        /\ prCfg.sign = "enforce" => signErr' \/ (img \in ToSign => img \in signedAt')
    <3>1. CASE /\ img \notin ToSign \/ prCfg.sign \in {"off", "fallback"}
               /\ prPc' = IF img < PrImages THEN "sign" ELSE "verdict"
               /\ UNCHANGED <<signedAt, signErr>>
      BY <2>1, <3>1 DEF JobOK
    <3>2. CASE /\ signedAt' = signedAt \cup {img} /\ signErr' = signErr
               /\ prPc' = IF img < PrImages THEN "sign" ELSE "verdict"
      BY <2>1, <3>2 DEF JobOK
    <3>3. CASE /\ signErr' \in {Enforcing, TRUE} /\ signedAt' = signedAt
               /\ prPc' = IF img < PrImages /\ ~signErr' THEN "sign" ELSE "verdict"
      <4>1. Enforcing \in BOOLEAN /\ (prCfg.sign = "enforce" => Enforcing)
        BY DEF Enforcing
      <4>2. signErr' \in BOOLEAN /\ (prCfg.sign = "enforce" => signErr')
        BY <3>3, <4>1
      <4> QED BY <3>3, <4>2
    <3> QED BY <1>4, <3>1, <3>2, <3>3 DEF SignImages
  <2>3. StoreOK' /\ RegistryOK'
    BY <1>0, <1>1, <2>1, <2>2 DEF StoreOK, RegistryOK, workspace
  <2>4. JobOK'
    <3>1. img' \in Img
      BY <1>0, <2>1
    <3> QED BY <1>1, <1>2, <2>1, <2>2, <3>1 DEF JobOK
  <2>5. Steps' /\ Stored' /\ AsListed'
    BY <2>1, <2>2 DEF Steps, PrLabels, Performing, Stored, AsListed, ToCopy
  <2>6. OwnKept'
    BY <1>1, <2>1 DEF OwnKept, Digest
  <2>7. Shipped'
    BY <1>1, <2>1, <2>2 DEF Shipped, Handled, Promoting, Retaining, workspace
  <2>8. SignedUp'
    <3>1. ToSign' = ToSign /\ ToSign \subseteq Img
      BY <2>1 DEF ToSign
    <3>2. prCfg.sign = "enforce" => \A i \in ToSign : i < img => i \in signedAt
      BY <2>1 DEF SignedUp
    <3>3. prPc' = "sign" => \A i \in ToSign : i < img' => i < img \/ i = img
      BY <1>0, <2>1, <2>2, <3>1
    <3>4. prPc' = "verdict" /\ ~signErr' => \A i \in ToSign : i < img \/ i = img
      BY <1>0, <2>2, <3>1
    <3>5. prCfg.sign = "enforce" /\ prPc' = "sign" => \A i \in ToSign' : i < img' => i \in signedAt'
      BY <2>2, <3>1, <3>2, <3>3
    <3>6. prCfg.sign = "enforce" /\ prPc' = "verdict" => signErr' \/ ToSign' \subseteq signedAt'
      BY <2>2, <3>1, <3>2, <3>4
    <3> QED BY <1>1, <2>2, <3>5, <3>6 DEF SignedUp, Promoting, Retaining
  <2> QED BY <1>1, <2>3, <2>4, <2>5, <2>6, <2>7, <2>8
<1>5. CASE Verdict
  <2>1. /\ UNCHANGED <<handle, stores, todo, promoted, refused, skipped, signErr, results, signedAt, prTries>>
        /\ prPc = "verdict" /\ img' = 1 /\ todo = <<>>
        /\ prRecord' \in {prRecord, "failed", "success"}
        /\ objects' \in {objects, [i \in Img |-> NoLayout]}
        /\ prPc' = "ended" \/ (prPc' = "prune" /\ refused = {} /\ ~signErr)
    BY <1>5 DEF Verdict, remote, Steps
  <2>2. StoreOK' /\ RegistryOK'
    BY <1>1, <2>1 DEF StoreOK, RegistryOK, Layouts, NoLayout, FileStates
  <2>3. JobOK'
    BY <1>0, <1>1, <1>2, <2>1 DEF JobOK
  <2>4. Steps' /\ Stored' /\ AsListed'
    BY <2>1 DEF Steps, PrLabels, Performing, Retaining, Stored, AsListed, ToCopy
  <2>5. OwnKept'
    BY <1>1, <2>1 DEF OwnKept, Digest
  <2>6. Shipped'
    BY <1>1, <2>1 DEF Shipped, Handled, Promoting, Retaining
  <2>7. SignedUp'
    BY <1>1, <2>1 DEF SignedUp, ToSign, Promoting, Retaining
  <2> QED BY <1>1, <2>2, <2>3, <2>4, <2>5, <2>6, <2>7
<1>6. CASE PublishKilled
  <2>1. /\ UNCHANGED <<workspace, img, todo, promoted, refused, skipped, signErr, results, signedAt, prRecord, prTries>>
        /\ prPc' = "ended"
    BY <1>6 DEF PublishKilled, remote
  <2>2. StoreOK' /\ RegistryOK' /\ JobOK'
    BY <1>1, <1>2, <2>1 DEF StoreOK, RegistryOK, JobOK, workspace
  <2>3. Steps' /\ Stored' /\ AsListed'
    BY <2>1 DEF Steps, PrLabels, Performing, Stored, AsListed
  <2>4. OwnKept' /\ Shipped' /\ SignedUp'
    BY <1>1, <2>1 DEF OwnKept, Digest, Shipped, SignedUp, Promoting, Retaining
  <2> QED BY <1>1, <2>2, <2>3, <2>4
<1> QED BY <1>3, <1>4, <1>5, <1>6

(* Files that decay, and the other pipeline.                                *)
LEMMA OutsideInv ==
  ASSUME PromotionIInv,
         \/ \E i \in Img, f \in Files, how \in {"none", "torn"} : Decay(i, f, how)
         \/ \E i \in Img, d \in {"d-rival", "d-old"} : RivalPush(i, d)
  PROVE  PromotionIInv'
<1> USE DEF PromotionIInv
<1>0. prFaults' \in 0..PrMaxFaults
  BY PromotionAssumption DEF Decay, RivalPush, PrFault, JobOK
<1>1. ASSUME NEW i \in Img, NEW f \in Files, NEW how \in {"none", "torn"}, Decay(i, f, how) PROVE PromotionIInv'
  <2>1. /\ UNCHANGED <<prCfg, handle, stores, bundle, prPc, img, todo, promoted, refused, skipped, signErr, listed,
                      results, tags, signedAt, prRecord, prRaced, prTries>>
        /\ prPc \in {"image", "push"}
    BY <1>1 DEF Decay, jobVars, remote
  <2>2. objects' \in Layouts
    BY <1>1 DEF Decay, StoreOK, Layouts, FileStates
  <2>3. StoreOK' /\ RegistryOK' /\ HandleMeansComplete'
    BY <2>1, <2>2 DEF StoreOK, RegistryOK, HandleMeansComplete
  <2>4. JobOK' /\ Steps'
    BY <1>0, <2>1 DEF JobOK, Steps
  <2>5. Stored' /\ AsListed' /\ OwnKept'
    BY <2>1 DEF Stored, AsListed, OwnKept, Performing, Digest
  <2>6. Shipped' /\ SignedUp'
    BY <2>1 DEF Shipped, Handled, SignedUp, ToSign
  <2> QED BY <2>3, <2>4, <2>5, <2>6
<1>2. ASSUME NEW i \in Img, NEW d \in {"d-rival", "d-old"}, RivalPush(i, d) PROVE PromotionIInv'
  <2>1. /\ UNCHANGED <<prCfg, objects, stores, handle, bundle, prPc, img, todo, promoted, refused, skipped, signErr,
                      listed, results, signedAt, prRecord, prTries>>
        /\ prPc \notin Performing
        /\ tags' = [tags EXCEPT ![i]["rolling"] = d] /\ prRaced' = (prRaced \/ prPc = "version")
    BY <1>2 DEF RivalPush, workspace, jobVars, Performing
  <2>2. tags' \in [Img -> [TagNames -> Digests]]
    BY <2>1 DEF RegistryOK, TagNames, Digests
  <2>3. \A k \in Img, u \in TagNames : u # "rolling" => tags'[k][u] = tags[k][u]
    BY <2>1 DEF RegistryOK
  <2>4. StoreOK' /\ RegistryOK' /\ HandleMeansComplete'
    BY <2>1, <2>2 DEF StoreOK, RegistryOK, HandleMeansComplete
  <2>5. JobOK' /\ Steps' /\ Stored'
    BY <1>0, <2>1 DEF JobOK, Steps, Stored
  <2>6. OwnKept'
    BY <2>1, <2>3 DEF OwnKept, Digest, TagNames
  <2>7. AsListed'
    <3>1. prPc \in {"delete", "version"} => Head(todo) \in {"prev", "old"}
      BY Todos DEF Steps, ToDelete
    <3>2. img \in Img
      BY DEF JobOK
    <3> QED BY <2>1, <2>3, <3>1, <3>2 DEF AsListed, TagNames
  <2>8. Shipped' /\ SignedUp'
    BY <2>1 DEF Shipped, Handled, SignedUp, ToSign
  <2> QED BY <2>4, <2>5, <2>6, <2>7, <2>8
<1> QED BY <1>1, <1>2

(* Retention deletes what it listed, and nothing of this run.               *)
LEMMA PruneInv ==
  ASSUME PromotionIInv, ListTags \/ DeleteTag \/ DeleteVersion
  PROVE  PromotionIInv'
<1> USE DEF PromotionIInv
<1>0. img \in Img /\ img \in Nat /\ PrImages \in Nat /\ Img = 1..PrImages
  BY PromotionAssumption DEF JobOK, Img
<1>1. /\ UNCHANGED <<prCfg, workspace, bundle, promoted, refused, skipped, signErr, results, signedAt,
                     prRecord, prRaced, prTries>>
      /\ prPc \in Retaining
  BY DEF ListTags, DeleteTag, DeleteVersion, remote, Retaining
<1>2. prFaults' \in 0..PrMaxFaults
  BY PromotionAssumption DEF ListTags, DeleteTag, DeleteVersion, PrFault, PrOk, JobOK
<1>3. StoreOK' /\ HandleMeansComplete'
  BY <1>1 DEF StoreOK, HandleMeansComplete, workspace
<1>4. ASSUME prPc' \in Retaining \cup {"ended"}, img' \in Img
      PROVE  JobOK' /\ Stored' /\ Shipped' /\ SignedUp'
  <2>1. JobOK'
    BY <1>1, <1>2, <1>4 DEF JobOK
  <2>2. Stored'
    BY <1>4 DEF Stored, Retaining, Performing
  <2>3. Shipped'
    BY <1>1, <1>4 DEF Shipped, Handled, Retaining, Promoting, workspace
  <2>4. SignedUp'
    BY <1>1, <1>4 DEF SignedUp, ToSign, Retaining, Promoting
  <2> QED BY <2>1, <2>2, <2>3, <2>4
<1>5. ASSUME NextPrune, todo' = <<>>, RegistryOK', OwnKept' PROVE PromotionIInv'
  <2>1. prPc' \in {"prune", "ended"} /\ img' \in Img
    BY <1>0, <1>5 DEF NextPrune
  <2>2. Steps' /\ AsListed'
    BY <1>5, <2>1 DEF Steps, AsListed, PrLabels, Retaining, ToCopy
  <2> QED BY <1>3, <1>4, <1>5, <2>1, <2>2 DEF Retaining
<1>6. CASE ListTags
  <2>1. prPc = "prune" /\ todo = <<>> /\ tags' = tags
    BY <1>6 DEF ListTags, Steps, remote
  <2>2. OwnKept'
    BY <1>1, <2>1 DEF OwnKept, Digest
  <2>3. tags[img] \in [TagNames -> Digests]
    BY <1>0 DEF RegistryOK
  <2>4. CASE listed' = tags[img] /\ todo' = SetToSeq(Outdated(tags[img])) /\ Outdated(tags[img]) = {} /\ NextPrune
    <3>1. todo' = <<>>
      BY <2>4, SeqOfOne
    <3>2. RegistryOK'
      BY <1>1, <2>1, <2>3, <2>4 DEF RegistryOK
    <3> QED BY <1>5, <2>2, <2>4, <3>1, <3>2
  <2>5. CASE listed' = tags[img] /\ todo' = SetToSeq(Outdated(tags[img])) /\ Outdated(tags[img]) # {}
              /\ prPc' = "delete" /\ UNCHANGED img
    <3>1. PICK t \in {"prev", "old"} : Outdated(tags[img]) = {t} /\ tags[img][t] # "none"
      BY <2>3, <2>5, OneOutdated
    <3>2. todo' = <<t>> /\ todo' \in ToDelete /\ Head(todo') = t
      <4>1. todo' = SetToSeq({t})
        BY <2>5, <3>1
      <4>2. SetToSeq({t}) = <<t>>
        BY SeqOfOne
      <4>3. <<t>> \in ToDelete /\ Head(<<t>>) = t
        BY <3>1, Todos DEF ToDelete
      <4> QED BY <4>1, <4>2, <4>3
    <3>3. RegistryOK'
      BY <1>1, <2>1, <2>3, <2>5 DEF RegistryOK
    <3>4. Steps'
      BY <2>5, <3>2 DEF Steps, PrLabels, Retaining
    <3>5. AsListed'
      BY <2>1, <2>5, <3>1, <3>2 DEF AsListed
    <3> QED BY <1>0, <1>3, <1>4, <2>2, <2>5, <3>3, <3>4, <3>5 DEF Retaining
  <2>6. CASE NextPrune /\ UNCHANGED <<listed, todo>>
    <3>1. RegistryOK'
      BY <1>1, <2>1, <2>6 DEF RegistryOK
    <3> QED BY <1>5, <2>1, <2>2, <2>6, <3>1
  <2> QED BY <1>6, <2>4, <2>5, <2>6 DEF ListTags
<1>7. ASSUME todo \in ToDelete, NextDelete PROVE NextPrune /\ todo' = <<>>
  BY <1>7, Todos DEF ToDelete, NextDelete
<1>8. CASE DeleteTag
  <2>0. /\ prPc = "delete" /\ todo \in ToDelete /\ listed' = listed
        /\ Head(todo) \in {"prev", "old"}
        /\ listed[Head(todo)] = tags[img][Head(todo)] /\ listed[Head(todo)] # "none"
    BY <1>8, Todos DEF DeleteTag, Steps, ToDelete, AsListed
  <2>1. CASE NextDelete /\ tags' \in {tags, [tags EXCEPT ![img][Head(todo)] = "none"]}
    <3>1. RegistryOK'
      BY <1>0, <1>1, <2>0, <2>1 DEF RegistryOK, TagNames, Digests
    <3>2. OwnKept'
      BY <1>0, <1>1, <2>0, <2>1 DEF OwnKept, RegistryOK, TagNames, Digest
    <3> QED BY <1>5, <1>7, <2>0, <2>1, <3>1, <3>2
  <2>2. CASE /\ \A u \in TagNames \ {Head(todo)} : tags[img][u] # tags[img][Head(todo)]
             /\ prPc' = "version" /\ UNCHANGED <<todo, img, tags>>
    <3>1. RegistryOK' /\ OwnKept'
      BY <1>1, <2>0, <2>2 DEF RegistryOK, OwnKept, Digest
    <3>2. Steps' /\ AsListed'
      BY <2>0, <2>2 DEF Steps, PrLabels, Retaining, AsListed
    <3> QED BY <1>0, <1>3, <1>4, <2>2, <3>1, <3>2 DEF Retaining
  <2> QED BY <1>8, <2>1, <2>2 DEF DeleteTag
<1>9. CASE DeleteVersion
  <2>0. /\ prPc = "version" /\ todo \in ToDelete /\ listed' = listed /\ NextDelete
        /\ Head(todo) \in {"prev", "old"}
    BY <1>9, Todos DEF DeleteVersion, Steps, ToDelete
  <2> DEFINE left == [u \in TagNames |-> IF tags[img][u] = listed[Head(todo)] THEN "none" ELSE tags[img][u]]
  <2>1. tags' = tags \/ tags' = [tags EXCEPT ![img] = left]
    BY <1>9 DEF DeleteVersion
  <2>2. left \in [TagNames -> Digests]
    BY <1>0 DEF RegistryOK, Digests
  <2>3. left["own"] = tags[img]["own"]
    BY <2>0 DEF AsListed, TagNames
  <2> HIDE DEF left
  <2>4. RegistryOK'
    BY <1>1, <2>0, <2>1, <2>2 DEF RegistryOK
  <2>5. OwnKept'
    BY <1>0, <1>1, <2>1, <2>3 DEF OwnKept, RegistryOK, Digest
  <2> QED BY <1>5, <1>7, <2>0, <2>4, <2>5
<1> QED BY <1>6, <1>8, <1>9

LEMMA PromotionStepInv == PromotionIInv /\ [PromotionNext]_promotionVars => PromotionIInv'
<1> SUFFICES ASSUME PromotionIInv, [PromotionNext]_promotionVars PROVE PromotionIInv'
  OBVIOUS
<1>1. CASE PromotionNext
  BY <1>1, PerformInv, PromoteInv, RunInv, OutsideInv, PruneInv DEF PromotionNext, PromotionStep
<1>2. CASE UNCHANGED promotionVars
  <2>1. UNCHANGED <<prCfg, objects, stores, handle, bundle, prPc, img, todo, promoted, refused, skipped, signErr,
                    results, tags, signedAt, listed, prRecord, prRaced, prTries, prFaults>>
    BY <1>2 DEF promotionVars, workspace, jobVars, remote
  <2>2. StoreOK' /\ RegistryOK' /\ JobOK' /\ Steps'
    BY <2>1 DEF PromotionIInv, StoreOK, RegistryOK, JobOK, Steps
  <2>3. Stored' /\ HandleMeansComplete'
    BY <2>1 DEF PromotionIInv, Stored, HandleMeansComplete
  <2>4. Shipped'
    BY <2>1 DEF PromotionIInv, Shipped, Handled
  <2>5. SignedUp' /\ OwnKept' /\ AsListed'
    BY <2>1 DEF PromotionIInv, SignedUp, ToSign, OwnKept, Digest, AsListed
  <2> QED BY <2>2, <2>3, <2>4, <2>5 DEF PromotionIInv
<1> QED BY <1>1, <1>2

THEOREM PromotionInvariance == PromotionSpec => []PromotionIInv
BY PromotionInitInv, PromotionStepInv, PTL DEF PromotionSpec

-----------------------------------------------------------------------------
(* What follows *)

LEMMA PromotionIInvKeeps == PromotionIInv => PromotionTypeOK /\ HandleMeansComplete /\ SuccessMeansShipped /\ OwnTagsSurvive
<1> SUFFICES ASSUME PromotionIInv PROVE PromotionTypeOK /\ HandleMeansComplete /\ SuccessMeansShipped /\ OwnTagsSurvive
  OBVIOUS
<1> USE DEF PromotionIInv
<1>1. Range(todo) \subseteq Files \cup TagNames
  BY Ranges DEF Steps, ToCopy, ToPush, ToDelete, Files, TagNames
<1>2. PromotionTypeOK
  BY <1>1 DEF StoreOK, RegistryOK, JobOK, Layouts, FileStates, PromotionTypeOK
<1>3. SuccessMeansShipped
  <2> SUFFICES ASSUME prPc \in Retaining, NEW i \in (handle \cap prCfg.targeted) \ skipped
               PROVE  /\ \A t \in PushedTags : <<i, t>> \in promoted
                      /\ prCfg.sign = "enforce" => i \in signedAt
    BY DEF SuccessMeansShipped, Retaining
  <2>1. \A t \in PushedTags : <<i, t>> \in promoted
    BY DEF Shipped, Handled, StoreOK
  <2>2. i \in ToSign
    BY <2>1 DEF ToSign, PushedTags, StoreOK
  <2> QED BY <2>1, <2>2 DEF SignedUp
<1>4. OwnTagsSurvive
  BY DEF OwnKept, OwnTagsSurvive
<1> QED BY <1>2, <1>3, <1>4

(* A tag is called a success by the re-read that saw it.                    *)
LEMMA StepTruthful ==
  ASSUME PromotionIInv, [PromotionNext]_promotionVars, NEW i \in Img, NEW t \in PushedTags,
         results'[i][t] = "ok", results[i][t] # "ok"
  PROVE  tags[i][t] = Digest
<1> USE DEF PromotionIInv
<1>1. img \in Img /\ results \in [Img -> [PushedTags -> {"none", "ok", "failed"}]]
  BY DEF JobOK
<1>2. results' # results
  OBVIOUS
<1>3. ~PutBegin /\ ~CopyFile /\ ~PutVerify /\ ~PassOver /\ ~VerifyImage /\ ~SignImages /\ ~Verdict
      /\ ~ListTags /\ ~DeleteTag /\ ~DeleteVersion /\ ~PerformAgain /\ ~PublishKilled
  BY <1>2 DEF PutBegin, CopyFile, PutVerify, PassOver, VerifyImage, SignImages, Verdict, ListTags, DeleteTag,
     DeleteVersion, PerformAgain, PublishKilled
<1>4. ~StartPromotion
  BY DEF StartPromotion
<1>5. /\ \A k \in Img, f \in Files, how \in {"none", "torn"} : ~Decay(k, f, how)
      /\ \A k \in Img, d \in {"d-rival", "d-old"} : ~RivalPush(k, d)
      /\ ~UNCHANGED promotionVars
  BY <1>2 DEF Decay, RivalPush, promotionVars
<1>6. ~PushTag
  BY <1>1, <1>2 DEF PushTag, PushFailed
<1>7. Reread
  BY <1>3, <1>4, <1>5, <1>6 DEF PromotionNext, PromotionStep
<1> QED BY <1>1, <1>7 DEF Reread

(* Only retention takes a tag away, and only the one it chose.              *)
LEMMA StepKeepsTags ==
  ASSUME PromotionIInv, [PromotionNext]_promotionVars, NEW i \in Img, NEW t \in TagNames,
         tags[i][t] # "none", tags'[i][t] = "none"
  PROVE  t \in Range(todo) \/ prRaced
<1> USE DEF PromotionIInv
<1>1. img \in Img /\ tags \in [Img -> [TagNames -> Digests]]
  BY DEF JobOK, RegistryOK
<1>2. tags' # tags
  OBVIOUS
<1>3. ~PutBegin /\ ~CopyFile /\ ~PutVerify /\ ~PassOver /\ ~VerifyImage /\ ~SignImages /\ ~Verdict
      /\ ~Reread /\ ~ListTags /\ ~PerformAgain /\ ~PublishKilled /\ ~StartPromotion
  BY <1>2 DEF PutBegin, CopyFile, PutVerify, PassOver, VerifyImage, SignImages, Verdict, Reread, ListTags,
     PerformAgain, PublishKilled, StartPromotion, remote
<1>4. /\ \A k \in Img, f \in Files, how \in {"none", "torn"} : ~Decay(k, f, how)
      /\ \A k \in Img, d \in {"d-rival", "d-old"} : ~RivalPush(k, d)
      /\ ~UNCHANGED promotionVars
  BY <1>1, <1>2 DEF Decay, RivalPush, promotionVars, remote
<1>5. ~PushTag
  BY <1>1, <1>2 DEF PushTag, Digest
<1>6. todo \in ToDelete => Head(todo) \in Range(todo)
  BY Todos, Ranges DEF ToDelete
<1>7. CASE DeleteTag
  <2>1. todo \in ToDelete /\ tags' = [tags EXCEPT ![img][Head(todo)] = "none"]
    BY <1>2, <1>7 DEF DeleteTag, Steps
  <2>2. t = Head(todo)
    BY <1>1, <2>1
  <2> QED BY <1>6, <2>1, <2>2
<1>8. CASE DeleteVersion
  <2>1. todo \in ToDelete /\ prPc = "version" /\ i = img /\ tags[img][t] = listed[Head(todo)]
    BY <1>1, <1>2, <1>8 DEF DeleteVersion, Steps
  <2>2. t = Head(todo) \/ prRaced
    BY <2>1 DEF AsListed
  <2> QED BY <1>6, <2>1, <2>2
<1> QED BY <1>3, <1>4, <1>5, <1>7, <1>8 DEF PromotionNext, PromotionStep

(* Whatever is killed, fails, decays or is overtaken by another pipeline:   *)
(* handles name complete layouts, a success has shipped and signed every    *)
(* image, its results are what the registry served, and retention takes     *)
(* nothing but what it chose.                                               *)
THEOREM PromotionDelivers == PromotionSpec => PromotionKeeps
<1>1. PromotionIInv /\ [PromotionNext]_promotionVars =>
        [\A i \in Img, t \in PushedTags :
           results'[i][t] = "ok" /\ results[i][t] # "ok" => tags[i][t] = Digest]_promotionVars
  BY StepTruthful
<1>2. PromotionIInv /\ [PromotionNext]_promotionVars =>
        [\A i \in Img, t \in TagNames :
           tags[i][t] # "none" /\ tags'[i][t] = "none" => t \in Range(todo) \/ prRaced]_promotionVars
  BY StepKeepsTags
<1> QED BY PromotionInvariance, PromotionIInvKeeps, <1>1, <1>2, PTL DEF PromotionSpec, PromotionKeeps, ResultsTruthful, KeptTagsSurvive

-----------------------------------------------------------------------------
(* Mirrors: the inductive invariant *)

MirrorLabels ==
  {"idle", "clone", "list", "push", "source", "current", "release", "asset", "link", "prune", "retain"}
\* The labels at which the pass has the mirror's releases as it listed them.
Converging == {"release", "asset", "link", "prune"}
SourceReleases == [here : BOOLEAN, body : 1..2, asset : 1..2]
MirrorReleases ==
  [here : BOOLEAN, fp : Nat, body : 0..2, asset : 0..2, link : BOOLEAN, prose : BOOLEAN]
DesiredReleases == [here : BOOLEAN, body : 1..2, asset : 1..2, ref : MiCommit]

\* The type invariant, by what it is about.
RefsTyped ==
  /\ miCfg \in MiConfigs
  /\ srcRefs \in [Refs -> 0..MiCommits]
  /\ dstRefs \in [Refs -> MiCommit] /\ clone \in [Refs -> MiCommit] /\ seenRefs \in [Refs -> MiCommit]
  /\ moved \subseteq Refs
  /\ miPasses \in 0..MiPasses /\ miEvents \in 0..MiEvents

RelsTyped ==
  /\ srcRel \in [RelTags -> SourceReleases] /\ desired \in [RelTags -> DesiredReleases]
  /\ dstRel \in [RelTags -> MirrorReleases] /\ seenRel \in [RelTags -> MirrorReleases]
  /\ kept \subseteq RelTags /\ half \subseteq RelTags
  /\ miPc \in MirrorLabels /\ at \in Seq(RelTags)

\* What the pass has left to do at each label.
PassAt ==
  /\ miPc = "current" => \E t \in RelTags : desired[t].here
  /\ miPc \in {"release", "asset", "link"} => at # <<>>
  /\ miPc = "prune" /\ at # <<>> => miCfg.prune
  /\ miPc = "retain" => miCfg.retain

\* A marker is true of its release, unless an upload or a link is still owed.
MarkersTrue ==
  \A t \in RelTags :
    /\ ~dstRel[t].here => dstRel[t] = NoRel
    /\ dstRel[t].fp # 0 /\ t \notin half => dstRel[t].fp = fingerprint(dstRel[t]) /\ dstRel[t].link

\* A release is as the pass listed it, or the pass has converged it.
AsListedOrDone ==
  miPc \in Converging =>
    \A t \in RelTags :
      /\ ~seenRel[t].here => seenRel[t] = NoRel /\ ~dstRel[t].prose
      /\ seenRel[t].here /\ dstRel[t].here => dstRel[t].fp \in {seenRel[t].fp, fingerprint(desired[t])}
      /\ seenRel[t].here /\ miPc # "prune" => dstRel[t].here

\* The release that the pass is at, between its marker and its last link.
AtWork ==
  miPc \in {"asset", "link"} =>
    LET r == dstRel[Head(at)]
        d == desired[Head(at)]
    IN /\ Head(at) \in half /\ r.here /\ r.fp = fingerprint(d) /\ r.body = d.body
       /\ miPc = "link" => r.asset = d.asset

\* Between the listing and the push, refs that differ from it were moved by others.
ListedOrMoved == miPc = "push" => \A r \in Refs \ moved : dstRefs[r] = seenRefs[r]

MirrorIInv == RefsTyped /\ RelsTyped /\ PassAt /\ MarkersTrue /\ AsListedOrDone /\ AtWork /\ ListedOrMoved
-----------------------------------------------------------------------------
(* Lemmas *)

(* The tags of a set in some order.                                         *)
LEMMA SomeOrder ==
  ASSUME NEW S \in SUBSET RelTags
  PROVE  SetToSeq(S) \in Seq(RelTags) /\ (SetToSeq(S) = <<>> <=> S = {})
<1>1. IsFiniteSet(S)
  <2>1. IsFiniteSet(RelTags)
    <3>1. RelTags = {"v1"} \cup {"v2"}
      BY DEF RelTags
    <3>2. IsFiniteSet({"v1"}) /\ IsFiniteSet({"v2"})
      BY FS_Singleton
    <3> QED BY <3>1, <3>2, FS_Union
  <2> QED BY <2>1, FS_Subset
<1>2. PICK n \in Nat : ExistsBijection(1..n, S)
  BY <1>1, FS_NatBijection
<1>3. n = Cardinality(S)
  BY <1>1, <1>2, FS_CountingElements
<1>4. PICK f \in [1..n -> S] : IsInjective(f)
  BY <1>2 DEF ExistsBijection, Bijection, Injection, IsInjective
<1>5. SetToSeq(S) \in [1..n -> S]
  BY <1>3, <1>4 DEF SetToSeq
<1>6. SetToSeq(S) \in Seq(RelTags) /\ Len(SetToSeq(S)) = n
  BY <1>5
<1>7. n = 0 <=> S = {}
  BY <1>1, <1>3, FS_EmptySet
<1> QED BY <1>6, <1>7

(* The tag that a pass is at, and those after it.                           *)
LEMMA AtMoves ==
  ASSUME at \in Seq(RelTags), at # <<>>
  PROVE  Head(at) \in RelTags /\ Tail(at) \in Seq(RelTags) /\ (Len(at) > 1 => Tail(at) # <<>>)
<1>1. Len(at) \in Nat /\ Len(at) > 0 /\ Head(at) = at[1] /\ at[1] \in RelTags
  OBVIOUS
<1>2. Tail(at) \in Seq(RelTags) /\ Len(Tail(at)) = Len(at) - 1
  OBVIOUS
<1>3. Tail(at) = <<>> => Len(Tail(at)) = 0
  <2>1. Len(<<>>) = 0
    OBVIOUS
  <2> QED BY <2>1, Zenon
<1>4. Len(at) > 1 => Tail(at) # <<>>
  BY <1>1, <1>2, <1>3
<1> QED BY <1>1, <1>2, <1>4

(* Where a pass goes from a release.                                        *)
LEMMA ToNextRelease ==
  ASSUME RelsTyped, at # <<>>, NextRelease
  PROVE  /\ miPc' \in {"release", "prune"} /\ at' \in Seq(RelTags)
         /\ miPc' = "release" => at' # <<>>
         /\ miPc' = "prune" /\ at' # <<>> => miCfg.prune
<1> DEFINE S == {t \in RelTags : miCfg.prune /\ seenRel[t].here /\ ~desired[t].here}
<1>1. SetToSeq(S) \in Seq(RelTags) /\ (SetToSeq(S) = <<>> <=> S = {})
  BY SomeOrder
<1>2. S # {} => miCfg.prune
  OBVIOUS
<1>3. (miPc' = "release" /\ at' = Tail(at) /\ Len(at) > 1) \/ (miPc' = "prune" /\ at' = SetToSeq(S))
  BY DEF NextRelease
<1> HIDE DEF S
<1> QED BY <1>1, <1>2, <1>3, AtMoves DEF RelsTyped

(* The commits of the primary, none, and the foreign one.                   *)
LEMMA MirrorCommits ==
  /\ 0 \in MiCommit /\ 0 \in 0..MiCommits /\ 1 \in 0..MiCommits /\ Foreign \in MiCommit /\ 0..MiCommits \subseteq MiCommit
  /\ \A c \in MiCommit : c \in Nat /\ c <= Foreign
BY MirrorAssumption DEF MiCommit, Foreign

(* The record of a release at the mirror.                                   *)
LEMMA OneMirrorRelease ==
  /\ NoRel \in MirrorReleases /\ NoRel.fp = 0 /\ ~NoRel.here /\ ~NoRel.prose
  /\ \A d \in DesiredReleases :
       LET n == [NoRel EXCEPT !.here = TRUE, !.fp = fingerprint(d), !.body = d.body]
       IN  n \in MirrorReleases /\ n.here /\ n.fp = fingerprint(d) /\ n.body = d.body /\ ~n.prose
  /\ \A r \in MirrorReleases, a \in 0..2 :
       LET n == [r EXCEPT !.asset = a]
       IN  /\ n \in MirrorReleases /\ n.here = r.here /\ n.fp = r.fp /\ n.body = r.body
           /\ n.asset = a /\ n.prose = r.prose
  /\ \A r \in MirrorReleases :
       LET n == [r EXCEPT !.link = TRUE]
       IN  /\ n \in MirrorReleases /\ n.here = r.here /\ n.fp = r.fp /\ n.body = r.body
           /\ n.asset = r.asset /\ n.link /\ n.prose = r.prose
  /\ \A r \in MirrorReleases :
       LET n == [r EXCEPT !.prose = TRUE]
       IN  /\ n \in MirrorReleases /\ n.here = r.here /\ n.fp = r.fp /\ n.body = r.body
           /\ n.asset = r.asset /\ n.link = r.link
<1> USE DEF NoRel, MirrorReleases, DesiredReleases, fingerprint, replaceManaged
<1>1. NoRel \in MirrorReleases /\ NoRel.fp = 0 /\ ~NoRel.here /\ ~NoRel.prose
  OBVIOUS
<1>2. \A d \in DesiredReleases :
        LET n == [NoRel EXCEPT !.here = TRUE, !.fp = fingerprint(d), !.body = d.body]
        IN  n \in MirrorReleases /\ n.here /\ n.fp = fingerprint(d) /\ n.body = d.body /\ ~n.prose
  <2> HIDE DEF NoRel
  <2>1. \A r \in MirrorReleases, f \in Nat, b \in 0..2 :
          LET n == [r EXCEPT !.here = TRUE, !.fp = f, !.body = b]
          IN  n \in MirrorReleases /\ n.here /\ n.fp = f /\ n.body = b /\ n.prose = r.prose
    OBVIOUS
  <2>2. \A d \in DesiredReleases : fingerprint(d) \in Nat /\ d.body \in 0..2
    OBVIOUS
  <2> HIDE DEF MirrorReleases
  <2>3. \A f \in Nat, b \in 0..2 :
          LET n == [NoRel EXCEPT !.here = TRUE, !.fp = f, !.body = b]
          IN  n \in MirrorReleases /\ n.here /\ n.fp = f /\ n.body = b /\ n.prose = NoRel.prose
    BY <1>1, <2>1, Zenon
  <2> HIDE DEF DesiredReleases, fingerprint
  <2>4. ASSUME NEW d \in DesiredReleases
        PROVE  LET n == [NoRel EXCEPT !.here = TRUE, !.fp = fingerprint(d), !.body = d.body]
               IN  n \in MirrorReleases /\ n.here /\ n.fp = fingerprint(d) /\ n.body = d.body /\ n.prose = NoRel.prose
    BY <2>2, <2>3
  <2> QED BY <1>1, <2>4, Zenon
<1>3. \A r \in MirrorReleases, a \in 0..2 :
        LET n == [r EXCEPT !.asset = a]
        IN  /\ n \in MirrorReleases /\ n.here = r.here /\ n.fp = r.fp /\ n.body = r.body
            /\ n.asset = a /\ n.prose = r.prose
  <2> SUFFICES ASSUME NEW r \in MirrorReleases, NEW a \in 0..2
               PROVE  LET n == [r EXCEPT !.asset = a]
                      IN  /\ n \in MirrorReleases /\ n.here = r.here /\ n.fp = r.fp /\ n.body = r.body
                          /\ n.asset = a /\ n.prose = r.prose
    OBVIOUS
  <2> QED OBVIOUS
<1>4. \A r \in MirrorReleases :
        LET n == [r EXCEPT !.link = TRUE]
        IN  /\ n \in MirrorReleases /\ n.here = r.here /\ n.fp = r.fp /\ n.body = r.body
            /\ n.asset = r.asset /\ n.link /\ n.prose = r.prose
  OBVIOUS
<1>5. \A r \in MirrorReleases :
        LET n == [r EXCEPT !.prose = TRUE]
        IN  /\ n \in MirrorReleases /\ n.here = r.here /\ n.fp = r.fp /\ n.body = r.body
            /\ n.asset = r.asset /\ n.link = r.link
  OBVIOUS
<1> HIDE DEF NoRel, MirrorReleases, DesiredReleases, fingerprint, replaceManaged
<1> QED BY <1>1, <1>2, <1>3, <1>4, <1>5, Zenon

(* The release that updateOnMirror leaves.                                  *)
LEMMA ManagedRelease ==
  ASSUME NEW r \in MirrorReleases, NEW d \in DesiredReleases
  PROVE  /\ replaceManaged(r, d) \in MirrorReleases
         /\ replaceManaged(r, d).here = r.here /\ replaceManaged(r, d).fp = fingerprint(d)
         /\ replaceManaged(r, d).body = d.body /\ replaceManaged(r, d).prose = (r.prose /\ r.fp # 0)
<1> USE DEF MirrorReleases, DesiredReleases, fingerprint, replaceManaged
<1>1. \A f \in Nat, b \in 0..2, q \in BOOLEAN :
        LET n == [r EXCEPT !.fp = f, !.body = b, !.prose = q]
        IN  n \in MirrorReleases /\ n.here = r.here /\ n.fp = f /\ n.body = b /\ n.prose = q
  OBVIOUS
<1>2. fingerprint(d) \in Nat /\ d.body \in 0..2
  OBVIOUS
<1>3. (r.prose /\ r.fp # 0) \in BOOLEAN
  BY Zenon
<1> QED BY <1>1, <1>2, <1>3

(* The fingerprint tells all bodies and assets apart.                       *)
LEMMA FingerprintTells ==
  /\ \A d \in DesiredReleases : fingerprint(d) \in Nat \ {0}
  /\ \A d \in DesiredReleases, r \in MirrorReleases :
       fingerprint(r) = fingerprint(d) => r.body = d.body /\ r.asset = d.asset
  /\ \A d \in DesiredReleases, r \in MirrorReleases :
       r.body = d.body /\ r.asset = d.asset => fingerprint(r) = fingerprint(d)
BY DEF fingerprint, DesiredReleases, MirrorReleases

(* Writing one release of the mirror.                                       *)
LEMMA MirrorWrite ==
  ASSUME NEW f \in [RelTags -> MirrorReleases], NEW t \in RelTags, NEW n \in MirrorReleases
  PROVE  /\ [f EXCEPT ![t] = n] \in [RelTags -> MirrorReleases] /\ [f EXCEPT ![t] = n][t] = n
         /\ \A u \in RelTags \ {t} : [f EXCEPT ![t] = n][u] = f[u]
OBVIOUS

(* What the retention of the mirror's channel writes: releases go whole,    *)
(* one stays, and a tag goes only with its release.                         *)
LEMMA RetentionWrites ==
  ASSUME RefsTyped, RelsTyped, applyChannelRetention
  PROVE  /\ miPc = "retain" /\ miPc' = "idle" /\ at' = <<>> /\ half' \subseteq half
         /\ \/ UNCHANGED <<dstRel, dstRefs, half>>
            \/ \E newest \in RelTags, gone \in SUBSET RelTags :
                 /\ newest \notin gone /\ dstRel[newest].here /\ half' = half \ gone
                 /\ \A t \in gone : dstRel[t].here
                 /\ dstRel' = [t \in RelTags |-> IF t \in gone THEN NoRel ELSE dstRel[t]]
                 /\ \A r \in Refs : dstRefs'[r] = dstRefs[r] \/ (r \in gone /\ dstRefs'[r] = 0)
         /\ dstRel' \in [RelTags -> MirrorReleases] /\ dstRefs' \in [Refs -> MiCommit]
<1> DEFINE present == {t \in RelTags : dstRel[t].here}
<1>1. miPc = "retain" /\ miPc' = "idle" /\ at' = <<>>
  BY DEF applyChannelRetention, AfterPass
<1>2. CASE UNCHANGED <<dstRel, dstRefs, half>>
  BY <1>1, <1>2 DEF RefsTyped, RelsTyped
<1>3. CASE \E newest \in present : \E gone \in SUBSET (present \ {newest}) : \E untagged \in SUBSET gone :
             /\ dstRel' = [t \in RelTags |-> IF t \in gone THEN NoRel ELSE dstRel[t]]
             /\ dstRefs' = [r \in Refs |-> IF r \in untagged THEN 0 ELSE dstRefs[r]]
             /\ half' = half \ gone
  <2>1. PICK newest \in present, gone \in SUBSET RelTags, untagged \in SUBSET RelTags :
             /\ gone \subseteq present \ {newest} /\ untagged \subseteq gone
             /\ dstRel' = [t \in RelTags |-> IF t \in gone THEN NoRel ELSE dstRel[t]]
             /\ dstRefs' = [r \in Refs |-> IF r \in untagged THEN 0 ELSE dstRefs[r]]
             /\ half' = half \ gone
    BY <1>3
  <2>2. newest \in RelTags /\ gone \in SUBSET RelTags /\ newest \notin gone /\ dstRel[newest].here
        /\ \A t \in gone : dstRel[t].here
    BY <2>1
  <2>3. NoRel \in MirrorReleases
    BY OneMirrorRelease, Zenon
  <2>4. dstRel' \in [RelTags -> MirrorReleases]
    BY <2>1, <2>3 DEF RelsTyped
  <2>5. \A r \in Refs : dstRefs'[r] = dstRefs[r] \/ (r \in gone /\ dstRefs'[r] = 0)
    BY <2>1
  <2>6. dstRefs' \in [Refs -> MiCommit]
    BY <2>1, MirrorCommits DEF RefsTyped
  <2> HIDE DEF present
  <2> QED BY <1>1, <2>1, <2>2, <2>4, <2>5, <2>6
<1>4. \/ UNCHANGED <<dstRel, dstRefs, half>>
      \/ \E newest \in present : \E gone \in SUBSET (present \ {newest}) : \E untagged \in SUBSET gone :
             /\ dstRel' = [t \in RelTags |-> IF t \in gone THEN NoRel ELSE dstRel[t]]
             /\ dstRefs' = [r \in Refs |-> IF r \in untagged THEN 0 ELSE dstRefs[r]]
             /\ half' = half \ gone
  BY DEF applyChannelRetention
<1> QED BY <1>2, <1>3, <1>4

-----------------------------------------------------------------------------
(* The type invariant *)

(* Refs, configuration and counters keep their types.                       *)
LEMMA RefsStep ==
  ASSUME RefsTyped, RelsTyped, PassAt, [MirrorNext]_mirrorVars
  PROVE  RefsTyped'
<1> USE MirrorCommits DEF RefsTyped, MiEvent, MiOk
<1> USE MirrorAssumption
<1>1. CASE UNCHANGED mirrorVars
  BY <1>1 DEF mirrorVars, forges, passVars
<1>2. CASE Develop
  <2>1. srcRefs["main"] + 1 \in 0..MiCommits
    BY <1>2 DEF Develop, Refs, Heads
  <2>2. \A f \in [Refs -> 0..MiCommits], n \in 0..MiCommits :
          [f EXCEPT !["main"] = n, !["latest"] = n] \in [Refs -> 0..MiCommits]
    OBVIOUS
  <2>3. srcRefs' = [srcRefs EXCEPT !["main"] = srcRefs["main"] + 1, !["latest"] = srcRefs["main"] + 1]
    BY <1>2 DEF Develop
  <2>4. srcRefs' \in [Refs -> 0..MiCommits]
    BY <2>1, <2>2, <2>3, Zenon DEF RefsTyped
  <2> QED BY <1>2, <2>4 DEF Develop, passVars
<1>3. CASE CutRelease
  <2>1. srcRefs["main"] \in 0..MiCommits
    BY DEF Refs, Heads
  <2>2. srcRefs' \in [Refs -> 0..MiCommits]
    BY <1>3, <2>1 DEF CutRelease
  <2> QED BY <1>3, <2>2 DEF CutRelease, passVars
<1>4. ASSUME NEW t \in RelTags, EditRelease(t) \/ DropRelease(t) \/ AddProse(t) PROVE RefsTyped'
  BY <1>4 DEF EditRelease, DropRelease, AddProse, passVars
<1>5. ASSUME NEW r \in Heads, Contribute(r) PROVE RefsTyped'
  BY <1>5 DEF Contribute, passVars, Refs
<1>6. CASE StartPass
  BY <1>6 DEF StartPass, forges
<1>7. CASE CloneOrigin \/ listRemoteRefs
  BY <1>7 DEF CloneOrigin, listRemoteRefs, forges
<1>8. CASE PushRefs
  <2>1. dstRefs' \in [Refs -> MiCommit]
    BY <1>8 DEF PushRefs
  <2> QED BY <1>8, <2>1 DEF PushRefs
<1>9. CASE DesiredFromReleases \/ ListMirrorReleases \/ PassKilled
  BY <1>9 DEF DesiredFromReleases, ListMirrorReleases, PassKilled, forges
<1>10. CASE InSync \/ PreserveAdopted \/ updateOnMirror \/ reconcileAssets \/ reconcileLinks
  BY <1>10 DEF InSync, PreserveAdopted, updateOnMirror, reconcileAssets, reconcileLinks, forges
<1>11. CASE createOnMirror
  <2>1. Head(at) \in RelTags /\ Head(at) \in Refs
    BY <1>11, AtMoves DEF createOnMirror, PassAt, RelsTyped, Refs, Tags
  <2>2. Anchor(Head(at)) \in MiCommit
    BY <2>1 DEF Anchor, RelsTyped, DesiredReleases, Refs, Heads
  <2> QED BY <1>11, <2>1, <2>2 DEF createOnMirror
<1>12. CASE PruneReleases
  BY <1>12 DEF PruneReleases
<1>13. CASE applyChannelRetention
  <2>1. dstRefs' \in [Refs -> MiCommit]
    BY <1>13, RetentionWrites
  <2>2. miEvents' \in 0..MiEvents
    BY <1>13 DEF applyChannelRetention
  <2> QED BY <1>13, <2>1, <2>2 DEF applyChannelRetention
<1> QED BY <1>1, <1>2, <1>3, <1>4, <1>5, <1>6, <1>7, <1>8, <1>9, <1>10, <1>11, <1>12, <1>13 DEF MirrorNext, MirrorStep

(* A release of the primary stays one when people edit it.                  *)
LEMMA SourceEdits ==
  \A r \in SourceReleases :
    /\ [r EXCEPT !.here = TRUE] \in SourceReleases /\ [r EXCEPT !.here = FALSE] \in SourceReleases
    /\ [r EXCEPT !.body = 2] \in SourceReleases /\ [r EXCEPT !.asset = 2] \in SourceReleases
<1> USE DEF SourceReleases
<1>1. \A r \in SourceReleases, h \in BOOLEAN : [r EXCEPT !.here = h] \in SourceReleases
  OBVIOUS
<1>2. \A r \in SourceReleases, b \in 1..2 :
        [r EXCEPT !.body = b] \in SourceReleases /\ [r EXCEPT !.asset = b] \in SourceReleases
  OBVIOUS
<1>3. 2 \in 1..2 /\ TRUE \in BOOLEAN /\ FALSE \in BOOLEAN
  OBVIOUS
<1> HIDE DEF SourceReleases
<1> QED BY <1>1, <1>2, <1>3, Zenon

(* What a step does to the release it is at.                                *)
LEMMA ReleaseWrites ==
  ASSUME RefsTyped, RelsTyped, at # <<>>,
         NEW t, t = Head(at), NEW d, d = desired[t], NEW r, r = dstRel[t]
  PROVE  /\ t \in RelTags /\ d \in DesiredReleases /\ r \in MirrorReleases
         /\ [NoRel EXCEPT !.here = TRUE, !.fp = fingerprint(d), !.body = d.body] \in MirrorReleases
         /\ replaceManaged(r, d) \in MirrorReleases
         /\ [r EXCEPT !.asset = d.asset] \in MirrorReleases
         /\ [r EXCEPT !.asset = 0] \in MirrorReleases
         /\ [r EXCEPT !.link = TRUE] \in MirrorReleases
         /\ NoRel \in MirrorReleases
<1>1. t \in RelTags /\ d \in DesiredReleases /\ r \in MirrorReleases
  BY AtMoves DEF RelsTyped
<1>2. d.asset \in 0..2
  BY <1>1 DEF DesiredReleases
<1>3. /\ [NoRel EXCEPT !.here = TRUE, !.fp = fingerprint(d), !.body = d.body] \in MirrorReleases
      /\ NoRel \in MirrorReleases
  BY <1>1, OneMirrorRelease, Zenon
<1>4. replaceManaged(r, d) \in MirrorReleases /\ [r EXCEPT !.link = TRUE] \in MirrorReleases
  BY <1>1, OneMirrorRelease, ManagedRelease, Zenon
<1>5. \A a \in 0..2 : [r EXCEPT !.asset = a] \in MirrorReleases
  BY <1>1, OneMirrorRelease, Zenon
<1>6. 0 \in 0..2
  OBVIOUS
<1> QED BY <1>1, <1>2, <1>3, <1>4, <1>5, <1>6, Zenon

(* Releases, the pass and what it holds keep their types.                   *)
LEMMA RelsStep ==
  ASSUME RefsTyped, RelsTyped, PassAt, [MirrorNext]_mirrorVars
  PROVE  RelsTyped'
<1> DEFINE PassTyped == /\ desired \in [RelTags -> DesiredReleases]
                        /\ seenRel \in [RelTags -> MirrorReleases]
                        /\ miPc \in MirrorLabels /\ at \in Seq(RelTags)
           MirrorTyped == dstRel \in [RelTags -> MirrorReleases] /\ kept \subseteq RelTags /\ half \subseteq RelTags
<1>0. RelsTyped <=> srcRel \in [RelTags -> SourceReleases] /\ MirrorTyped /\ PassTyped
  BY DEF RelsTyped
<1>a. RelsTyped' <=> srcRel' \in [RelTags -> SourceReleases] /\ MirrorTyped' /\ PassTyped'
  BY DEF RelsTyped
<1>b. ASSUME UNCHANGED srcRel PROVE srcRel' \in [RelTags -> SourceReleases]
  BY <1>0, <1>b
<1>c. ASSUME UNCHANGED <<dstRel, kept, half>> PROVE MirrorTyped'
  BY <1>0, <1>c
<1>d. ASSUME UNCHANGED <<desired, seenRel, miPc, at>> PROVE PassTyped'
  BY <1>0, <1>d
<1>e. ASSUME UNCHANGED <<desired, seenRel>>, miPc' \in MirrorLabels, at' \in Seq(RelTags) PROVE PassTyped'
  BY <1>0, <1>e
<1>f. <<>> \in Seq(RelTags)
  OBVIOUS
<1>g. ASSUME at # <<>>, NextRelease PROVE miPc' \in MirrorLabels /\ at' \in Seq(RelTags)
  BY <1>g, ToNextRelease DEF MirrorLabels
<1>1. CASE UNCHANGED mirrorVars
  BY <1>1, <1>a, <1>b, <1>c, <1>d DEF mirrorVars, forges, passVars
<1>2. CASE Develop
  BY <1>2, <1>a, <1>b, <1>c, <1>d DEF Develop, passVars
<1>3. CASE CutRelease
  <2>1. srcRel["v2"] \in SourceReleases /\ srcRel' = [srcRel EXCEPT !["v2"] = [srcRel["v2"] EXCEPT !.here = TRUE]]
    BY <1>3, <1>0 DEF CutRelease, RelTags
  <2>2. srcRel' \in [RelTags -> SourceReleases]
    BY <1>0, <2>1, SourceEdits
  <2> QED BY <1>3, <2>2, <1>a, <1>c, <1>d DEF CutRelease, passVars
<1>4. ASSUME NEW t \in RelTags, EditRelease(t) \/ DropRelease(t) PROVE RelsTyped'
  <2>1. /\ srcRel[t] \in SourceReleases
        /\ \/ srcRel' = [srcRel EXCEPT ![t] = [srcRel[t] EXCEPT !.body = 2]]
           \/ srcRel' = [srcRel EXCEPT ![t] = [srcRel[t] EXCEPT !.asset = 2]]
           \/ srcRel' = [srcRel EXCEPT ![t] = [srcRel[t] EXCEPT !.here = FALSE]]
    BY <1>4, <1>0 DEF EditRelease, DropRelease
  <2>2. srcRel' \in [RelTags -> SourceReleases]
    BY <1>0, <2>1, SourceEdits
  <2> QED BY <1>4, <2>2, <1>a, <1>c, <1>d DEF EditRelease, DropRelease, passVars
<1>5. ASSUME NEW t \in RelTags, AddProse(t) PROVE RelsTyped'
  <2>1. dstRel' = [dstRel EXCEPT ![t] = [dstRel[t] EXCEPT !.prose = TRUE]] /\ dstRel[t] \in MirrorReleases
    BY <1>5, <1>0 DEF AddProse
  <2>2. [dstRel[t] EXCEPT !.prose = TRUE] \in MirrorReleases
    BY <2>1, OneMirrorRelease, Zenon
  <2>3. dstRel' \in [RelTags -> MirrorReleases]
    BY <1>0, <2>1, <2>2, MirrorWrite
  <2> QED BY <1>5, <2>3, <1>0, <1>a, <1>b, <1>d DEF AddProse, passVars
<1>6. ASSUME NEW r \in Heads, Contribute(r) PROVE RelsTyped'
  BY <1>6, <1>a, <1>b, <1>c, <1>d DEF Contribute, passVars
<1>7. CASE StartPass \/ CloneOrigin \/ listRemoteRefs \/ PushRefs \/ PassKilled
  <2>1. miPc' \in MirrorLabels /\ at' \in Seq(RelTags)
    BY <1>7, <1>0, <1>f DEF StartPass, CloneOrigin, listRemoteRefs, PushRefs, PassKilled, AfterPass, MirrorLabels
  <2> QED BY <1>7, <2>1, <1>a, <1>b, <1>c, <1>e DEF StartPass, CloneOrigin, listRemoteRefs, PushRefs, PassKilled, forges
<1>8. CASE DesiredFromReleases
  <2>1. UNCHANGED <<srcRel, dstRel, kept, half, seenRel>> /\ miPc' \in MirrorLabels /\ at' \in Seq(RelTags)
    BY <1>8, <1>0, <1>f DEF DesiredFromReleases, AfterPass, ThenRetain, MirrorLabels, forges
  <2>2. desired' \in [RelTags -> DesiredReleases]
    <3>1. CASE UNCHANGED desired
      BY <1>0, <3>1
    <3>2. ASSUME NEW resolved \in BOOLEAN,
                 desired' = [t \in RelTags |-> [here |-> srcRel[t].here, body |-> srcRel[t].body, asset |-> srcRel[t].asset,
                                                ref |-> IF resolved THEN srcRefs[t] ELSE 0]]
          PROVE  desired' \in [RelTags -> DesiredReleases]
      <4>1. ASSUME NEW t \in RelTags
            PROVE  /\ srcRel[t].here \in BOOLEAN /\ srcRel[t].body \in 1..2 /\ srcRel[t].asset \in 1..2
                   /\ (IF resolved THEN srcRefs[t] ELSE 0) \in MiCommit
        BY <1>0, MirrorCommits DEF SourceReleases, RefsTyped, Refs, Tags
      <4> QED BY <3>2, <4>1 DEF DesiredReleases
    <3> QED BY <1>8, <3>1, <3>2 DEF DesiredFromReleases
  <2> QED BY <1>0, <1>a, <1>b, <1>c, <2>1, <2>2
<1>9. CASE ListMirrorReleases
  <2>1. UNCHANGED <<srcRel, dstRel, kept, half, desired>> /\ miPc' \in MirrorLabels /\ seenRel' \in {seenRel, dstRel}
    BY <1>9, <1>0 DEF ListMirrorReleases, AfterPass, MirrorLabels, forges
  <2>2. SetToSeq({t \in RelTags : desired[t].here}) \in Seq(RelTags)
    BY SomeOrder
  <2>3. at' \in Seq(RelTags)
    BY <1>9, <1>f, <2>2 DEF ListMirrorReleases, AfterPass
  <2> QED BY <1>0, <1>a, <1>b, <1>c, <2>1, <2>3
<1>10. CASE InSync \/ PreserveAdopted \/ createOnMirror \/ updateOnMirror \/ reconcileAssets \/ reconcileLinks
  <2>1. at # <<>> /\ miPc \in {"release", "asset", "link"} /\ UNCHANGED <<srcRel, desired, seenRel>>
    BY <1>10 DEF InSync, PreserveAdopted, createOnMirror, updateOnMirror, reconcileAssets, reconcileLinks, PassAt, forges
  <2>2. NextRelease \/ (miPc' \in {"release", "asset", "link"} /\ at' = at)
    BY <1>10, <2>1 DEF InSync, PreserveAdopted, createOnMirror, updateOnMirror, reconcileAssets, reconcileLinks, ReleaseError
  <2>3. PassTyped'
    BY <2>1, <2>2, <1>e, <1>g, <1>0 DEF MirrorLabels
  <2>4. Head(at) \in RelTags
    BY <2>1, <1>0, AtMoves
  <2>5. kept' \subseteq RelTags /\ half' \subseteq RelTags
    BY <1>10, <1>0, <2>4 DEF InSync, PreserveAdopted, createOnMirror, updateOnMirror, reconcileAssets, reconcileLinks, forges
  <2>6. UNCHANGED dstRel \/ \E n \in MirrorReleases : dstRel' = [dstRel EXCEPT ![Head(at)] = n]
    <3> DEFINE t == Head(at)  d == desired[t]  r == dstRel[t]
    <3>1. \/ UNCHANGED dstRel
          \/ dstRel' = [dstRel EXCEPT ![t] = [NoRel EXCEPT !.here = TRUE, !.fp = fingerprint(d), !.body = d.body]]
          \/ dstRel' = [dstRel EXCEPT ![t] = replaceManaged(r, d)]
          \/ dstRel' = [dstRel EXCEPT ![t] = [r EXCEPT !.asset = d.asset]]
          \/ dstRel' = [dstRel EXCEPT ![t] = [r EXCEPT !.asset = 0]]
          \/ dstRel' = [dstRel EXCEPT ![t] = [r EXCEPT !.link = TRUE]]
      BY <1>10 DEF InSync, PreserveAdopted, createOnMirror, updateOnMirror, reconcileAssets, reconcileLinks, forges
    <3>2. /\ [NoRel EXCEPT !.here = TRUE, !.fp = fingerprint(d), !.body = d.body] \in MirrorReleases
          /\ replaceManaged(r, d) \in MirrorReleases
          /\ [r EXCEPT !.asset = d.asset] \in MirrorReleases
          /\ [r EXCEPT !.asset = 0] \in MirrorReleases
          /\ [r EXCEPT !.link = TRUE] \in MirrorReleases
      BY <2>1, ReleaseWrites
    <3> QED BY <3>1, <3>2, Zenon
  <2>7. dstRel' \in [RelTags -> MirrorReleases]
    BY <1>0, <2>4, <2>6, MirrorWrite
  <2> QED BY <1>a, <1>b, <2>1, <2>3, <2>5, <2>7
<1>11. CASE PruneReleases
  <2>1. UNCHANGED <<srcRel, desired, seenRel, kept>> /\ miPc' \in MirrorLabels
    BY <1>11, <1>0 DEF PruneReleases, ThenRetain, MirrorLabels
  <2>2. at' \in Seq(RelTags)
    BY <1>11, <1>0, <1>f, AtMoves DEF PruneReleases, ThenRetain
  <2>3. half' \subseteq RelTags
    BY <1>11, <1>0 DEF PruneReleases
  <2>4. dstRel' \in [RelTags -> MirrorReleases]
    <3>1. UNCHANGED dstRel \/ (Head(at) \in RelTags /\ dstRel' = [dstRel EXCEPT ![Head(at)] = NoRel])
      BY <1>11, <1>0, AtMoves DEF PruneReleases
    <3>2. NoRel \in MirrorReleases
      BY OneMirrorRelease, Zenon
    <3> QED BY <1>0, <3>1, <3>2, MirrorWrite
  <2> QED BY <1>0, <1>a, <1>b, <2>1, <2>2, <2>3, <2>4
<1>12. CASE applyChannelRetention
  <2>1. /\ UNCHANGED <<srcRel, desired, seenRel, kept>> /\ miPc' = "idle" /\ at' = <<>>
        /\ half' \subseteq half /\ dstRel' \in [RelTags -> MirrorReleases]
    BY <1>12, RetentionWrites DEF applyChannelRetention
  <2> QED BY <2>1, <1>0, <1>a, <1>b, <1>e, <1>f DEF MirrorLabels
<1> QED BY <1>1, <1>2, <1>3, <1>4, <1>5, <1>6, <1>7, <1>8, <1>9, <1>10, <1>11, <1>12 DEF MirrorNext, MirrorStep

-----------------------------------------------------------------------------
(* The pass and what it has written *)

(* What is left to do at each label.                                        *)
LEMMA PassStep ==
  ASSUME RefsTyped, RelsTyped, PassAt, [MirrorNext]_mirrorVars
  PROVE  PassAt'
<1>1. CASE UNCHANGED <<miCfg, miPc, at, desired>>
  BY <1>1 DEF PassAt
<1>2. CASE UNCHANGED mirrorVars \/ Develop \/ CutRelease
           \/ (\E t \in RelTags : EditRelease(t) \/ DropRelease(t) \/ AddProse(t)) \/ (\E r \in Heads : Contribute(r))
  <2>1. UNCHANGED <<miCfg, miPc, at, desired>>
    BY <1>2 DEF mirrorVars, forges, passVars, Develop, CutRelease, EditRelease, DropRelease, AddProse, Contribute
  <2> QED BY <1>1, <2>1
<1>3. CASE StartPass \/ CloneOrigin \/ listRemoteRefs \/ PushRefs \/ PassKilled
  <2>1. miPc' \in {"idle", "clone", "list", "push", "source"}
    BY <1>3 DEF StartPass, CloneOrigin, listRemoteRefs, PushRefs, PassKilled, AfterPass
  <2> QED BY <2>1 DEF PassAt
<1>4. CASE DesiredFromReleases
  <2>1. CASE miPc' = "idle" \/ (miPc' = "retain" /\ miCfg'.retain)
    BY <2>1 DEF PassAt
  <2>2. CASE miPc' = "current"
    <3>1. \E t \in RelTags : srcRel[t].here
      BY <1>4, <2>2 DEF DesiredFromReleases, AfterPass, ThenRetain
    <3>2. \A t \in RelTags : desired'[t].here = srcRel[t].here
      BY <1>4, <2>2 DEF DesiredFromReleases, AfterPass, ThenRetain
    <3> QED BY <2>2, <3>1, <3>2 DEF PassAt
  <2> QED BY <1>4, <2>1, <2>2 DEF DesiredFromReleases, AfterPass, ThenRetain
<1>5. CASE ListMirrorReleases
  <2> DEFINE S == {t \in RelTags : desired[t].here}
  <2>1. SetToSeq(S) \in Seq(RelTags) /\ (SetToSeq(S) = <<>> <=> S = {})
    BY SomeOrder
  <2>2. S # {}
    BY <1>5 DEF ListMirrorReleases, PassAt
  <2>3. miPc' = "idle" \/ (miPc' = "release" /\ at' = SetToSeq(S))
    BY <1>5 DEF ListMirrorReleases, AfterPass
  <2> HIDE DEF S
  <2> QED BY <2>1, <2>2, <2>3 DEF PassAt
<1>6. CASE InSync \/ PreserveAdopted \/ createOnMirror \/ updateOnMirror \/ reconcileAssets \/ reconcileLinks
  <2>1. at # <<>> /\ UNCHANGED <<desired, miCfg>>
    BY <1>6 DEF InSync, PreserveAdopted, createOnMirror, updateOnMirror, reconcileAssets, reconcileLinks, PassAt, forges
  <2>2. NextRelease \/ (miPc' \in {"release", "asset", "link"} /\ at' = at)
    BY <1>6, <2>1 DEF InSync, PreserveAdopted, createOnMirror, updateOnMirror, reconcileAssets, reconcileLinks, ReleaseError
  <2> QED BY <2>1, <2>2, ToNextRelease DEF PassAt
<1>7. CASE PruneReleases
  <2>1. \/ miPc' = "idle" \/ (miPc' = "retain" /\ miCfg'.retain)
        \/ miPc = "prune" /\ miPc' = miPc /\ at # <<>> /\ UNCHANGED miCfg
    BY <1>7 DEF PruneReleases, ThenRetain
  <2> QED BY <2>1 DEF PassAt
<1>8. CASE applyChannelRetention
  <2>1. miPc' = "idle"
    BY <1>8 DEF applyChannelRetention, AfterPass
  <2> QED BY <2>1 DEF PassAt
<1> QED BY <1>2, <1>3, <1>4, <1>5, <1>6, <1>7, <1>8 DEF MirrorNext, MirrorStep

MirrorRelInv == MarkersTrue /\ AsListedOrDone /\ AtWork

(* A step that writes no release: what was written stays true.              *)
LEMMA QuietStep ==
  ASSUME MirrorRelInv, UNCHANGED <<dstRel, half>>,
         \/ miPc' \notin Converging
         \/ /\ UNCHANGED <<seenRel, desired>> /\ miPc \in Converging /\ (miPc = "prune" => miPc' = "prune")
            /\ miPc' \in {"asset", "link"} => UNCHANGED <<miPc, at>>
  PROVE  MirrorRelInv'
<1>1. MarkersTrue'
  BY DEF MirrorRelInv, MarkersTrue
<1>2. AsListedOrDone'
  BY DEF MirrorRelInv, AsListedOrDone, Converging
<1>3. AtWork'
  BY DEF MirrorRelInv, AtWork, Converging
<1> QED BY <1>1, <1>2, <1>3 DEF MirrorRelInv

(* What the pass knows of the release it is at.                             *)
LEMMA AtRelease ==
  ASSUME RefsTyped, RelsTyped, PassAt, MirrorRelInv, miPc \in {"release", "asset", "link"}
  PROVE  /\ at # <<>> /\ Head(at) \in RelTags
         /\ desired[Head(at)] \in DesiredReleases /\ dstRel[Head(at)] \in MirrorReleases
         /\ fingerprint(desired[Head(at)]) \in Nat \ {0}
<1>1. at # <<>> /\ Head(at) \in RelTags
  BY AtMoves DEF PassAt, RelsTyped
<1> QED BY <1>1, FingerprintTells DEF RelsTyped

(* A step of the pass that writes the release it is at.                     *)
LEMMA WriteStep ==
  ASSUME RefsTyped, RelsTyped, PassAt, MirrorRelInv, miPc \in {"release", "asset", "link"},
         UNCHANGED <<seenRel, desired>>,
         NEW n \in MirrorReleases, dstRel' = [dstRel EXCEPT ![Head(at)] = n],
         n.here, n.fp = fingerprint(desired[Head(at)]),
         ~seenRel[Head(at)].here => ~n.prose,
         \/ half' = half \cup {Head(at)}
         \/ half' = half \ {Head(at)} /\ n.link /\ n.body = desired[Head(at)].body /\ n.asset = desired[Head(at)].asset,
         \/ miPc' \in {"release", "prune"}
         \/ /\ miPc' \in {"asset", "link"} /\ at' = at /\ Head(at) \in half' /\ n.body = desired[Head(at)].body
            /\ miPc' = "link" => n.asset = desired[Head(at)].asset
  PROVE  MirrorRelInv'
<1> DEFINE t == Head(at)
<1>0. t \in RelTags /\ desired[t] \in DesiredReleases /\ fingerprint(desired[t]) \in Nat \ {0}
  BY AtRelease
<1>1. dstRel'[t] = n /\ \A u \in RelTags \ {t} : dstRel'[u] = dstRel[u]
  BY <1>0, MirrorWrite DEF RelsTyped
<1>2. MarkersTrue'
  <2>1. n.body = desired[t].body /\ n.asset = desired[t].asset => n.fp = fingerprint(n)
    BY <1>0, FingerprintTells
  <2>2. \A u \in RelTags \ {t} : u \in half' <=> u \in half
    OBVIOUS
  <2>3. t \in half' \/ (n.fp = fingerprint(n) /\ n.link)
    <3>1. CASE half' = half \cup {t}
      BY <3>1
    <3>2. CASE n.link /\ n.body = desired[t].body /\ n.asset = desired[t].asset
      BY <2>1, <3>2, Zenon
    <3> QED BY <3>1, <3>2, Zenon
  <2> HIDE DEF t
  <2>4. ASSUME NEW u \in RelTags
        PROVE  /\ ~dstRel'[u].here => dstRel'[u] = NoRel
               /\ dstRel'[u].fp # 0 /\ u \notin half' => dstRel'[u].fp = fingerprint(dstRel'[u]) /\ dstRel'[u].link
    <3>1. CASE u = t
      BY <1>1, <2>3, <3>1 DEF t
    <3>2. CASE u # t
      <4>1. dstRel'[u] = dstRel[u] /\ (u \in half' <=> u \in half)
        BY <1>1, <2>2, <3>2
      <4> QED BY <4>1 DEF MirrorRelInv, MarkersTrue
    <3> QED BY <3>1, <3>2
  <2> QED BY <2>4 DEF MarkersTrue
<1>3. AsListedOrDone'
  <2>1. miPc \in Converging /\ miPc # "prune"
    BY DEF Converging
  <2> HIDE DEF t
  <2>2. ASSUME NEW u \in RelTags
        PROVE  /\ ~seenRel[u].here => seenRel[u] = NoRel /\ ~dstRel'[u].prose
               /\ seenRel[u].here /\ dstRel'[u].here => dstRel'[u].fp \in {seenRel[u].fp, fingerprint(desired[u])}
               /\ seenRel[u].here => dstRel'[u].here
    BY <1>1, <2>1 DEF MirrorRelInv, AsListedOrDone, t
  <2> QED BY <2>2 DEF AsListedOrDone
<1>4. AtWork'
  BY <1>0, <1>1 DEF AtWork
<1> QED BY <1>2, <1>3, <1>4 DEF MirrorRelInv

(* Markers, what was listed and what is in work, in every step.             *)
LEMMA ReleasesStep ==
  ASSUME RefsTyped, RelsTyped, PassAt, MirrorRelInv, [MirrorNext]_mirrorVars
  PROVE  MirrorRelInv'
<1>1. CASE UNCHANGED mirrorVars \/ Develop \/ CutRelease \/ (\E t \in RelTags : EditRelease(t) \/ DropRelease(t))
           \/ (\E r \in Heads : Contribute(r))
  <2>1. UNCHANGED <<dstRel, half, seenRel, desired, miPc, at>>
    BY <1>1 DEF mirrorVars, forges, passVars, Develop, CutRelease, EditRelease, DropRelease, Contribute
  <2> QED BY <2>1, QuietStep
<1>2. ASSUME NEW t \in RelTags, AddProse(t) PROVE MirrorRelInv'
  <2> DEFINE n == [dstRel[t] EXCEPT !.prose = TRUE]
  <2>1. dstRel' = [dstRel EXCEPT ![t] = n] /\ dstRel[t] \in MirrorReleases /\ dstRel[t].here
        /\ miPc' = "idle" /\ UNCHANGED half
    BY <1>2 DEF AddProse, RelsTyped, passVars
  <2>2. n \in MirrorReleases /\ n.here = dstRel[t].here /\ n.fp = dstRel[t].fp /\ n.body = dstRel[t].body
        /\ n.asset = dstRel[t].asset /\ n.link = dstRel[t].link
    BY <2>1, OneMirrorRelease, Zenon
  <2> HIDE DEF n
  <2>3. dstRel'[t] = n /\ \A u \in RelTags \ {t} : dstRel'[u] = dstRel[u]
    BY <2>1, <2>2, MirrorWrite DEF RelsTyped
  <2>4. fingerprint(n) = fingerprint(dstRel[t])
    BY <2>2 DEF fingerprint
  <2>5. MarkersTrue'
    BY <2>1, <2>2, <2>3, <2>4 DEF MirrorRelInv, MarkersTrue
  <2>6. AsListedOrDone' /\ AtWork'
    BY <2>1 DEF AsListedOrDone, AtWork, Converging
  <2> QED BY <2>5, <2>6 DEF MirrorRelInv
<1>3. CASE StartPass \/ CloneOrigin \/ listRemoteRefs \/ PushRefs \/ DesiredFromReleases \/ PassKilled
  <2>1. UNCHANGED <<dstRel, half>> /\ miPc' \notin Converging
    BY <1>3 DEF StartPass, CloneOrigin, listRemoteRefs, PushRefs, DesiredFromReleases, PassKilled, AfterPass, ThenRetain, forges, Converging
  <2> QED BY <2>1, QuietStep
<1>4. CASE ListMirrorReleases
  <2>1. CASE miPc' = "idle"
    BY <1>4, <2>1, QuietStep DEF ListMirrorReleases, forges, Converging
  <2>2. CASE seenRel' = dstRel /\ miPc' = "release"
    <3>1. UNCHANGED <<dstRel, half, desired>>
      BY <1>4 DEF ListMirrorReleases, forges
    <3>2. MarkersTrue' /\ AtWork'
      BY <2>2, <3>1 DEF MirrorRelInv, MarkersTrue, AtWork
    <3>3. ~NoRel.prose
      BY OneMirrorRelease, Zenon
    <3>4. AsListedOrDone'
      BY <2>2, <3>1, <3>3 DEF MirrorRelInv, MarkersTrue, AsListedOrDone
    <3> QED BY <3>2, <3>4 DEF MirrorRelInv
  <2> QED BY <1>4, <2>1, <2>2 DEF ListMirrorReleases, AfterPass
<1>5. ASSUME miPc \in {"release", "asset", "link"}, UNCHANGED <<dstRel, half, seenRel, desired>>,
             NextRelease \/ UNCHANGED <<miPc, at>>
      PROVE  MirrorRelInv'
  <2>1. at # <<>>
    BY <1>5 DEF PassAt
  <2>2. miPc' \in {"release", "prune"} \/ UNCHANGED <<miPc, at>>
    BY <1>5, <2>1, ToNextRelease
  <2>3. miPc \in Converging /\ miPc # "prune"
    BY <1>5 DEF Converging
  <2> QED BY <1>5, <2>2, <2>3, QuietStep
<1>6. CASE InSync \/ PreserveAdopted
  BY <1>5, <1>6 DEF InSync, PreserveAdopted, ReleaseError, forges
<1> DEFINE t == Head(at)  d == desired[t]  r == dstRel[t]
<1>7. CASE createOnMirror
  <2> DEFINE n == [NoRel EXCEPT !.here = TRUE, !.fp = fingerprint(d), !.body = d.body]
  <2>1. miPc = "release" /\ UNCHANGED <<seenRel, desired>>
    BY <1>7 DEF createOnMirror
  <2>2. CASE UNCHANGED <<dstRel, half>> /\ NextRelease
    BY <1>5, <2>1, <2>2
  <2>3. CASE dstRel' = [dstRel EXCEPT ![t] = n] /\ half' = half \cup {t} /\ miPc' = "asset" /\ at' = at
    <3>1. d \in DesiredReleases
      BY <2>1, AtRelease
    <3>2. n \in MirrorReleases /\ n.here /\ n.fp = fingerprint(d) /\ n.body = d.body /\ ~n.prose
      BY <3>1, OneMirrorRelease, Zenon
    <3> HIDE DEF n
    <3> QED BY <2>1, <2>3, <3>2, WriteStep
  <2> QED BY <1>7, <2>2, <2>3 DEF createOnMirror, ReleaseError
<1>8. CASE updateOnMirror
  <2> DEFINE n == replaceManaged(r, d)
  <2>1. miPc = "release" /\ UNCHANGED <<seenRel, desired>> /\ seenRel[t].here
    BY <1>8 DEF updateOnMirror
  <2>2. CASE UNCHANGED <<dstRel, half>> /\ NextRelease
    BY <1>5, <2>1, <2>2
  <2>3. CASE dstRel' = [dstRel EXCEPT ![t] = n] /\ half' = half \cup {t} /\ miPc' = "asset" /\ at' = at
    <3>1. d \in DesiredReleases /\ r \in MirrorReleases /\ t \in RelTags
      BY <2>1, AtRelease
    <3>2. n \in MirrorReleases /\ n.here = r.here /\ n.fp = fingerprint(d) /\ n.body = d.body
      BY <3>1, ManagedRelease
    <3>3. r.here
      BY <2>1, <3>1 DEF MirrorRelInv, AsListedOrDone, Converging
    <3> HIDE DEF n
    <3> QED BY <2>1, <2>3, <3>2, <3>3, WriteStep
  <2> QED BY <1>8, <2>2, <2>3 DEF updateOnMirror, ReleaseError
\* At the assets and the links, the release is marked and owed.
<1>9. ASSUME miPc \in {"asset", "link"}
      PROVE  /\ t \in RelTags /\ d \in DesiredReleases /\ r \in MirrorReleases
             /\ t \in half /\ r.here /\ r.fp = fingerprint(d) /\ r.body = d.body
             /\ ~seenRel[t].here => ~r.prose
             /\ miPc = "link" => r.asset = d.asset
  <2>1. miPc \in Converging /\ miPc \in {"release", "asset", "link"}
    BY <1>9 DEF Converging
  <2>2. t \in RelTags /\ d \in DesiredReleases /\ r \in MirrorReleases
    BY <2>1, AtRelease
  <2> QED BY <1>9, <2>1, <2>2 DEF MirrorRelInv, AsListedOrDone, AtWork
<1>10. CASE reconcileAssets
  <2>1. miPc = "asset" /\ UNCHANGED <<seenRel, desired, half>>
    BY <1>10 DEF reconcileAssets
  <2>2. half' = half \cup {t}
    BY <2>1, <1>9
  <2>3. d.asset \in 0..2 /\ 0 \in 0..2
    BY <2>1, <1>9 DEF DesiredReleases
  <2>4. \A a \in 0..2 :
          LET n == [r EXCEPT !.asset = a]
          IN  /\ n \in MirrorReleases /\ n.here = r.here /\ n.fp = r.fp /\ n.body = r.body
              /\ n.asset = a /\ n.prose = r.prose
    BY <2>1, <1>9, OneMirrorRelease, Zenon
  <2>5. CASE UNCHANGED dstRel /\ NextRelease
    BY <1>5, <2>1, <2>5
  <2>6. CASE dstRel' = [dstRel EXCEPT ![t] = [r EXCEPT !.asset = d.asset]] /\ miPc' = "link" /\ at' = at
    <3> DEFINE n == [r EXCEPT !.asset = d.asset]
    <3>1. /\ n \in MirrorReleases /\ n.here = r.here /\ n.fp = r.fp /\ n.body = r.body
          /\ n.asset = d.asset /\ n.prose = r.prose
      BY <2>3, <2>4, Zenon
    <3> HIDE DEF n
    <3> QED BY <2>1, <2>2, <2>6, <1>9, <3>1, WriteStep DEF n
  <2>7. CASE dstRel' = [dstRel EXCEPT ![t] = [r EXCEPT !.asset = 0]] /\ NextRelease
    <3> DEFINE n == [r EXCEPT !.asset = 0]
    <3>1. /\ n \in MirrorReleases /\ n.here = r.here /\ n.fp = r.fp /\ n.body = r.body /\ n.prose = r.prose
      BY <2>3, <2>4, Zenon
    <3>2. miPc' \in {"release", "prune"}
      BY <2>1, <2>7, ToNextRelease, AtRelease
    <3> HIDE DEF n
    <3> QED BY <2>1, <2>2, <2>7, <1>9, <3>1, <3>2, WriteStep DEF n
  <2> QED BY <1>10, <2>5, <2>6, <2>7 DEF reconcileAssets, ReleaseError
<1>11. CASE reconcileLinks
  <2>1. miPc = "link" /\ UNCHANGED <<seenRel, desired>>
    BY <1>11 DEF reconcileLinks
  <2>2. CASE UNCHANGED <<dstRel, half>> /\ NextRelease
    BY <1>5, <2>1, <2>2
  <2>3. CASE dstRel' = [dstRel EXCEPT ![t] = [r EXCEPT !.link = TRUE]] /\ half' = half \ {t} /\ NextRelease
    <3> DEFINE n == [r EXCEPT !.link = TRUE]
    <3>1. /\ n \in MirrorReleases /\ n.here = r.here /\ n.fp = r.fp /\ n.body = r.body
          /\ n.asset = r.asset /\ n.link /\ n.prose = r.prose
      BY <2>1, <1>9, OneMirrorRelease, Zenon
    <3>2. miPc' \in {"release", "prune"}
      BY <2>1, <2>3, ToNextRelease, AtRelease
    <3> HIDE DEF n
    <3> QED BY <2>1, <2>3, <1>9, <3>1, <3>2, WriteStep DEF n
  <2> QED BY <1>11, <2>2, <2>3 DEF reconcileLinks, ReleaseError
<1>12. CASE PruneReleases
  <2>1. miPc = "prune" /\ UNCHANGED <<seenRel, desired>> /\ miPc' \in {"idle", "retain", "prune"}
    BY <1>12 DEF PruneReleases, ThenRetain
  <2>2. CASE UNCHANGED <<dstRel, half>>
    BY <2>1, <2>2, QuietStep DEF Converging
  <2>3. CASE at # <<>> /\ dstRel' = [dstRel EXCEPT ![t] = NoRel] /\ half' = half \ {t}
    <3>1. t \in RelTags
      BY <2>3, AtMoves DEF RelsTyped
    <3>2. NoRel \in MirrorReleases /\ NoRel.fp = 0 /\ ~NoRel.here /\ ~NoRel.prose
      BY OneMirrorRelease, Zenon
    <3>3. dstRel'[t] = NoRel /\ \A u \in RelTags \ {t} : dstRel'[u] = dstRel[u]
      BY <2>3, <3>1, <3>2, MirrorWrite DEF RelsTyped
    <3> HIDE DEF t
    <3>4. MarkersTrue'
      BY <2>3, <3>2, <3>3 DEF MirrorRelInv, MarkersTrue
    <3>5. AsListedOrDone'
      BY <2>1, <3>2, <3>3 DEF MirrorRelInv, AsListedOrDone, Converging
    <3>6. AtWork'
      BY <2>1 DEF AtWork
    <3> QED BY <3>4, <3>5, <3>6 DEF MirrorRelInv
  <2> QED BY <1>12, <2>2, <2>3 DEF PruneReleases
<1>13. CASE applyChannelRetention
  <2>1. miPc' = "idle"
    BY <1>13, RetentionWrites
  <2>2. CASE UNCHANGED <<dstRel, half>>
    BY <2>1, <2>2, QuietStep DEF Converging
  <2>3. ASSUME NEW gone \in SUBSET RelTags, half' = half \ gone,
               dstRel' = [u \in RelTags |-> IF u \in gone THEN NoRel ELSE dstRel[u]]
        PROVE  MirrorRelInv'
    <3>1. NoRel.fp = 0 /\ ~NoRel.here
      BY OneMirrorRelease, Zenon
    <3>2. ASSUME NEW u \in RelTags
          PROVE  /\ ~dstRel'[u].here => dstRel'[u] = NoRel
                 /\ dstRel'[u].fp # 0 /\ u \notin half' => dstRel'[u].fp = fingerprint(dstRel'[u]) /\ dstRel'[u].link
      <4>1. CASE u \in gone
        BY <2>3, <3>1, <4>1
      <4>2. CASE u \notin gone
        <5>1. dstRel'[u] = dstRel[u] /\ (u \in half' <=> u \in half)
          BY <2>3, <4>2
        <5> QED BY <5>1 DEF MirrorRelInv, MarkersTrue
      <4> QED BY <4>1, <4>2
    <3>3. MarkersTrue'
      BY <3>2 DEF MarkersTrue
    <3>4. AsListedOrDone' /\ AtWork'
      BY <2>1 DEF AsListedOrDone, AtWork, Converging
    <3> QED BY <3>3, <3>4 DEF MirrorRelInv
  <2> QED BY <1>13, RetentionWrites, <2>2, <2>3
<1> QED BY <1>1, <1>2, <1>3, <1>4, <1>6, <1>7, <1>8, <1>10, <1>11, <1>12, <1>13 DEF MirrorNext, MirrorStep

-----------------------------------------------------------------------------
(* The inductive invariant *)

(* Until the push, what differs from the listing was moved by others.       *)
LEMMA ListedStep ==
  ASSUME RefsTyped, ListedOrMoved, [MirrorNext]_mirrorVars
  PROVE  ListedOrMoved'
<1>1. CASE UNCHANGED <<miPc, dstRefs, seenRefs, moved>>
  BY <1>1 DEF ListedOrMoved
<1>2. CASE UNCHANGED mirrorVars \/ Develop \/ CutRelease \/ (\E t \in RelTags : EditRelease(t) \/ DropRelease(t) \/ AddProse(t))
  BY <1>1, <1>2 DEF mirrorVars, forges, passVars, Develop, CutRelease, EditRelease, DropRelease, AddProse
<1>3. ASSUME NEW r \in Heads, Contribute(r) PROVE ListedOrMoved'
  BY <1>3 DEF Contribute, passVars, ListedOrMoved, RefsTyped
<1>4. CASE listRemoteRefs
  BY <1>4 DEF listRemoteRefs, ListedOrMoved, forges
<1>5. CASE \/ StartPass \/ CloneOrigin \/ PushRefs \/ DesiredFromReleases \/ ListMirrorReleases \/ PassKilled
           \/ PruneReleases \/ applyChannelRetention
  <2>1. miPc' # "push"
    BY <1>5 DEF StartPass, CloneOrigin, PushRefs, DesiredFromReleases, ListMirrorReleases, PassKilled, PruneReleases,
       applyChannelRetention, AfterPass, ThenRetain
  <2> QED BY <2>1 DEF ListedOrMoved
<1>6. CASE InSync \/ PreserveAdopted \/ createOnMirror \/ updateOnMirror \/ reconcileAssets \/ reconcileLinks
  <2>1. miPc' # "push"
    BY <1>6 DEF InSync, PreserveAdopted, createOnMirror, updateOnMirror, reconcileAssets, reconcileLinks,
       ReleaseError, NextRelease
  <2> QED BY <2>1 DEF ListedOrMoved
<1> QED BY <1>2, <1>3, <1>4, <1>5, <1>6 DEF MirrorNext, MirrorStep

(* The mirror before the first pass.                                        *)
LEMMA MirrorInitInv == MirrorInit => MirrorIInv
<1> SUFFICES ASSUME MirrorInit PROVE MirrorIInv
  OBVIOUS
<1> USE DEF MirrorInit
<1>1. RefsTyped
  <2>1. \A r \in Refs : (IF r \in {"main", "v1", "latest"} THEN 1 ELSE 0) \in 0..MiCommits
    BY MirrorCommits
  <2>2. \A r \in Refs : (IF r = "gh-pages" THEN Foreign ELSE 0) \in MiCommit
    BY MirrorCommits
  <2>3. srcRefs \in [Refs -> 0..MiCommits]
    BY <2>1
  <2>4. dstRefs \in [Refs -> MiCommit] /\ seenRefs \in [Refs -> MiCommit]
    BY <2>2
  <2>5. clone \in [Refs -> MiCommit]
    BY <2>3, MirrorCommits
  <2>6. 0 \in 0..MiPasses /\ 0 \in 0..MiEvents
    BY MirrorAssumption
  <2> QED BY <2>3, <2>4, <2>5, <2>6 DEF RefsTyped
<1> DEFINE old == [NoRel EXCEPT !.here = TRUE, !.prose = TRUE]
<1>2. NoRel \in MirrorReleases /\ NoRel.fp = 0 /\ ~NoRel.here /\ ~NoRel.prose
  BY OneMirrorRelease, Zenon
<1>3. old \in MirrorReleases /\ old.here /\ old.fp = 0
  <2>1. \A r \in MirrorReleases, h, q \in BOOLEAN :
          LET n == [r EXCEPT !.here = h, !.prose = q]
          IN  n \in MirrorReleases /\ n.here = h /\ n.fp = r.fp
    BY DEF MirrorReleases
  <2>2. TRUE \in BOOLEAN
    OBVIOUS
  <2>3. old \in MirrorReleases /\ old.here = TRUE /\ old.fp = NoRel.fp
    BY <1>2, <2>1, <2>2, Zenon
  <2> QED BY <1>2, <2>3
<1> HIDE DEF old
<1>4. \A t \in RelTags : dstRel[t] \in {NoRel, old}
  BY DEF old
<1>5. dstRel \in [RelTags -> MirrorReleases] /\ seenRel \in [RelTags -> MirrorReleases]
  <2>1. (\E f \in [RelTags -> {NoRel, old}] : dstRel = f)
    BY DEF old
  <2> QED BY <1>2, <1>3, <2>1
<1>6. RelsTyped
  <2>1. srcRel \in [RelTags -> SourceReleases]
    BY DEF SourceReleases
  <2>2. desired \in [RelTags -> DesiredReleases]
    BY MirrorCommits DEF DesiredReleases
  <2> QED BY <1>5, <2>1, <2>2 DEF RelsTyped, MirrorLabels
<1>7. MarkersTrue
  BY <1>2, <1>3, <1>4 DEF MarkersTrue
<1>8. PassAt /\ AsListedOrDone /\ AtWork /\ ListedOrMoved
  BY DEF PassAt, AsListedOrDone, AtWork, ListedOrMoved, Converging
<1> QED BY <1>1, <1>6, <1>7, <1>8 DEF MirrorIInv

(* The invariant is inductive.                                              *)
LEMMA MirrorStepInv == MirrorIInv /\ [MirrorNext]_mirrorVars => MirrorIInv'
BY RefsStep, RelsStep, PassStep, ReleasesStep, ListedStep DEF MirrorIInv, MirrorRelInv

(* Nothing is skipped that is not converged or owed an upload or a link.    *)
LEMMA MirrorIInvKeeps == MirrorIInv => MirrorTypeOK /\ FastPathHonest
<1> SUFFICES ASSUME MirrorIInv PROVE MirrorTypeOK /\ FastPathHonest
  OBVIOUS
<1>1. MirrorTypeOK
  <2>1. {srcRefs, dstRefs, clone, seenRefs} \subseteq [Refs -> MiCommit]
    BY MirrorCommits DEF MirrorIInv, RefsTyped
  <2>2. \A t \in RelTags : dstRel[t].body \in 0..2 /\ dstRel[t].asset \in 0..2
    BY DEF MirrorIInv, RelsTyped, MirrorReleases
  <2>3. Range(at) \subseteq RelTags
    BY DEF MirrorIInv, RelsTyped, Range
  <2> QED BY <2>1, <2>2, <2>3 DEF MirrorTypeOK, MirrorIInv, RefsTyped, RelsTyped
<1>2. ASSUME NEW t \in RelTags, miPc = "release", seenRel[t].here, seenRel[t].fp = fingerprint(desired[t]), t \notin half
      PROVE  dstRel[t].body = desired[t].body /\ dstRel[t].asset = desired[t].asset /\ dstRel[t].link
  <2>1. desired[t] \in DesiredReleases /\ dstRel[t] \in MirrorReleases
    BY DEF MirrorIInv, RelsTyped
  <2>2. dstRel[t].fp = fingerprint(desired[t])
    BY <1>2 DEF MirrorIInv, AsListedOrDone, Converging
  <2>3. fingerprint(dstRel[t]) = fingerprint(desired[t]) /\ dstRel[t].link
    BY <1>2, <2>1, <2>2, FingerprintTells DEF MirrorIInv, MarkersTrue
  <2> QED BY <2>1, <2>3, FingerprintTells
<1> QED BY <1>1, <1>2 DEF FastPathHonest

-----------------------------------------------------------------------------
(* What no step does *)

\* The action properties of MirrorKeeps, step by step.
DivergentStays ==
  \A r \in Refs :
    miPc = "push" /\ dstRefs[r] # 0 /\ dstRefs'[r] \notin {0, dstRefs[r]} =>
      miCfg.force \/ r = "latest" \/ r \in moved \/ dstRefs[r] <= dstRefs'[r]
ForeignRefStays ==
  \A r \in Refs : dstRefs[r] # 0 /\ dstRefs'[r] = 0 =>
    \/ ScopedRef(r)
    \/ r \in RelTags /\ RetainedStep(r) /\ dstRel[r].here /\ ~dstRel'[r].here
ForeignReleaseStays ==
  \A t \in RelTags : dstRel[t].here /\ ~dstRel'[t].here => (dstRel[t].fp # 0 /\ miCfg.prune) \/ RetainedStep(t)
ProseStays ==
  \A t \in RelTags : dstRel[t].prose /\ ~dstRel'[t].prose => t \in kept \/ ~dstRel'[t].here
AtItsCommit ==
  \A t \in RelTags :
    miPc = "release" /\ dstRefs[t] = 0 /\ dstRefs'[t] # 0 => dstRefs'[t] = desired[t].ref \/ desired[t].ref = 0

(* What a step may do to the refs of the mirror.                            *)
LEMMA RefsKept ==
  ASSUME MirrorIInv, [MirrorNext]_mirrorVars
  PROVE  DivergentStays /\ ForeignRefStays /\ AtItsCommit
<1>1. CASE UNCHANGED dstRefs
  BY <1>1 DEF DivergentStays, ForeignRefStays, AtItsCommit
<1>2. ASSUME NEW r \in Heads, Contribute(r) PROVE DivergentStays /\ ForeignRefStays /\ AtItsCommit
  <2>1. r \in Refs /\ r \notin RelTags
    BY <1>2 DEF Contribute, Refs, RelTags
  <2>2. dstRefs'[r] = Foreign /\ \A u \in Refs \ {r} : dstRefs'[u] = dstRefs[u]
    BY <1>2, <2>1 DEF Contribute, MirrorIInv, RefsTyped
  <2>3. Foreign # 0 /\ \A u \in Refs : dstRefs[u] <= Foreign
    BY MirrorCommits, MirrorAssumption DEF MirrorIInv, RefsTyped, Foreign
  <2>4. \A t \in RelTags : t \in Refs \ {r}
    BY <2>1 DEF Refs, Tags
  <2> QED BY <2>1, <2>2, <2>3, <2>4 DEF DivergentStays, ForeignRefStays, AtItsCommit
<1>3. CASE PushRefs /\ dstRefs' # dstRefs
  <2>1. /\ miPc = "push"
        /\ \A r \in Refs : dstRefs'[r] = IF r \in Prune THEN 0 ELSE IF r \in pushSpecs THEN clone[r] ELSE dstRefs[r]
    BY <1>3 DEF PushRefs
  <2>2. AtItsCommit
    BY <2>1 DEF AtItsCommit
  <2>3. \A r \in pushSpecs : clone[r] # 0
    BY DEF pushSpecs, Create, Forced, Verified, Differing
  <2>4. ForeignRefStays
    BY <2>1, <2>3 DEF ForeignRefStays, ScopedRef, Prune, inScope
  <2>5. ASSUME NEW r \in Refs, dstRefs[r] # 0, dstRefs'[r] \notin {0, dstRefs[r]}, ~miCfg.force, r # "latest", r \notin moved
        PROVE  dstRefs[r] <= dstRefs'[r]
    <3>1. r \in pushSpecs /\ dstRefs'[r] = clone[r]
      BY <2>1, <2>5
    <3>2. seenRefs[r] = dstRefs[r]
      BY <2>1, <2>5 DEF MirrorIInv, ListedOrMoved
    <3>3. r \in Verified
      BY <2>5, <3>1, <3>2 DEF pushSpecs, Create, Forced
    <3> QED BY <3>1, <3>2, <3>3 DEF Verified, isAncestor
  <2>6. DivergentStays
    BY <2>5 DEF DivergentStays
  <2> QED BY <2>2, <2>4, <2>6
<1>4. CASE createOnMirror /\ dstRefs' # dstRefs
  <2>1. miPc = "release" /\ Head(at) \in RelTags
    BY <1>4, AtMoves DEF createOnMirror, MirrorIInv, PassAt, RelsTyped
  <2>2. Head(at) \in Refs /\ dstRefs[Head(at)] = 0 /\ dstRefs' = [dstRefs EXCEPT ![Head(at)] = Anchor(Head(at))]
    BY <1>4, <2>1 DEF createOnMirror, Refs, Tags
  <2>3. dstRefs'[Head(at)] = Anchor(Head(at)) /\ \A u \in Refs \ {Head(at)} : dstRefs'[u] = dstRefs[u]
    BY <2>2 DEF MirrorIInv, RefsTyped
  <2>4. DivergentStays
    BY <2>1 DEF DivergentStays
  <2>5. ForeignRefStays
    BY <2>2, <2>3 DEF ForeignRefStays
  <2>6. AtItsCommit
    BY <2>2, <2>3 DEF AtItsCommit, Anchor, Refs, Tags
  <2> QED BY <2>4, <2>5, <2>6
<1>5. CASE UNCHANGED mirrorVars \/ Develop \/ CutRelease \/ (\E t \in RelTags : EditRelease(t) \/ DropRelease(t) \/ AddProse(t))
  BY <1>1, <1>5 DEF mirrorVars, forges, Develop, CutRelease, EditRelease, DropRelease, AddProse
<1>6. CASE StartPass \/ CloneOrigin \/ listRemoteRefs \/ DesiredFromReleases \/ ListMirrorReleases \/ PassKilled
  BY <1>1, <1>6 DEF StartPass, CloneOrigin, listRemoteRefs, DesiredFromReleases, ListMirrorReleases, PassKilled, forges
<1>7. CASE InSync \/ PreserveAdopted \/ updateOnMirror \/ reconcileAssets \/ reconcileLinks \/ PruneReleases
  BY <1>1, <1>7 DEF InSync, PreserveAdopted, updateOnMirror, reconcileAssets, reconcileLinks, PruneReleases, forges
<1>8. CASE applyChannelRetention /\ dstRefs' # dstRefs
  <2>1. miPc = "retain" /\ miCfg.retain
    BY <1>8 DEF applyChannelRetention, MirrorIInv, PassAt
  <2>2. DivergentStays /\ AtItsCommit
    BY <2>1 DEF DivergentStays, AtItsCommit
  <2>3. PICK newest \in RelTags, gone \in SUBSET RelTags :
          /\ newest \notin gone /\ dstRel[newest].here /\ \A t \in gone : dstRel[t].here
          /\ dstRel' = [t \in RelTags |-> IF t \in gone THEN NoRel ELSE dstRel[t]]
          /\ \A r \in Refs : dstRefs'[r] = dstRefs[r] \/ (r \in gone /\ dstRefs'[r] = 0)
    BY <1>8, RetentionWrites DEF MirrorIInv
  <2>4. ~NoRel.here
    BY OneMirrorRelease, Zenon
  <2>5. dstRel'[newest].here /\ \A t \in gone : ~dstRel'[t].here
    BY <2>3, <2>4
  <2>6. ForeignRefStays
    BY <2>1, <2>3, <2>5 DEF ForeignRefStays, RetainedStep
  <2> QED BY <2>2, <2>6
<1> QED BY <1>1, <1>2, <1>3, <1>4, <1>5, <1>6, <1>7, <1>8 DEF MirrorNext, MirrorStep

(* What a step may do to the releases of the mirror.                        *)
LEMMA ReleasesKept ==
  ASSUME MirrorIInv, [MirrorNext]_mirrorVars
  PROVE  ForeignReleaseStays /\ ProseStays
<1>1. CASE UNCHANGED dstRel
  BY <1>1 DEF ForeignReleaseStays, ProseStays
<1> DEFINE t == Head(at)  d == desired[t]  r == dstRel[t]
<1>2. ASSUME NEW u \in RelTags, NEW n \in MirrorReleases, dstRel' = [dstRel EXCEPT ![u] = n],
             dstRel[u].here /\ ~n.here => dstRel[u].fp # 0 /\ miCfg.prune,
             dstRel[u].prose /\ ~n.prose => u \in kept \/ ~n.here
      PROVE  ForeignReleaseStays /\ ProseStays
  <2>1. dstRel'[u] = n /\ \A v \in RelTags \ {u} : dstRel'[v] = dstRel[v]
    BY <1>2, MirrorWrite DEF MirrorIInv, RelsTyped
  <2> QED BY <1>2, <2>1 DEF ForeignReleaseStays, ProseStays
<1>3. ASSUME miPc \in {"release", "asset", "link"}
      PROVE  /\ t \in RelTags /\ d \in DesiredReleases /\ r \in MirrorReleases /\ fingerprint(d) \in Nat \ {0}
             /\ ~seenRel[t].here => ~r.prose
             /\ seenRel[t].here /\ r.here => r.fp \in {seenRel[t].fp, fingerprint(d)}
             /\ seenRel[t].here => r.here
  <2>1. t \in RelTags /\ d \in DesiredReleases /\ r \in MirrorReleases /\ fingerprint(d) \in Nat \ {0}
    BY <1>3, AtRelease DEF MirrorIInv, MirrorRelInv
  <2> QED BY <1>3, <2>1 DEF MirrorIInv, AsListedOrDone, Converging
<1>4. ASSUME NEW u \in RelTags, AddProse(u) PROVE ForeignReleaseStays /\ ProseStays
  <2> DEFINE n == [dstRel[u] EXCEPT !.prose = TRUE]
  <2>1. dstRel[u] \in MirrorReleases /\ dstRel' = [dstRel EXCEPT ![u] = n]
    BY <1>4 DEF AddProse, MirrorIInv, RelsTyped
  <2>2. n \in MirrorReleases /\ n.here = dstRel[u].here
    BY <2>1, OneMirrorRelease, Zenon
  <2>3. dstRel[u].prose = FALSE
    BY <1>4, <2>1 DEF AddProse, MirrorReleases
  <2> HIDE DEF n
  <2> QED BY <1>2, <2>1, <2>2, <2>3
<1>5. CASE createOnMirror /\ dstRel' # dstRel
  <2> DEFINE n == [NoRel EXCEPT !.here = TRUE, !.fp = fingerprint(d), !.body = d.body]
  <2>1. miPc = "release" /\ ~seenRel[t].here /\ dstRel' = [dstRel EXCEPT ![t] = n]
    BY <1>5 DEF createOnMirror
  <2>2. n \in MirrorReleases /\ n.here
    BY <2>1, <1>3, OneMirrorRelease, Zenon
  <2>3. t \in RelTags /\ ~r.prose
    BY <2>1, <1>3
  <2> HIDE DEF n
  <2> QED BY <1>2, <2>1, <2>2, <2>3
<1>6. CASE updateOnMirror /\ dstRel' # dstRel
  <2> DEFINE n == replaceManaged(r, d)
  <2>1. miPc = "release" /\ seenRel[t].here /\ Preserved(t) /\ dstRel' = [dstRel EXCEPT ![t] = n]
    BY <1>6 DEF updateOnMirror
  <2>2. n \in MirrorReleases /\ n.here = r.here /\ n.prose = (r.prose /\ r.fp # 0)
    BY <2>1, <1>3, ManagedRelease
  <2>3. t \in RelTags /\ r.here /\ r.fp \in {seenRel[t].fp, fingerprint(d)} /\ fingerprint(d) # 0
    BY <2>1, <1>3
  <2>4. r.prose /\ ~n.prose => t \in kept
    BY <2>1, <2>2, <2>3 DEF Preserved
  <2> HIDE DEF n
  <2> QED BY <1>2, <2>1, <2>2, <2>3, <2>4
<1>7. CASE reconcileAssets /\ dstRel' # dstRel
  <2>1. PICK a \in 0..2 : dstRel' = [dstRel EXCEPT ![t] = [r EXCEPT !.asset = a]]
    <3>1. miPc = "asset"
      BY <1>7 DEF reconcileAssets
    <3>2. d.asset \in 0..2 /\ 0 \in 0..2
      BY <3>1, <1>3 DEF DesiredReleases
    <3> QED BY <1>7, <3>2 DEF reconcileAssets
  <2> DEFINE n == [r EXCEPT !.asset = a]
  <2>2. t \in RelTags /\ r \in MirrorReleases
    BY <1>3, <1>7 DEF reconcileAssets
  <2>a. \A b \in 0..2 :
          LET m == [r EXCEPT !.asset = b]
          IN  /\ m \in MirrorReleases /\ m.here = r.here /\ m.fp = r.fp /\ m.body = r.body
              /\ m.asset = b /\ m.prose = r.prose
    BY <2>2, OneMirrorRelease, Zenon
  <2>3. n \in MirrorReleases /\ n.here = r.here /\ n.prose = r.prose
    BY <2>a, Zenon
  <2> HIDE DEF n
  <2> QED BY <1>2, <2>1, <2>2, <2>3 DEF n
<1>8. CASE reconcileLinks /\ dstRel' # dstRel
  <2> DEFINE n == [r EXCEPT !.link = TRUE]
  <2>1. miPc = "link" /\ dstRel' = [dstRel EXCEPT ![t] = n]
    BY <1>8 DEF reconcileLinks
  <2>2. t \in RelTags /\ r \in MirrorReleases
    BY <2>1, <1>3
  <2>3. n \in MirrorReleases /\ n.here = r.here /\ n.prose = r.prose
    BY <2>2, OneMirrorRelease, Zenon
  <2> HIDE DEF n
  <2> QED BY <1>2, <2>1, <2>2, <2>3
<1>9. CASE PruneReleases /\ dstRel' # dstRel
  <2>1. miPc = "prune" /\ at # <<>> /\ seenRel[t].fp # 0 /\ dstRel' = [dstRel EXCEPT ![t] = NoRel]
    BY <1>9 DEF PruneReleases
  <2>2. NoRel \in MirrorReleases /\ NoRel.fp = 0 /\ ~NoRel.here
    BY OneMirrorRelease, Zenon
  <2>3. t \in RelTags /\ miCfg.prune
    BY <2>1, AtMoves DEF MirrorIInv, PassAt, RelsTyped
  <2>4. fingerprint(d) # 0
    BY <2>3, FingerprintTells DEF MirrorIInv, RelsTyped
  <2>5. r.here => r.fp # 0
    BY <2>1, <2>2, <2>3, <2>4 DEF MirrorIInv, AsListedOrDone, Converging
  <2> QED BY <1>2, <2>1, <2>2, <2>3, <2>5
<1>10. CASE UNCHANGED mirrorVars \/ Develop \/ CutRelease \/ (\E u \in RelTags : EditRelease(u) \/ DropRelease(u)) \/ (\E u \in Heads : Contribute(u))
  BY <1>1, <1>10 DEF mirrorVars, forges, Develop, CutRelease, EditRelease, DropRelease, Contribute
<1>11. CASE \/ StartPass \/ CloneOrigin \/ listRemoteRefs \/ PushRefs \/ DesiredFromReleases \/ ListMirrorReleases \/ PassKilled
            \/ InSync \/ PreserveAdopted
  BY <1>1, <1>11 DEF StartPass, CloneOrigin, listRemoteRefs, PushRefs, DesiredFromReleases, ListMirrorReleases, PassKilled,
     InSync, PreserveAdopted, forges
<1>12. CASE applyChannelRetention /\ dstRel' # dstRel
  <2>1. miPc = "retain" /\ miCfg.retain
    BY <1>12 DEF applyChannelRetention, MirrorIInv, PassAt
  <2>2. PICK newest \in RelTags, gone \in SUBSET RelTags :
          /\ newest \notin gone /\ dstRel[newest].here /\ \A u \in gone : dstRel[u].here
          /\ dstRel' = [u \in RelTags |-> IF u \in gone THEN NoRel ELSE dstRel[u]]
    BY <1>12, RetentionWrites DEF MirrorIInv
  <2>3. ~NoRel.here
    BY OneMirrorRelease, Zenon
  <2>4. dstRel'[newest].here /\ \A u \in RelTags : dstRel'[u] # dstRel[u] => u \in gone /\ ~dstRel'[u].here
    BY <2>2, <2>3
  <2>5. ForeignReleaseStays
    BY <2>1, <2>2, <2>4 DEF ForeignReleaseStays, RetainedStep
  <2>6. ProseStays
    BY <2>4 DEF ProseStays
  <2> QED BY <2>5, <2>6
<1> QED BY <1>1, <1>4, <1>5, <1>6, <1>7, <1>8, <1>9, <1>10, <1>11, <1>12 DEF MirrorNext, MirrorStep

(* Every pass of a mirror: the fast path skips only what is in sync,        *)
(* divergent refs and what lies outside the mirror's scope are left alone   *)
(* but for the releases and tags the channel's retention takes, prose of    *)
(* the mirror is kept or saved, and a release stands at its commit          *)
(* (sync/git_mirror.go, mirror/refs.go, mirror/release.go, and              *)
(* cli/cmd/release_create.go applyChannelRetention).                        *)
THEOREM MirrorHolds == MirrorSpec => MirrorKeeps
<1>1. MirrorIInv /\ UNCHANGED mirrorVars => MirrorIInv'
  BY MirrorStepInv
<1>2. MirrorIInv /\ [MirrorNext]_mirrorVars =>
        DivergentStays /\ ForeignRefStays /\ ForeignReleaseStays /\ ProseStays /\ AtItsCommit
  BY RefsKept, ReleasesKept
<1>3. MirrorSpec => []MirrorIInv
  BY MirrorInitInv, MirrorStepInv, PTL DEF MirrorSpec
<1>4. MirrorSpec => [][DivergentStays]_mirrorVars /\ [][ForeignRefStays /\ ForeignReleaseStays]_mirrorVars
                     /\ [][ProseStays]_mirrorVars /\ [][AtItsCommit]_mirrorVars
  BY <1>2, <1>3, PTL DEF MirrorSpec
<1>5. MirrorSpec => [](MirrorTypeOK /\ FastPathHonest)
  BY <1>3, MirrorIInvKeeps, PTL
<1> QED BY <1>4, <1>5, PTL DEF MirrorKeeps, KeepDivergent, ForeignIsSacred, ProseKept, ReleaseAtItsCommit,
       DivergentStays, ForeignRefStays, ForeignReleaseStays, ProseStays, AtItsCommit

-----------------------------------------------------------------------------
(* Tagging *)

Kinds == {"feat", "gen", "empty"}
TagsUpTo(n) == [TgVersions -> {NoTag} \cup [at : 1 .. n, obj : TgClones \cup {"light"}]]

\* The type invariant, by what it is about.  What is pushed of the line is its beginning.
LineOK ==
    /\ tgCfg \in TgConfigs /\ tgMain \in Seq(Kinds)
    /\ Len(tgMain) >= 1 /\ Len(tgMain) <= Len(tgCfg.line)
    /\ \A k \in 1 .. Len(tgMain) : tgMain[k] = tgCfg.line[k]

TagsOK ==
    /\ tgOrigin \in TagsUpTo(Len(tgMain))
    /\ tgTags \in [TgClones -> TagsUpTo(Len(tgMain))]
    /\ tgHead \in [TgClones -> 1 .. Len(tgMain)]

CommandsOK ==
    /\ tgAt \in [TgClones -> {"idle", "create", "push", "pushed", "off"}]
    /\ tgPlan = [c \in TgClones |-> tgPlan[c]]
    /\ tgNotes \in [TgVersions -> SUBSET (0 .. Len(tgMain))]
    /\ tgRuns \in 0 .. TgRuns /\ tgEvents \in 0 .. TgEvents

Working == {"create", "push", "pushed"}

\* A command past its plan has one for a real version and a real commit, which
\* builds unless none does within the walk; the others have none.
PlannedAt(c) ==
    IF tgAt[c] \in Working
    THEN LET plan == tgPlan[c] IN
         /\ plan.next \in TgVersions /\ plan.tip \in 1 .. tgHead[c] /\ plan.at \in 1 .. plan.tip
         /\ \/ tgMain[plan.at] # "gen"
            \/ \A k \in 1 .. plan.tip : k > plan.tip - TgMaxWalk => tgMain[k] = "gen"
    ELSE tgPlan[c] = NoPlan

\* Before it pushes the tag is in the clone as planned, afterwards in origin.
CutAt(c) ==
    /\ tgAt[c] = "push" => tgTags[c][tgPlan[c].next].at = tgPlan[c].at
    /\ tgAt[c] = "pushed" => tgOrigin[tgPlan[c].next].at = tgPlan[c].at

\* The notes of a release list what is above some other release of origin that
\* is not above it, or all there is.
Boundary(v, b) ==
    \/ b = 0
    \/ \E w \in TgVersions : /\ w # v /\ tgOrigin[w] # NoTag /\ IsReleaseTag(w)
                             /\ tgOrigin[w].at = b /\ b <= tgOrigin[v].at
SummedUp(v) ==
    tgNotes[v] # NoNotes =>
        /\ tgOrigin[v] # NoTag
        /\ \E b \in Nat : /\ Boundary(v, b)
                          /\ \A k \in b + 1 .. tgOrigin[v].at : tgMain[k] # "empty" => k \in tgNotes[v]

IInv ==
    /\ LineOK /\ TagsOK /\ CommandsOK
    /\ \A c \in TgClones : PlannedAt(c)
    /\ \A c \in TgClones : CutAt(c)
    /\ \A v \in TgVersions : SummedUp(v)

\* What no step takes back.
Grows ==
    /\ tgCfg' = tgCfg
    /\ Len(tgMain) <= Len(tgMain') /\ \A k \in 1 .. Len(tgMain) : tgMain'[k] = tgMain[k]
    /\ \A v \in TgVersions : tgOrigin[v] # NoTag => tgOrigin'[v] = tgOrigin[v]
    /\ \A c \in TgClones, v \in TgVersions : tgTags[c][v] # NoTag => tgTags'[c][v] = tgTags[c][v]
    /\ \A c \in TgClones : tgHead[c] <= tgHead'[c]

-----------------------------------------------------------------------------
(* Choosing from finite sets *)

(* The natural numbers are well-founded by <.                               *)
LEMMA LessThan ==
  \E R : IsWellFoundedOn(R, Nat) /\ \A a, b \in Nat : <<a, b>> \in R <=> a < b
<1> DEFINE R == OpToRel(<, Nat)
<1>1. \A a, b \in Nat : <<a, b>> \in R <=> a < b
  BY DEF OpToRel
<1>2. IsWellFoundedOn(R, Nat)
  BY NatLessThanWellFounded
<1> HIDE DEF R
<1> QED BY <1>1, <1>2

(* A set of natural numbers that is not empty has a least one.              *)
LEMMA LeastNat ==
  ASSUME NEW T \in SUBSET Nat, T # {} 
  PROVE  \E m \in T : \A n \in T : m <= n
<1>1. PICK R : IsWellFoundedOn(R, Nat) /\ \A a, b \in Nat : <<a, b>> \in R <=> a < b
  BY LessThan
<1>2. PICK m \in T : \A n \in T : ~(<<n, m>> \in R)
  <2>1. IsWellFoundedOn(R, Nat) /\ T \subseteq Nat /\ T # {}
    BY <1>1
  <2> QED BY <2>1, WFMin, Zenon
<1>3. \A n \in T : n \in Nat /\ ~(n < m)
  BY <1>1, <1>2
<1> QED BY <1>3

(* A finite set has an element that no other is above, in any strict order: *)
(* one with the fewest above it.                                            *)
LEMMA Maximal ==
  ASSUME NEW S, IsFiniteSet(S), S # {}, NEW R,
         \A a \in S : <<a, a>> \notin R,
         \A a, b, c \in S : <<a, b>> \in R /\ <<b, c>> \in R => <<a, c>> \in R
  PROVE  \E m \in S : \A x \in S : <<m, x>> \notin R
<1> DEFINE Above(a) == {x \in S : <<a, x>> \in R}
           sizes == {Cardinality(Above(a)) : a \in S}
<1>1. \A a \in S : IsFiniteSet(Above(a)) /\ Cardinality(Above(a)) \in Nat
  BY FS_Subset, FS_CardinalityType
<1>2. PICK n \in sizes : \A k \in sizes : n <= k
  <2>1. sizes \in SUBSET Nat /\ sizes # {}
    <3> HIDE DEF Above
    <3> QED BY <1>1
  <2> HIDE DEF sizes
  <2> QED BY <2>1, LeastNat
<1>3. PICK m \in S : Cardinality(Above(m)) = n
  BY <1>2
<1>4. SUFFICES ASSUME NEW x \in S, <<m, x>> \in R PROVE FALSE
  OBVIOUS
<1>5. Above(x) \in SUBSET Above(m) /\ x \in Above(m) /\ x \notin Above(x)
  BY <1>4
<1>6. Cardinality(Above(x)) <= Cardinality(Above(m))
      /\ (Cardinality(Above(x)) = Cardinality(Above(m)) => Above(x) = Above(m))
  <2> HIDE DEF Above
  <2> QED BY <1>1, <1>5, FS_Subset
<1>7. n <= Cardinality(Above(x))
  <2>1. Cardinality(Above(x)) \in sizes
    BY <1>4
  <2> QED BY <2>1, <1>2
<1> QED
  <2> HIDE DEF Above
  <2> QED BY <1>1, <1>3, <1>5, <1>6, <1>7

(* A finite set of numbers has its maximum.                                 *)
LEMMA MaxIs ==
  ASSUME NEW S \in SUBSET Int, IsFiniteSet(S), S # {}
  PROVE  Max(S) \in S /\ \A x \in S : Max(S) >= x
<1> DEFINE R == {p \in S \X S : p[1] < p[2]}
<1>1. \A a, b \in S : <<a, b>> \in R <=> a < b
  OBVIOUS
<1>2. \E m \in S : \A x \in S : <<m, x>> \notin R
  <2> HIDE DEF R
  <2>1. \A a \in S : <<a, a>> \notin R
    BY <1>1
  <2>2. \A a, b, c \in S : <<a, b>> \in R /\ <<b, c>> \in R => <<a, c>> \in R
    BY <1>1
  <2> QED BY <2>1, <2>2, Maximal
<1>3. \E m \in S : \A x \in S : m >= x
  <2> HIDE DEF R
  <2>1. PICK m \in S : \A x \in S : <<m, x>> \notin R
    BY <1>2
  <2>2. \A x \in S : m \in Int /\ x \in Int /\ ~(m < x)
    BY <1>1, <2>1
  <2> QED BY <2>2
<1> QED BY <1>3 DEF Max

(* Versions are ordered.                                                    *)
LEMMA TgLessOrders ==
  /\ \A v \in TgVersions : ~TgLess(v, v)
  /\ \A u, v, w \in TgVersions : TgLess(u, v) /\ TgLess(v, w) => TgLess(u, w)
<1> DEFINE Less(v, w) == \/ v[1] < w[1]
                         \/ v[1] = w[1] /\ v[2] < w[2]
                         \/ v[1] = w[1] /\ v[2] = w[2] /\ v[3] < w[3]
                         \/ v[1] = w[1] /\ v[2] = w[2] /\ v[3] = w[3] /\ v[4] < w[4]
<1>1. \A v \in TgVersions : v[1] \in Nat /\ v[2] \in Nat /\ v[3] \in Nat /\ v[4] \in Nat
  BY TgAssumption
<1>2. \A v, w \in TgVersions : TgLess(v, w) <=> Less(v, w)
  <2> SUFFICES ASSUME NEW v \in TgVersions, NEW w \in TgVersions PROVE TgLess(v, w) <=> Less(v, w)
    OBVIOUS
  <2>1. TgLess(v, w) => Less(v, w)
    <3> SUFFICES ASSUME NEW i \in 1 .. 4, v[i] < w[i], \A j \in 1 .. i - 1 : v[j] = w[j] PROVE Less(v, w)
      BY DEF TgLess
    <3>1. i = 1 \/ i = 2 \/ i = 3 \/ i = 4
      OBVIOUS
    <3> QED BY <3>1
  <2>2. Less(v, w) => TgLess(v, w)
    <3>1. CASE v[1] < w[1]
      BY <3>1, 1 \in 1 .. 4, \A j \in 1 .. 1 - 1 : v[j] = w[j] DEF TgLess
    <3>2. CASE v[1] = w[1] /\ v[2] < w[2]
      <4>1. \A j \in 1 .. 2 - 1 : v[j] = w[j]
        BY <3>2
      <4> QED BY <3>2, <4>1, 2 \in 1 .. 4 DEF TgLess
    <3>3. CASE v[1] = w[1] /\ v[2] = w[2] /\ v[3] < w[3]
      <4>1. \A j \in 1 .. 3 - 1 : v[j] = w[j]
        BY <3>3
      <4> QED BY <3>3, <4>1, 3 \in 1 .. 4 DEF TgLess
    <3>4. CASE v[1] = w[1] /\ v[2] = w[2] /\ v[3] = w[3] /\ v[4] < w[4]
      <4>1. \A j \in 1 .. 4 - 1 : v[j] = w[j]
        BY <3>4
      <4> QED BY <3>4, <4>1, 4 \in 1 .. 4 DEF TgLess
    <3> QED BY <3>1, <3>2, <3>3, <3>4
  <2> QED BY <2>1, <2>2
<1>3. \A v \in TgVersions : ~Less(v, v)
  BY <1>1
<1>4. \A u, v, w \in TgVersions : Less(u, v) /\ Less(v, w) => Less(u, w)
  BY <1>1
<1> HIDE DEF Less
<1> QED BY <1>2, <1>3, <1>4

-----------------------------------------------------------------------------
(* What is planned and what bounds notes *)

(* The previous release tag is one: a release of these tags other than own,  *)
(* among the ancestors of the commit.                                       *)
LEMMA PreviousIs ==
  ASSUME NEW named, DOMAIN named = TgVersions, NEW commit, NEW own,
         PreviousReleaseTag(named, commit, own) # TgNone
  PROVE  LET p == PreviousReleaseTag(named, commit, own) IN
         p \in TgVersions /\ named[p] # NoTag /\ IsReleaseTag(p) /\ p # own /\ named[p].at <= commit
<1> DEFINE before == {v \in Tagged(named) : IsReleaseTag(v) /\ v # own /\ IsAncestor(named[v], commit)}
           R == {p \in before \X before : TgLess(p[1], p[2])}
<1>1. before \subseteq TgVersions /\ IsFiniteSet(before)
  BY TgAssumption, FS_Subset DEF Tagged
<1>2. before # {}
  BY DEF PreviousReleaseTag
<1>3. \A a, b \in before : <<a, b>> \in R <=> TgLess(a, b)
  OBVIOUS
<1>4. \E v \in before : \A w \in before : <<v, w>> \notin R
  <2> HIDE DEF before, R
  <2>1. \A a \in before : <<a, a>> \notin R
    BY <1>1, <1>3, TgLessOrders
  <2>2. \A a, b, c \in before : <<a, b>> \in R /\ <<b, c>> \in R => <<a, c>> \in R
    BY <1>1, <1>3, TgLessOrders
  <2> QED BY <1>1, <1>2, <2>1, <2>2, Maximal
<1>5. \E v \in before : \A w \in before : ~TgLess(v, w)
  <2> HIDE DEF before, R
  <2> QED BY <1>3, <1>4
<1>6. PreviousReleaseTag(named, commit, own) = CHOOSE v \in before : \A w \in before : ~TgLess(v, w)
  BY <1>2 DEF PreviousReleaseTag
<1>7. PreviousReleaseTag(named, commit, own) \in before
  <2> HIDE DEF before
  <2> QED BY <1>5, <1>6
<1> QED BY <1>7 DEF Tagged, IsAncestor

(* The commit a tag is planned on is at or below the tip, and builds unless *)
(* none does within the walk.                                               *)
LEMMA ReleasableIs ==
  ASSUME NEW tip \in Nat, tip >= 1
  PROVE  LET r == ResolveReleasableCommit(tip) IN
         /\ r \in 1 .. tip
         /\ \/ tgMain[r] # "gen"
            \/ \A k \in 1 .. tip : k > tip - TgMaxWalk => tgMain[k] = "gen"
<1> DEFINE near == {k \in 1 .. tip : k > tip - TgMaxWalk /\ TipIsReleasable(k)}
<1>1. ResolveReleasableCommit(tip) = IF near = {} THEN tip ELSE Max(near)
  BY DEF ResolveReleasableCommit
<1>2. near # {} => Max(near) \in near
  <2>1. near \in SUBSET Int /\ IsFiniteSet(near)
    <3>1. IsFiniteSet(1 .. tip)
      BY FS_Interval
    <3> QED BY <3>1, FS_Subset
  <2> HIDE DEF near
  <2> QED BY <2>1, MaxIs
<1> QED BY <1>1, <1>2 DEF TipIsReleasable

(* What a command has after it made its plan: none, or one that it may      *)
(* carry out.                                                               *)
Plans(c) ==
    \/ TgEnd(c)
    \/ \E plan : /\ tgAt' = [tgAt EXCEPT ![c] = "create"] /\ tgPlan' = [tgPlan EXCEPT ![c] = plan]
                 /\ plan.next \in TgVersions /\ plan.tip \in 1 .. tgHead[c]
                 /\ plan.at = ResolveReleasableCommit(plan.tip)

LEMMA RunPlans ==
  ASSUME IInv, NEW c \in TgClones, NEW req \in TgRequests, TgRun(c, req)
  PROVE  Plans(c)
<1> DEFINE tip == Max({1, tgHead[c] - req.back})
           target == ResolveReleasableCommit(tip)
           prev == TgPrevious(c, req, target)
           next == TgNextTag(req, prev)
<1>1. tip \in 1 .. tgHead[c]
  <2>1. tgHead[c] \in Nat /\ tgHead[c] >= 1 /\ req.back \in Nat
    BY TgAssumption DEF IInv, LineOK, TagsOK
  <2>2. {1, tgHead[c] - req.back} = {1} \cup {tgHead[c] - req.back}
    OBVIOUS
  <2>3. IsFiniteSet({1, tgHead[c] - req.back})
    <3>1. IsFiniteSet({1} \cup {tgHead[c] - req.back})
      BY FS_Singleton, FS_Union
    <3> QED BY <2>2, <3>1
  <2>4. tip \in {1, tgHead[c] - req.back} /\ \A x \in {1, tgHead[c] - req.back} : tip >= x
    BY <2>1, <2>3, MaxIs
  <2> QED BY <2>1, <2>4
<1> HIDE DEF tip
<1>2. \/ TgEnd(c)
      \/ \E msg, push :
           /\ tgAt' = [tgAt EXCEPT ![c] = "create"]
           /\ tgPlan' = [tgPlan EXCEPT ![c] =
                           [next |-> next, at |-> target, tip |-> tip, message |-> msg, push |-> push]]
           /\ req.version = TgNone => CanBump(req, prev)
  BY DEF TgRun, tip
<1>3. ASSUME req.version = TgNone => CanBump(req, prev) PROVE next \in TgVersions
  <2>1. CASE req.version = TgNone
    BY <1>3, <2>1 DEF TgRun, tip
  <2>2. CASE req.version # TgNone
    BY <2>2, TgAssumption DEF TgNextTag, TgNone
  <2> QED BY <2>1, <2>2
<1> HIDE DEF next, target
<1>4. ASSUME NEW msg, NEW push,
             tgAt' = [tgAt EXCEPT ![c] = "create"],
             tgPlan' = [tgPlan EXCEPT ![c] =
                          [next |-> next, at |-> target, tip |-> tip, message |-> msg, push |-> push]],
             req.version = TgNone => CanBump(req, prev)
      PROVE  Plans(c)
  <2> DEFINE plan == [next |-> next, at |-> target, tip |-> tip, message |-> msg, push |-> push]
  <2>1. plan.next = next /\ plan.tip = tip /\ plan.at = target
    OBVIOUS
  <2>2. target = ResolveReleasableCommit(tip)
    BY DEF target
  <2>3. tgPlan' = [tgPlan EXCEPT ![c] = plan]
    BY <1>4
  <2> HIDE DEF plan
  <2> QED BY <1>1, <1>3, <1>4, <2>1, <2>2, <2>3 DEF Plans
<1> QED BY <1>2, <1>4 DEF Plans

-----------------------------------------------------------------------------
(* The steps *)

LEMMA InitInv == TgInit => IInv
<1> SUFFICES ASSUME TgInit PROVE IInv
  OBVIOUS
<1>1. tgCfg.line \in Seq(Kinds) /\ tgCfg.line # <<>>
  BY TgAssumption DEF TgInit, TgFrom, Kinds
<1>2. tgMain \in Seq(Kinds) /\ Len(tgMain) = 1 /\ tgMain[1] = tgCfg.line[1] /\ Len(tgCfg.line) >= 1
  BY <1>1 DEF TgInit, TgFrom
<1>3. LineOK
  BY <1>2 DEF TgInit, TgFrom, LineOK
<1>4. TagsOK /\ CommandsOK
  BY <1>2, TgAssumption DEF TgInit, TgFrom, TagsOK, CommandsOK, TagsUpTo, NoNotes
<1>5. \A c \in TgClones : PlannedAt(c) /\ CutAt(c)
  BY DEF TgInit, TgFrom, PlannedAt, CutAt, Working
<1>6. \A v \in TgVersions : SummedUp(v)
  BY DEF TgInit, TgFrom, SummedUp
<1> QED BY <1>3, <1>4, <1>5, <1>6 DEF IInv

(* A tag that exists is no NoTag, and names a commit.                       *)
LEMMA TagIs ==
  ASSUME NEW n \in Nat, NEW named \in TagsUpTo(n), NEW v \in TgVersions
  PROVE  named[v] # NoTag <=> named[v].at \in 1 .. n
BY DEF TagsUpTo, NoTag

(* As the branch grows, its tags still are tags of it.                      *)
LEMMA TagsWiden ==
  ASSUME NEW m \in Nat, NEW n \in Nat, m <= n
  PROVE  TagsUpTo(m) \subseteq TagsUpTo(n)
<1>1. [at : 1 .. m, obj : TgClones \cup {"light"}] \subseteq [at : 1 .. n, obj : TgClones \cup {"light"}]
  OBVIOUS
<1> QED BY <1>1 DEF TagsUpTo

(* The tag a clone creates: planned, and not in the place of another.       *)
LEMMA CreatedTag ==
  ASSUME IInv, NEW c \in TgClones, tgAt[c] = "create", CreateAnnotatedTag(c, tgPlan[c]) # NoTag
  PROVE  LET plan == tgPlan[c]  tag == CreateAnnotatedTag(c, tgPlan[c]) IN
         /\ tag \in [at : 1 .. Len(tgMain), obj : TgClones \cup {"light"}]
         /\ tag.at = plan.at
         /\ tgTags[c][plan.next] # NoTag => tag = tgTags[c][plan.next]
<1>1. /\ tgPlan[c].next \in TgVersions /\ tgPlan[c].at \in 1 .. Len(tgMain)
      /\ tgTags[c] \in TagsUpTo(Len(tgMain))
  BY DEF IInv, PlannedAt, Working, TagsOK, LineOK
<1>2. tgTags[c][tgPlan[c].next] \in {NoTag} \cup [at : 1 .. Len(tgMain), obj : TgClones \cup {"light"}]
  BY <1>1 DEF TagsUpTo
<1> QED BY <1>1, <1>2 DEF CreateAnnotatedTag

(* Every step keeps the types, and takes no tag and no commit back.         *)
LEMMA StepTypes ==
  ASSUME IInv, TgNext
  PROVE  LineOK' /\ TagsOK' /\ CommandsOK' /\ Grows
<1> USE DEF IInv
<1>0. Len(tgMain) \in Nat /\ Len(tgMain) >= 1
  BY DEF LineOK
<1>1. ASSUME NEW c \in TgClones, NEW req \in TgRequests, TgRun(c, req)
      PROVE  LineOK' /\ TagsOK' /\ CommandsOK' /\ Grows
  <2>1. UNCHANGED <<tgCfg, tgMain, tgHead, tgNotes, tgOrigin, tgTags, tgEvents>> /\ tgRuns' \in 0 .. TgRuns
    BY <1>1, TgAssumption DEF TgRun, TgOthers, CommandsOK
  <2>2. Plans(c)
    BY <1>1, RunPlans
  <2>3. CommandsOK'
    BY <2>1, <2>2 DEF Plans, TgEnd, CommandsOK
  <2> QED BY <2>1, <2>3 DEF LineOK, TagsOK, Grows
<1>2. ASSUME NEW c \in TgClones, TgCreate(c)
      PROVE  LineOK' /\ TagsOK' /\ CommandsOK' /\ Grows
  <2> DEFINE plan == tgPlan[c]
             tag == CreateAnnotatedTag(c, plan)
  <2>1. UNCHANGED <<tgCfg, tgMain, tgHead, tgNotes, tgOrigin, tgRuns, tgEvents>> /\ tgAt[c] = "create"
    BY <1>2 DEF TgCreate, TgOthers, tgBudget
  <2>2. CommandsOK'
    BY <1>2, <2>1 DEF TgCreate, TgEnd, CommandsOK
  <2>3. CASE UNCHANGED tgTags
    BY <2>1, <2>2, <2>3 DEF LineOK, TagsOK, Grows
  <2>4. CASE tag # NoTag /\ tgTags' = [tgTags EXCEPT ![c][plan.next] = tag]
    <3>1. tag \in [at : 1 .. Len(tgMain), obj : TgClones \cup {"light"}]
      BY <2>1, <2>4, CreatedTag
    <3>2. tgTags[c][plan.next] # NoTag => tag = tgTags[c][plan.next]
      BY <2>1, <2>4, CreatedTag
    <3> HIDE DEF tag, plan
    <3>3. tgTags' \in [TgClones -> TagsUpTo(Len(tgMain))]
      BY <2>4, <3>1 DEF TagsOK, TagsUpTo
    <3>4. ASSUME NEW d \in TgClones, NEW v \in TgVersions, tgTags[d][v] # NoTag
          PROVE  tgTags'[d][v] = tgTags[d][v]
      BY <2>4, <3>2, <3>4 DEF TagsOK, TagsUpTo
    <3>5. LineOK' /\ TagsOK'
      BY <2>1, <3>3 DEF LineOK, TagsOK
    <3>6. Grows
      BY <2>1, <3>4, <1>0 DEF Grows, TagsOK
    <3> QED BY <2>2, <3>5, <3>6
  <2> QED BY <1>2, <2>3, <2>4 DEF TgCreate
<1>3. ASSUME NEW c \in TgClones, TgPush(c)
      PROVE  LineOK' /\ TagsOK' /\ CommandsOK' /\ Grows
  <2> DEFINE v == tgPlan[c].next
  <2>1. UNCHANGED <<tgCfg, tgMain, tgHead, tgNotes, tgTags>> /\ tgAt[c] = "push"
    BY <1>3 DEF TgPush, TgOthers
  <2>2. CommandsOK'
    <3>1. tgRuns' \in 0 .. TgRuns /\ tgEvents' \in 0 .. TgEvents
      BY <1>3, TgAssumption DEF TgPush, CommandsOK, tgBudget
    <3>2. TgEnd(c) \/ (tgAt' = [tgAt EXCEPT ![c] = "pushed"] /\ UNCHANGED tgPlan)
      BY <1>3 DEF TgPush
    <3> QED BY <2>1, <3>1, <3>2 DEF TgEnd, CommandsOK
  <2>3. CASE UNCHANGED tgOrigin
    BY <2>1, <2>2, <2>3 DEF LineOK, TagsOK, Grows
  <2>4. CASE TgPushTag(c, v) /\ tgOrigin' = [tgOrigin EXCEPT ![v] = tgTags[c][v]]
    <3>1. v \in TgVersions
      BY <2>1 DEF PlannedAt, Working
    <3>2. tgTags[c][v] \in {NoTag} \cup [at : 1 .. Len(tgMain), obj : TgClones \cup {"light"}]
      BY <3>1 DEF TagsOK, TagsUpTo
    <3>3. tgOrigin' \in TagsUpTo(Len(tgMain))
      BY <2>4, <3>2 DEF TagsOK, TagsUpTo
    <3>4. \A w \in TgVersions : tgOrigin[w] # NoTag => tgOrigin'[w] = tgOrigin[w]
      BY <2>4 DEF TgPushTag, TagsOK, TagsUpTo
    <3> QED BY <1>0, <2>1, <2>2, <3>3, <3>4 DEF LineOK, TagsOK, Grows
  <2> QED BY <1>3, <2>3, <2>4 DEF TgPush
<1>4. ASSUME NEW c \in TgClones, TgFetch(c)
      PROVE  LineOK' /\ TagsOK' /\ CommandsOK' /\ Grows
  <2>1. UNCHANGED <<tgCfg, tgMain, tgOrigin, tgAt, tgPlan, tgNotes, tgRuns, tgEvents>>
    BY <1>4 DEF TgFetch
  <2>2. tgHead' \in [TgClones -> 1 .. Len(tgMain)] /\ \A d \in TgClones : tgHead[d] <= tgHead'[d]
    BY <1>0, <1>4 DEF TgFetch, TagsOK
  <2> DEFINE fetched == [w \in TgVersions |-> IF tgTags[c][w] = NoTag THEN tgOrigin[w] ELSE tgTags[c][w]]
  <2>3. tgTags' = [tgTags EXCEPT ![c] = fetched]
    BY <1>4 DEF TgFetch, TagsOK
  <2>4. fetched \in TagsUpTo(Len(tgMain))
    BY DEF TagsOK, TagsUpTo
  <2>5. \A w \in TgVersions : tgTags[c][w] # NoTag => fetched[w] = tgTags[c][w]
    OBVIOUS
  <2> HIDE DEF fetched
  <2>6. tgTags' \in [TgClones -> TagsUpTo(Len(tgMain))]
    BY <2>3, <2>4 DEF TagsOK
  <2>7. \A d \in TgClones, w \in TgVersions : tgTags[d][w] # NoTag => tgTags'[d][w] = tgTags[d][w]
    BY <2>3, <2>5 DEF TagsOK
  <2> QED BY <1>0, <2>1, <2>2, <2>6, <2>7 DEF LineOK, TagsOK, CommandsOK, Grows
<1>5. ASSUME NEW v \in TgVersions, TgRelease(v)
      PROVE  LineOK' /\ TagsOK' /\ CommandsOK' /\ Grows
  <2>1. UNCHANGED <<tgCfg, tgMain, tgOrigin, tgHead, tgTags, tgAt, tgPlan, tgRuns, tgEvents>>
        /\ tgNotes' = [tgNotes EXCEPT ![v] = GenerateNotes(v)] /\ tgOrigin[v] # NoTag
    BY <1>5 DEF TgRelease
  <2>2. GenerateNotes(v) \subseteq 0 .. Len(tgMain)
    <3>1. tgOrigin[v].at \in 1 .. Len(tgMain)
      BY <2>1, <1>0, TagIs DEF TagsOK
    <3>2. \A w \in Tagged(tgOrigin) : tgOrigin[w].at \in 1 .. Len(tgMain)
      BY <1>0, TagIs DEF Tagged, TagsOK, TagsUpTo
    <3> QED BY <1>0, <3>1, <3>2 DEF GenerateNotes, ParseCommits, ParseCommitLog
  <2> QED BY <1>0, <2>1, <2>2 DEF LineOK, TagsOK, CommandsOK, Grows
<1>6. ASSUME NEW v \in TgVersions, NEW k \in 1 .. Len(tgMain), TgHand(v, k)
      PROVE  LineOK' /\ TagsOK' /\ CommandsOK' /\ Grows
  <2>1. UNCHANGED <<tgCfg, tgMain, tgHead, tgTags, tgAt, tgPlan, tgNotes, tgRuns>> /\ tgEvents' \in 0 .. TgEvents
    BY <1>6, TgAssumption DEF TgHand, CommandsOK
  <2>2. tgOrigin' \in TagsUpTo(Len(tgMain)) /\ \A w \in TgVersions : tgOrigin[w] # NoTag => tgOrigin'[w] = tgOrigin[w]
    BY <1>6 DEF TgHand, TagsOK, TagsUpTo
  <2> QED BY <1>0, <2>1, <2>2 DEF LineOK, TagsOK, CommandsOK, Grows
<1>7. ASSUME TgCommit
      PROVE  LineOK' /\ TagsOK' /\ CommandsOK' /\ Grows
  <2>1. UNCHANGED <<tgCfg, tgOrigin, tgHead, tgTags, tgAt, tgPlan, tgNotes, tgRuns, tgEvents>>
    BY <1>7 DEF TgCommit
  <2>2. /\ tgMain' \in Seq(Kinds) /\ Len(tgMain') = Len(tgMain) + 1
        /\ Len(tgMain) < Len(tgCfg.line)
        /\ \A k \in 1 .. Len(tgMain) + 1 : tgMain'[k] = tgCfg.line[k]
    <3>1. tgCfg.line \in Seq(Kinds)
      BY TgAssumption DEF LineOK, Kinds
    <3> QED BY <1>0, <1>7, <3>1 DEF TgCommit
  <2>3. TagsUpTo(Len(tgMain)) \subseteq TagsUpTo(Len(tgMain'))
    BY <1>0, <2>2, TagsWiden
  <2>4. TagsOK'
    BY <1>0, <2>1, <2>2, <2>3 DEF TagsOK
  <2>5. LineOK'
    BY <2>1, <2>2, <1>0 DEF LineOK
  <2>6. CommandsOK'
    <3>1. SUBSET (0 .. Len(tgMain)) \subseteq SUBSET (0 .. Len(tgMain'))
      BY <1>0, <2>2
    <3> QED BY <2>1, <3>1 DEF CommandsOK
  <2>7. Grows
    BY <1>0, <2>1, <2>2 DEF Grows, LineOK, TagsOK
  <2> QED BY <2>4, <2>5, <2>6, <2>7
<1> QED BY <1>1, <1>2, <1>3, <1>4, <1>5, <1>6, <1>7 DEF TgNext

(* A plan stays one: commits and clones' heads only grow.                   *)
LEMMA PlannedStays ==
  ASSUME IInv, Grows, NEW c \in TgClones, tgPlan'[c] = tgPlan[c],
         tgAt'[c] \in Working <=> tgAt[c] \in Working,
         tgHead' \in [TgClones -> 1 .. Len(tgMain')], tgMain' \in Seq(Kinds)
  PROVE  PlannedAt(c)'
<1>1. /\ tgHead[c] \in 1 .. Len(tgMain) /\ tgHead'[c] \in Nat /\ tgHead[c] <= tgHead'[c]
      /\ Len(tgMain) \in Nat
      /\ \A k \in 1 .. Len(tgMain) : tgMain'[k] = tgMain[k]
  BY DEF IInv, LineOK, TagsOK, Grows
<1>2. PlannedAt(c)
  BY DEF IInv
<1>3. CASE tgAt[c] \notin Working
  BY <1>2, <1>3 DEF PlannedAt
<1>4. CASE tgAt[c] \in Working
  <2> DEFINE plan == tgPlan[c]
  <2>1. /\ plan.next \in TgVersions /\ plan.tip \in 1 .. tgHead[c] /\ plan.at \in 1 .. plan.tip
        /\ \/ tgMain[plan.at] # "gen"
           \/ \A k \in 1 .. plan.tip : k > plan.tip - TgMaxWalk => tgMain[k] = "gen"
    BY <1>2, <1>4 DEF PlannedAt
  <2>2. plan.tip \in 1 .. tgHead'[c]
    BY <1>1, <2>1
  <2>3. \A k \in 1 .. plan.tip : tgMain'[k] = tgMain[k]
    BY <1>1, <2>1
  <2>4. \/ tgMain'[plan.at] # "gen"
        \/ \A k \in 1 .. plan.tip : k > plan.tip - TgMaxWalk => tgMain'[k] = "gen"
    BY <2>1, <2>3
  <2> QED BY <1>4, <2>1, <2>2, <2>4 DEF PlannedAt
<1> QED BY <1>3, <1>4

(* A command that ended has no plan.                                        *)
LEMMA EndedPlanned ==
  ASSUME IInv, NEW c \in TgClones, TgEnd(c)
  PROVE  PlannedAt(c)' /\ CutAt(c)'
BY DEF IInv, CommandsOK, TgEnd, PlannedAt, CutAt, Working

(* What was cut stays where it was cut.                                     *)
LEMMA CutStays ==
  ASSUME IInv, Grows, NEW c \in TgClones, tgPlan'[c] = tgPlan[c], tgAt'[c] = tgAt[c]
  PROVE  CutAt(c)'
<1>1. CutAt(c) /\ PlannedAt(c)
  BY DEF IInv
<1>2. CASE tgAt[c] \in {"push", "pushed"}
  <2>1. tgPlan[c].next \in TgVersions /\ tgPlan[c].at # 0
    BY <1>1, <1>2 DEF PlannedAt, Working
  <2>2. tgAt[c] = "push" => tgTags'[c][tgPlan[c].next] = tgTags[c][tgPlan[c].next]
    BY <1>1, <2>1 DEF CutAt, Grows, NoTag
  <2>3. tgAt[c] = "pushed" => tgOrigin'[tgPlan[c].next] = tgOrigin[tgPlan[c].next]
    BY <1>1, <2>1 DEF CutAt, Grows, NoTag
  <2> QED BY <1>1, <2>2, <2>3 DEF CutAt
<1>3. CASE tgAt[c] \notin {"push", "pushed"}
  BY <1>3 DEF CutAt
<1> QED BY <1>2, <1>3

(* Notes stay complete above their boundary, whatever is tagged later.      *)
LEMMA SummedStays ==
  ASSUME IInv, Grows, NEW v \in TgVersions, tgNotes'[v] = tgNotes[v]
  PROVE  SummedUp(v)'
<1> SUFFICES ASSUME tgNotes[v] # NoNotes
             PROVE  /\ tgOrigin'[v] # NoTag
                    /\ \E b \in Nat : /\ Boundary(v, b)'
                                      /\ \A k \in b + 1 .. tgOrigin'[v].at :
                                            tgMain'[k] # "empty" => k \in tgNotes[v]
  BY DEF SummedUp
<1>1. tgOrigin[v] # NoTag /\ tgOrigin'[v] = tgOrigin[v]
  BY DEF IInv, SummedUp, Grows
<1>2. PICK b \in Nat : /\ Boundary(v, b)
                       /\ \A k \in b + 1 .. tgOrigin[v].at : tgMain[k] # "empty" => k \in tgNotes[v]
  BY DEF IInv, SummedUp
<1>3. tgOrigin[v].at \in 1 .. Len(tgMain) /\ Len(tgMain) \in Nat
  BY <1>1, TagIs DEF IInv, TagsOK, LineOK
<1>4. Boundary(v, b)'
  <2>1. CASE b = 0
    BY <2>1 DEF Boundary
  <2>2. CASE b # 0
    <3>1. PICK w \in TgVersions : /\ w # v /\ tgOrigin[w] # NoTag /\ IsReleaseTag(w)
                                  /\ tgOrigin[w].at = b /\ b <= tgOrigin[v].at
      BY <1>2, <2>2 DEF Boundary
    <3>2. tgOrigin'[w] = tgOrigin[w] /\ IsReleaseTag(w)'
      BY <3>1 DEF Grows, IsReleaseTag
    <3> QED BY <1>1, <3>1, <3>2 DEF Boundary
  <2> QED BY <2>1, <2>2
<1>5. ASSUME NEW k \in b + 1 .. tgOrigin'[v].at, tgMain'[k] # "empty" PROVE k \in tgNotes[v]
  <2>1. k \in b + 1 .. tgOrigin[v].at /\ k \in 1 .. Len(tgMain)
    BY <1>1, <1>3
  <2>2. tgMain'[k] = tgMain[k]
    BY <2>1 DEF Grows
  <2> QED BY <1>2, <1>5, <2>1, <2>2
<1> QED BY <1>1, <1>4, <1>5

(* A release that is summed up is bounded by another release, below it.     *)
LEMMA ReleaseSums ==
  ASSUME IInv, NEW v \in TgVersions, TgRelease(v)
  PROVE  SummedUp(v)'
<1> DEFINE to == tgOrigin[v].at
           prev == PreviousReleaseTag(tgOrigin, to, v)
<1>1. /\ UNCHANGED <<tgCfg, tgMain, tgOrigin>> /\ tgOrigin[v] # NoTag
      /\ tgNotes'[v] = ParseCommits(tgOrigin, prev, to)
  BY DEF TgRelease, IInv, CommandsOK, GenerateNotes
<1>2. DOMAIN tgOrigin = TgVersions /\ tgOrigin \in TagsUpTo(Len(tgMain)) /\ Len(tgMain) \in Nat
  BY DEF IInv, TagsOK, TagsUpTo, LineOK
<1> HIDE DEF to, prev
<1>3. ASSUME prev # TgNone
      PROVE  /\ prev \in TgVersions /\ tgOrigin[prev] # NoTag /\ IsReleaseTag(prev) /\ prev # v
             /\ tgOrigin[prev].at <= to /\ tgOrigin[prev].at \in Nat
  <2>1. prev \in TgVersions /\ tgOrigin[prev] # NoTag /\ IsReleaseTag(prev) /\ prev # v
        /\ tgOrigin[prev].at <= to
    BY <1>2, <1>3, PreviousIs DEF prev
  <2> QED BY <1>2, <2>1, TagIs
<1>4. \E b \in Nat : Boundary(v, b) /\ ParseCommitLog(tgOrigin, prev, to) = b + 1 .. to
  <2>1. CASE prev = TgNone
    <3>1. TgNone \notin TgVersions
      <4>1. \A u \in TgVersions : Len(u) = 4
        BY TgAssumption
      <4>2. Len(TgNone) = 0
        BY DEF TgNone
      <4> QED BY <4>1, <4>2
    <3>2. prev \notin Tagged(tgOrigin)
      BY <1>2, <2>1, <3>1 DEF Tagged
    <3>3. ParseCommitLog(tgOrigin, prev, to) = 0 + 1 .. to
      BY <2>1, <3>2 DEF ParseCommitLog
    <3> QED BY <3>3 DEF Boundary
  <2>2. CASE prev # TgNone
    <3>1. prev \in Tagged(tgOrigin)
      BY <1>2, <1>3, <2>2 DEF Tagged
    <3>2. ParseCommitLog(tgOrigin, prev, to) = tgOrigin[prev].at + 1 .. to
      BY <2>2, <3>1 DEF ParseCommitLog
    <3>3. Boundary(v, tgOrigin[prev].at)
      BY <1>3, <2>2 DEF Boundary, to
    <3> QED BY <1>3, <2>2, <3>2, <3>3
  <2> QED BY <2>1, <2>2
<1>5. PICK b \in Nat : Boundary(v, b) /\ ParseCommitLog(tgOrigin, prev, to) = b + 1 .. to
  BY <1>4
<1>6. \A k \in b + 1 .. to : tgMain[k] # "empty" => k \in tgNotes'[v]
  BY <1>1, <1>5 DEF ParseCommits
<1>7. Boundary(v, b)'
  BY <1>1, <1>5 DEF Boundary, IsReleaseTag
<1>8. \A k \in b + 1 .. tgOrigin'[v].at : tgMain'[k] # "empty" => k \in tgNotes'[v]
  BY <1>1, <1>6 DEF to
<1> QED BY <1>1, <1>7, <1>8 DEF SummedUp

(* Every step keeps plans, cut tags and notes right.                        *)
LEMMA StepKeeps ==
  ASSUME IInv, TgNext
  PROVE  (\A c \in TgClones : PlannedAt(c)' /\ CutAt(c)') /\ (\A v \in TgVersions : SummedUp(v)')
<1>0. /\ Grows /\ tgHead' \in [TgClones -> 1 .. Len(tgMain')] /\ tgMain' \in Seq(Kinds)
      /\ CommandsOK
  BY StepTypes DEF TagsOK, LineOK, IInv
<1>1. ASSUME NEW c \in TgClones, tgNotes' = tgNotes, PlannedAt(c)' /\ CutAt(c)',
             \A d \in TgClones : d # c => tgPlan'[d] = tgPlan[d] /\ tgAt'[d] = tgAt[d]
      PROVE  (\A d \in TgClones : PlannedAt(d)' /\ CutAt(d)') /\ (\A v \in TgVersions : SummedUp(v)')
  <2>1. ASSUME NEW d \in TgClones, d # c PROVE PlannedAt(d)' /\ CutAt(d)'
    <3>1. tgPlan'[d] = tgPlan[d] /\ tgAt'[d] = tgAt[d]
      BY <1>1, <2>1
    <3> QED BY <1>0, <3>1, PlannedStays, CutStays
  <2>2. ASSUME NEW v \in TgVersions PROVE SummedUp(v)'
    BY <1>0, <1>1, SummedStays
  <2> QED BY <1>1, <2>1, <2>2
<1>2. ASSUME NEW c \in TgClones, NEW req \in TgRequests, TgRun(c, req)
      PROVE  (\A d \in TgClones : PlannedAt(d)' /\ CutAt(d)') /\ (\A v \in TgVersions : SummedUp(v)')
  <2>1. UNCHANGED <<tgMain, tgHead, tgNotes>>
    BY <1>2 DEF TgRun, TgOthers
  <2>2. Plans(c)
    BY <1>2, RunPlans
  <2>3. \A d \in TgClones : d # c => tgPlan'[d] = tgPlan[d] /\ tgAt'[d] = tgAt[d]
    BY <1>0, <2>2 DEF Plans, TgEnd, CommandsOK
  <2>4. PlannedAt(c)' /\ CutAt(c)'
    <3>1. CASE TgEnd(c)
      BY <3>1, EndedPlanned
    <3>2. ASSUME NEW plan, tgAt' = [tgAt EXCEPT ![c] = "create"], tgPlan' = [tgPlan EXCEPT ![c] = plan],
                 plan.next \in TgVersions, plan.tip \in 1 .. tgHead[c],
                 plan.at = ResolveReleasableCommit(plan.tip)
          PROVE  PlannedAt(c)' /\ CutAt(c)'
      <4>1. tgAt'[c] = "create" /\ tgPlan'[c] = plan
        BY <1>0, <3>2 DEF CommandsOK
      <4>2. plan.tip \in Nat /\ plan.tip >= 1
        BY <3>2, <1>0 DEF IInv, TagsOK
      <4>3. /\ plan.at \in 1 .. plan.tip
            /\ \/ tgMain[plan.at] # "gen"
               \/ \A k \in 1 .. plan.tip : k > plan.tip - TgMaxWalk => tgMain[k] = "gen"
        BY <3>2, <4>2, ReleasableIs
      <4> QED BY <2>1, <3>2, <4>1, <4>3 DEF PlannedAt, CutAt, Working
    <3> QED BY <2>2, <3>1, <3>2 DEF Plans
  <2> QED BY <1>1, <2>1, <2>3, <2>4
<1>3. ASSUME NEW c \in TgClones, TgCreate(c)
      PROVE  (\A d \in TgClones : PlannedAt(d)' /\ CutAt(d)') /\ (\A v \in TgVersions : SummedUp(v)')
  <2> DEFINE plan == tgPlan[c]
             tag == CreateAnnotatedTag(c, plan)
  <2>1. tgNotes' = tgNotes /\ tgAt[c] = "create"
    BY <1>3 DEF TgCreate, TgOthers
  <2>2. TgEnd(c) \/ (tag # NoTag /\ tgTags' = [tgTags EXCEPT ![c][plan.next] = tag]
                       /\ tgAt' = [tgAt EXCEPT ![c] = "push"] /\ UNCHANGED tgPlan)
    BY <1>3 DEF TgCreate
  <2>3. \A d \in TgClones : d # c => tgPlan'[d] = tgPlan[d] /\ tgAt'[d] = tgAt[d]
    BY <1>0, <2>2 DEF TgEnd, CommandsOK
  <2>4. CASE TgEnd(c)
    BY <1>1, <2>1, <2>3, <2>4, EndedPlanned
  <2>5. CASE tag # NoTag /\ tgTags' = [tgTags EXCEPT ![c][plan.next] = tag]
             /\ tgAt' = [tgAt EXCEPT ![c] = "push"] /\ UNCHANGED tgPlan
    <3>1. tag.at = plan.at
      BY <2>1, <2>5, CreatedTag
    <3>2. plan.next \in TgVersions
      BY <2>1 DEF IInv, PlannedAt, Working
    <3> HIDE DEF tag
    <3>3. tgTags'[c][plan.next] = tag
      BY <2>5, <3>2 DEF IInv, TagsOK, TagsUpTo
    <3>4. tgAt'[c] = "push" /\ tgPlan'[c] = plan
      BY <1>0, <2>5 DEF CommandsOK
    <3>5. PlannedAt(c)'
      BY <1>0, <2>1, <3>4, PlannedStays DEF Working
    <3>6. CutAt(c)'
      BY <3>1, <3>3, <3>4 DEF CutAt
    <3> QED BY <1>1, <2>1, <2>3, <3>5, <3>6
  <2> QED BY <2>2, <2>4, <2>5
<1>4. ASSUME NEW c \in TgClones, TgPush(c)
      PROVE  (\A d \in TgClones : PlannedAt(d)' /\ CutAt(d)') /\ (\A v \in TgVersions : SummedUp(v)')
  <2> DEFINE v == tgPlan[c].next
  <2>1. tgNotes' = tgNotes /\ tgAt[c] = "push" /\ UNCHANGED tgTags
    BY <1>4 DEF TgPush, TgOthers
  <2>2. TgEnd(c) \/ (tgOrigin' = [tgOrigin EXCEPT ![v] = tgTags[c][v]]
                       /\ tgAt' = [tgAt EXCEPT ![c] = "pushed"] /\ UNCHANGED tgPlan)
    BY <1>4 DEF TgPush
  <2>3. \A d \in TgClones : d # c => tgPlan'[d] = tgPlan[d] /\ tgAt'[d] = tgAt[d]
    BY <1>0, <2>2 DEF TgEnd, CommandsOK
  <2>4. CASE TgEnd(c)
    BY <1>1, <2>1, <2>3, <2>4, EndedPlanned
  <2>5. CASE tgOrigin' = [tgOrigin EXCEPT ![v] = tgTags[c][v]]
             /\ tgAt' = [tgAt EXCEPT ![c] = "pushed"] /\ UNCHANGED tgPlan
    <3>1. v \in TgVersions /\ tgTags[c][v].at = tgPlan[c].at
      BY <2>1 DEF IInv, PlannedAt, CutAt, Working
    <3>2. tgOrigin'[v] = tgTags[c][v]
      BY <2>5, <3>1 DEF IInv, TagsOK, TagsUpTo
    <3>3. tgAt'[c] = "pushed" /\ tgPlan'[c] = tgPlan[c]
      BY <1>0, <2>5 DEF CommandsOK
    <3>4. PlannedAt(c)'
      BY <1>0, <2>1, <3>3, PlannedStays DEF Working
    <3>5. CutAt(c)'
      BY <3>1, <3>2, <3>3 DEF CutAt
    <3> QED BY <1>1, <2>1, <2>3, <3>4, <3>5
  <2> QED BY <2>2, <2>4, <2>5
<1>5. ASSUME UNCHANGED <<tgAt, tgPlan>>
      PROVE  \A d \in TgClones : PlannedAt(d)' /\ CutAt(d)'
  BY <1>0, <1>5, PlannedStays, CutStays
<1>6. ASSUME UNCHANGED <<tgAt, tgPlan, tgNotes>>
      PROVE  (\A d \in TgClones : PlannedAt(d)' /\ CutAt(d)') /\ (\A v \in TgVersions : SummedUp(v)')
  BY <1>0, <1>5, <1>6, SummedStays
<1>7. ASSUME NEW v \in TgVersions, TgRelease(v)
      PROVE  (\A d \in TgClones : PlannedAt(d)' /\ CutAt(d)') /\ (\A w \in TgVersions : SummedUp(w)')
  <2>1. UNCHANGED <<tgAt, tgPlan>> /\ \A w \in TgVersions : w # v => tgNotes'[w] = tgNotes[w]
    BY <1>0, <1>7 DEF TgRelease, CommandsOK
  <2>2. \A w \in TgVersions : w # v => SummedUp(w)'
    BY <1>0, <2>1, SummedStays
  <2>3. SummedUp(v)'
    BY <1>7, ReleaseSums
  <2> QED BY <1>5, <2>1, <2>2, <2>3
<1>8. ASSUME NEW c \in TgClones, TgFetch(c) PROVE UNCHANGED <<tgAt, tgPlan, tgNotes>>
  BY <1>8 DEF TgFetch
<1>9. ASSUME NEW v \in TgVersions, NEW k \in 1 .. Len(tgMain), TgHand(v, k) PROVE UNCHANGED <<tgAt, tgPlan, tgNotes>>
  BY <1>9 DEF TgHand
<1>10. ASSUME TgCommit PROVE UNCHANGED <<tgAt, tgPlan, tgNotes>>
  BY <1>10 DEF TgCommit
<1> QED BY <1>2, <1>3, <1>4, <1>6, <1>7, <1>8, <1>9, <1>10 DEF TgNext

LEMMA StepInv == IInv /\ [TgNext]_tgVars => IInv'
<1> SUFFICES ASSUME IInv, [TgNext]_tgVars PROVE IInv'
  OBVIOUS
<1>1. CASE TgNext
  BY <1>1, StepTypes, StepKeeps DEF IInv
<1>2. CASE UNCHANGED tgVars
  BY <1>2 DEF tgVars, IInv, LineOK, TagsOK, CommandsOK, TagsUpTo, PlannedAt, CutAt, SummedUp, Boundary, IsReleaseTag
<1> QED BY <1>1, <1>2

THEOREM Invariance == TgSpec => []IInv
BY InitInv, StepInv, PTL DEF TgSpec

-----------------------------------------------------------------------------
(* What follows *)

(* Once every release has its notes, the lowest release that has a commit   *)
(* lists it: its boundary is a lower release, which does not have it.       *)
LEMMA NotesOmitNothing == IInv => NothingOmitted
<1> DEFINE releases == {v \in Tagged(tgOrigin) : IsReleaseTag(v)}
<1> SUFFICES ASSUME IInv, \A v \in releases : tgNotes[v] # NoNotes,
                    \A v, w \in releases : v # w => tgOrigin[v].at # tgOrigin[w].at,
                    NEW v \in releases, NEW k \in 1 .. tgOrigin[v].at, tgMain[k] # "empty"
             PROVE  \E w \in releases : k \in tgNotes[w]
  BY DEF NothingOmitted
<1>1. \A w \in releases : w \in TgVersions /\ tgOrigin[w] # NoTag /\ tgOrigin[w].at \in Nat
  <2>1. tgOrigin \in TagsUpTo(Len(tgMain)) /\ Len(tgMain) \in Nat
    BY DEF IInv, TagsOK, LineOK
  <2>2. \A w \in releases : w \in TgVersions /\ tgOrigin[w] # NoTag
    BY <2>1 DEF Tagged, TagsUpTo
  <2> QED BY <2>1, <2>2, TagIs
<1>2. \A w \in TgVersions : tgOrigin[w] # NoTag /\ IsReleaseTag(w) => w \in releases
  BY DEF Tagged, IInv, TagsOK, TagsUpTo
<1>3. \A w \in releases : SummedUp(w)
  BY <1>1 DEF IInv
<1> HIDE DEF releases
<1> DEFINE above == {tgOrigin[w].at : w \in {w \in releases : k <= tgOrigin[w].at}}
<1>4. PICK m \in above : \A n \in above : m <= n
  <2>1. above \in SUBSET Nat /\ above # {}
    BY <1>1
  <2> HIDE DEF above
  <2> QED BY <2>1, LeastNat
<1>5. PICK w \in releases : k <= tgOrigin[w].at /\ tgOrigin[w].at = m
  BY <1>4
<1>6. PICK b \in Nat : /\ Boundary(w, b)
                       /\ \A n \in b + 1 .. tgOrigin[w].at : tgMain[n] # "empty" => n \in tgNotes[w]
  BY <1>3 DEF SummedUp
<1>7. k \in Nat /\ k >= 1
  BY <1>1
<1>8. b < k
  <2>1. CASE b = 0
    BY <1>7, <2>1
  <2>2. CASE b # 0
    <3>1. PICK u \in TgVersions : /\ u # w /\ tgOrigin[u] # NoTag /\ IsReleaseTag(u)
                                  /\ tgOrigin[u].at = b /\ b <= tgOrigin[w].at
      BY <1>6, <2>2 DEF Boundary
    <3>2. u \in releases /\ b # m
      BY <1>2, <1>5, <3>1
    <3>3. k <= b => b \in above
      BY <3>1, <3>2
    <3>4. k <= b => m <= b
      BY <1>4, <3>3
    <3> QED BY <1>1, <1>5, <1>7, <3>1, <3>2, <3>4
  <2> QED BY <2>1, <2>2
<1>9. k \in b + 1 .. tgOrigin[w].at
  BY <1>1, <1>5, <1>7, <1>8
<1> QED BY <1>5, <1>6, <1>9

LEMMA IInvKeeps == IInv => TgTypeOK /\ PushedIsPlanned /\ CutWhereItBuilds
<1> SUFFICES ASSUME IInv PROVE TgTypeOK /\ PushedIsPlanned /\ CutWhereItBuilds
  OBVIOUS
<1>1. PushedIsPlanned
  BY DEF IInv, CutAt, PushedIsPlanned
<1>2. CutWhereItBuilds
  BY DEF IInv, PlannedAt, Working, CutWhereItBuilds
<1>3. \A c \in TgClones : tgPlan[c] # NoPlan => tgPlan[c].next \in TgVersions /\ tgPlan[c].at \in 1 .. tgHead[c]
  <2> SUFFICES ASSUME NEW c \in TgClones, tgPlan[c] # NoPlan
               PROVE  tgPlan[c].next \in TgVersions /\ tgPlan[c].at \in 1 .. tgHead[c]
    OBVIOUS
  <2>1. tgPlan[c].next \in TgVersions /\ tgPlan[c].tip \in 1 .. tgHead[c] /\ tgPlan[c].at \in 1 .. tgPlan[c].tip
    BY DEF IInv, PlannedAt
  <2>2. tgHead[c] \in Nat
    BY DEF IInv, TagsOK, LineOK
  <2> QED BY <2>1, <2>2
<1>4. TgTypeOK
  BY <1>3 DEF IInv, LineOK, TagsOK, CommandsOK, TagsUpTo, Kinds, TgTypeOK
<1> QED BY <1>1, <1>2, <1>4

(* Whatever clones and hands race for: what `stagefreight tag` says it      *)
(* pushed is what it planned, on a commit that builds, no change is left    *)
(* out of the notes and no tag ever moves.                                  *)
THEOREM TagsKept == TgSpec => TaggingKeeps
<1>1. IInv => TgTypeOK /\ PushedIsPlanned /\ CutWhereItBuilds /\ NothingOmitted
  BY IInvKeeps, NotesOmitNothing
<1>2. IInv /\ [TgNext]_tgVars =>
        [\A v \in TgVersions : /\ (tgOrigin[v] # NoTag => tgOrigin'[v] = tgOrigin[v])
                               /\ \A c \in TgClones : tgTags[c][v] # NoTag => tgTags'[c][v] = tgTags[c][v]]_tgVars
  BY StepTypes DEF Grows
<1> QED BY Invariance, <1>1, <1>2, PTL DEF TgSpec, TaggingKeeps, TagNeverMoves

=============================================================================
