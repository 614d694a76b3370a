----------------------------- MODULE MirrorSync ------------------------------
(***************************************************************************)
(* Mirror synchronisation (cli/cmd/ci_runners.go syncMirrorsWithMode): one *)
(* pass after another clones the primary, lists the mirror, pushes refs    *)
(* (sync/git_mirror.go, mirror/refs.go) and converges releases             *)
(* (mirror/release.go), then trims the mirror's release channel            *)
(* (retention/retention.go), while people work on both forges and calls    *)
(* fail.                                                                   *)
(* Commits of the primary are numbered along its only line of history.     *)
(***************************************************************************)
EXTENDS Naturals, Sequences, FiniteSets, SequencesExt

CONSTANTS
  MiCommits,     \* commits the primary may get
  MiPasses,      \* passes
  MiEvents       \* failed calls and edits of people at either forge

ASSUME MirrorAssumption == MiCommits \in Nat \ {0} /\ MiPasses \in Nat \ {0} /\ MiEvents \in Nat

VARIABLES
  miCfg,       \* facets: force, prune, the match glob that is the ownership boundary,
               \* and retain: a release channel whose tag template covers RelTags, keep_last 1
  srcRefs,     \* the primary's refs: commit, 0 when absent
  dstRefs,     \* the mirror's refs
  srcRel,      \* the primary's releases, by tag
  dstRel,      \* the mirror's releases, by tag
  kept,        \* descriptions preserved before a release was adopted
  miPc, at,    \* label of the pass, the tag it is at
  clone,       \* refs of the bare clone
  seenRefs,    \* the mirror's refs as listed
  desired,     \* the releases of the primary as listed, each with the commit of its tag
  seenRel,     \* the mirror's releases as listed
  degraded,    \* the pass reported something that did not replicate
  half,        \* ghost: tags whose release got its marker and then failed an upload or a link
  moved,       \* ghost: refs somebody moved at the mirror after the listing of this pass
  miPasses, miEvents

passVars == <<miPc, at, clone, seenRefs, desired, seenRel, degraded>>
forges == <<srcRefs, dstRefs, srcRel, dstRel, kept>>
mirrorVars == <<miCfg, forges, passVars, half, moved, miPasses, miEvents>>

Heads == {"main", "feature", "gh-pages"}
RelTags == {"v1", "v2"}
Tags == RelTags \cup {"latest"}
Refs == Heads \cup Tags
\* A contributor's commit at the mirror, which the clone does not have.
Foreign == MiCommits + 1
MiCommit == 0..Foreign

NoRel == [here |-> FALSE, fp |-> 0, body |-> 0, asset |-> 0, link |-> FALSE, prose |-> FALSE]
\* match: all heads and tags, or none declared.
MiConfigs == [force : BOOLEAN, prune : BOOLEAN, match : BOOLEAN, git : BOOLEAN, retain : BOOLEAN]

-----------------------------------------------------------------------------
MiEvent == miEvents < MiEvents /\ miEvents' = miEvents + 1
MiOk == UNCHANGED miEvents

MirrorInit ==
  /\ miCfg \in MiConfigs
  /\ srcRefs = [r \in Refs |-> IF r \in {"main", "v1", "latest"} THEN 1 ELSE 0]
  /\ dstRefs = [r \in Refs |-> IF r = "gh-pages" THEN Foreign ELSE 0]
  /\ srcRel = [t \in RelTags |-> IF t = "v1" THEN [here |-> TRUE, body |-> 1, asset |-> 1]
                                 ELSE [here |-> FALSE, body |-> 1, asset |-> 1]]
  /\ dstRel \in [RelTags -> {NoRel}] \cup
       {[t \in RelTags |-> IF t = "v1" THEN [NoRel EXCEPT !.here = TRUE, !.prose = TRUE] ELSE NoRel]}
  /\ kept = {}
  /\ miPc = "idle" /\ at = <<>>
  /\ clone = srcRefs
  /\ seenRefs = dstRefs
  /\ desired = [t \in RelTags |-> [here |-> FALSE, body |-> 1, asset |-> 1, ref |-> 0]]
  /\ seenRel = [t \in RelTags |-> NoRel]
  /\ degraded = FALSE
  /\ half = {}
  /\ moved = {}
  /\ miPasses = 0
  /\ miEvents = 0

-----------------------------------------------------------------------------
(* People at the two forges *)

\* Development on the primary: a commit, the rolling tag follows, a tag with its release.
Develop ==
  /\ srcRefs["main"] < MiCommits
  /\ MiEvent
  /\ srcRefs' = [srcRefs EXCEPT !["main"] = @ + 1, !["latest"] = srcRefs["main"] + 1]
  /\ UNCHANGED <<miCfg, dstRefs, srcRel, dstRel, kept, passVars, half, moved, miPasses>>

CutRelease ==
  /\ ~srcRel["v2"].here
  /\ MiEvent
  /\ srcRefs' = [srcRefs EXCEPT !["v2"] = srcRefs["main"]]
  /\ srcRel' = [srcRel EXCEPT !["v2"].here = TRUE]
  /\ UNCHANGED <<miCfg, dstRefs, dstRel, kept, passVars, half, moved, miPasses>>

EditRelease(t) ==
  /\ srcRel[t].here
  /\ MiEvent
  /\ \/ srcRel' = [srcRel EXCEPT ![t].body = 2]
     \/ srcRel' = [srcRel EXCEPT ![t].asset = 2]
  /\ srcRel' # srcRel
  /\ UNCHANGED <<miCfg, srcRefs, dstRefs, dstRel, kept, passVars, half, moved, miPasses>>

\* The primary drops a release and its tag.
DropRelease(t) ==
  /\ srcRel[t].here
  /\ MiEvent
  /\ srcRel' = [srcRel EXCEPT ![t].here = FALSE]
  /\ srcRefs' = [srcRefs EXCEPT ![t] = 0]
  /\ UNCHANGED <<miCfg, dstRefs, dstRel, kept, passVars, half, moved, miPasses>>

\* A contributor pushes to a branch of the mirror.
Contribute(r) ==
  /\ r \in {"main", "feature"}
  /\ dstRefs[r] # Foreign
  /\ MiEvent
  /\ dstRefs' = [dstRefs EXCEPT ![r] = Foreign]
  /\ moved' = moved \cup {r}
  /\ UNCHANGED <<miCfg, srcRefs, srcRel, dstRel, kept, passVars, half, miPasses>>

\* Somebody adds prose around the managed block of a release of the mirror, between passes.
AddProse(t) ==
  /\ miPc = "idle"
  /\ dstRel[t].here /\ ~dstRel[t].prose
  /\ MiEvent
  /\ dstRel' = [dstRel EXCEPT ![t].prose = TRUE]
  /\ UNCHANGED <<miCfg, srcRefs, dstRefs, srcRel, kept, passVars, half, moved, miPasses>>

-----------------------------------------------------------------------------
(* MirrorPush *)

StartPass ==
  /\ miPc = "idle"
  /\ miPasses < MiPasses
  /\ miPasses' = miPasses + 1
  /\ miPc' = IF miCfg.git THEN "clone" ELSE "source"
  /\ degraded' = FALSE
  /\ moved' = {}
  /\ UNCHANGED <<miCfg, forges, at, clone, seenRefs, desired, seenRel, half, miEvents>>

\* Origin URL, credentials, clone and remote: a failure of any degrades the git
\* facet and leaves the releases facet to run.
CloneOrigin ==
  /\ miPc = "clone"
  /\ \/ clone' = srcRefs /\ miPc' = "list" /\ MiOk /\ UNCHANGED degraded
     \/ MiEvent /\ degraded' = TRUE /\ miPc' = "source" /\ UNCHANGED clone
  /\ UNCHANGED <<miCfg, forges, at, seenRefs, desired, seenRel, half, moved, miPasses>>

listRemoteRefs ==
  /\ miPc = "list"
  /\ \/ seenRefs' = dstRefs /\ miPc' = "push" /\ moved' = {} /\ MiOk /\ UNCHANGED degraded
     \/ MiEvent /\ degraded' = TRUE /\ miPc' = "source" /\ UNCHANGED <<seenRefs, moved>>
  /\ UNCHANGED <<miCfg, forges, at, clone, desired, seenRel, half, miPasses>>

\* Mutant: commits the clone does not have count as ancestors.
isAncestorByDefault(a, b) == a <= b \/ a = Foreign

\* Ancestry over peeled commits; a commit the clone does not have is no ancestor.
isAncestor(a, b) == a <= b

\* The ownership boundary of prune: the match glob, never gh-pages.
inScope(r) == miCfg.match /\ r # "gh-pages"

\* PlanRefs with the rolling aliases forced, and the refspecs facetRefSpecs makes of it.
Create == {r \in Refs : clone[r] # 0 /\ seenRefs[r] = 0}
Differing == {r \in Refs : clone[r] # 0 /\ seenRefs[r] # 0 /\ clone[r] # seenRefs[r]}
Forced == {r \in Differing : miCfg.force \/ r = "latest"}
Verified == {r \in Differing \ Forced : isAncestor(seenRefs[r], clone[r])}
Diverged == Differing \ (Forced \cup Verified)
Prune == {r \in Refs : miCfg.prune /\ clone[r] = 0 /\ seenRefs[r] # 0 /\ inScope(r)}
Plus == Forced \cup Verified \cup (IF miCfg.force THEN Create ELSE {})

\* A diverged ref is not sent.
pushSpecs == Create \cup Forced \cup Verified

\* One push of all refspecs.  A refspec without "+" whose ref is no ancestor by then
\* fails the whole push.
PushRefs ==
  /\ miPc = "push"
  /\ LET refused == {r \in pushSpecs \ Plus : dstRefs[r] # 0 /\ ~isAncestor(dstRefs[r], clone[r])}
     IN \/ /\ refused = {}
           /\ dstRefs' = [r \in Refs |-> IF r \in Prune THEN 0 ELSE IF r \in pushSpecs THEN clone[r] ELSE dstRefs[r]]
           /\ degraded' = (Diverged # {})
           /\ MiOk
        \/ /\ IF refused = {} THEN MiEvent ELSE MiOk
           /\ degraded' = TRUE
           /\ UNCHANGED dstRefs
  /\ miPc' = "source"
  /\ UNCHANGED <<miCfg, srcRefs, srcRel, dstRel, kept, at, clone, seenRefs, desired, seenRel, half, moved, miPasses>>

-----------------------------------------------------------------------------
(* ReconcileReleases *)

AfterPass == miPc' = "idle" /\ at' = <<>>
\* The retention step follows, unless the pass left the mirror with an error before it.
ThenRetain == miPc' = (IF miCfg.retain THEN "retain" ELSE "idle") /\ at' = <<>>

\* The primary's releases, their assets and the commit of each tag; without a
\* release at the primary, or with a failed listing, nothing is converged; retention
\* runs all the same, unless it is the desired set that failed.  A tag that
\* does not resolve in the worktree leaves its commit open.
DesiredFromReleases ==
  /\ miPc = "source"
  /\ \/ /\ \E t \in RelTags : srcRel[t].here
        /\ \E resolved \in BOOLEAN :
             /\ desired' = [t \in RelTags |-> [here |-> srcRel[t].here, body |-> srcRel[t].body, asset |-> srcRel[t].asset,
                                               ref |-> IF resolved THEN srcRefs[t] ELSE 0]]
             /\ IF resolved THEN MiOk ELSE MiEvent
        /\ miPc' = "current"
        /\ UNCHANGED <<at, degraded>>
     \/ (\A t \in RelTags : ~srcRel[t].here) /\ ThenRetain /\ MiOk /\ UNCHANGED <<desired, degraded>>
     \/ MiEvent /\ degraded' = TRUE /\ (ThenRetain \/ AfterPass) /\ UNCHANGED desired
  /\ UNCHANGED <<miCfg, forges, clone, seenRefs, seenRel, half, moved, miPasses>>

ListMirrorReleases ==
  /\ miPc = "current"
  /\ \/ seenRel' = dstRel /\ miPc' = "release" /\ MiOk /\ UNCHANGED degraded
          /\ at' = SetToSeq({t \in RelTags : desired[t].here})
     \/ MiEvent /\ degraded' = TRUE /\ AfterPass /\ UNCHANGED seenRel
  /\ UNCHANGED <<miCfg, forges, clone, seenRefs, desired, half, moved, miPasses>>

\* The hash of all that is converged: notes, channel, assets and links.
fingerprint(d) == 10 * d.body + d.asset

NextRelease ==
  IF Len(at) > 1 THEN miPc' = "release" /\ at' = Tail(at)
  ELSE miPc' = "prune" /\ at' = SetToSeq({t \in RelTags : miCfg.prune /\ seenRel[t].here /\ ~desired[t].here})

ReleaseError == degraded' = TRUE /\ NextRelease

\* Mutant: a release with a marker is in sync, whatever its fingerprint.
InSyncMarked ==
  /\ miPc = "release"
  /\ seenRel[Head(at)].here /\ seenRel[Head(at)].fp # 0
  /\ NextRelease
  /\ UNCHANGED <<miCfg, forges, clone, seenRefs, desired, seenRel, degraded, half, moved, miPasses, miEvents>>

\* The mirror already has the marker with this fingerprint.
InSync ==
  /\ miPc = "release"
  /\ LET t == Head(at) IN
       /\ seenRel[t].here /\ seenRel[t].fp = fingerprint(desired[t])
       /\ NextRelease
  /\ UNCHANGED <<miCfg, forges, clone, seenRefs, desired, seenRel, degraded, half, moved, miPasses, miEvents>>

\* A forge that lacks the tag creates it at the commit named, which it must have, or
\* at the head of its default branch.
Anchor(t) == IF desired[t].ref = 0 THEN dstRefs["main"] ELSE desired[t].ref
CanCreate(t) ==
  \/ dstRefs[t] # 0
  \/ Anchor(t) # 0 /\ \E r \in Refs : dstRefs[r] # 0 /\ dstRefs[r] >= Anchor(t)

\* CreateRelease: the body carries the marker.
createOnMirror ==
  /\ miPc = "release"
  /\ LET t == Head(at) IN
       /\ ~seenRel[t].here
       /\ \/ /\ CanCreate(t)
             /\ dstRel' = [dstRel EXCEPT ![t] = [NoRel EXCEPT !.here = TRUE, !.fp = fingerprint(desired[t]), !.body = desired[t].body]]
             /\ dstRefs' = IF dstRefs[t] = 0 THEN [dstRefs EXCEPT ![t] = Anchor(t)] ELSE dstRefs
             /\ half' = half \cup {t}
             /\ miPc' = "asset"
             /\ MiOk
             /\ UNCHANGED <<degraded, at>>
          \/ /\ IF CanCreate(t) THEN MiEvent ELSE MiOk
             /\ ReleaseError
             /\ UNCHANGED <<dstRel, dstRefs, half>>
  /\ UNCHANGED <<miCfg, srcRefs, srcRel, kept, clone, seenRefs, desired, seenRel, moved, miPasses>>

\* PreserveAdopted: a release without a marker is saved before it is taken over;
\* when it cannot be saved it is left alone.
PreserveAdopted ==
  /\ miPc = "release"
  /\ LET t == Head(at) IN
       /\ seenRel[t].here /\ seenRel[t].fp = 0 /\ t \notin kept
       /\ \/ kept' = kept \cup {t} /\ MiOk /\ UNCHANGED <<miPc, at, degraded>>
          \/ MiEvent /\ ReleaseError /\ UNCHANGED kept
  /\ UNCHANGED <<miCfg, srcRefs, dstRefs, srcRel, dstRel, clone, seenRefs, desired, seenRel, half, moved, miPasses>>

Preserved(t) == seenRel[t].fp # 0 \/ t \in kept

\* The managed block is rewritten, prose around it stays; a body without markers
\* becomes the managed block.
replaceManaged(r, d) == [r EXCEPT !.fp = fingerprint(d), !.body = d.body, !.prose = @ /\ r.fp # 0]

updateOnMirror ==
  /\ miPc = "release"
  /\ LET t == Head(at) IN
       /\ seenRel[t].here /\ seenRel[t].fp # fingerprint(desired[t]) /\ Preserved(t)
       /\ \/ /\ dstRel' = [dstRel EXCEPT ![t] = replaceManaged(@, desired[t])]
             /\ half' = half \cup {t}
             /\ miPc' = "asset"
             /\ MiOk
             /\ UNCHANGED <<degraded, at>>
          \/ MiEvent /\ ReleaseError /\ UNCHANGED <<dstRel, half>>
  /\ UNCHANGED <<miCfg, srcRefs, dstRefs, srcRel, kept, clone, seenRefs, desired, seenRel, moved, miPasses>>

\* reconcileAssets: an asset that matches is left, a drifted one is deleted first.
reconcileAssets ==
  /\ miPc = "asset"
  /\ LET t == Head(at) IN
       \/ /\ dstRel' = [dstRel EXCEPT ![t].asset = desired[t].asset]
          /\ miPc' = "link"
          /\ MiOk
          /\ UNCHANGED <<degraded, at>>
       \/ /\ dstRel[t].asset # desired[t].asset
          /\ dstRel' \in {dstRel, [dstRel EXCEPT ![t].asset = 0]}
          /\ MiEvent
          /\ ReleaseError
  /\ UNCHANGED <<miCfg, srcRefs, dstRefs, srcRel, kept, clone, seenRefs, desired, seenRel, half, moved, miPasses>>

reconcileLinks ==
  /\ miPc = "link"
  /\ LET t == Head(at) IN
       \/ dstRel' = [dstRel EXCEPT ![t].link = TRUE] /\ half' = half \ {t} /\ MiOk /\ NextRelease /\ UNCHANGED degraded
       \/ MiEvent /\ ReleaseError /\ UNCHANGED <<dstRel, half>>
  /\ UNCHANGED <<miCfg, srcRefs, dstRefs, srcRel, kept, clone, seenRefs, desired, seenRel, moved, miPasses>>

\* Prune deletes marked releases that are not desired, and no others.
PruneReleases ==
  /\ miPc = "prune"
  /\ \/ at = <<>> /\ ThenRetain /\ MiOk /\ UNCHANGED <<dstRel, half, degraded>>
     \/ /\ at # <<>>
        /\ LET t == Head(at) IN
             \/ seenRel[t].fp = 0 /\ MiOk /\ UNCHANGED <<dstRel, half, degraded>>
             \/ /\ seenRel[t].fp # 0
                /\ dstRel' = [dstRel EXCEPT ![t] = NoRel]
                /\ half' = half \ {t}
                /\ MiOk /\ UNCHANGED degraded
             \/ seenRel[t].fp # 0 /\ MiEvent /\ degraded' = TRUE /\ UNCHANGED <<dstRel, half>>
        /\ at' = Tail(at)
        /\ UNCHANGED miPc
  /\ UNCHANGED <<miCfg, srcRefs, dstRefs, srcRel, kept, clone, seenRefs, desired, seenRel, moved, miPasses>>

\* applyChannelRetention on the mirror: of the releases the channel's template names,
\* marked or not, the newest is kept and the others go, each with its tag, as far as the
\* calls succeed.  The tag's deletion is best effort: its failure is not reported.
applyChannelRetention ==
  /\ miPc = "retain"
  /\ LET present == {t \in RelTags : dstRel[t].here}
     IN \/ /\ present = {}
           /\ MiOk
           /\ UNCHANGED <<dstRel, dstRefs, half, degraded>>
        \/ \E newest \in present : \E gone \in SUBSET (present \ {newest}) : \E untagged \in SUBSET gone :
             /\ dstRel' = [t \in RelTags |-> IF t \in gone THEN NoRel ELSE dstRel[t]]
             /\ dstRefs' = [r \in Refs |-> IF r \in untagged THEN 0 ELSE dstRefs[r]]
             /\ half' = half \ gone
             /\ degraded' = (degraded \/ gone # present \ {newest})
             /\ IF untagged = present \ {newest} THEN MiOk ELSE MiEvent
  /\ AfterPass
  /\ UNCHANGED <<miCfg, srcRefs, srcRel, kept, clone, seenRefs, desired, seenRel, moved, miPasses>>

\* The publish job dies in the middle of a pass.
PassKilled ==
  /\ miPc # "idle"
  /\ MiEvent
  /\ AfterPass
  /\ UNCHANGED <<miCfg, forges, clone, seenRefs, desired, seenRel, degraded, half, moved, miPasses>>

-----------------------------------------------------------------------------
MirrorStep ==
  \/ CloneOrigin \/ listRemoteRefs \/ PushRefs
  \/ DesiredFromReleases \/ ListMirrorReleases
  \/ InSync \/ createOnMirror \/ PreserveAdopted \/ updateOnMirror
  \/ reconcileAssets \/ reconcileLinks \/ PruneReleases
  \/ applyChannelRetention

MirrorNext ==
  \/ MirrorStep \/ StartPass \/ PassKilled
  \/ Develop \/ CutRelease
  \/ \E t \in RelTags : EditRelease(t) \/ DropRelease(t) \/ AddProse(t)
  \/ \E r \in Heads : Contribute(r)

\* Fairness: the next step of a pass.
MirrorSpec == MirrorInit /\ [][MirrorNext]_mirrorVars /\ WF_mirrorVars(MirrorStep)

-----------------------------------------------------------------------------
(* Properties *)

\* Type invariant of both forges and the pass.
MirrorTypeOK ==
  /\ miCfg \in MiConfigs
  /\ {srcRefs, dstRefs, clone, seenRefs} \subseteq [Refs -> MiCommit]
  /\ \A t \in RelTags : dstRel[t].body \in 0..2 /\ dstRel[t].asset \in 0..2
  /\ kept \cup half \cup Range(at) \subseteq RelTags
  /\ moved \subseteq Refs
  /\ miPasses \in 0..MiPasses /\ miEvents \in 0..MiEvents

\* No pass moves a ref of the mirror off work that is not in the primary's history
\* or takes it backward, unless force is set, the tag is a rolling alias, or the
\* work arrived between the listing and the push: what the plan proved a
\* fast-forward is pushed with "+", and the proof is as old as the listing.
KeepDivergent ==
  [][\A r \in Refs :
       miPc = "push" /\ dstRefs[r] # 0 /\ dstRefs'[r] \notin {0, dstRefs[r]} =>
         miCfg.force \/ r = "latest" \/ r \in moved \/ dstRefs[r] <= dstRefs'[r]]_mirrorVars

\* What belongs to others is not deleted: a ref outside the declared scope, the deploy
\* branch, and a release no pass has marked.  One step is outside this promise, the
\* channel retention a mirror that syncs releases gets at the end of a pass: it goes by
\* the tag template and asks for no marker and no prune.  It takes a tag only with its
\* release, never a branch, and never the last release.
ScopedRef(r) == miCfg.prune /\ miCfg.match /\ r # "gh-pages"
RetainedStep(t) == miPc = "retain" /\ miCfg.retain /\ \E u \in RelTags \ {t} : dstRel'[u].here
ForeignIsSacred ==
  [][/\ \A r \in Refs : dstRefs[r] # 0 /\ dstRefs'[r] = 0 =>
          \/ ScopedRef(r)
          \/ r \in RelTags /\ RetainedStep(r) /\ dstRel[r].here /\ ~dstRel'[r].here
     /\ \A t \in RelTags : dstRel[t].here /\ ~dstRel'[t].here =>
          (dstRel[t].fp # 0 /\ miCfg.prune) \/ RetainedStep(t)]_mirrorVars

\* The fingerprint fast path skips only releases that are converged, except those
\* whose upload or link failed, or whose pass died, after the marker was written.
FastPathHonest ==
  \A t \in RelTags :
    miPc = "release" /\ at # <<>> /\ Head(at) = t /\ seenRel[t].here /\ seenRel[t].fp = fingerprint(desired[t]) =>
      \/ t \in half
      \/ dstRel[t].body = desired[t].body /\ dstRel[t].asset = desired[t].asset /\ dstRel[t].link

\* Prose of people in a release of the mirror is lost only after a copy was kept, or
\* with a release that prune or the channel's retention deletes.
ProseKept ==
  [][\A t \in RelTags :
       dstRel[t].prose /\ ~dstRel'[t].prose => t \in kept \/ ~dstRel'[t].here]_mirrorVars

\* A tag the mirror got from a release names the commit the primary's tag named, also
\* when the push of refs failed before, if the worktree could resolve it.
ReleaseAtItsCommit ==
  [][\A t \in RelTags :
       miPc = "release" /\ dstRefs[t] = 0 /\ dstRefs'[t] # 0 => dstRefs'[t] = desired[t].ref \/ desired[t].ref = 0]_mirrorVars

\* A pass that starts when nothing fails any more and nobody interferes brings the
\* mirror's notes and tags to the primary's, unless refs have diverged, a release
\* was left half written behind its marker, or the channel's retention took it.
MirrorConverges ==
  (miPc = "clone" /\ miEvents = MiEvents) ~>
     /\ miPc = "idle"
     /\ \A r \in Refs : srcRefs[r] # 0 =>
          \/ dstRefs[r] = srcRefs[r] \/ degraded
          \/ miCfg.retain /\ r \in RelTags /\ dstRefs[r] = 0
     /\ \A t \in RelTags : srcRel[t].here =>
          \/ t \in half
          \/ dstRel[t].fp = fingerprint(srcRel[t]) /\ dstRel[t].asset = srcRel[t].asset
          \/ miCfg.retain /\ ~dstRel[t].here
     /\ (\E t \in RelTags : srcRel[t].here) => \E t \in RelTags : dstRel[t].here

\* What a mirror pass leaves true of the mirror: the fast path skips only
\* what is in sync, divergent refs and everything outside the mirror's scope
\* are left alone except by the channel's retention, prose written on the mirror is
\* kept, and a release stands at its commit (sync/git_mirror.go, mirror/release.go,
\* cli/cmd/release_create.go applyChannelRetention).
MirrorKeeps ==
  /\ [](MirrorTypeOK /\ FastPathHonest)
  /\ KeepDivergent
  /\ ForeignIsSacred
  /\ ProseKept
  /\ ReleaseAtItsCommit
=============================================================================
