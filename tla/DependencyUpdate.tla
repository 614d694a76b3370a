-------------------------- MODULE DependencyUpdate ---------------------------
(***************************************************************************)
(* dependency.Update and the commit of its result (dependency/update.go,   *)
(* cli/cmd/ci_runners.go runDependencyUpdateLogic). Versions are numbers.  *)
(* The repository has a Dockerfile (golang builder "img", a tool "tool"),  *)
(* a Go module (direct "dir", vulnerable indirect "ind", go directive      *)
(* "godir"), a package manifest "pkg" with its lock "plock", and a         *)
(* toolchain "tc" with its entry "lock" in the toolchain lock.             *)
(***************************************************************************)
EXTENDS Naturals, FiniteSets

CONSTANTS
  DuTop,       \* highest version anything has
  DuRuns,      \* update runs
  DuEvents     \* failed commands and edits

ASSUME DependencyAssumption == DuTop \in Nat \ {0, 1} /\ DuRuns \in Nat \ {0} /\ DuEvents \in Nat

VARIABLES
  duCfg,       \* what upstream offers and what the project declares
  disk,        \* versions in the worktree
  sha,         \* the toolchain lock holds a digest for its version
  head,        \* versions at HEAD
  duPc,
  cand,        \* candidates of the run
  edits,       \* Dockerfile edits that are planned: dependency -> version read
  planned,     \* Go version provisioned for the module
  snap,        \* saved go.mod of the parent trial
  applied,     \* updates reported as applied: <<name, new version, kind>>
  changed,     \* files reported as changed
  config,      \* a configuration error was reported
  outcome,     \* "none", "error", "ok", "rejected", "committed"
  left,        \* ghost: a batch of pins was given up after go get had written go.mod
  duRuns, duEvents

duRun == <<duPc, cand, edits, planned, snap, applied, changed, config, outcome, left>>
duVars == <<duCfg, disk, sha, head, duRun, duRuns, duEvents>>

Ver == 0..DuTop
Names == {"img", "tool", "dir", "ind", "godir", "pkg", "plock", "tc", "lock"}
FileOf(n) ==
  CASE n \in {"img", "tool"} -> "Dockerfile" [] n \in {"dir", "ind", "godir"} -> "go.mod"
    [] n = "pkg" -> "package.json" [] n = "plock" -> "package-lock.json"
    [] n = "tc" -> ".stagefreight.yml" [] n = "lock" -> "toolchains.lock"
Deps == {"img", "tool", "dir", "ind", "pkg", "tc"}
MaxOf(a, b) == IF a > b THEN a ELSE b

\* latest: newest compatible version, 0 unresolved; fixed: version that clears the
\* advisory of "ind", 0 none; minor: the ceiling; pulls, raises, needs: what version 2
\* of the direct dependency demands of "ind" and of Go, and what a pin demands of it;
\* oneLine: both Dockerfile versions share a line; wild: the toolchain follows a
\* wildcard and only its lock moves; tagged: the builder has a tag one can read.
DuConfigs ==
  [latest : [Deps -> Ver], fixed : Ver, minor : BOOLEAN, security : BOOLEAN, dry : BOOLEAN,
   pulls : BOOLEAN, raises : BOOLEAN, needs : BOOLEAN, oneLine : BOOLEAN, wild : BOOLEAN,
   held : BOOLEAN, tagged : BOOLEAN, commit : BOOLEAN]

DuEvent == duEvents < DuEvents /\ duEvents' = duEvents + 1
DuOk == UNCHANGED duEvents

-----------------------------------------------------------------------------
(* Candidates *)

VulnIndirect(d) == d = "ind"

\* Beyond the ceiling the newest version under it is taken; advisories and toolchains
\* are not held by it.
Target(d) ==
  IF duCfg.minor /\ d \notin {"ind", "tc"} /\ duCfg.latest[d] > 2 THEN 2 ELSE duCfg.latest[d]

\* The version a dependency is at: of a toolchain that follows a wildcard, what its lock says.
CurrentOf(d) == IF d = "tc" /\ duCfg.wild THEN disk["lock"] ELSE disk[d]

\* Why a dependency is not a candidate; a target that is older than what is there is none.
SkipReason(d) ==
  \/ ~VulnIndirect(d) /\ Target(d) \in {0, CurrentOf(d)}
  \/ duCfg.security /\ ~VulnIndirect(d)
  \/ d = "img" /\ ~duCfg.tagged

-----------------------------------------------------------------------------
DuFrom(label) ==
  /\ disk \in [Names -> {1}] \cup {[n \in Names |-> IF n = "godir" THEN 2 ELSE 1]}
                \cup {[n \in Names |-> IF n \in older THEN 2 ELSE 1] : older \in {{"img"}, {"tc", "lock"}}}
  /\ sha \in BOOLEAN /\ head = disk
  /\ duPc = label /\ cand = {} /\ edits = {} /\ planned = 0 /\ snap = <<>>
  /\ applied = {} /\ changed = {} /\ config = FALSE /\ outcome = "none" /\ left = FALSE
  /\ duRuns = 0 /\ duEvents = 0

DuInit == duCfg \in DuConfigs /\ DuFrom("start")

DuStay == UNCHANGED <<duCfg, head, duRuns>>

Fail ==
  /\ duPc' = "end" /\ outcome' = "error"
  /\ DuEvent /\ DuStay
  /\ UNCHANGED <<disk, sha, cand, edits, planned, snap, applied, changed, config, left>>

\* A worktree with changes is refused; then the candidates are chosen.
UpdateStart ==
  /\ duPc \in {"start", "end"} /\ duRuns < DuRuns
  /\ duRuns' = duRuns + 1
  /\ cand' = {d \in Deps : ~SkipReason(d)}
  /\ IF disk # head THEN duPc' = "end" /\ outcome' = "error"
                    ELSE duPc' = "docker" /\ outcome' = "none"
  /\ edits' = {} /\ planned' = 0 /\ snap' = <<>> /\ applied' = {} /\ changed' = {}
  /\ config' = FALSE /\ left' = FALSE
  /\ DuOk /\ UNCHANGED <<duCfg, disk, sha, head>>

\* A replacement is built for the line as it was read.
buildReplacement(d) == <<d, disk[d]>>

\* The lines of the Dockerfile are read and their replacements built.
DockerPlan ==
  /\ duPc = "docker" /\ ~duCfg.dry
  /\ edits' = {buildReplacement(d) : d \in cand \cap {"img", "tool"}}
  /\ duPc' = "dockerWrite"
  /\ DuOk /\ DuStay /\ UNCHANGED <<disk, sha, cand, planned, snap, applied, changed, config, outcome, left>>

\* A line that changed since it was read stops the run. Edits are kept per line: of two
\* on one line only one is written.
DockerWrite ==
  /\ duPc = "dockerWrite"
  /\ IF \E e \in edits : disk[e[1]] # e[2]
     THEN /\ duPc' = "end" /\ outcome' = "error"
          /\ UNCHANGED <<disk, applied, changed>>
     ELSE /\ duPc' = "plan" /\ UNCHANGED outcome
          /\ \E won \in (IF duCfg.oneLine /\ Cardinality(edits) = 2 THEN {{e} : e \in edits} ELSE {edits}) :
               disk' = [n \in Names |-> IF \E e \in won : e[1] = n THEN Target(n) ELSE disk[n]]
          /\ applied' = {<<e[1], Target(e[1]), "ordinary">> : e \in edits}
          /\ changed' = {FileOf(e[1]) : e \in edits}
  /\ DuOk /\ DuStay /\ UNCHANGED <<sha, cand, edits, planned, snap, config, left>>

\* The go directive should follow a builder that is newer.
SyncTarget == IF duCfg.tagged /\ disk["img"] > disk["godir"] THEN disk["img"] ELSE 0

\* One Go per module: the newer of its directive and the version it is synced to.
PlanGo ==
  /\ duPc = "plan"
  /\ planned' = MaxOf(disk["godir"], SyncTarget)
  /\ duPc' = "sync"
  /\ DuOk /\ DuStay /\ UNCHANGED <<disk, sha, cand, edits, snap, applied, changed, config, outcome, left>>

\* go mod edit, go mod tidy.
SyncDirective ==
  /\ duPc = "sync" /\ duPc' = "get"
  /\ IF SyncTarget # 0
     THEN /\ disk' = [disk EXCEPT !["godir"] = SyncTarget]
          /\ applied' = applied \cup {<<"godir", SyncTarget, "ordinary">>}
          /\ changed' = changed \cup {"go.mod"}
     ELSE UNCHANGED <<disk, applied, changed>>
  /\ DuOk /\ DuStay /\ UNCHANGED <<sha, cand, edits, planned, snap, config, outcome, left>>

\* What go get and go mod tidy make of go.mod when the direct dependency is at v and the
\* indirect one at least at i; a Go older than the directive refuses.
Module(d, v, i) ==
  [d EXCEPT !["dir"] = v,
            !["ind"] = MaxOf(i, IF duCfg.pulls /\ v >= 2 THEN 2 ELSE 1),
            !["godir"] = MaxOf(d["godir"], IF duCfg.raises /\ v >= 2 THEN 2 ELSE 1)]
GoRefuses(d) == d["godir"] > planned

\* go get of the ordinary updates of the module.
GoGet ==
  /\ duPc = "get"
  /\ IF "dir" \in cand
     THEN LET d == Module(disk, Target("dir"), disk["ind"]) IN
          IF GoRefuses(d)
          THEN duPc' = "end" /\ outcome' = "error" /\ UNCHANGED <<disk, applied, changed>>
          ELSE /\ duPc' = "trial" /\ UNCHANGED outcome
               /\ disk' = d
               /\ applied' = applied \cup {<<"dir", Target("dir"), "ordinary">>}
               /\ changed' = changed \cup {"go.mod"}
     ELSE duPc' = "trial" /\ UNCHANGED <<disk, applied, changed, outcome>>
  /\ DuOk /\ DuStay /\ UNCHANGED <<sha, cand, edits, planned, snap, config, left>>

\* The advisory names a fixed version, and the direct dependency that pulls the module
\* in had another version to offer when the run began.
ResponsibleParent == "ind" \in cand /\ duCfg.fixed # 0 /\ Target("dir") \notin {0, head["dir"]}

\* An advisory of an indirect dependency: its parent is bumped on trial, if it can be.
TryParentBump ==
  /\ duPc = "trial" /\ ResponsibleParent
  /\ snap' = disk
  /\ LET d == Module(disk, Target("dir"), disk["ind"]) IN disk' = IF GoRefuses(d) THEN disk ELSE d
  /\ duPc' = "judge"
  /\ DuOk /\ DuStay /\ UNCHANGED <<sha, cand, edits, planned, applied, changed, config, outcome, left>>

JudgeTrialFromHead ==
  /\ duPc = "judge"
  /\ disk' = [n \in Names |-> IF FileOf(n) = "go.mod" THEN head[n] ELSE disk[n]]
  /\ duPc' = "pin" /\ snap' = <<>>
  /\ DuOk /\ DuStay /\ UNCHANGED <<sha, cand, edits, planned, applied, changed, config, outcome, left>>

\* A trial that does not clear the advisory, or whose go mod tidy fails, is undone.
JudgeTrial ==
  /\ duPc = "judge"
  /\ \/ /\ disk["ind"] >= duCfg.fixed /\ DuOk
        /\ applied' = applied \cup {<<"ind", disk["ind"], "security">>}
        /\ changed' = changed \cup {"go.mod"}
        /\ duPc' = "tools" /\ UNCHANGED disk
     \/ /\ disk["ind"] < duCfg.fixed /\ DuOk
        /\ disk' = snap /\ duPc' = "pin" /\ UNCHANGED <<applied, changed>>
     \/ /\ DuEvent
        /\ disk' = snap /\ duPc' = "pin" /\ UNCHANGED <<applied, changed>>
  /\ snap' = <<>>
  /\ DuStay /\ UNCHANGED <<sha, cand, edits, planned, config, outcome, left>>

SkipTrial ==
  /\ duPc = "trial"
  /\ ~ResponsibleParent
  /\ duPc' = IF "ind" \in cand /\ duCfg.fixed # 0 THEN "pin" ELSE "tools"
  /\ DuOk /\ DuStay /\ UNCHANGED <<disk, sha, cand, edits, planned, snap, applied, changed, config, outcome, left>>

\* The pin is set, and every version its conflicts ask for; or go get fails and
\* nothing is written.
BatchPin ==
  /\ duPc = "pin"
  /\ LET v == IF duCfg.needs THEN MaxOf(disk["dir"], 2) ELSE disk["dir"]
         d == Module(disk, v, duCfg.fixed) IN
     \/ ~GoRefuses(d) /\ DuOk /\ disk' = d /\ duPc' = "pinTidy"
     \/ GoRefuses(d) /\ DuOk /\ UNCHANGED disk /\ duPc' = "tools"
     \/ DuEvent /\ UNCHANGED disk /\ duPc' = "tools"
  /\ DuStay /\ UNCHANGED <<sha, cand, edits, planned, snap, applied, changed, config, outcome, left>>

\* go mod tidy, then the selected version is read back. A failed tidy skips the pins but
\* leaves what go get wrote; tidy drops a pin that nothing imports.
PinTidy ==
  /\ duPc = "pinTidy" /\ duPc' = "tools"
  /\ \/ /\ DuOk /\ UNCHANGED <<disk, left>>
        /\ applied' = applied \cup {<<"ind", disk["ind"], "security">>}
        /\ changed' = changed \cup {"go.mod"}
     \/ /\ DuEvent /\ UNCHANGED <<disk, applied, changed>>
        /\ left' = TRUE
     \/ /\ DuEvent /\ UNCHANGED <<applied, changed>>
        /\ disk' = [disk EXCEPT !["ind"] = 1] /\ left' = TRUE
  /\ DuStay /\ UNCHANGED <<sha, cand, edits, planned, snap, config, outcome>>

\* Toolchains move whether or not dependencies are remediated. A held one does not move;
\* neither does one whose digest cannot be fetched and was pinned before, nor the lock of
\* a wildcard to what is older. An exact one goes to its target, newer or not.
Toolchains ==
  /\ duPc = "tools"
  /\ \/ /\ ~("tc" \in cand /\ ~duCfg.held) \/ (duCfg.wild /\ Target("tc") <= disk["lock"])
        /\ DuOk /\ duPc' = "pkg" /\ UNCHANGED <<disk, sha>>
     \/ /\ "tc" \in cand /\ ~duCfg.held /\ ~(duCfg.wild /\ Target("tc") <= disk["lock"])
        /\ DuOk /\ duPc' = "toolsLock" /\ sha' = TRUE
        /\ disk' = IF duCfg.wild THEN disk ELSE [disk EXCEPT !["tc"] = Target("tc")]
     \/ /\ "tc" \in cand /\ ~duCfg.held /\ ~(duCfg.wild /\ Target("tc") <= disk["lock"])
        /\ DuEvent /\ duPc' = (IF sha THEN "pkg" ELSE "toolsLock") /\ UNCHANGED sha
        /\ disk' = IF sha \/ duCfg.wild THEN disk ELSE [disk EXCEPT !["tc"] = Target("tc")]
  /\ DuStay /\ UNCHANGED <<cand, edits, planned, snap, applied, changed, config, outcome, left>>

\* The lock is written after the configuration.
ToolchainLock ==
  /\ duPc = "toolsLock" /\ duPc' = "pkg"
  /\ disk' = [disk EXCEPT !["lock"] = Target("tc")]
  /\ applied' = applied \cup {<<IF duCfg.wild THEN "lock" ELSE "tc", Target("tc"), "ordinary">>}
  /\ changed' = changed \cup {"toolchains.lock"} \cup (IF duCfg.wild THEN {} ELSE {".stagefreight.yml"})
  /\ DuOk /\ DuStay /\ UNCHANGED <<sha, cand, edits, planned, snap, config, outcome, left>>

\* Manifests of the other ecosystems, then their locks.
Manifest ==
  /\ duPc = "pkg"
  /\ IF "pkg" \in cand /\ ~duCfg.dry
     THEN /\ disk' = [disk EXCEPT !["pkg"] = Target("pkg")]
          /\ duPc' = "pkgLock"
     ELSE duPc' = "reconcile" /\ UNCHANGED disk
  /\ DuOk /\ DuStay /\ UNCHANGED <<sha, cand, edits, planned, snap, applied, changed, config, outcome, left>>

ManifestLock ==
  /\ duPc = "pkgLock" /\ duPc' = "reconcile"
  /\ disk' = [disk EXCEPT !["plock"] = Target("pkg")]
  /\ applied' = applied \cup {<<"pkg", Target("pkg"), "ordinary">>}
  /\ changed' = changed \cup {"package.json", "package-lock.json"}
  /\ DuOk /\ DuStay /\ UNCHANGED <<sha, cand, edits, planned, snap, config, outcome, left>>

\* A builder older than the go directive is raised to it. It is a configuration error
\* when nothing may be written, no such tag is published, or the line cannot be edited.
ReconcileRepository ==
  /\ duPc = "reconcile" /\ duPc' = "verify"
  /\ IF duCfg.tagged /\ disk["img"] < disk["godir"]
     THEN \/ /\ ~duCfg.dry /\ DuOk
             /\ disk' = [disk EXCEPT !["img"] = disk["godir"]]
             /\ applied' = applied \cup {<<"img", disk["godir"], "ordinary">>}
             /\ changed' = changed \cup {"Dockerfile"}
             /\ UNCHANGED config
          \/ /\ IF duCfg.dry THEN DuOk ELSE DuEvent
             /\ config' = TRUE /\ UNCHANGED <<disk, applied, changed>>
     ELSE DuOk /\ UNCHANGED <<disk, applied, changed, config>>
  /\ DuStay /\ UNCHANGED <<sha, cand, edits, planned, snap, outcome, left>>

\* Reports and artifacts; configuration errors fail the run.
UpdateEnd ==
  /\ duPc = "verify"
  /\ IF config THEN duPc' = "end" /\ outcome' = "error"
     ELSE /\ duPc' = IF duCfg.commit /\ changed # {} THEN "commit" ELSE "end"
          /\ outcome' = "ok"
  /\ DuOk /\ DuStay /\ UNCHANGED <<disk, sha, cand, edits, planned, snap, applied, changed, config, left>>

\* The tree is tested again, and what was reported as changed is committed; a failed
\* test rejects the update and leaves the tree.
CommitUpdate ==
  /\ duPc = "commit" /\ duPc' = "end"
  /\ \/ /\ DuOk /\ outcome' = "committed"
        /\ head' = [n \in Names |-> IF FileOf(n) \in changed THEN disk[n] ELSE head[n]]
     \/ DuEvent /\ outcome' = "rejected" /\ UNCHANGED head
  /\ UNCHANGED <<duCfg, disk, sha, cand, edits, planned, snap, applied, changed, config, left, duRuns>>

-----------------------------------------------------------------------------
\* Any of the commands fails.
CommandFails ==
  /\ duPc \in {"plan", "sync", "get", "toolsLock", "pkgLock"}
  /\ Fail

\* Evaluate-only: the writers of the ecosystems are passed over.
EvaluateOnly ==
  /\ duPc = "docker" /\ duCfg.dry
  /\ duPc' = "tools"
  /\ DuOk /\ DuStay /\ UNCHANGED <<disk, sha, cand, edits, planned, snap, applied, changed, config, outcome, left>>

\* Somebody edits a line of the Dockerfile that the run is about to write.
EditDockerfile ==
  /\ duPc = "dockerWrite" /\ "tool" \in cand /\ DuEvent
  /\ disk' = [disk EXCEPT !["tool"] = DuTop]
  /\ DuStay /\ UNCHANGED <<sha, duRun>>

\* After a run somebody discards what is left in the worktree; upstream moves on.
Discard ==
  /\ duPc = "end" /\ disk # head /\ duRuns < DuRuns
  /\ disk' = head
  /\ DuOk /\ DuStay /\ UNCHANGED <<sha, duPc, cand, edits, planned, snap, config, left>>
  /\ applied' = {} /\ changed' = {} /\ outcome' = "none"

DuStep ==
  \/ DockerPlan \/ DockerWrite \/ PlanGo \/ SyncDirective \/ GoGet \/ TryParentBump
  \/ JudgeTrial \/ SkipTrial \/ BatchPin \/ PinTidy \/ Toolchains \/ ToolchainLock
  \/ Manifest \/ ManifestLock \/ ReconcileRepository \/ UpdateEnd \/ CommitUpdate
  \/ CommandFails \/ EvaluateOnly

DuNext == UpdateStart \/ DuStep \/ EditDockerfile \/ Discard

DuSpec == DuInit /\ [][DuNext]_duVars /\ WF_duVars(DuStep)

-----------------------------------------------------------------------------
DuTypeOK ==
  /\ disk \in [Names -> Ver] /\ head \in [Names -> Ver] /\ sha \in BOOLEAN
  /\ cand \subseteq Deps /\ applied \subseteq Names \X (1..DuTop) \X {"ordinary", "security"}
  /\ planned \in Ver /\ config \in BOOLEAN
  /\ outcome \in {"none", "error", "ok", "rejected", "committed"}
  /\ duRuns \in 0..DuRuns /\ duEvents \in 0..DuEvents

\* A run without error reports nothing it did not write: every applied update is in the
\* worktree, or exceeded by a later step; two versions on one Dockerfile line aside
\* (dependency/apply_dockerfile.go 320-323).
AppliedIsWritten ==
  (duPc = "end" /\ outcome \in {"ok", "rejected", "committed"} /\ ~duCfg.oneLine) =>
    \A a \in applied : disk[a[1]] >= a[2]

\* A security remediation clears its advisory (dependency/remediate_go.go 70-77, 127-138).
SecurityClears ==
  (duPc = "end" /\ outcome \in {"ok", "rejected", "committed"}) =>
    \A a \in applied : a[3] = "security" => disk[a[1]] >= duCfg.fixed

\* What is committed is the tree that was tested again: no file was changed that the run
\* did not report, a given-up batch of pins aside (cli/cmd/ci_runners.go 575-585, 625).
CommitsWhatItTested ==
  (duPc = "end" /\ outcome = "committed" /\ ~left) => head = disk

\* After a run without error the Go builder carries the go directive, whatever raised it
\* (dependency/update.go 411-415); nothing is known of a builder without a readable tag.
BuilderCarriesFloor ==
  (duPc = "end" /\ outcome \in {"ok", "committed"} /\ duCfg.tagged) => disk["img"] >= disk["godir"]

\* Pin and lock of an exact toolchain are committed together.
PinMatchesLock ==
  (duPc = "end" /\ outcome = "committed" /\ ~duCfg.wild) => head["lock"] = head["tc"]

\* The lock of a wildcard moves forward only, that of an exact toolchain only to where its
\* pin stands, which may be an older version; a pinned digest is never dropped, and an
\* evaluate-only run writes nothing but toolchains (dependency/apply_toolchain.go 62-65,
\* 85-107, 246-258).
LockForward ==
  [][/\ (duPc # "end" =>
           IF duCfg.wild THEN disk'["lock"] >= disk["lock"] ELSE disk'["lock"] \in {disk["lock"], disk["tc"]})
     /\ (sha => sha')
     /\ (duCfg.dry /\ duPc # "end" => \A n \in Names \ {"tc", "lock"} : disk'[n] = disk[n] \/ duPc = "dockerWrite")]_duVars

\* What a dependency update leaves true: what it calls applied is written, a
\* security update clears its advisory, what is committed was tested, the
\* builder image carries the module's floor, the lock of a wildcard toolchain
\* never goes back and that of an exact one follows its pin, forward or back
\* (dependency/update.go).
UpdateKeeps ==
  /\ [](DuTypeOK /\ AppliedIsWritten /\ SecurityClears /\ CommitsWhatItTested /\ PinMatchesLock)
  /\ [](BuilderCarriesFloor)
  /\ LockForward
=============================================================================
