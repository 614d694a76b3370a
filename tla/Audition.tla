------------------------------ MODULE Audition ------------------------------
(***************************************************************************)
(* auditionRun (src/src/cli/cmd/ci_runners.go): the gates over the         *)
(* committed tree, then the dependency update, then the audition contract  *)
(* that perform builds on.  One action per gate; a gate's early return is  *)
(* a step to "record", where the deferred recordAuditionContract runs.     *)
(* The error the function returns only colours the job, which may fail     *)
(* (planner.go, AllowFailure), so it is not modelled.                      *)
(***************************************************************************)
EXTENDS FiniteSets

CONSTANT Absent     \* no audition contract in the ledger

VARIABLES
  cfg,        \* the configuration this run was started with
  pc,         \* the gate auditionRun is at; "record" is the deferred write
  in,         \* auditionInputs: the fields that are set
  syncPushed, \* upstream sync moved our branch
  tree,       \* what the work tree holds: the committed tree, or the updated one
  ledger,     \* outcome recorded per subsystem by this run, "none" if none
  contract,   \* the audition contract a later phase reads, or Absent
  tested,     \* history: the trees whose gating suites passed in this run
  ran,        \* history: the gates that ran to a verdict and let the run go on
  missed,     \* history: the gates that gave out without making the contract block
  pushed      \* history: who pushed, "sync" or "deps"

vars == <<cfg, pc, in, syncPushed, tree, ledger, contract, tested, ran, missed, pushed>>
history == <<tested, ran, missed, pushed>>

Fields == {"RunnerHealthy", "Fatal", "ManifestProofFailed", "Remediable",
           "RemediationEnabled", "TestsPassed", "DepsErrored", "Replacement",
           "UpstreamRefused", "NothingToBuild"}

Gates == {"config", "discovery", "lint", "tests", "update", "outdated", "residual"}

(* The steps that may give out and leave the inputs of the contract as they *)
(* are: lint's error is dropped, the others return an error or nil.         *)
Bypasses == {"lint", "reverify", "handoff", "outdated"}

(* "runner" is the executor report executorPreflight stores in st.Runner;   *)
(* the others are the subsystems recordSubsystemOutcome names.              *)
Recorders == {"runner", "upstream", "sync", "gitops", "vuln-coverage", "lint", "test", "deps",
              "republish"}

(* "tolerated" is a failure recorded with AllowFailure. *)
Outcomes == {"none", "success", "warning", "degraded", "skipped", "tolerated", "failed"}

(* What the gates read of the configuration and the run's context. *)
Configs == [mutate : BOOLEAN,      \* depsRunner, as against validateRunner
            reconciles : BOOLEAN,  \* Mode().PhaseReconcile
            deps : BOOLEAN,        \* dependency.enabled
            remediate : BOOLEAN,   \* dependency.remediate
            lint : BOOLEAN,        \* lint.level is set
            failOn : BOOLEAN]      \* security.fail_on is not off

updating == cfg.mutate /\ cfg.deps

Steps == {"preflight", "config", "upstream", "sync", "flux", "discover", "lint", "tests",
          "deps", "reverify", "commit", "handoff", "outdated", "residual", "record", "done"}

Contracts == [blocking : BOOLEAN, replaced : BOOLEAN, skipped : BOOLEAN]

-----------------------------------------------------------------------------

(* Mutant: a pushed fix unblocks.                                           *)
blockingUnlessReplaced(i) ==
  \/ ~({"RunnerHealthy", "TestsPassed"} \subseteq i)
  \/ {"Fatal", "ManifestProofFailed", "UpstreamRefused", "DepsErrored"} \cap i # {}
  \/ {"Remediable", "RemediationEnabled"} \subseteq i /\ "Replacement" \notin i

(* deriveAuditionContract: the contract is a function of the inputs. *)
blocking(i) ==
  \/ "RunnerHealthy" \notin i
  \/ "Fatal" \in i
  \/ "ManifestProofFailed" \in i
  \/ "UpstreamRefused" \in i
  \/ "Remediable" \in i /\ "RemediationEnabled" \in i
  \/ "TestsPassed" \notin i
  \/ "DepsErrored" \in i

deriveAuditionContract(i) ==
  [blocking |-> blocking(i),
   replaced |-> "Replacement" \in i,
   skipped  |-> ~blocking(i) /\ "NothingToBuild" \in i]

(* Perform's decision: build, skip cleanly (a replacement supersedes this   *)
(* subject), or fail.                                                       *)
performGate(c) ==
  IF c = Absent THEN "refuse"
  ELSE IF ~c.blocking THEN "build"
  ELSE IF c.replaced THEN "skip" ELSE "refuse"

(* recordSubsystemOutcome: a state write that fails is logged and dropped. *)
Record(s, outcome) == ledger' \in {ledger, [ledger EXCEPT ![s] = outcome]}

Goto(step) == pc' = step
Return == pc' = "record"
Sets(f, fields) == in' = (IF f THEN in \cup fields ELSE in)
Ran(gate) == ran' = ran \cup {gate} /\ UNCHANGED missed
Missed(gate) == missed' = missed \cup {gate} /\ UNCHANGED ran

-----------------------------------------------------------------------------
Init ==
  /\ cfg \in Configs
  /\ pc = "preflight"
  /\ in \in {{}, {"NothingToBuild"}}   \* scheduledSkip
  /\ syncPushed = FALSE
  /\ tree = "committed"
  /\ ledger = [r \in Recorders |-> "none"]
  /\ contract = Absent
  /\ tested = {} /\ ran = {} /\ missed = {} /\ pushed = {}

executorPreflight ==
  /\ pc = "preflight"
  /\ \E healthy \in BOOLEAN :
       /\ Record("runner", IF healthy THEN "success" ELSE "failed")
       /\ Sets(healthy, {"RunnerHealthy"})
       /\ IF healthy THEN Goto("config") ELSE Return
  /\ UNCHANGED <<cfg, syncPushed, tree, contract, history>>

runConfigPhase ==
  /\ pc = "config"
  /\ \/ Ran("config") /\ Goto("upstream")
     \/ Return /\ UNCHANGED <<ran, missed>>
  /\ UNCHANGED <<cfg, in, syncPushed, tree, ledger, contract, tested, pushed>>

(* Records a failure exactly when it refuses the release. *)
watchUpstream ==
  /\ pc = "upstream"
  /\ \/ /\ Sets(TRUE, {"UpstreamRefused"})
        /\ Record("upstream", "failed")
     \/ /\ UNCHANGED in
        /\ \/ UNCHANGED ledger               \* no upstream declared
           \/ Record("upstream", "success")
           \/ Record("upstream", "warning")  \* not listed
  /\ Goto(IF cfg.mutate THEN "sync" ELSE "flux")
  /\ UNCHANGED <<cfg, syncPushed, tree, contract, history>>

(* UpstreamSync models what happens inside. *)
syncUpstream ==
  /\ pc = "sync"
  /\ \/ /\ syncPushed' = TRUE /\ pushed' = pushed \cup {"sync"}
        /\ Record("sync", "success")
        /\ UNCHANGED in
     \/ /\ Sets(TRUE, {"UpstreamRefused"})   \* on_conflict: fail
        /\ Record("sync", "failed")
        /\ UNCHANGED <<syncPushed, pushed>>
     \/ /\ \/ UNCHANGED ledger               \* no sync configured, or not this branch
           \/ Record("sync", "success")      \* already in sync
           \/ Record("sync", "warning")
        /\ UNCHANGED <<in, syncPushed, pushed>>
  /\ Goto("flux")
  /\ UNCHANGED <<cfg, tree, contract, tested, ran, missed>>

runFluxValidation ==
  /\ pc = "flux"
  /\ \E failed \in BOOLEAN :
       /\ IF failed THEN Record("gitops", IF cfg.reconciles THEN "failed" ELSE "tolerated")
                    ELSE UNCHANGED ledger
       /\ Sets(failed /\ cfg.reconciles, {"ManifestProofFailed"})
  /\ Goto("discover")
  /\ UNCHANGED <<cfg, syncPushed, tree, contract, history>>

discover ==
  /\ pc = "discover"
  /\ IF updating \/ cfg.lint
     THEN \/ Return /\ UNCHANGED <<ledger, ran, missed>>
          \/ /\ Ran("discovery") /\ Goto("lint")
             /\ \/ UNCHANGED ledger
                \/ Record("vuln-coverage", "degraded")
     ELSE Goto("lint") /\ UNCHANGED <<ledger, ran, missed>>
  /\ UNCHANGED <<cfg, in, syncPushed, tree, contract, tested, pushed>>

(* The findings that block, split by lint.Classify.  A file that a module   *)
(* could not check is reported by an error, which auditionRun drops: its    *)
(* findings are missing from those that are found.                          *)
runUniversalLint ==
  /\ pc = "lint"
  /\ \E found \in SUBSET {"Fatal", "Remediable"}, complete \in BOOLEAN :
       /\ ~cfg.lint => found = {} /\ complete
       /\ in' = in \cup found
                   \cup (IF updating /\ cfg.remediate THEN {"RemediationEnabled"} ELSE {})
       /\ Record("lint", IF "Fatal" \in found THEN "failed" ELSE "success")
       /\ \/ "Fatal" \in found /\ Return /\ UNCHANGED <<ran, missed>>
          \/ /\ "Fatal" \notin found /\ Goto("tests")
             /\ IF complete THEN Ran("lint") ELSE Missed("lint")
  /\ UNCHANGED <<cfg, syncPushed, tree, contract, tested, pushed>>

(* test.Verify: an error, a verdict, or nothing to run (which passes and    *)
(* records nothing).                                                        *)
auditionTests ==
  /\ pc = "tests"
  /\ \/ /\ Return
        /\ Record("test", "failed") \/ UNCHANGED ledger
        /\ UNCHANGED <<in, tested, ran, missed>>
     \/ /\ Sets(TRUE, {"TestsPassed"})
        /\ Record("test", "success") \/ UNCHANGED ledger
        /\ tested' = tested \cup {tree}
        /\ Ran("tests")
        /\ Goto("deps")
  /\ UNCHANGED <<cfg, syncPushed, tree, contract, pushed>>

noUpdate ==
  /\ pc = "deps" /\ ~updating
  /\ Return
  /\ UNCHANGED <<cfg, in, syncPushed, tree, ledger, contract, history>>

(* The pipeline of the commit that sync pushed runs the update. *)
leaveUpdateToSync ==
  /\ pc = "deps" /\ updating /\ syncPushed
  /\ Record("deps", "skipped")
  /\ Return
  /\ UNCHANGED <<cfg, in, syncPushed, tree, contract, history>>

(* runDependencyUpdateLogic: files change only when remediation may patch.  *)
runDependencyUpdateLogic ==
  /\ pc = "deps" /\ updating /\ ~syncPushed
  /\ \/ /\ Sets(TRUE, {"DepsErrored"})
        /\ Record("deps", "failed")
        /\ Return
        /\ UNCHANGED <<tree, ran, missed>>
     \/ /\ Ran("update")
        /\ Record("deps", "success")
        /\ \/ UNCHANGED tree /\ Goto("outdated")
           \/ /\ cfg.remediate /\ tree' = "updated"
              /\ \/ Goto("reverify")
                 \/ Goto("outdated")       \* dependency.commit disabled
        /\ UNCHANGED in
  /\ UNCHANGED <<cfg, syncPushed, contract, tested, pushed>>

(* Mutant: an update that does not verify is committed all the same.        *)
reverifyUnheeded ==
  /\ pc = "reverify"
  /\ \/ tested' = tested \cup {tree} /\ Return
     \/ (tested' = tested \cup {tree} \/ UNCHANGED tested) /\ Goto("commit")
  /\ UNCHANGED <<cfg, in, syncPushed, tree, ledger, contract, ran, missed, pushed>>

(* test.Verify on the mutated tree, then run_from: each may end the run.    *)
reverify ==
  /\ pc = "reverify"
  /\ \/ Return /\ UNCHANGED tested                   \* rejected, or could not run
     \/ tested' = tested \cup {tree} /\ Return       \* run_from does not match
     \/ tested' = tested \cup {tree} /\ Goto("commit")
  /\ IF pc' = "record" THEN Missed("reverify") ELSE UNCHANGED <<ran, missed>>
  /\ UNCHANGED <<cfg, in, syncPushed, tree, ledger, contract, pushed>>

(* autoCommitViaPlanner: failed, nothing to commit, committed, or pushed.   *)
autoCommitViaPlanner ==
  /\ pc = "commit"
  /\ \/ Goto("outdated") /\ UNCHANGED <<in, ledger, pushed>>
     \/ /\ Sets(TRUE, {"Replacement"})
        /\ pushed' = pushed \cup {"deps"}
        /\ \/ Goto("outdated") /\ UNCHANGED ledger       \* promotion: mr
           \/ Goto("handoff") /\ UNCHANGED ledger
           \/ Goto("handoff") /\ Record("republish", "warning")
  /\ UNCHANGED <<cfg, syncPushed, tree, contract, tested, ran, missed>>

(* HandoffFail returns an error; every other decision goes on.              *)
EvaluateHandoff ==
  /\ pc = "handoff"
  /\ \/ Return /\ Missed("handoff")
     \/ Goto("outdated") /\ UNCHANGED <<ran, missed>>
  /\ UNCHANGED <<cfg, in, syncPushed, tree, ledger, contract, tested, pushed>>

outdatedGate ==
  /\ pc = "outdated"
  /\ \/ Return /\ Missed("outdated")                \* outdated.action: error
     \/ Ran("outdated") /\ Goto("residual")
  /\ UNCHANGED <<cfg, in, syncPushed, tree, ledger, contract, tested, pushed>>

residualGate ==
  /\ pc = "residual"
  /\ \/ cfg.failOn /\ Sets(TRUE, {"DepsErrored"}) /\ UNCHANGED <<ran, missed>>
     \/ UNCHANGED in /\ Ran("residual")
  /\ Return
  /\ UNCHANGED <<cfg, syncPushed, tree, ledger, contract, tested, pushed>>

recordAuditionContract ==
  /\ pc = "record"
  /\ contract' \in {Absent, deriveAuditionContract(in)}   \* a failed write is logged
  /\ Goto("done")
  /\ UNCHANGED <<cfg, in, syncPushed, tree, ledger, history>>

(* The job is cancelled (EvaluateHandoff's restart cancels its own          *)
(* pipeline) or dies: nothing deferred runs.                                *)
Killed ==
  /\ pc # "done"
  /\ Goto("done")
  /\ UNCHANGED <<cfg, in, syncPushed, tree, ledger, contract, history>>

auditionRun ==
  \/ executorPreflight \/ runConfigPhase \/ watchUpstream \/ syncUpstream
  \/ runFluxValidation \/ discover \/ runUniversalLint \/ auditionTests
  \/ noUpdate \/ leaveUpdateToSync
  \/ runDependencyUpdateLogic \/ reverify \/ autoCommitViaPlanner
  \/ EvaluateHandoff \/ outdatedGate \/ residualGate \/ recordAuditionContract

Next == auditionRun \/ Killed

Spec == Init /\ [][Next]_vars

-----------------------------------------------------------------------------
(* The type invariant: what each gate of auditionRun leaves behind.         *)
TypeOK ==
  /\ cfg \in Configs
  /\ pc \in Steps
  /\ in \subseteq Fields
  /\ syncPushed \in BOOLEAN
  /\ tree \in {"committed", "updated"}
  /\ ledger \in [Recorders -> Outcomes]
  /\ contract \in Contracts \cup {Absent}
  /\ tested \subseteq {"committed", "updated"}
  /\ ran \subseteq Gates
  /\ missed \subseteq Bypasses
  /\ pushed \subseteq {"sync", "deps"}

(* Fail closed, up to what auditionRun lets through.  Perform builds a      *)
(* subject only if configuration and tests reached a verdict on it, and     *)
(* discovery where anything scans; lint reached one too, or its engine gave *)
(* out, whose error is dropped; an update that this run owed did not error, *)
(* and the gates behind it ran, unless re-verification, the hand-off or the *)
(* outdated gate ended the run, which leaves the contract not blocking.     *)
(* Those four are all: no other return and no other order of them builds.   *)
BuildsOnlyAudited ==
  performGate(contract) = "build" =>
    /\ {"config", "tests"} \subseteq ran
    /\ "committed" \in tested
    /\ updating \/ cfg.lint => "discovery" \in ran
    /\ cfg.lint => "lint" \in ran \cup missed
    /\ updating /\ ~syncPushed =>
         /\ "update" \in ran
         /\ {"outdated", "residual"} \subseteq ran \/ missed \ {"lint"} # {}

(* The contract and the ledger never tell different stories: when perform   *)
(* may build, no subsystem of this run recorded a failure that turns the    *)
(* pipeline's badge red.                                                    *)
ContractAgreesWithLedger ==
  performGate(contract) = "build" => \A r \in Recorders : ledger[r] # "failed"

(* A source whose finding the update set out to fix is not built, whether   *)
(* the fix was pushed, rejected by re-verification or never made: the fix   *)
(* is in the replacement, not in this subject.                              *)
RemediableNeverBuilt ==
  "Remediable" \in in /\ updating /\ cfg.remediate => performGate(contract) # "build"

(* What perform may rely on when the contract lets it build.                *)
AuditionSafe ==
  /\ TypeOK
  /\ BuildsOnlyAudited
  /\ ContractAgreesWithLedger
  /\ RemediableNeverBuilt

(* The dependency update pushes only a tree whose tests passed in this run, *)
(* on top of a source whose tests passed, never a void one, and never onto  *)
(* a branch that upstream sync has just moved.                              *)
PushesOnlyVerified ==
  [][\A who \in pushed' \ pushed :
       who = "deps" =>
         /\ {"committed", "updated"} \subseteq tested
         /\ "Fatal" \notin in
         /\ "sync" \notin pushed]_vars

=============================================================================
