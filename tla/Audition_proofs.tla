-------------------------- MODULE Audition_proofs ---------------------------
(***************************************************************************)
(* Proofs about Audition, for whatever the gates find and whichever of its *)
(* returns auditionRun takes: the contract fails closed, and the update    *)
(* pushes only what was tested.                                            *)
(***************************************************************************)
EXTENDS Audition, TLAPS

(* Past the tests; only here may auditionRun return with TestsPassed set.   *)
Tested == {"deps", "reverify", "commit", "handoff", "outdated", "residual"}
Ended == {"record", "done"}

(* What the gates that were passed leave behind at each step.               *)
GatesPassed ==
  /\ pc \notin {"preflight", "config"} \cup Ended => "config" \in ran
  /\ pc \in {"lint", "tests"} \cup Tested /\ (updating \/ cfg.lint) => "discovery" \in ran
  /\ pc \in {"tests"} \cup Tested => "lint" \in ran \cup missed
  /\ pc \in {"reverify", "commit", "handoff", "outdated", "residual"} => "update" \in ran
  /\ pc = "residual" => "outdated" \in ran

(* The work tree is the committed one until the update has changed it.      *)
TreeTested ==
  /\ pc \notin {"reverify", "commit", "handoff", "outdated", "residual"} \cup Ended
       => tree = "committed"
  /\ pc = "reverify" => tree = "updated"
  /\ pc \in {"reverify", "commit"} => ~syncPushed
  /\ pc = "commit" => "updated" \in tested
  /\ "sync" \in pushed => syncPushed

(* What the inputs of the contract stand for.                               *)
InputsMean ==
  /\ pc = "preflight" => "RunnerHealthy" \notin in
  /\ pc \in Tested => "TestsPassed" \in in
  /\ "TestsPassed" \in in =>
       /\ pc \in Tested \cup Ended
       /\ {"config", "tests"} \subseteq ran
       /\ "committed" \in tested
       /\ updating \/ cfg.lint => "discovery" \in ran
       /\ "lint" \in ran \cup missed
  /\ "Fatal" \in in => pc \in Ended
  /\ "Remediable" \in in /\ updating /\ cfg.remediate => "RemediationEnabled" \in in

(* A recorded failure has reached the inputs, or ended the run.             *)
FailuresReachInputs ==
  /\ ledger["runner"] = "failed" => pc \in Ended /\ "RunnerHealthy" \notin in
  /\ ledger["upstream"] = "failed" => "UpstreamRefused" \in in
  /\ ledger["sync"] = "failed" => "UpstreamRefused" \in in
  /\ ledger["gitops"] = "failed" => "ManifestProofFailed" \in in
  /\ ledger["lint"] = "failed" => "Fatal" \in in
  /\ ledger["test"] = "failed" => pc \in Ended /\ "TestsPassed" \notin in
  /\ ledger["deps"] = "failed" => "DepsErrored" \in in
  /\ ledger["vuln-coverage"] # "failed"
  /\ ledger["republish"] # "failed"

(* A run that is over, or about to record its contract, did the update it   *)
(* owed and passed the gates behind it, unless one of them gave out, or     *)
(* says that it did not; and the contract is that of its inputs.            *)
UpdateOwed ==
  pc = "record" \/ contract # Absent =>
    ("TestsPassed" \in in /\ updating /\ ~syncPushed
       => \/ "DepsErrored" \in in
          \/ /\ "update" \in ran
             /\ {"outdated", "residual"} \subseteq ran \/ missed \ {"lint"} # {})
ContractDerived ==
  contract # Absent => pc = "done" /\ contract = deriveAuditionContract(in)

IInv ==
  /\ TypeOK
  /\ GatesPassed
  /\ TreeTested
  /\ InputsMean
  /\ FailuresReachInputs
  /\ UpdateOwed
  /\ ContractDerived

-----------------------------------------------------------------------------
(* The contract derived from any inputs is a contract. *)
LEMMA DeriveType ==
  ASSUME NEW i
  PROVE  deriveAuditionContract(i) \in Contracts
BY DEF deriveAuditionContract, blocking, Contracts

(* No gate has been passed and nothing recorded when auditionRun starts. *)
LEMMA InitInv == Init => IInv
<1> SUFFICES ASSUME Init PROVE IInv
  OBVIOUS
<1>1. TypeOK
  BY DEF Init, TypeOK, Recorders, Outcomes, Steps, Fields
<1>2. GatesPassed /\ TreeTested /\ InputsMean
  BY DEF Init, GatesPassed, TreeTested, InputsMean, Tested, Ended
<1>3. FailuresReachInputs
  BY DEF Init, FailuresReachInputs, Recorders
<1>4. UpdateOwed /\ ContractDerived
  BY DEF Init, UpdateOwed, ContractDerived
<1> QED BY <1>1, <1>2, <1>3, <1>4 DEF IInv

(* Each gate keeps the invariant, and so does the job dying between two.    *)
LEMMA StepInv == IInv /\ [Next]_vars => IInv'
<1> SUFFICES ASSUME IInv, [Next]_vars PROVE IInv'
  OBVIOUS
<1> USE DEF IInv, updating, history
<1>1. CASE executorPreflight
  <2> USE <1>1 DEF executorPreflight, Record, Sets, Goto, Return
  <2>1. TypeOK'
    <3>1. ledger' \in [Recorders -> Outcomes]
      BY DEF TypeOK, Recorders, Outcomes
    <3> QED BY <3>1 DEF TypeOK, Steps, Fields, Gates, Bypasses
  <2>2. GatesPassed' /\ TreeTested'
    BY DEF TypeOK, GatesPassed, TreeTested, Tested, Ended
  <2>3. InputsMean'
    BY DEF TypeOK, GatesPassed, TreeTested, InputsMean, Tested, Ended
  <2>4. FailuresReachInputs'
    BY DEF TypeOK, InputsMean, FailuresReachInputs, Tested, Ended, Recorders
  <2>5. UpdateOwed' /\ ContractDerived'
    BY DEF InputsMean, GatesPassed, UpdateOwed, ContractDerived, Tested, Ended
  <2> QED BY <2>1, <2>2, <2>3, <2>4, <2>5
<1>2. CASE runConfigPhase
  <2> USE <1>2 DEF runConfigPhase, Ran, Missed, Goto, Return
  <2>1. TypeOK'
    BY DEF TypeOK, Steps, Fields, Gates, Bypasses
  <2>2. GatesPassed' /\ TreeTested'
    BY DEF TypeOK, GatesPassed, TreeTested, Tested, Ended
  <2>3. InputsMean'
    BY DEF TypeOK, GatesPassed, TreeTested, InputsMean, Tested, Ended
  <2>4. FailuresReachInputs'
    BY DEF TypeOK, InputsMean, FailuresReachInputs, Tested, Ended, Recorders
  <2>5. UpdateOwed' /\ ContractDerived'
    BY DEF InputsMean, GatesPassed, UpdateOwed, ContractDerived, Tested, Ended
  <2> QED BY <2>1, <2>2, <2>3, <2>4, <2>5
<1>3. CASE watchUpstream
  <2> USE <1>3 DEF watchUpstream, Record, Sets, Goto
  <2>1. TypeOK'
    <3>1. ledger' \in [Recorders -> Outcomes]
      BY DEF TypeOK, Recorders, Outcomes
    <3> QED BY <3>1 DEF TypeOK, Steps, Fields, Gates, Bypasses
  <2>2. GatesPassed' /\ TreeTested'
    BY DEF TypeOK, GatesPassed, TreeTested, Tested, Ended
  <2>3. InputsMean'
    BY DEF TypeOK, GatesPassed, TreeTested, InputsMean, Tested, Ended
  <2>4. FailuresReachInputs'
    BY DEF TypeOK, InputsMean, FailuresReachInputs, Tested, Ended, Recorders
  <2>5. UpdateOwed' /\ ContractDerived'
    BY DEF InputsMean, GatesPassed, UpdateOwed, ContractDerived, Tested, Ended
  <2> QED BY <2>1, <2>2, <2>3, <2>4, <2>5
<1>4. CASE syncUpstream
  <2> USE <1>4 DEF syncUpstream, Record, Sets, Goto
  <2>1. TypeOK'
    <3>1. ledger' \in [Recorders -> Outcomes]
      BY DEF TypeOK, Recorders, Outcomes
    <3> QED BY <3>1 DEF TypeOK, Steps, Fields, Gates, Bypasses
  <2>2. GatesPassed' /\ TreeTested'
    BY DEF TypeOK, GatesPassed, TreeTested, Tested, Ended
  <2>3. InputsMean'
    BY DEF TypeOK, GatesPassed, TreeTested, InputsMean, Tested, Ended
  <2>4. FailuresReachInputs'
    BY DEF TypeOK, InputsMean, FailuresReachInputs, Tested, Ended, Recorders
  <2>5. UpdateOwed' /\ ContractDerived'
    BY DEF InputsMean, GatesPassed, UpdateOwed, ContractDerived, Tested, Ended
  <2> QED BY <2>1, <2>2, <2>3, <2>4, <2>5
<1>5. CASE runFluxValidation
  <2> USE <1>5 DEF runFluxValidation, Record, Sets, Goto
  <2>1. TypeOK'
    <3>1. ledger' \in [Recorders -> Outcomes]
      BY DEF TypeOK, Recorders, Outcomes
    <3> QED BY <3>1 DEF TypeOK, Steps, Fields, Gates, Bypasses
  <2>2. GatesPassed' /\ TreeTested'
    BY DEF TypeOK, GatesPassed, TreeTested, Tested, Ended
  <2>3. InputsMean'
    BY DEF TypeOK, GatesPassed, TreeTested, InputsMean, Tested, Ended
  <2>4. FailuresReachInputs'
    BY DEF TypeOK, InputsMean, FailuresReachInputs, Tested, Ended, Recorders
  <2>5. UpdateOwed' /\ ContractDerived'
    BY DEF InputsMean, GatesPassed, UpdateOwed, ContractDerived, Tested, Ended
  <2> QED BY <2>1, <2>2, <2>3, <2>4, <2>5
<1>6. CASE discover
  <2> USE <1>6 DEF discover, Record, Ran, Missed, Goto, Return
  <2>1. TypeOK'
    <3>1. ledger' \in [Recorders -> Outcomes]
      BY DEF TypeOK, Recorders, Outcomes
    <3> QED BY <3>1 DEF TypeOK, Steps, Fields, Gates, Bypasses
  <2>2. GatesPassed' /\ TreeTested'
    BY DEF TypeOK, GatesPassed, TreeTested, Tested, Ended
  <2>3. InputsMean'
    BY DEF TypeOK, GatesPassed, TreeTested, InputsMean, Tested, Ended
  <2>4. FailuresReachInputs'
    BY DEF TypeOK, InputsMean, FailuresReachInputs, Tested, Ended, Recorders
  <2>5. UpdateOwed' /\ ContractDerived'
    BY DEF InputsMean, GatesPassed, UpdateOwed, ContractDerived, Tested, Ended
  <2> QED BY <2>1, <2>2, <2>3, <2>4, <2>5
<1>7. CASE runUniversalLint
  <2> USE <1>7 DEF runUniversalLint, Record, Ran, Missed, Goto, Return
  <2>1. TypeOK'
    <3>1. ledger' \in [Recorders -> Outcomes]
      BY DEF TypeOK, Recorders, Outcomes
    <3> QED BY <3>1 DEF TypeOK, Steps, Fields, Gates, Bypasses
  <2>2. GatesPassed' /\ TreeTested'
    BY DEF TypeOK, GatesPassed, TreeTested, Tested, Ended
  <2>3. InputsMean'
    BY DEF TypeOK, GatesPassed, TreeTested, InputsMean, Tested, Ended
  <2>4. FailuresReachInputs'
    BY DEF TypeOK, InputsMean, FailuresReachInputs, Tested, Ended, Recorders
  <2>5. UpdateOwed' /\ ContractDerived'
    BY DEF InputsMean, GatesPassed, UpdateOwed, ContractDerived, Tested, Ended
  <2> QED BY <2>1, <2>2, <2>3, <2>4, <2>5
<1>8. CASE auditionTests
  <2> USE <1>8 DEF auditionTests, Record, Sets, Ran, Missed, Goto, Return
  <2>1. TypeOK'
    <3>1. ledger' \in [Recorders -> Outcomes]
      BY DEF TypeOK, Recorders, Outcomes
    <3> QED BY <3>1 DEF TypeOK, Steps, Fields, Gates, Bypasses
  <2>2. GatesPassed' /\ TreeTested'
    BY DEF TypeOK, GatesPassed, TreeTested, Tested, Ended
  <2>3. InputsMean'
    BY DEF TypeOK, GatesPassed, TreeTested, InputsMean, Tested, Ended
  <2>4. FailuresReachInputs'
    BY DEF TypeOK, InputsMean, FailuresReachInputs, Tested, Ended, Recorders
  <2>5. UpdateOwed' /\ ContractDerived'
    BY DEF InputsMean, GatesPassed, UpdateOwed, ContractDerived, Tested, Ended
  <2> QED BY <2>1, <2>2, <2>3, <2>4, <2>5
<1>9. CASE noUpdate
  <2> USE <1>9 DEF noUpdate, Return
  <2>1. TypeOK'
    BY DEF TypeOK, Steps, Fields, Gates, Bypasses
  <2>2. GatesPassed' /\ TreeTested'
    BY DEF TypeOK, GatesPassed, TreeTested, Tested, Ended
  <2>3. InputsMean'
    BY DEF TypeOK, GatesPassed, TreeTested, InputsMean, Tested, Ended
  <2>4. FailuresReachInputs'
    BY DEF TypeOK, InputsMean, FailuresReachInputs, Tested, Ended, Recorders
  <2>5. UpdateOwed' /\ ContractDerived'
    BY DEF InputsMean, GatesPassed, UpdateOwed, ContractDerived, Tested, Ended
  <2> QED BY <2>1, <2>2, <2>3, <2>4, <2>5
<1>10. CASE leaveUpdateToSync
  <2> USE <1>10 DEF leaveUpdateToSync, Record, Return
  <2>1. TypeOK'
    <3>1. ledger' \in [Recorders -> Outcomes]
      BY DEF TypeOK, Recorders, Outcomes
    <3> QED BY <3>1 DEF TypeOK, Steps, Fields, Gates, Bypasses
  <2>2. GatesPassed' /\ TreeTested'
    BY DEF TypeOK, GatesPassed, TreeTested, Tested, Ended
  <2>3. InputsMean'
    BY DEF TypeOK, GatesPassed, TreeTested, InputsMean, Tested, Ended
  <2>4. FailuresReachInputs'
    BY DEF TypeOK, InputsMean, FailuresReachInputs, Tested, Ended, Recorders
  <2>5. UpdateOwed' /\ ContractDerived'
    BY DEF InputsMean, GatesPassed, UpdateOwed, ContractDerived, Tested, Ended
  <2> QED BY <2>1, <2>2, <2>3, <2>4, <2>5
<1>11. CASE runDependencyUpdateLogic
  <2> USE <1>11 DEF runDependencyUpdateLogic, Record, Sets, Ran, Missed, Goto, Return
  <2>1. TypeOK'
    <3>1. ledger' \in [Recorders -> Outcomes]
      BY DEF TypeOK, Recorders, Outcomes
    <3> QED BY <3>1 DEF TypeOK, Steps, Fields, Gates, Bypasses
  <2>2. GatesPassed' /\ TreeTested'
    BY DEF TypeOK, GatesPassed, TreeTested, Tested, Ended
  <2>3. InputsMean'
    BY DEF TypeOK, GatesPassed, TreeTested, InputsMean, Tested, Ended
  <2>4. FailuresReachInputs'
    BY DEF TypeOK, InputsMean, FailuresReachInputs, Tested, Ended, Recorders
  <2>5. UpdateOwed' /\ ContractDerived'
    BY DEF InputsMean, GatesPassed, UpdateOwed, ContractDerived, Tested, Ended
  <2> QED BY <2>1, <2>2, <2>3, <2>4, <2>5
<1>12. CASE reverify
  <2> USE <1>12 DEF reverify, Missed, Goto, Return
  <2>1. TypeOK'
    BY DEF TypeOK, Steps, Fields, Gates, Bypasses
  <2>2. GatesPassed' /\ TreeTested'
    BY DEF TypeOK, GatesPassed, TreeTested, Tested, Ended
  <2>3. InputsMean'
    BY DEF TypeOK, GatesPassed, TreeTested, InputsMean, Tested, Ended
  <2>4. FailuresReachInputs'
    BY DEF TypeOK, InputsMean, FailuresReachInputs, Tested, Ended, Recorders
  <2>5. UpdateOwed' /\ ContractDerived'
    BY DEF InputsMean, GatesPassed, UpdateOwed, ContractDerived, Tested, Ended
  <2> QED BY <2>1, <2>2, <2>3, <2>4, <2>5
<1>13. CASE autoCommitViaPlanner
  <2> USE <1>13 DEF autoCommitViaPlanner, Record, Sets, Goto
  <2>1. TypeOK'
    <3>1. ledger' \in [Recorders -> Outcomes]
      BY DEF TypeOK, Recorders, Outcomes
    <3> QED BY <3>1 DEF TypeOK, Steps, Fields, Gates, Bypasses
  <2>2. GatesPassed' /\ TreeTested'
    BY DEF TypeOK, GatesPassed, TreeTested, Tested, Ended
  <2>3. InputsMean'
    BY DEF TypeOK, GatesPassed, TreeTested, InputsMean, Tested, Ended
  <2>4. FailuresReachInputs'
    BY DEF TypeOK, InputsMean, FailuresReachInputs, Tested, Ended, Recorders
  <2>5. UpdateOwed' /\ ContractDerived'
    BY DEF InputsMean, GatesPassed, UpdateOwed, ContractDerived, Tested, Ended
  <2> QED BY <2>1, <2>2, <2>3, <2>4, <2>5
<1>14. CASE EvaluateHandoff
  <2> USE <1>14 DEF EvaluateHandoff, Missed, Goto, Return
  <2>1. TypeOK'
    BY DEF TypeOK, Steps, Fields, Gates, Bypasses
  <2>2. GatesPassed' /\ TreeTested'
    BY DEF TypeOK, GatesPassed, TreeTested, Tested, Ended
  <2>3. InputsMean'
    BY DEF TypeOK, GatesPassed, TreeTested, InputsMean, Tested, Ended
  <2>4. FailuresReachInputs'
    BY DEF TypeOK, InputsMean, FailuresReachInputs, Tested, Ended, Recorders
  <2>5. UpdateOwed' /\ ContractDerived'
    BY DEF InputsMean, GatesPassed, UpdateOwed, ContractDerived, Tested, Ended
  <2> QED BY <2>1, <2>2, <2>3, <2>4, <2>5
<1>15. CASE outdatedGate
  <2> USE <1>15 DEF outdatedGate, Ran, Missed, Goto, Return
  <2>1. TypeOK'
    BY DEF TypeOK, Steps, Fields, Gates, Bypasses
  <2>2. GatesPassed' /\ TreeTested'
    BY DEF TypeOK, GatesPassed, TreeTested, Tested, Ended
  <2>3. InputsMean'
    BY DEF TypeOK, GatesPassed, TreeTested, InputsMean, Tested, Ended
  <2>4. FailuresReachInputs'
    BY DEF TypeOK, InputsMean, FailuresReachInputs, Tested, Ended, Recorders
  <2>5. UpdateOwed' /\ ContractDerived'
    BY DEF InputsMean, GatesPassed, UpdateOwed, ContractDerived, Tested, Ended
  <2> QED BY <2>1, <2>2, <2>3, <2>4, <2>5
<1>16. CASE residualGate
  <2> USE <1>16 DEF residualGate, Sets, Ran, Missed, Return
  <2>1. TypeOK'
    BY DEF TypeOK, Steps, Fields, Gates, Bypasses
  <2>2. GatesPassed' /\ TreeTested'
    BY DEF TypeOK, GatesPassed, TreeTested, Tested, Ended
  <2>3. InputsMean'
    BY DEF TypeOK, GatesPassed, TreeTested, InputsMean, Tested, Ended
  <2>4. FailuresReachInputs'
    BY DEF TypeOK, InputsMean, FailuresReachInputs, Tested, Ended, Recorders
  <2>5. UpdateOwed' /\ ContractDerived'
    BY DEF InputsMean, GatesPassed, UpdateOwed, ContractDerived, Tested, Ended
  <2> QED BY <2>1, <2>2, <2>3, <2>4, <2>5
<1>17. CASE recordAuditionContract
  <2> USE <1>17 DEF recordAuditionContract, Goto
  <2>1. TypeOK'
    BY DeriveType DEF TypeOK, Steps
  <2>2. GatesPassed' /\ TreeTested'
    BY DEF TypeOK, GatesPassed, TreeTested, Tested, Ended
  <2>3. InputsMean'
    BY DEF TypeOK, GatesPassed, TreeTested, InputsMean, Tested, Ended
  <2>4. FailuresReachInputs'
    BY DEF TypeOK, InputsMean, FailuresReachInputs, Tested, Ended, Recorders
  <2>5. UpdateOwed' /\ ContractDerived'
    BY DEF InputsMean, GatesPassed, UpdateOwed, ContractDerived, Tested, Ended
  <2> QED BY <2>1, <2>2, <2>3, <2>4, <2>5
<1>18. CASE Killed
  <2> USE <1>18 DEF Killed, Goto
  <2>1. TypeOK'
    BY DEF TypeOK, Steps, Fields, Gates, Bypasses
  <2>2. GatesPassed' /\ TreeTested'
    BY DEF TypeOK, GatesPassed, TreeTested, Tested, Ended
  <2>3. InputsMean'
    BY DEF TypeOK, GatesPassed, TreeTested, InputsMean, Tested, Ended
  <2>4. FailuresReachInputs'
    BY DEF TypeOK, InputsMean, FailuresReachInputs, Tested, Ended, Recorders
  <2>5. UpdateOwed' /\ ContractDerived'
    BY DEF InputsMean, GatesPassed, UpdateOwed, ContractDerived, Tested, Ended
  <2> QED BY <2>1, <2>2, <2>3, <2>4, <2>5
<1>19. CASE UNCHANGED vars
  BY <1>19 DEF vars, TypeOK, GatesPassed, TreeTested, InputsMean, FailuresReachInputs,
              UpdateOwed, ContractDerived
<1> QED
  BY <1>1, <1>2, <1>3, <1>4, <1>5, <1>6, <1>7, <1>8, <1>9, <1>10,
     <1>11, <1>12, <1>13, <1>14, <1>15, <1>16, <1>17, <1>18, <1>19
  DEF Next, auditionRun

(* The invariant holds throughout: every return of auditionRun is in it.    *)
THEOREM Invariance == Spec => []IInv
<1>1. Init => IInv
  BY InitInv
<1>2. IInv /\ [Next]_vars => IInv'
  BY StepInv
<1> QED BY <1>1, <1>2, PTL DEF Spec

(* The inputs of a contract that lets perform build.                        *)
LEMMA BuildInputs ==
  ASSUME IInv, performGate(contract) = "build"
  PROVE  /\ contract # Absent /\ pc = "done"
         /\ {"RunnerHealthy", "TestsPassed"} \subseteq in
         /\ {"Fatal", "ManifestProofFailed", "UpstreamRefused", "DepsErrored"} \cap in = {}
         /\ ~({"Remediable", "RemediationEnabled"} \subseteq in)
<1>1. contract # Absent /\ ~contract.blocking
  BY DEF performGate
<1>2. pc = "done" /\ contract = deriveAuditionContract(in)
  BY <1>1 DEF IInv, ContractDerived
<1>3. ~blocking(in)
  BY <1>1, <1>2 DEF deriveAuditionContract
<1> QED BY <1>1, <1>2, <1>3 DEF blocking

(* A contract that lets perform build has inputs that say what was passed. *)
LEMMA IInvSafe == IInv => AuditionSafe
<1> SUFFICES ASSUME IInv PROVE AuditionSafe
  OBVIOUS
<1>1. BuildsOnlyAudited
  BY BuildInputs DEF BuildsOnlyAudited, IInv, InputsMean, UpdateOwed
<1>2. ContractAgreesWithLedger
  BY BuildInputs DEF ContractAgreesWithLedger, IInv, FailuresReachInputs, InputsMean, Recorders
<1>3. RemediableNeverBuilt
  BY BuildInputs DEF RemediableNeverBuilt, IInv, InputsMean
<1> QED BY <1>1, <1>2, <1>3 DEF AuditionSafe, IInv

(* Perform builds only a source that configuration, discovery and tests     *)
(* passed, and lint and the gates behind an update too unless one of the    *)
(* four steps that auditionRun lets through gave out; with no failure in    *)
(* this run's part of the ledger and no finding that the update set out to  *)
(* fix, whichever return auditionRun took, wherever it was killed and       *)
(* whichever write of the ledger was lost.                                  *)
THEOREM AuditionFailsClosed == Spec => []AuditionSafe
<1>1. Spec => []IInv
  BY Invariance
<1>2. IInv => AuditionSafe
  BY IInvSafe
<1> QED BY <1>1, <1>2, PTL

(* Of all the steps only a commit of the update adds "deps" to those who    *)
(* pushed, and it is reached past the tests and past re-verification.       *)
LEMMA StepPushes ==
  ASSUME IInv, [Next]_vars, "deps" \in pushed' \ pushed
  PROVE  /\ {"committed", "updated"} \subseteq tested
         /\ "Fatal" \notin in
         /\ "sync" \notin pushed
<1>1. CASE autoCommitViaPlanner
  BY <1>1 DEF autoCommitViaPlanner, IInv, TreeTested, InputsMean, Tested, Ended
<1>2. CASE syncUpstream
  <2>1. pushed' = pushed \/ pushed' = pushed \cup {"sync"}
    BY <1>2 DEF syncUpstream
  <2> QED BY <2>1
<1>3. CASE UNCHANGED pushed
  BY <1>3
<1> QED
  BY <1>1, <1>2, <1>3
  DEF Next, auditionRun, vars, history, executorPreflight, runConfigPhase, watchUpstream,
      runFluxValidation, discover, runUniversalLint, auditionTests, noUpdate,
      leaveUpdateToSync, runDependencyUpdateLogic, reverify, EvaluateHandoff, outdatedGate,
      residualGate, recordAuditionContract, Killed

(* The update is pushed only on a tree and a source that both passed their  *)
(* tests in this run, and never onto a branch that upstream sync has moved: *)
(* re-verification, the early returns and the skip after a sync hold that   *)
(* together, whatever the gates find.                                       *)
THEOREM UpdatePushedVerified == Spec => PushesOnlyVerified
<1>1. IInv /\ [Next]_vars =>
        [\A who \in pushed' \ pushed :
           who = "deps" =>
             /\ {"committed", "updated"} \subseteq tested
             /\ "Fatal" \notin in
             /\ "sync" \notin pushed]_vars
  BY StepPushes
<1> QED BY Invariance, <1>1, PTL DEF Spec, PushesOnlyVerified

=============================================================================
