--------------------------- MODULE GitopsReconcile ----------------------------
(***************************************************************************)
(* The reconcile phase (cli/cmd/reconcile.go, cli/cmd/ansible.go, runtime/,*)
(* gitops/, ansible/). Audition proves the manifests of every Flux         *)
(* Kustomization and leaves the verdicts in proof-results.json; reconcile  *)
(* converges the hosts with Ansible and then accelerates the validated     *)
(* kustomizations in dependency order. Kustomizations are numbers, ordered *)
(* as their keys are.                                                      *)
(***************************************************************************)
EXTENDS Naturals, FiniteSets, Sequences, SequencesExt, FiniteSetsExt

CONSTANTS GrEvents     \* failures of tools, hosts and the network

ASSUME ReconcileAssumption == GrEvents \in Nat

VARIABLES
  grCfg, grPc,
  graph,       \* the Flux graph of the checked out tree: key -> [path, deps]
  evidence,    \* proof-results.json: [there, skipped, verdict]
  secretFiles, \* temporary files that hold credentials
  cleanups,    \* of those, the ones registered for removal
  grTodo,      \* kustomizations to accelerate
  declined,    \* kustomizations left to Flux's own poll
  grResults,   \* of the accelerated: set of <<kustomization, success>>
  playsLeft,   \* plays to run
  playResults, \* of the plays run: set of [play, exit, hosts]
  grLedger,    \* outcome recorded by each subsystem
  ansErr, priErr, \* what the two halves returned
  asked,       \* ghost: kustomizations Flux was asked to reconcile, in order
  converged,   \* ghost: plays run without --check
  grEvents

grPlan == <<grTodo, declined, grResults, asked>>
grPlays == <<playsLeft, playResults, converged>>
grOut == <<grLedger, ansErr, priErr>>
grVars == <<grCfg, grPc, graph, evidence, secretFiles, cleanups, grPlan, grPlays, grOut, grEvents>>

\* docs: the Kustomization documents in walk order: [key, path, deps], path "" is pathless.
\* root: what each path renders to. tool: how kustomize and kubeconform resolve.
\* plays: the converge set [id, hosts, required]. ref: reconciled by hand, or by the pipeline of the
\* default branch or of another ref (merge request, feature branch, tag, one that is not known).
GrConfigs ==
  [docs : Seq([key : Nat, path : STRING, deps : SUBSET Nat]),
   root : {"ok", "empty", "crash", "invalid", "crd", "unparsable"}, bad : STRING,
   tool : {"ok", "absent", "pinned"}, plays : Seq([id : STRING, hosts : SUBSET STRING, required : BOOLEAN]),
   creds : BOOLEAN, ca64 : BOOLEAN, ref : {"hand", "default", "other"}, dry : BOOLEAN]

-----------------------------------------------------------------------------
(* The graph *)

NormalizePath(p) == IF p = "" THEN "." ELSE p

\* A later document of a key replaces an earlier one, unless it is a pathless fragment.
Added(g, d) ==
  IF d.key \in DOMAIN g /\ g[d.key].path # "." /\ d.path = "" THEN g
  ELSE [k \in DOMAIN g \cup {d.key} |->
          IF k = d.key THEN [path |-> NormalizePath(d.path), deps |-> d.deps] ELSE g[k]]
DiscoverFluxGraph(docs) ==
  LET after[n \in 0..Len(docs)] == IF n = 0 THEN <<>> ELSE Added(after[n - 1], docs[n])
  IN after[Len(docs)]

Known(g, k) == g[k].deps \cap DOMAIN g

\* Kahn's algorithm: what is placed after n rounds; the round of a node is its depth.
PlacedAt(g) ==
  LET p[n \in 0..Cardinality(DOMAIN g)] ==
        IF n = 0 THEN {} ELSE LET prev == p[n - 1] IN {k \in DOMAIN g : Known(g, k) \subseteq prev}
  IN p
kahn(g) == PlacedAt(g)[Cardinality(DOMAIN g)]
Depth(g, k) == Min({n \in 0..Cardinality(DOMAIN g) : k \in PlacedAt(g)[n]})

CycleNodes(g) == DOMAIN g \ kahn(g)
DanglingDeps(g) == {k \in DOMAIN g : ~(g[k].deps \subseteq DOMAIN g)}

\* The members of S, the first of those left again and again.
Sorted(S, order) ==
  LET s[n \in 0..Cardinality(S)] ==
        IF n = 0 THEN <<>>
        ELSE LET rest == S \ ToSet(s[n - 1])
             IN Append(s[n - 1], CHOOSE a \in rest : \A b \in rest \ {a} : <<a, b>> \in order)
  IN s[Cardinality(S)]

lessKey(g) == {p \in (DOMAIN g) \X (DOMAIN g) : p[1] < p[2]}
Wavefront(g) ==
  {p \in kahn(g) \X kahn(g) :
     Depth(g, p[1]) < Depth(g, p[2]) \/ (Depth(g, p[1]) = Depth(g, p[2]) /\ p[1] < p[2])}

\* Of those in S: by depth, then by key; the members of cycles last.
ReconcileOrderByKey(g, S) == Sorted(DOMAIN g \cap S, lessKey(g))
ReconcileOrder(g, S) == Sorted(kahn(g) \cap S, Wavefront(g)) \o Sorted(CycleNodes(g) \cap S, lessKey(g))

\* Those in B and all that depend on them.
Dependents(g, B) ==
  LET a[n \in 0..Cardinality(DOMAIN g)] ==
        IF n = 0 THEN B ELSE LET prev == a[n - 1] IN prev \cup {k \in DOMAIN g : g[k].deps \cap prev # {}}
  IN a[Cardinality(DOMAIN g)]

\* What a change to some paths affects: their kustomizations and all that depend on them.
ComputeImpact(g, paths) == Dependents(g, {k \in DOMAIN g : g[k].path \in paths})

\* The smallest kustomization without a dependency left, again and again; by key if that gets stuck.
Ready(g, S, placed) == {k \in S \ ToSet(placed) : g[k].deps \cap (S \ ToSet(placed)) = {}}
Drained(g, S) ==
  LET t[n \in 0..Cardinality(S)] ==
        IF n = 0 THEN <<>>
        ELSE LET now == Ready(g, S, t[n - 1]) IN IF now = {} THEN t[n - 1] ELSE Append(t[n - 1], Min(now))
  IN t[Cardinality(S)]
TopoSort(g, S) == IF Len(Drained(g, S)) = Cardinality(S) THEN Drained(g, S) ELSE Sorted(S, lessKey(g))

-----------------------------------------------------------------------------
NoProof == [there |-> FALSE, skipped |-> FALSE, verdict |-> <<>>]
GrFail == grEvents < GrEvents /\ grEvents' = grEvents + 1
GrOk == UNCHANGED grEvents

GrFrom(label) ==
  /\ grPc = label /\ graph = DiscoverFluxGraph(grCfg.docs) /\ evidence = NoProof /\ secretFiles = {} /\ cleanups = {}
  /\ grTodo = <<>> /\ declined = {} /\ grResults = {} /\ asked = <<>>
  /\ playsLeft = <<>> /\ playResults = {} /\ converged = {}
  /\ grLedger = [s \in {"ansible", "reconcile"} |-> "none"] /\ ansErr = FALSE /\ priErr = FALSE /\ grEvents = 0

-----------------------------------------------------------------------------
(* Audition: the proof *)

RootOf(path) == IF path = grCfg.bad THEN grCfg.root ELSE "ok"

\* An invalid core resource or unreadable output fails, the catalogue's opinion of a CRD only warns.
schemaCheck(r) == IF r \in {"invalid", "unparsable"} THEN "fail" ELSE IF r = "crd" THEN "warn" ELSE "pass"

renderRoot(r) == IF r = "crash" THEN "fail" ELSE IF r = "empty" THEN "pass" ELSE schemaCheck(r)

graphVerdicts(g) == CycleNodes(g) \cup DanglingDeps(g)

Verdict(g, k, rendered) ==
  IF k \in graphVerdicts(g) THEN "fail" ELSE IF rendered THEN renderRoot(RootOf(g[k].path)) ELSE "pass"

Proven(rendered) == [there |-> TRUE, skipped |-> ~rendered, verdict |-> [k \in DOMAIN graph |-> Verdict(graph, k, rendered)]]

\* A tool that is pinned and does not resolve fails the validation; one that is merely absent
\* skips the rendering. A failed write of the proof is only a warning. Whatever it found, the
\* job may fail without the pipeline ending, and no contract is read when reconciling.
runFluxValidation ==
  /\ grPc = "audition" /\ grPc' = "gate"
  /\ \/ GrOk /\ (DOMAIN graph = {} \/ grCfg.tool = "pinned") /\ UNCHANGED evidence
     \/ /\ DOMAIN graph # {} /\ grCfg.tool # "pinned"
        /\ \/ GrOk /\ evidence' = Proven(grCfg.tool = "ok")
           \/ GrFail /\ UNCHANGED evidence
  /\ UNCHANGED <<grCfg, graph, secretFiles, cleanups, grPlan, grPlays, grOut>>

\* A pipeline reconciles on the default branch only.
acceptedState == grCfg.ref # "other"

\* The hosts before what is scheduled onto them.
reconcileRunner ==
  /\ grPc = "gate" /\ GrOk
  /\ grPc' = IF ~acceptedState THEN "skipped" ELSE IF grCfg.plays = <<>> THEN "flux" ELSE "ansible"
  /\ UNCHANGED <<grCfg, graph, evidence, secretFiles, cleanups, grPlan, grPlays, grOut>>

-----------------------------------------------------------------------------
(* Ansible *)

\* Validate and Prepare: a runtime, the inventory, the plays, the key.
ansiblePrepare ==
  /\ grPc = "ansible" /\ UNCHANGED <<grCfg, graph, evidence, secretFiles, cleanups, grPlan, playResults, converged, priErr>>
  /\ \/ GrOk /\ ~grCfg.creds /\ grPc' = "flux" /\ UNCHANGED <<playsLeft, grLedger, ansErr>>
     \/ GrOk /\ grCfg.creds /\ grPc' = "play" /\ playsLeft' = grCfg.plays /\ UNCHANGED <<grLedger, ansErr>>
     \/ /\ GrFail /\ grCfg.creds /\ grPc' = "flux" /\ ansErr' = TRUE
        /\ grLedger' = [grLedger EXCEPT !["ansible"] = "failed"] /\ UNCHANGED playsLeft

HostStates == {"ok", "failed", "unreachable"}
Recaps(p) == {[play |-> p, exit |-> 0, hosts |-> [h \in p.hosts |-> "ok"]]}
BadRecaps(p) == {[play |-> p, exit |-> 1, hosts |-> s] : s \in [p.hosts -> HostStates] \cup {<<>>}}

\* One play with the key in an agent or in the container's memory. The key goes with the play.
runPlay ==
  /\ grPc = "play" /\ playsLeft # <<>>
  /\ \E r \in Recaps(Head(playsLeft)) \cup BadRecaps(Head(playsLeft)) :
       /\ IF r.exit = 0 THEN GrOk ELSE GrFail
       /\ playResults' = playResults \cup {r}
  /\ playsLeft' = Tail(playsLeft)
  /\ converged' = IF grCfg.dry THEN converged ELSE converged \cup {Head(playsLeft).id}
  /\ UNCHANGED <<grCfg, grPc, graph, evidence, secretFiles, cleanups, grPlan, grOut>>

PlayFailed(r) == r.hosts = <<>> \/ r.exit # 0 \/ \E h \in DOMAIN r.hosts : r.hosts[h] # "ok"

\* Only required plays fail the phase; a dry run has no result to judge.
ansibleFailure == ~grCfg.dry /\ \E r \in playResults : PlayFailed(r) /\ r.play.required

\* A host counts once, and as failed if any play failed on it.
Aggregate == {h \in UNION {DOMAIN r.hosts : r \in playResults} : \E r \in playResults : h \in DOMAIN r.hosts /\ r.hosts[h] # "ok"}

recordAnsibleState ==
  /\ grPc = "play" /\ playsLeft = <<>> /\ grPc' = "flux"
  /\ ansErr' = ansibleFailure
  /\ \/ GrOk /\ grLedger' = [grLedger EXCEPT !["ansible"] = IF Aggregate # {} THEN "failed" ELSE "success"]
     \/ GrFail /\ UNCHANGED grLedger
  /\ UNCHANGED <<grCfg, graph, evidence, secretFiles, cleanups, grPlan, grPlays, priErr>>

-----------------------------------------------------------------------------
(* Flux *)

\* The run ends; the registered clean-ups remove their files.
GrReturn(failed) ==
  /\ grPc' = "done" /\ priErr' = failed
  /\ secretFiles' = secretFiles \ cleanups /\ cleanups' = {}

fluxValidate ==
  /\ grPc = "flux"
  /\ UNCHANGED <<grCfg, graph, evidence, grPlan, grPlays, grLedger, ansErr>>
  /\ \/ GrOk /\ grPc' = "auth" /\ UNCHANGED <<secretFiles, cleanups, priErr>>
     \/ GrFail /\ GrReturn(TRUE)

\* The kubeconfig is created, filled and registered for removal before anything can fail.
BuildKubeconfig ==
  /\ grPc = "auth" /\ GrOk /\ grPc' = "ca"
  /\ secretFiles' = secretFiles \cup {"kubeconfig"} /\ cleanups' = cleanups \cup {"kubeconfig"}
  /\ UNCHANGED <<grCfg, graph, evidence, grPlan, grPlays, grOut>>

\* A CA given in base64 is decoded to a file, which a failed write removes at once.
resolveCA ==
  /\ grPc = "ca"
  /\ UNCHANGED <<grCfg, graph, evidence, grPlan, grPlays, grLedger, ansErr>>
  /\ \/ /\ GrOk /\ grPc' = "kubectl" /\ UNCHANGED priErr
        /\ secretFiles' = secretFiles \cup (IF grCfg.ca64 THEN {"ca"} ELSE {})
        /\ cleanups' = cleanups \cup (IF grCfg.ca64 THEN {"ca"} ELSE {})
     \/ GrFail /\ GrReturn(TRUE)

kubectlRun ==
  /\ grPc = "kubectl"
  /\ UNCHANGED <<grCfg, graph, evidence, grPlan, grPlays, grLedger, ansErr>>
  /\ \/ GrOk /\ grPc' = "plan" /\ UNCHANGED <<secretFiles, cleanups, priErr>>
     \/ GrFail /\ GrReturn(TRUE)

\* Fail closed: no proof, an unreadable one or a skipped one validates nothing.
reconcileVerdicts == IF evidence.there /\ ~evidence.skipped THEN {k \in DOMAIN evidence.verdict : evidence.verdict[k] # "fail"} ELSE {}

fluxPlan ==
  /\ grPc = "plan"
  /\ UNCHANGED <<grCfg, graph, evidence, secretFiles, cleanups, grPlays, grOut, grResults, asked>>
  /\ \/ /\ GrOk
        /\ grTodo' = ReconcileOrder(graph, reconcileVerdicts)
        /\ declined' = DOMAIN graph \ reconcileVerdicts
     \/ GrFail /\ evidence.there /\ grTodo' = <<>> /\ declined' = DOMAIN graph   \* the proof cannot be read
  /\ grPc' = IF grCfg.dry THEN "record" ELSE "execute"

\* The source first, then the kustomization; a failure of either is a result, and the others go on.
fluxExecute ==
  /\ grPc = "execute" /\ grTodo # <<>>
  /\ LET k == Head(grTodo)
     IN \/ GrOk /\ asked' = Append(asked, k) /\ grResults' = grResults \cup {<<k, TRUE>>}
        \/ GrFail /\ asked' = Append(asked, k) /\ grResults' = grResults \cup {<<k, FALSE>>}
        \/ GrFail /\ UNCHANGED asked /\ grResults' = grResults \cup {<<k, FALSE>>}   \* the source
  /\ grTodo' = Tail(grTodo)
  /\ UNCHANGED <<grCfg, grPc, graph, evidence, secretFiles, cleanups, declined, grPlays, grOut>>

fluxExecuted ==
  /\ grPc = "execute" /\ grTodo = <<>> /\ GrOk /\ grPc' = "record"
  /\ UNCHANGED <<grCfg, graph, evidence, secretFiles, cleanups, grPlan, grPlays, grOut>>

reconcileFacts == \E r \in grResults : ~r[2]

\* The ledger is written once the plan was executed, and only then is the error returned.
recordReconcileState ==
  /\ grPc = "record" /\ GrReturn(reconcileFacts)
  /\ \/ GrOk /\ grLedger' = IF grCfg.dry THEN grLedger
                            ELSE [grLedger EXCEPT !["reconcile"] = IF reconcileFacts THEN "failed" ELSE "success"]
     \/ GrFail /\ UNCHANGED grLedger
  /\ UNCHANGED <<grCfg, graph, evidence, grPlan, grPlays, ansErr>>

-----------------------------------------------------------------------------

GrDone ==
  /\ grPc \in {"done", "skipped"} /\ UNCHANGED grVars

GrNext ==
  \/ runFluxValidation \/ reconcileRunner \/ ansiblePrepare \/ runPlay \/ recordAnsibleState
  \/ fluxValidate \/ BuildKubeconfig \/ resolveCA \/ kubectlRun
  \/ fluxPlan \/ fluxExecute \/ fluxExecuted \/ recordReconcileState \/ GrDone

GrFair == WF_grVars(GrNext)

-----------------------------------------------------------------------------

GrTypeOK ==
  /\ grPc \in {"off", "audition", "gate", "skipped", "ansible", "play", "flux", "auth", "ca", "kubectl", "plan", "execute", "record", "done"}
  /\ evidence.there => DOMAIN evidence.verdict = DOMAIN graph
  /\ cleanups \subseteq secretFiles /\ secretFiles \subseteq {"kubeconfig", "ca"}
  /\ ToSet(grTodo) \cup {r[1] : r \in grResults} \cup declined \subseteq DOMAIN graph
  /\ grLedger \in [{"ansible", "reconcile"} -> {"none", "success", "failed"}]
  /\ grEvents \in 0..GrEvents

\* The paths of the dependency graph, from its edges alone.
Reaches(g) ==
  LET r[n \in 0..Cardinality(DOMAIN g)] ==
        IF n = 0 THEN {p \in (DOMAIN g) \X (DOMAIN g) : p[2] \in g[p[1]].deps}
        ELSE LET prev == r[n - 1]
             IN prev \cup {p \in (DOMAIN g) \X (DOMAIN g) : \E b \in DOMAIN g : <<p[1], b>> \in prev /\ <<b, p[2]>> \in prev}
  IN r[Cardinality(DOMAIN g)]

(***************************************************************************)
(* Flux is only asked to reconcile what audition could render and validate *)
(* and what can be ordered: nothing that is on a cycle or depends on one,  *)
(* that names an unknown kustomization, or that was never proved, whatever *)
(* tool was absent, whichever write or read of the proof failed, and       *)
(* although a failed audition does not stop the pipeline.                  *)
(***************************************************************************)
OnlyProvenAccelerated ==
  \A k \in ToSet(asked) :
    /\ RootOf(graph[k].path) \notin {"crash", "invalid", "unparsable"} /\ grCfg.tool = "ok"
    /\ graph[k].deps \subseteq DOMAIN graph
    /\ ~ \E b \in DOMAIN graph : <<b, b>> \in Reaches(graph) /\ (b = k \/ <<k, b>> \in Reaches(graph))

(***************************************************************************)
(* No kustomization is accelerated before one that it depends on, however  *)
(* far, although their keys sort otherwise.                                *)
(***************************************************************************)
DependenciesFirst ==
  \A i, j \in DOMAIN asked : <<asked[i], asked[j]>> \in Reaches(graph) => j < i

(***************************************************************************)
(* A reconcile that ran its course has decided about every kustomization,  *)
(* once: declined with a reason, or tried; and a clean exit means that all *)
(* tried ones reconciled and every required play converged on every host   *)
(* that it named.                                                          *)
(***************************************************************************)
CleanExitMeansConverged ==
  /\ grPc = "record" /\ ~grCfg.dry =>
       /\ declined \cup {r[1] : r \in grResults} = DOMAIN graph
       /\ declined \cap {r[1] : r \in grResults} = {}
  /\ grPc = "done" /\ ~ansErr /\ ~priErr /\ ~grCfg.dry =>
       /\ \A k \in DOMAIN graph \ declined : <<k, TRUE>> \in grResults
       /\ grCfg.creds => \A i \in DOMAIN grCfg.plays : grCfg.plays[i].required =>
            \E r \in playResults : r.play = grCfg.plays[i] /\ \A h \in grCfg.plays[i].hosts : h \in DOMAIN r.hosts /\ r.hosts[h] = "ok"

\* A failed play whose recap names no failed host: there is none, or only its exit code tells.
Unrecapped(r) == PlayFailed(r) /\ \A h \in DOMAIN r.hosts : r.hosts[h] = "ok"

(***************************************************************************)
(* The records of the reconcile and of the hosts agree with what the run   *)
(* returns. That of the hosts counts the hosts of the recaps: it says      *)
(* success of a failed run only if a required play is Unrecapped           *)
(* (cli/cmd/ansible.go:148-157 against ansible/backend.go:290), and failed *)
(* of a good one only for an advisory play or a dry run. A failure of the  *)
(* hosts does not keep the manifests from being reconciled: the run gets   *)
(* to Flux after any failed converge, and still fails.                     *)
(***************************************************************************)
RecordsAgree ==
  grPc = "done" =>
    /\ grLedger["reconcile"] = "success" => ~priErr
    /\ grLedger["reconcile"] = "failed" => priErr
    /\ grLedger["ansible"] = "success" /\ ansErr => \E r \in playResults : r.play.required /\ Unrecapped(r)
    /\ grLedger["ansible"] = "failed" /\ ~ansErr => grCfg.dry \/ \E r \in playResults : PlayFailed(r) /\ ~r.play.required
    /\ ansErr /\ ~priErr /\ ~grCfg.dry => \A k \in DOMAIN graph : k \in declined \/ <<k, TRUE>> \in grResults

(***************************************************************************)
(* Off the default branch a pipeline enacts nothing: proposed state is     *)
(* audited only.                                                           *)
(***************************************************************************)
AcceptedOnly == grCfg.ref = "other" => asked = <<>> /\ converged = {} /\ secretFiles = {}

\* No file with credentials outlives the run, whichever step failed.
CredentialsRemoved == grPc = "done" => secretFiles = {}

(***************************************************************************)
(* A dry run renders, checks and plans; it changes neither the cluster nor *)
(* a host.                                                                 *)
(***************************************************************************)
DryRunIsDry == grCfg.dry => asked = <<>> /\ converged = {}

(***************************************************************************)
(* The impact report names exactly what reaches a changed path and lists   *)
(* dependencies first where there is such an order.                        *)
(***************************************************************************)
ImpactIsComplete ==
  grPc = "audition" => \A paths \in SUBSET {graph[k].path : k \in DOMAIN graph} :
    LET S == ComputeImpact(graph, paths)
        t == TopoSort(graph, S)
        acyclic == \A k \in S : <<k, k>> \notin Reaches(graph)
    IN /\ S = {k \in DOMAIN graph : graph[k].path \in paths \/ \E b \in DOMAIN graph : <<k, b>> \in Reaches(graph) /\ graph[b].path \in paths}
       /\ ToSet(t) = S /\ Len(t) = Cardinality(S)
       /\ acyclic => \A i, j \in DOMAIN t : <<t[i], t[j]>> \in Reaches(graph) => j < i

\* What a gitops reconcile leaves true: only proven kustomizations are
\* accelerated, dependencies first, a clean exit means converged, ledger and
\* results agree but for a play without a recap, credentials are removed, a dry
\* run and a pipeline off the default branch change nothing, and the impact
\* analysis is complete (cli/cmd/reconcile.go, cli/cmd/ansible.go).
GitopsSafe ==
  /\ GrTypeOK
  /\ OnlyProvenAccelerated
  /\ DependenciesFirst
  /\ CleanExitMeansConverged
  /\ RecordsAgree
  /\ CredentialsRemoved
  /\ DryRunIsDry
  /\ AcceptedOnly
  /\ ImpactIsComplete
=============================================================================
