--------------------------- MODULE ComposeReconcile ---------------------------
(***************************************************************************)
(* The compose backend of the docker mode (docker/): reconciles run again  *)
(* and again over a tree of stacks, decide from stamps and from what runs  *)
(* whether a stack drifted, deploy those that did, take orphaned projects  *)
(* down where that is trusted, and save the stamps at the end. The owner   *)
(* commits between runs, operators touch the hosts at any time, and steps  *)
(* fail or the process dies. A stack's content is a version, which stands  *)
(* for its bundle hash and, as seen in its containers, for its config      *)
(* hash; stacks have one service.                                          *)
(***************************************************************************)
EXTENDS Naturals, FiniteSets, Sequences, SequencesExt, FiniteSetsExt

CONSTANTS
  Versions,    \* contents a stack may have
  CrEvents     \* commits, operators' doings and failures

ASSUME ComposeAssumption == Versions \subseteq Nat \ {0} /\ CrEvents \in Nat

VARIABLES
  crCfg, crPc,
  tree,        \* contents of the stacks in the checkout, 0 is none
  running,     \* on each daemon, each project: [v, up], version 0 is none
  stampFile,   \* .stagefreight-state.yml: per stack [b, c], 0 is none or unknown
  stamps,      \* the run's copy
  scanned,     \* stacks the run found
  toPlan,      \* stacks and targets still to look at
  actions,     \* planned: sequence of [act, key, hash]
  inSync,      \* stacks judged unchanged by files and containers alike
  crFailed,    \* some action failed
  downed,      \* ghost: <<target, project>> this run took down
  ended,       \* ghost: how the last run ended
  crEvents

crHost == <<tree, running>>
crRun == <<stamps, scanned, toPlan, actions, inSync, crFailed>>
crVars == <<crCfg, crPc, crHost, stampFile, crRun, downed, ended, crEvents>>

\* inv: the inventory, groups: those selected, on: the daemon of their hosts; stacks: <<scope, project>>;
\* daemon: this runner has one, named "local". origin: of the repository.
CrConfigs ==
  [inv : [STRING -> [hosts : SUBSET STRING, kids : SUBSET STRING]], groups : SUBSET STRING, on : STRING, stacks : SUBSET (STRING \X STRING), daemon : BOOLEAN,
   origin : BOOLEAN, orphan : {"report", "down", "prune"}, confirm : BOOLEAN, threshold : Nat]

\* The hosts of the selected groups and of the groups below them.
resolveGroupMembers(inv, groups) ==
  LET below[n \in 0..Cardinality(DOMAIN inv)] ==
        IF n = 0 THEN groups
        ELSE LET up == below[n - 1] IN up \cup (UNION {inv[g].kids : g \in up} \cap DOMAIN inv)
  IN UNION {inv[g].hosts : g \in below[Cardinality(DOMAIN inv)]}

\* A group the inventory does not have selects nothing.
Resolve(inv, groups) == resolveGroupMembers(inv, groups \cap DOMAIN inv)
Targets == Resolve(crCfg.inv, crCfg.groups)

Stacks == crCfg.stacks
Project(s) == s[2]
Projects == {Project(s) : s \in Stacks} \cup {"x"}       \* x is in no tree
Daemons == {"local"} \cup {crCfg.on}
None == [v |-> 0, up |-> FALSE]
NoStamp == [b |-> 0, c |-> 0]

CrFail == crEvents < CrEvents /\ crEvents' = crEvents + 1
CrOk == UNCHANGED crEvents

CrFrom(label) ==
  /\ crPc = label
  /\ tree = [s \in Stacks |-> Min(Versions)] /\ running = [d \in Daemons |-> [p \in Projects |-> None]]
  /\ stampFile = [s \in Stacks |-> NoStamp] /\ stamps = stampFile /\ scanned = {} /\ toPlan = {}
  /\ actions = <<>> /\ inSync = {} /\ crFailed = FALSE /\ downed = {} /\ ended = "none" /\ crEvents = 0

-----------------------------------------------------------------------------
(* The owner and the operators *)

CommitStack(s, v) ==
  /\ crPc = "idle" /\ CrFail /\ tree[s] # v /\ tree' = [tree EXCEPT ![s] = v]
  /\ UNCHANGED <<crCfg, crPc, running, stampFile, crRun, downed, ended>>

Operate(d, p, r) ==
  /\ CrFail /\ running[d][p] # r /\ running' = [running EXCEPT ![d][p] = r]
  /\ UNCHANGED <<crCfg, crPc, tree, stampFile, crRun, downed, ended>>

\* The process dies: what is in memory is lost.
Crash ==
  /\ crPc \notin {"idle", "off"} /\ CrFail /\ crPc' = "idle" /\ ended' = "crash"
  /\ UNCHANGED <<crCfg, crHost, stampFile, crRun, downed>>

-----------------------------------------------------------------------------
(* Plan *)

\* A stack goes to the host its scope names, and otherwise to the daemon of this runner.
DaemonOf(scope) == IF scope \in Targets THEN crCfg.on ELSE IF crCfg.daemon THEN "local" ELSE "none"

\* A directory that cannot be read is skipped like one without stacks.
ScanIaC(lost) == {s \in Stacks : tree[s] # 0 /\ s[1] \notin lost}

crBegin ==
  /\ crPc = "idle" /\ Targets # {}
  /\ \E lost \in {{}} \cup {{s[1]} : s \in Stacks} :
       /\ IF lost = {} THEN CrOk ELSE CrFail
       /\ scanned' = ScanIaC(lost) /\ toPlan' = ScanIaC(lost)
  /\ crPc' = "plan" /\ stamps' = stampFile /\ actions' = <<>> /\ inSync' = {} /\ crFailed' = FALSE /\ downed' = {}
  /\ UNCHANGED <<crCfg, crHost, stampFile, ended>>

\* Validate or Prepare fails, or the stamps cannot be read: nothing is done.
crRefuse ==
  /\ crPc = "idle" /\ CrFail /\ ended' = "failed"
  /\ UNCHANGED <<crCfg, crPc, crHost, stampFile, crRun, downed>>

\* The containers against the stamp of the last deployment.
checkTier2DriftRunning(r, stored) == r.v = 0 \/ ~r.up
checkTier2Drift(r, stored) == r.v = 0 \/ ~r.up \/ (stored.c # 0 /\ r.v # stored.c)

\* hash: the bundle's; seen: the containers could be inspected.
DetectDrift(s, hash, seen) ==
  \/ stamps[s] = NoStamp \/ hash # stamps[s].b
  \/ seen /\ DaemonOf(s[1]) # "none" /\ checkTier2Drift(running[DaemonOf(s[1])][Project(s)], stamps[s])

\* A file that cannot be read or decrypted is left out of the hash.
Partial(v) == v + 10
ComputeBundleHash(s, whole) == IF whole THEN tree[s] ELSE Partial(tree[s])
planStack(s) ==
  /\ crPc = "plan" /\ s \in toPlan /\ toPlan' = toPlan \ {s}
  /\ \E fault \in {"none", "hash", "inspect"} :
       LET hash == ComputeBundleHash(s, fault # "hash")
           drift == DetectDrift(s, hash, fault # "inspect")
       IN /\ IF fault = "none" THEN CrOk ELSE CrFail
          /\ actions' = IF drift THEN Append(actions, [act |-> "up", key |-> s, hash |-> hash]) ELSE actions
          /\ inSync' = IF ~drift /\ fault # "inspect" /\ DaemonOf(s[1]) # "none" THEN inSync \cup {s} ELSE inSync
  /\ UNCHANGED <<crCfg, crPc, crHost, stampFile, stamps, scanned, crFailed, downed, ended>>

\* Every project of the tree is known, whichever host it is for.
knownProjects(t) == {Project(s) : s \in scanned}

Authoritative == crCfg.origin    \* the sentinel and the tree are there, and the repository has an origin
AllowDestructiveOrphanAction(known, listed, orphans) ==
  /\ Authoritative
  /\ ~(known = {} /\ listed # {})
  /\ ~(crCfg.threshold > 0 /\ Cardinality(orphans) > crCfg.threshold)

\* Not trusted: only reported. A prune that wants confirmation becomes a down.
OrphanAction(allowed) ==
  IF ~allowed THEN "report" ELSE IF crCfg.orphan = "prune" /\ crCfg.confirm THEN "down" ELSE crCfg.orphan

\* Runs once the stacks are planned; a target that cannot be listed is reported.
planOrphans ==
  /\ crPc = "plan" /\ toPlan = {} /\ crPc' = "execute"
  /\ \E listed \in {TRUE, FALSE} :
       LET Of(t) == IF listed THEN {p \in Projects : running[crCfg.on][p].v # 0} ELSE {}
           Orphans(t) == Of(t) \ knownProjects(t)
           Act(t) == OrphanAction(AllowDestructiveOrphanAction(knownProjects(t), Of(t), Orphans(t)))
           found == {[act |-> Act(t), key |-> <<t, p>>, hash |-> 0] : t \in Targets, p \in Projects}
       IN /\ IF listed THEN CrOk ELSE CrFail
          /\ actions' = actions \o SetToSeq({a \in found : a.key[2] \in Orphans(a.key[1]) /\ a.act # "report"})
  /\ UNCHANGED <<crCfg, crHost, stampFile, stamps, scanned, toPlan, inSync, crFailed, downed, ended>>

-----------------------------------------------------------------------------
(* Execute *)

\* Pre hook, compose, post hook: only the last can fail with the containers already changed.
ExecuteAction(d, p, after) ==
  {[ok |-> TRUE, run |-> [running EXCEPT ![d][p] = after]], [ok |-> FALSE, run |-> [running EXCEPT ![d][p] = after]],
   [ok |-> FALSE, run |-> running]}

StampWith(s, hash, conf) == [stamps EXCEPT ![s] = [b |-> hash, c |-> conf]]

\* The bundle is staged from the tree and run; only a deployment that succeeds is stamped, with
\* the hash of the plan and the config hash its containers show, if they can be inspected.
deployStack(a) ==
  LET s == a.key
  IN \E r \in ExecuteAction(DaemonOf(s[1]), Project(s), [v |-> tree[s], up |-> TRUE]), seen \in BOOLEAN :
       /\ IF r.ok /\ seen THEN CrOk ELSE CrFail
       /\ running' = r.run /\ crFailed' = (crFailed \/ ~r.ok)
       /\ stamps' = IF r.ok THEN StampWith(s, a.hash, IF seen THEN tree[s] ELSE 0) ELSE stamps

downStack(a) ==
  \E r \in ExecuteAction(DaemonOf(a.key[1]), a.key[2], None) :
    /\ IF r.ok THEN CrOk ELSE CrFail
    /\ running' = r.run /\ crFailed' = (crFailed \/ ~r.ok)
    /\ stamps' = IF r.ok /\ a.key \in Stacks THEN [stamps EXCEPT ![a.key] = NoStamp] ELSE stamps

composeExecuteAborting ==
  /\ crPc = "execute" /\ actions # <<>>
  /\ LET a == Head(actions)
     IN /\ \/ a.act = "up" /\ DaemonOf(a.key[1]) # "none" /\ deployStack(a)
           \/ CrOk /\ DaemonOf(a.key[1]) = "none" /\ crFailed' = TRUE /\ UNCHANGED <<running, stamps>>
           \/ a.act # "up" /\ downStack(a)
        /\ downed' = IF a.act = "up" THEN downed ELSE downed \cup {a.key}
  /\ actions' = IF crFailed' THEN <<>> ELSE Tail(actions)
  /\ UNCHANGED <<crCfg, crPc, tree, stampFile, scanned, toPlan, inSync, ended>>
composeExecute ==
  /\ crPc = "execute" /\ actions # <<>> /\ actions' = Tail(actions)
  /\ LET a == Head(actions)
     IN /\ \/ a.act = "up" /\ DaemonOf(a.key[1]) # "none" /\ deployStack(a)
           \/ CrOk /\ DaemonOf(a.key[1]) = "none" /\ crFailed' = TRUE /\ UNCHANGED <<running, stamps>>
           \/ a.act # "up" /\ downStack(a)
        /\ downed' = IF a.act = "up" THEN downed ELSE downed \cup {a.key}
  /\ UNCHANGED <<crCfg, crPc, tree, stampFile, scanned, toPlan, inSync, ended>>

\* The stamps are saved once, after all actions; then any failed action fails the run.
SaveHashStamps ==
  /\ crPc = "execute" /\ actions = <<>> /\ crPc' = "idle"
  /\ \/ CrOk /\ stampFile' = stamps /\ ended' = IF crFailed THEN "failed" ELSE "ok"
     \/ CrFail /\ ended' = "failed" /\ UNCHANGED stampFile
  /\ UNCHANGED <<crCfg, crHost, crRun, downed>>

-----------------------------------------------------------------------------

CrNext ==
  \/ \E s \in Stacks, v \in Versions \cup {0} : CommitStack(s, v)
  \/ \E d \in Daemons, p \in Projects, r \in {None, [v |-> 9, up |-> TRUE], [v |-> Min(Versions), up |-> FALSE]} : Operate(d, p, r)
  \/ Crash \/ crBegin \/ crRefuse \/ planOrphans \/ composeExecute \/ SaveHashStamps
  \/ \E s \in Stacks : planStack(s)

\* The schedule starts a run after another, and a run goes on.
CrFair ==
  /\ WF_crVars(crBegin) /\ WF_crVars(planOrphans) /\ WF_crVars(composeExecute) /\ WF_crVars(SaveHashStamps)
  /\ WF_crVars(\E s \in Stacks : planStack(s))

-----------------------------------------------------------------------------

CrTypeOK ==
  /\ crPc \in {"off", "idle", "plan", "execute"}
  /\ tree \in [Stacks -> Versions \cup {0}]
  /\ \A s \in Stacks : {stampFile[s].b, stampFile[s].c, stamps[s].b, stamps[s].c} \subseteq Versions \cup {0} \cup {Partial(v) : v \in Versions}
  /\ toPlan \subseteq scanned /\ inSync \subseteq scanned /\ crEvents \in 0..CrEvents

(***************************************************************************)
(* A stack that both tiers call unchanged runs the content of the tree,    *)
(* after any sequence of commits, reverts, failed deployments, crashes and *)
(* operators' doings, if the last deployment could be inspected.           *)
(***************************************************************************)
UnchangedIsDeployed ==
  [][\A s \in inSync' \ inSync : stamps[s].c # 0 => running[DaemonOf(s[1])][Project(s)] = [v |-> tree[s], up |-> TRUE]]_crVars

(***************************************************************************)
(* A run never takes down a project of the tree that it could read, not    *)
(* even one that another host's scope declares.                            *)
(***************************************************************************)
DeclaredStaysUp == \A k \in downed : k[2] \notin {Project(s) : s \in scanned}

(***************************************************************************)
(* What one run destroys is bounded: nothing without an authoritative      *)
(* repository or when nothing at all is declared, and no more projects of  *)
(* a host than the threshold.                                              *)
(***************************************************************************)
BlastRadius ==
  downed # {} =>
    /\ Authoritative /\ scanned # {} /\ crCfg.orphan # "report"
    /\ crCfg.threshold > 0 => \A t \in Targets : Cardinality({k \in downed : k[1] = t}) <= crCfg.threshold

(***************************************************************************)
(* A run that ends well has every stack it found stamped with the content  *)
(* of the tree, or with a hash that the next run will find different.      *)
(***************************************************************************)
WellIsStamped ==
  [][ended' = "ok" /\ crPc # "idle" /\ crPc' = "idle" => \A s \in scanned : stampFile'[s].b \in {tree[s], Partial(tree[s])}]_crVars

(***************************************************************************)
(* Once commits, operators and failures leave it alone, the estate settles:*)
(* every stack with a daemon runs the content of the tree, whatever was    *)
(* lost, half done or unsaved before. A deployment that succeeded but was  *)
(* never inspected is the exception.                                       *)
(***************************************************************************)
EstateSettles ==
  <>[](\A s \in Stacks : tree[s] # 0 /\ DaemonOf(s[1]) # "none" =>
         running[DaemonOf(s[1])][Project(s)] = [v |-> tree[s], up |-> TRUE] \/ (stampFile[s].b # 0 /\ stampFile[s].c = 0))

\* What a compose reconcile leaves true of the daemons: a declared stack is
\* not taken down, orphans go only within the threshold, an unchanged verdict
\* means deployed, and only what is up is stamped (docker/compose.go, docker/iac.go).
ComposeKeeps ==
  /\ [](CrTypeOK /\ DeclaredStaysUp /\ BlastRadius)
  /\ UnchangedIsDeployed
  /\ WellIsStamped
=============================================================================
