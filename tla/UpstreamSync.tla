---------------------------- MODULE UpstreamSync ----------------------------
(***************************************************************************)
(* syncUpstream (src/src/cli/cmd/upstream_sync.go) and PlanSync            *)
(* (src/src/upstream/sync.go): pipelines on the default branch join        *)
(* upstream's newest release into it while others push to it.              *)
(*                                                                         *)
(* A commit is the sequence of changes it carries, oldest first: a commit  *)
(* is an ancestor of another when it is a prefix of it.  Merging upstream  *)
(* into our head appends its missing changes; a rebase puts ours on top    *)
(* of upstream's.  What the files of a change hold, and the per-file       *)
(* policies, are abstracted to whether the join conflicts.                 *)
(***************************************************************************)
EXTENDS Naturals, Sequences, FiniteSets

CONSTANTS
  Runs,          \* pipelines of the default branch
  Strategies,    \* values of upstream.sync.strategy considered
  Ontos,         \* upstream.sync.onto: its newest "release", or a "branch" head
  Ours, Theirs,  \* changes the fork's developers and upstream may still make
  MaxFailures    \* bound on failed calls, conflicts and refused pushes together

ASSUME UpstreamSyncAssumption ==
  /\ Strategies \subseteq {"merge", "mirror", "rebase"}
  /\ Ontos \subseteq {"release", "branch"}
  /\ MaxFailures \in Nat
  /\ Ours \cap Theirs = {}
  /\ "base" \notin Ours \cup Theirs

VARIABLES
  cfg,        \* upstream.sync as configured
  upstream,   \* upstream's newest release, or its branch
  branch,     \* our default branch on the forge
  pc,         \* where each run's syncUpstream is
  head,       \* the commit each run started from (ciCtx.SHA)
  target,     \* upstream's commit each run listed, and later fetched
  plan,       \* each run's SyncPlan: the new head and whether it rewrites
  pushed,     \* runs whose syncUpstream returned pushed
  failures,   \* failures so far
  published   \* history: every change our branch has ever carried

vars == <<cfg, upstream, branch, pc, head, target, plan, pushed, failures, published>>

Changes == Ours \cup Theirs \cup {"base"}
Commits == Seq(Changes)
Carries(c) == {c[i] : i \in DOMAIN c}
IsAncestor(c, d) == Len(c) <= Len(d) /\ SubSeq(d, 1, Len(c)) = c

(* The changes of c that d lacks, in c's order: the walk of c's history.    *)
Lacking(c, d) ==
  LET kept[n \in 0..Len(c)] ==
        IF n = 0 THEN <<>>
        ELSE IF c[n] \in Carries(d) THEN kept[n - 1] ELSE Append(kept[n - 1], c[n])
  IN kept

(* What of c goes on top of d.  The commit that sets held files back to the *)
(* fork's version is no change of the model's.                              *)
Without(c, d) == Lacking(c, d)[Len(c)]

(* The commit each strategy makes of our head h and upstream's t.  A        *)
(* mirror only fast-forwards; a rebase that has nothing of ours to replay   *)
(* is a fast-forward too.                                                   *)
Joinable(h, t) == cfg.strategy = "mirror" => IsAncestor(h, t)

(* Mutant: a join that takes upstream's first missing change only.          *)
PlanSyncPartial(h, t) == [newHead |-> Append(h, Head(Without(t, h))), rewrites |-> FALSE]

PlanSync(h, t) ==
  IF IsAncestor(h, t) THEN [newHead |-> t, rewrites |-> FALSE]
  ELSE IF cfg.strategy = "merge" THEN [newHead |-> h \o Without(t, h), rewrites |-> FALSE]
  ELSE [newHead |-> t \o Without(h, t), rewrites |-> TRUE]

InSync(h, t) == Carries(t) \subseteq Carries(h)
NoPlan == [newHead |-> <<>>, rewrites |-> FALSE]

-----------------------------------------------------------------------------
Init ==
  /\ cfg \in [strategy : Strategies, onto : Ontos]
  /\ upstream = <<"base">>
  /\ branch = <<"base">>
  /\ pc = [r \in Runs |-> "start"]
  /\ head = [r \in Runs |-> <<>>]
  /\ target = [r \in Runs |-> <<>>]
  /\ plan = [r \in Runs |-> NoPlan]
  /\ pushed = {}
  /\ failures = 0
  /\ published = {"base"}

Goto(r, step) == pc' = [pc EXCEPT ![r] = step]

(* recordSubsystemOutcome("warning") and return: the next run tries again.  *)
GiveUp(r) ==
  /\ failures < MaxFailures
  /\ failures' = failures + 1
  /\ Goto(r, "start")
  /\ UNCHANGED <<cfg, upstream, branch, head, target, plan, pushed, published>>

Release(u) ==
  /\ u \in Theirs \ Carries(upstream)
  /\ upstream' = Append(upstream, u)
  /\ UNCHANGED <<cfg, branch, pc, head, target, plan, pushed, failures, published>>

(* Someone else, or the dependency update of another pipeline, pushes a     *)
(* commit made on the branch's current tip.                                 *)
OtherPush(o) ==
  /\ o \in Ours \ published
  /\ branch' = Append(branch, o)
  /\ published' = published \cup {o}
  /\ UNCHANGED <<cfg, upstream, pc, head, target, plan, pushed, failures>>

(* A pipeline of the branch's tip: by the push, or on schedule. *)
StartRun(r) ==
  /\ pc[r] = "start"
  /\ head' = [head EXCEPT ![r] = branch]
  /\ pushed' = pushed \ {r}
  /\ Goto(r, "list")
  /\ UNCHANGED <<cfg, upstream, branch, target, plan, failures, published>>

ListUpstream(r) ==
  /\ pc[r] = "list"
  /\ \/ /\ target' = [target EXCEPT ![r] = upstream]
        /\ Goto(r, "fetch")
        /\ UNCHANGED <<cfg, upstream, branch, head, plan, pushed, failures, published>>
     \/ GiveUp(r)

(* What is fetched is used only if it is what was listed: a branch may have *)
(* moved, a release's tag still names its commit.  The push of the shadow   *)
(* branch that follows touches no branch modelled here.                     *)
FetchUpstream(r) ==
  /\ pc[r] = "fetch"
  /\ \/ /\ Goto(r, IF cfg.onto = "branch" /\ upstream # target[r] THEN "start" ELSE "plan")
        /\ UNCHANGED <<cfg, upstream, branch, head, target, plan, pushed, failures, published>>
     \/ GiveUp(r)

Plan(r) ==
  /\ pc[r] = "plan"
  /\ \/ /\ InSync(head[r], target[r])
        /\ Goto(r, "start")
        /\ UNCHANGED <<cfg, upstream, branch, head, target, plan, pushed, failures, published>>
     \/ /\ ~InSync(head[r], target[r])
        /\ Joinable(head[r], target[r])
        /\ plan' = [plan EXCEPT ![r] = PlanSync(head[r], target[r])]
        /\ Goto(r, "check")
        /\ UNCHANGED <<cfg, upstream, branch, head, target, pushed, failures, published>>
     \/ /\ ~InSync(head[r], target[r]) /\ ~Joinable(head[r], target[r])
        /\ Goto(r, "start")
        /\ UNCHANGED <<cfg, upstream, branch, head, target, plan, pushed, failures, published>>
     \/ ~InSync(head[r], target[r]) /\ GiveUp(r)   \* a conflict, or an error

(* Mutant: wait for the branch to come back instead of giving the run up.   *)
CheckRemoteWaits(r) ==
  /\ pc[r] = "check"
  /\ Goto(r, IF branch = head[r] THEN "push" ELSE "check")
  /\ UNCHANGED <<cfg, upstream, branch, head, target, plan, pushed, failures, published>>

(* The branch must still be where this run started. *)
CheckRemote(r) ==
  /\ pc[r] = "check"
  /\ Goto(r, IF branch = head[r] THEN "push" ELSE "start")
  /\ UNCHANGED <<cfg, upstream, branch, head, target, plan, pushed, failures, published>>

(* Mutant: every push is forced.                                            *)
AcceptedForced(r) == TRUE

(* The forge takes a plain push only as a fast-forward, a "+" push always.  *)
(* A conflict, or a refused rewrite, may go to a branch of its own with a   *)
(* merge request (openSyncMR), which touches no branch modelled here.       *)
Accepted(r) == plan[r].rewrites \/ IsAncestor(branch, plan[r].newHead)

Push(r) ==
  /\ pc[r] = "push"
  /\ \/ /\ Accepted(r)
        /\ branch' = plan[r].newHead
        /\ published' = published \cup Carries(plan[r].newHead)
        /\ pushed' = pushed \cup {r}
        /\ Goto(r, "start")
        /\ UNCHANGED <<cfg, upstream, head, target, plan, failures>>
     \/ /\ ~Accepted(r)
        /\ Goto(r, "start")
        /\ UNCHANGED <<cfg, upstream, branch, head, target, plan, pushed, failures, published>>
     \/ GiveUp(r)

syncUpstream(r) ==
  \/ StartRun(r) \/ ListUpstream(r) \/ FetchUpstream(r) \/ Plan(r)
  \/ CheckRemote(r) \/ Push(r)

Next ==
  \/ \E u \in Theirs : Release(u)
  \/ \E o \in Ours : OtherPush(o)
  \/ \E r \in Runs : syncUpstream(r)

(* A started job runs to its end, and schedules keep starting pipelines.    *)
Fairness == \A r \in Runs : WF_vars(syncUpstream(r))
Spec == Init /\ [][Next]_vars /\ Fairness

-----------------------------------------------------------------------------
(* The type invariant of the branches and of syncUpstream's locals.         *)
TypeOK ==
  /\ cfg \in [strategy : Strategies, onto : Ontos]
  /\ upstream \in Commits /\ branch \in Commits
  /\ pc \in [Runs -> {"start", "list", "fetch", "plan", "check", "push"}]
  /\ head \in [Runs -> Commits] /\ target \in [Runs -> Commits]
  /\ plan \in [Runs -> [newHead : Commits, rewrites : BOOLEAN]]
  /\ pushed \subseteq Runs
  /\ failures \in 0..MaxFailures
  /\ published \subseteq Changes

(* "a concurrent push is never overwritten" (upstream_sync.go): whatever    *)
(* our branch has carried, whoever pushed it, it still carries.             *)
NoPushOverwritten == published \subseteq Carries(branch)

(* As far as it goes: without a rewrite, nothing that anyone pushed between *)
(* this run's check and its push, or to a mirror, is lost.                  *)
NoPlainPushOverwritten == cfg.strategy # "rebase" => NoPushOverwritten

(* Two pipelines that join the same release leave it in our history once.   *)
JoinedOnce == \A i, j \in DOMAIN branch : branch[i] = branch[j] => i = j

(* What syncUpstream keeps of the branch it shares with everyone else.      *)
SyncSafe == TypeOK /\ NoPlainPushOverwritten /\ JoinedOnce

(* A run moves the branch only to a commit that carries the release it      *)
(* fetched and everything it started from.                                  *)
PushesWhatItPlanned ==
  [][\A r \in pushed' \ pushed :
       Carries(head[r]) \cup Carries(target[r]) \subseteq Carries(branch')]_vars

(* Failed runs are made up for by later ones: once upstream and our         *)
(* developers stop, our branch ends up carrying every release, unless it is *)
(* a mirror that someone pushed to.                                         *)
EventuallySynced ==
  <>[](Carries(upstream) \subseteq Carries(branch) \/ ~Joinable(branch, upstream))
=============================================================================
