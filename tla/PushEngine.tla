------------------------------ MODULE PushEngine ------------------------------
(***************************************************************************)
(* One clone pushes and pulls a branch that others push to as well:         *)
(* `stagefreight push`, `push <remote> <branch>`, `pull`, `commit --push`   *)
(* and the detached-HEAD push of a CI job (src/cli/cmd/push.go,             *)
(* src/commit/engine_*.go, gogit_replay*.go, replay_onto.go, over           *)
(* src/gitstate's session).  GitPlan makes the plan, Execute walks it.      *)
(*                                                                         *)
(* A history is the sequence of its changes, so a commit is a prefix of it; *)
(* a change lands one content at one path, and the tree at a path is the    *)
(* last change of the history that touches it.  The operator goes on        *)
(* editing and committing in the clone while a command runs.                *)
(***************************************************************************)
EXTENDS GitPlan, SequencesExt, FiniteSets

CONSTANTS
  Paths,        \* paths of the tree
  Commands,     \* the commands to consider: see CommandNames
  MidOps,       \* whether a merge or rebase may be in progress in the clone
  MaxLocal,     \* bound: commits made in the clone
  MaxOthers,    \* bound: commits others push, to a detached job's branch or not
  MaxMeanwhile, \* bound: what the operator does while commands run
  MaxRuns,      \* bound: commands run one after the other
  MaxFaults     \* bound: pushes that fail or whose reply is lost

CommandNames == {"push", "explicit", "pull", "commit", "refspec"}

ASSUME PushEngineAssumption ==
  /\ Commands \subseteq CommandNames
  /\ MidOps \subseteq BOOLEAN
  /\ MaxOthers \in [BOOLEAN -> Nat]
  /\ {MaxLocal, MaxMeanwhile, MaxRuns, MaxFaults} \subseteq Nat

Root == [n |-> 0, path |-> "root", by |-> "root", merge |-> FALSE]
NoRef == <<>>        \* a ref that does not exist; others start at the root commit
Attempts == 3        \* replayPushAttempts

VARIABLES
  remote,     \* the branch on the remote, or NoRef
  local,      \* the branch HEAD is on (HEAD itself for a detached CI job)
  tracking,   \* refs/remotes/<remote>/<branch>, or NoRef
  upstream,   \* branch tracking is configured
  protected,  \* policy protects the destination
  detached,   \* a CI job's checkout: HEAD is on no branch
  midop,      \* a merge or rebase is in progress in the clone
  wt,         \* what the worktree holds at each path
  pePc, cmd, approved,
  snap,       \* the session's RepoState
  plan,       \* operations still to execute
  built,      \* the replayed history, at the object layer
  written,    \* the paths its checkout writes
  attempt,    \* attempts of the fetch-replay-push loop
  outcome,    \* how the last command ended
  \* what happened, for the properties
  everLocal,  \* changes ever committed in the clone
  edited,     \* paths with an edit the operator has not committed
  unseen,     \* <<path, change, or 0 for an edit>> written after Replay's last look at it
  sent,       \* the history the last command pushed
  startLen,   \* the remote's length when the command started
  meanwhile,  \* how often the operator did something while a command ran
  runs, faults

refs == <<remote, local, tracking, upstream>>
policy == <<protected, detached, midop>>
command == <<cmd, approved, plan>>
ghosts == <<everLocal, edited, unseen, startLen, meanwhile>>
peVars == <<refs, policy, wt, pePc, command, snap, built, written, attempt, outcome,
          ghosts, sent, runs, faults>>

-----------------------------------------------------------------------------
Changes(h) == ToSet(h)

\* The content of a history's tree at a path.
TreeAt(h, p) ==
  LET at == {i \in DOMAIN h : h[i].path = p}
  IN IF at = {} THEN 0 ELSE h[CHOOSE i \in at : \A j \in at : j <= i].n

MergeBase(h, g) ==
  CHOOSE i \in 0..Len(h) :
    /\ i <= Len(g) /\ SubSeq(h, 1, i) = SubSeq(g, 1, i)
    /\ i < Len(h) /\ i < Len(g) => h[i + 1] # g[i + 1]

\* countAheadBehind; a missing tracking ref leaves both at zero.
Ahead(h, g) == IF g = NoRef THEN 0 ELSE Len(h) - MergeBase(h, g)
Behind(h, g) == IF g = NoRef THEN 0 ELSE Len(g) - MergeBase(h, g)

\* ReadRepoState does not look for an operation in progress; OpenSyncSession does.
ReadRepoState(head, up) ==
  [head |-> head, up |-> up, configured |-> upstream, inProgress |-> FALSE]

\* SituationFromState, SituationFromStateConverge and PlanTo's situation.
SituationOf(s) ==
  [protected |-> protected,
   hasUpstream |-> IF cmd = "explicit" THEN s.up # NoRef ELSE s.configured,
   ahead |-> Ahead(s.head, s.up), behind |-> Behind(s.head, s.up),
   onDiverge |-> "ask", autoConverge |-> cmd = "commit", inProgressOp |-> s.inProgress]

PeInit ==
  /\ detached \in {c = "refspec" : c \in Commands}
  /\ \E shared \in BOOLEAN :
       /\ upstream = (shared /\ ~detached)
       /\ remote \in IF shared THEN {<<Root>>} ELSE {NoRef, <<Root>>}
       /\ tracking = IF shared THEN <<Root>> ELSE NoRef
  /\ local = <<Root>>
  /\ protected \in IF detached THEN {FALSE} ELSE BOOLEAN
  /\ midop \in MidOps
  /\ wt = [p \in Paths |-> "head"]
  /\ pePc = "idle" /\ cmd = "none" /\ approved = FALSE
  /\ snap = ReadRepoState(local, tracking)
  /\ plan = <<>> /\ built = NoRef /\ written = {} /\ attempt = 0
  /\ outcome = "none"
  /\ everLocal = {} /\ edited = {} /\ unseen = {} /\ sent = NoRef /\ startLen = 0 /\ meanwhile = 0
  /\ runs = 0 /\ faults = 0

-----------------------------------------------------------------------------
(* The operator in the clone, and everyone else at the remote *)

\* The moments at which it matters what the operator does; nobody works in a
\* CI job's checkout.
Exposed == ~detached /\ meanwhile < MaxMeanwhile /\ pePc \in {"exec", "guard", "check", "cas", "checkout"}

\* Between two commands, or while one runs.  A merge commit has more than one
\* parent; made while a command runs, it is none of the commits that one replays.
OperatorCommit(p, m) ==
  /\ pePc = "idle" \/ (Exposed /\ ~m)
  /\ Cardinality(everLocal) < MaxLocal
  /\ LET c == [n |-> Cardinality(everLocal) + 1, path |-> p, by |-> "us", merge |-> m]
     IN /\ local' = Append(local, c) /\ everLocal' = everLocal \cup {c}
        /\ unseen' = IF pePc = "checkout" THEN unseen \cup {<<p, c.n>>} ELSE unseen
  /\ wt' = [wt EXCEPT ![p] = "head"]
  /\ edited' = edited \ {p}
  /\ meanwhile' = IF pePc = "idle" THEN meanwhile ELSE meanwhile + 1
  /\ UNCHANGED <<remote, tracking, upstream, policy, pePc, command, snap, built, written,
                 attempt, outcome, startLen, sent, runs, faults>>

OperatorEdit(p) ==
  /\ Exposed
  /\ p \notin edited
  /\ wt' = [wt EXCEPT ![p] = "edit"]
  /\ edited' = edited \cup {p}
  /\ meanwhile' = meanwhile + 1
  /\ unseen' = IF pePc \in {"cas", "checkout"} THEN unseen \cup {<<p, 0>>} ELSE unseen \ {<<p, 0>>}
  /\ UNCHANGED <<refs, policy, pePc, command, snap, built, written, attempt, outcome,
                 everLocal, startLen, sent, runs, faults>>

\* Another git process of the operator fetches.
OperatorFetch ==
  /\ Exposed
  /\ tracking' = remote
  /\ tracking' # tracking
  /\ meanwhile' = meanwhile + 1
  /\ UNCHANGED <<remote, local, upstream, policy, wt, pePc, command, snap, built, written,
                 attempt, outcome, everLocal, edited, unseen, startLen, sent, runs, faults>>

\* A change of their own, or the same change as the next of ours that is not
\* there yet (a cherry-pick).  While the command works in the clone, a push is one
\* that comes before the next step that looks at the remote.
OthersPush ==
  /\ remote # NoRef /\ pePc \in {"idle", "fetch", "exec", "again", "push again"}
  /\ Cardinality({i \in DOMAIN remote : remote[i].by = "others"}) < MaxOthers[detached]
  /\ \E p \in Paths :
       \/ remote' = Append(remote, [n |-> 100 + Len(remote), path |-> p, by |-> "others", merge |-> FALSE])
       \/ \E c \in everLocal :
            /\ c.path = p /\ ~c.merge
            /\ c.n = 1 + Cardinality({d \in Changes(remote) : d.n \in 1..MaxLocal})
            /\ remote' = Append(remote, [c EXCEPT !.by = "others"])
  /\ UNCHANGED <<local, tracking, upstream, policy, wt, pePc, command, snap, built, written,
                 attempt, outcome, ghosts, sent, runs, faults>>

-----------------------------------------------------------------------------
(* A command: open the session, fetch, plan, execute *)

Finish(o) ==
  /\ outcome' = o
  /\ pePc' = "idle"
  /\ plan' = <<>>

\* OpenSyncSession.  commit itself refuses while a git operation is in progress,
\* a CI job's clone has none.
Open(c) ==
  /\ pePc = "idle"
  /\ runs < MaxRuns
  /\ c = "refspec" <=> detached
  /\ c \in {"commit", "refspec"} => ~midop
  /\ c = "refspec" => Len(local) > 1
  /\ runs' = runs + 1
  /\ cmd' = c
  /\ approved' = (c \in {"commit", "refspec"})
  /\ snap' = [ReadRepoState(local, tracking) EXCEPT !.inProgress = midop]
  /\ plan' = IF c = "refspec" THEN DirectPush ELSE <<>>
  /\ pePc' = IF c = "refspec" THEN "exec" ELSE "fetch"
  /\ attempt' = 0
  /\ sent' = NoRef
  /\ startLen' = Len(remote)
  /\ built' = NoRef /\ written' = {} /\ outcome' = "none"
  /\ UNCHANGED <<refs, policy, wt, everLocal, edited, unseen, meanwhile, faults>>

\* session.Fetch: the remote's heads, then Refresh.
Fetch ==
  /\ pePc = "fetch"
  /\ tracking' = remote
  /\ snap' = ReadRepoState(local, remote)
  /\ pePc' = "plan"
  /\ UNCHANGED <<remote, local, upstream, policy, wt, command, built, written, attempt,
                 outcome, ghosts, sent, runs, faults>>

FetchFails ==
  /\ pePc = "fetch"
  /\ Finish("failed")
  /\ UNCHANGED <<refs, policy, wt, cmd, approved, snap, built, written, attempt, ghosts,
                 sent, runs, faults>>

MakePlan ==
  /\ pePc = "plan"
  /\ plan' = CASE cmd \in {"push", "commit"} -> Resolve(SituationOf(snap))
               [] cmd = "pull" -> ResolvePull(SituationOf(snap))
               [] OTHER -> ResolveExplicitPush(SituationOf(snap))
  /\ pePc' = "exec"
  /\ UNCHANGED <<refs, policy, wt, cmd, approved, snap, built, written, attempt, outcome,
                 ghosts, sent, runs, faults>>

Op == Head(plan)

\* noop, teach and offer-mr change nothing; a Confirm is passed with approval,
\* which commit and a CI job bring along and --yes gives the others.
Say ==
  /\ pePc = "exec" /\ plan # <<>>
  /\ Op \in {"noop", "teach", "offer-mr", "confirm"}
  /\ approved' = (approved \/ Op = "confirm")
  /\ plan' = Tail(plan)
  /\ UNCHANGED <<refs, policy, wt, pePc, cmd, snap, built, written, attempt, outcome,
                 ghosts, sent, runs, faults>>

Stop ==
  /\ pePc = "exec" /\ plan # <<>>
  /\ Op \in {"refuse", "decide"} \/ (Op = "confirm" /\ ~approved)
  /\ Finish("stopped")
  /\ UNCHANGED <<refs, policy, wt, cmd, approved, snap, built, written, attempt, ghosts,
                 sent, runs, faults>>

Done ==
  /\ pePc = "exec" /\ plan = <<>>
  /\ Finish(IF sent = NoRef THEN "nothing pushed" ELSE "pushed")
  /\ UNCHANGED <<refs, policy, wt, cmd, approved, snap, built, written, attempt, ghosts,
                 sent, runs, faults>>

-----------------------------------------------------------------------------
(* Pushing a history to the remote's branch *)

\* The remote takes a fast-forward only.
Accepts(h) == remote = NoRef \/ IsPrefix(remote, h)

\* The push arrives; the client records the new remote ref.
PushOK(h) ==
  /\ Accepts(h)
  /\ remote' = h
  /\ tracking' = h
  /\ faults' = faults

\* It is refused, does not arrive, or arrives and the reply is lost.
PushFails(h) ==
  /\ \/ ~Accepts(h) /\ UNCHANGED <<remote, faults>>
     \/ faults < MaxFaults /\ faults' = faults + 1 /\ remote' = remote
     \/ faults < MaxFaults /\ faults' = faults + 1 /\ Accepts(h) /\ remote' = h
  /\ UNCHANGED tracking

\* upload pushes the branch as it is now; create-tracking also configures the
\* upstream; direct-push pushes HEAD to the named ref.
Upload ==
  /\ pePc = "exec" /\ plan # <<>>
  /\ Op \in {"upload", "create-tracking", "direct-push"}
  /\ PushOK(local)
  /\ sent' = local
  /\ upstream' = (upstream \/ Op = "create-tracking")
  /\ plan' = Tail(plan)
  /\ UNCHANGED <<local, policy, wt, pePc, cmd, approved, snap, built, written, attempt,
                 outcome, ghosts, runs>>

UploadFails ==
  /\ pePc = "exec" /\ plan # <<>>
  /\ Op \in {"upload", "create-tracking", "direct-push"}
  /\ PushFails(local)
  /\ IF cmd = "refspec" /\ faults' = faults
     THEN pePc' = "again" /\ plan' = <<>> /\ outcome' = outcome /\ built' = local
     ELSE Finish("failed") /\ built' = built
  /\ UNCHANGED <<local, upstream, policy, wt, cmd, approved, snap, written, attempt,
                 ghosts, sent, runs>>

\* wt.Pull: it refuses a worktree with uncommitted changes.
FastForward ==
  /\ pePc = "exec" /\ plan # <<>>
  /\ Op = "fast-forward"
  /\ IF IsPrefix(local, remote) /\ edited = {}
     THEN /\ local' = remote /\ tracking' = remote
          /\ plan' = Tail(plan)
          /\ snap' = ReadRepoState(remote, remote)
          /\ UNCHANGED <<pePc, outcome>>
     ELSE /\ Finish("failed")
          /\ UNCHANGED <<local, tracking, snap>>
  /\ UNCHANGED <<remote, upstream, policy, wt, cmd, approved, built, written, attempt,
                 ghosts, sent, runs, faults>>

-----------------------------------------------------------------------------
(* Replay: local commits are rebuilt on the fetched upstream at the object    *)
(* layer, then the branch and the worktree move once                          *)

\* replayOnto: a change upstream already carries is dropped; a path upstream
\* also changed cannot be replayed.
ReplayOnto(acc, c) ==
  LET from == TreeAt(SubSeq(snap.head, 1, (CHOOSE i \in DOMAIN snap.head : snap.head[i] = c) - 1), c.path)
      now == TreeAt(acc.tip, c.path)
  IN CASE ~acc.ok \/ now = c.n -> acc
       [] acc.ok /\ now # c.n /\ now # from -> [acc EXCEPT !.ok = FALSE]
       [] OTHER -> [acc EXCEPT !.tip = Append(@, c)]

\* validateReplayGate, then replayOnto commit by commit.
Replayed ==
  LET commits == SubSeq(snap.head, MergeBase(snap.head, snap.up) + 1, Len(snap.head))
  IN IF commits = <<>> \/ \E c \in ToSet(commits) : c.merge
     THEN [tip |-> snap.up, ok |-> FALSE]
     ELSE FoldLeft(ReplayOnto, [tip |-> snap.up, ok |-> TRUE], commits)

Replay ==
  /\ pePc = "exec" /\ plan # <<>>
  /\ Op = "replay"
  /\ IF snap.configured /\ snap.up # NoRef /\ Replayed.ok
     THEN /\ built' = Replayed.tip
          /\ written' = {p \in Paths : TreeAt(snap.head, p) # TreeAt(Replayed.tip, p)}
          /\ pePc' = "guard"
          /\ UNCHANGED <<plan, outcome>>
     ELSE Finish("failed") /\ UNCHANGED <<built, written>>
  /\ UNCHANGED <<refs, policy, wt, cmd, approved, snap, attempt, ghosts, sent, runs, faults>>

\* Neither the upstream nor the branch moved since they were read.
RaceGuard ==
  /\ pePc = "guard"
  /\ snap' = ReadRepoState(local, tracking)
  /\ IF tracking = snap.up /\ local = snap.head
     THEN pePc' = "check" /\ UNCHANGED <<plan, outcome>>
     ELSE Finish("failed")
  /\ UNCHANGED <<refs, policy, wt, cmd, approved, built, written, attempt, ghosts, sent,
                 runs, faults>>

\* Work of the operator's that the replay would write over.
operatorCollisions == {p \in written : wt[p] = "edit"}

\* The replay writes no such path.
CheckUncommitted ==
  /\ pePc = "check"
  /\ IF operatorCollisions # {}
     THEN Finish("failed")
     ELSE pePc' = "cas" /\ UNCHANGED <<plan, outcome>>
  /\ UNCHANGED <<refs, policy, wt, cmd, approved, snap, built, written, attempt, ghosts,
                 sent, runs, faults>>

\* Mutant: the branch is set without looking at where it is.
MoveBranchBlindly ==
  /\ pePc = "cas"
  /\ local' = built
  /\ pePc' = "checkout"
  /\ UNCHANGED <<remote, tracking, upstream, policy, wt, cmd, approved, plan, outcome, snap,
                 built, written, attempt, ghosts, sent, runs, faults>>

\* CheckAndSetReference.
MoveBranch ==
  /\ pePc = "cas"
  /\ IF local = snap.head
     THEN local' = built /\ pePc' = "checkout" /\ UNCHANGED <<plan, outcome>>
     ELSE Finish("failed") /\ local' = local
  /\ UNCHANGED <<remote, tracking, upstream, policy, wt, cmd, approved, snap, built, written,
                 attempt, ghosts, sent, runs, faults>>

\* checkoutPaths points the branch at the commit and writes its paths.
CheckoutPaths(h) ==
  /\ local' = h
  /\ wt' = [p \in Paths |-> IF p \in written THEN "head" ELSE wt[p]]

Checkout ==
  /\ pePc = "checkout"
  /\ CheckoutPaths(built)
  /\ snap' = ReadRepoState(built, tracking)
  /\ plan' = Tail(plan)
  /\ pePc' = "exec"
  /\ UNCHANGED <<remote, tracking, upstream, policy, cmd, approved, built, written, attempt,
                 outcome, ghosts, sent, runs, faults>>

\* A checkout that fails is undone; the undoing may fail as well.
CheckoutFails ==
  /\ pePc = "checkout"
  /\ \/ CheckoutPaths(snap.head)
     \/ /\ local' = snap.head
        /\ \E q \in SUBSET written :
             wt' = [p \in Paths |-> IF p \in q THEN "mixed" ELSE wt[p]]
  /\ Finish("failed")
  /\ UNCHANGED <<remote, tracking, upstream, policy, cmd, approved, snap, built, written,
                 attempt, ghosts, sent, runs, faults>>

-----------------------------------------------------------------------------
(* replayRefspecPush: a refused push of HEAD is replayed onto the fetched tip, *)
(* without the worktree.  The original commit (built) is replayed each time.   *)

\* replayCommitOntoTip: one commit, whatever HEAD has below it; overlapping
\* paths take this commit's content.
OntoTip(h, tip) == IF Front(h) = tip THEN h ELSE Append(tip, Last(h))

FetchAgain ==
  /\ pePc = "again"
  /\ tracking' = remote
  /\ IF Last(built).merge \/ tracking' = NoRef
     THEN Finish("failed") /\ attempt' = attempt
     ELSE attempt' = attempt + 1 /\ pePc' = "push again" /\ UNCHANGED <<plan, outcome>>
  /\ UNCHANGED <<remote, local, upstream, policy, wt, cmd, approved, snap, built, written,
                 ghosts, sent, runs, faults>>

PushAgain ==
  /\ pePc = "push again"
  /\ PushOK(OntoTip(built, tracking))
  /\ sent' = built
  /\ Finish("pushed")
  /\ UNCHANGED <<local, upstream, policy, wt, cmd, approved, snap, built, written, attempt,
                 ghosts, runs>>

PushAgainFails ==
  /\ pePc = "push again"
  /\ PushFails(OntoTip(built, tracking))
  /\ IF faults' = faults /\ attempt < Attempts
     THEN pePc' = "again" /\ UNCHANGED <<plan, outcome>>
     ELSE Finish(IF faults' = faults THEN "kept advancing" ELSE "failed")
  /\ UNCHANGED <<local, upstream, policy, wt, cmd, approved, snap, built, written, attempt,
                 ghosts, sent, runs>>

-----------------------------------------------------------------------------
Command ==
  \/ Fetch \/ FetchFails \/ MakePlan \/ Say \/ Stop \/ Done
  \/ Upload \/ UploadFails \/ FastForward
  \/ Replay \/ RaceGuard \/ CheckUncommitted \/ MoveBranch \/ Checkout \/ CheckoutFails
  \/ FetchAgain \/ PushAgain \/ PushAgainFails

Operator ==
  \/ \E p \in Paths : OperatorEdit(p) \/ \E m \in BOOLEAN : OperatorCommit(p, m)
  \/ OperatorFetch

PeNext == Command \/ Operator \/ OthersPush \/ \E c \in Commands : Open(c)

\* A running command goes on.
PeSpec == PeInit /\ [][PeNext]_peVars /\ WF_peVars(Command)

-----------------------------------------------------------------------------
Histories == Seq([n : Nat, path : Paths \cup {"root"}, by : {"us", "others", "root"}, merge : BOOLEAN])

PeTypeOK ==
  /\ {remote, local, tracking, built, sent} \subseteq Histories
  /\ local # NoRef
  /\ upstream \in BOOLEAN /\ protected \in BOOLEAN /\ detached \in BOOLEAN /\ midop \in BOOLEAN
  /\ wt \in [Paths -> {"head", "edit", "mixed"}]
  /\ pePc \in {"idle", "fetch", "plan", "exec", "guard", "check", "cas", "checkout",
             "again", "push again"}
  /\ cmd \in CommandNames \cup {"none"}
  /\ approved \in BOOLEAN
  /\ plan \in Seq(OpKinds)
  /\ written \subseteq Paths
  /\ attempt \in 0..Attempts
  /\ outcome \in {"none", "failed", "stopped", "pushed", "nothing pushed", "kept advancing"}
  /\ edited \subseteq Paths
  /\ unseen \subseteq Paths \X (0..MaxLocal)
  /\ startLen \in Nat /\ meanwhile \in 0..MaxMeanwhile /\ runs \in 0..MaxRuns /\ faults \in 0..MaxFaults

\* What others pushed is never rewritten: the remote's branch only grows, in
\* every command, whatever races with it.
RemoteOnlyGrows ==
  [][remote # NoRef => remote' # NoRef /\ IsPrefix(remote, remote')]_peVars

\* "A commit made since we read the branch is never orphaned"
\* (gogit_replay.go:207): every commit made in the clone stays on its branch, or
\* its change is upstream.  Except a commit made after the compare-and-swap and
\* before the checkout behind it: the hard reset there moves the branch from under
\* it (gogit_replay.go:210, :216).
NoCommitOrphaned ==
  \A c \in everLocal :
    \/ <<c.path, c.n>> \in unseen
    \/ c \in Changes(local)
    \/ \E d \in Changes(local) \cup Changes(tracking) : d.n = c.n /\ d.path = c.path

\* Uncommitted work survives a rebase that fails, stops or succeeds.  Except work
\* on a path that it began on after Replay found that path without any, which the
\* checkout overwrites (gogit_replay.go:181, :216).
EditsSurvive == \A p \in edited : <<p, 0>> \in unseen \/ wt[p] = "edit"

\* Shared history is rewritten only with approval (plan.go:37).
ReplayApproved == pePc \in {"guard", "check", "cas", "checkout"} => approved

\* A push that reports success delivered HEAD's commits: all of them, or after
\* the replay of a refused detached push the last one.
PushDelivers ==
  outcome = "pushed" /\ pePc = "idle" =>
    \A i \in DOMAIN sent :
      attempt = 0 \/ i = Len(sent) => \E d \in Changes(remote) : d.n = sent[i].n /\ d.path = sent[i].path

\* No change lands twice on the remote: what upstream already carries is dropped
\* from a planned push, and a repeated one finds its commits there.
LandsOnce ==
  ~detached =>
    \A i, j \in DOMAIN remote : remote[i].n = remote[j].n => i = j

\* The replay loop gives up only after the branch really moved that often.
GivesUpLate ==
  outcome = "kept advancing" /\ pePc = "idle" => Len(remote) >= startLen + Attempts

\* What every command of the engine leaves true of the clone and the remote:
\* no commit or edit of the operator is lost but those written behind Replay's last
\* look at them, shared history is replayed only with approval, a reported push is a
\* delivered one, once, also when the run before it was told that it failed
\* (commit/engine_*.go).  All of it also while a merge or rebase is in progress,
\* which the fetch of a session makes the planner forget (session.go:70-88).
PushKeeps ==
  /\ [](PeTypeOK /\ NoCommitOrphaned /\ EditsSurvive)
  /\ [](ReplayApproved /\ PushDelivers /\ LandsOnce /\ GivesUpLate)
  /\ RemoteOnlyGrows
=============================================================================
