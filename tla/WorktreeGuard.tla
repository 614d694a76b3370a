----------------------------- MODULE WorktreeGuard -----------------------------
(***************************************************************************)
(* One commit by GitBackend.executeViaEngine (src/commit/git.go) and the    *)
(* guard that keeps the operator's unstaged work through it                 *)
(* (src/commit/worktree_guard.go): the commit's own goroutine, the guard's  *)
(* signal handler, and the hook processes the commit runs.                  *)
(*                                                                         *)
(* A guarded path holds the operator's content, the index's, something      *)
(* else (a hook's or upstream's), or nothing.                               *)
(***************************************************************************)
EXTENDS Naturals, FiniteSets

CONSTANT WgPaths        \* tracked paths of the worktree

VARIABLES
  wgTree,        \* what each path holds
  want,      \* what it held when the guard was captured: the snapshot
  artifact,  \* the recovery artifact is on disk
  wgPc,        \* the commit's goroutine
  failed,    \* executeViaEngine's error
  hook,      \* a hook process is running
  stash,     \* what a running hook has set aside (pre-commit's own stash)
  armed,     \* the signal handler is installed
  sig,       \* a SIGINT or SIGTERM is pending in sigCh
  hpc,       \* the handler's goroutine
  mu,        \* who holds the guard's mutex
  todo,      \* paths the running restore has still to look at
  writing,   \* the path it is writing, or None
  finalized, conflicts, failures,
  clean,     \* paths Replay found without uncommitted work
  late       \* a hook or a checkout wrote after the handler began to restore

guard == <<want, armed>>
restoring == <<mu, todo, writing, finalized, conflicts, failures>>
wgVars == <<wgTree, guard, artifact, wgPc, failed, hook, stash, sig, hpc, restoring, clean, late>>

None == "none"
ASSUME WorktreeGuardAssumption == None \notin WgPaths

HookSteps == {"pre-commit", "commit-msg", "post-commit"}
Snapshot == {p \in WgPaths : want[p] # "index"}

WgInit ==
  /\ wgTree \in [WgPaths -> {"edit", "index", "gone"}]
  /\ want = [p \in WgPaths |-> "index"]
  /\ artifact = FALSE
  /\ wgPc = "capture" /\ failed = FALSE
  /\ hook = FALSE /\ stash = [p \in WgPaths |-> None]
  /\ armed = FALSE /\ sig = FALSE /\ hpc = "none"
  /\ mu = None /\ todo = {} /\ writing = None
  /\ finalized = FALSE /\ conflicts = {} /\ failures = {}
  /\ clean = {} /\ late = FALSE

Alive == wgPc # "dead"

\* The handler has begun its restore; the hook outlives the process.
MarkLate == late' = (late \/ hpc \in {"restore", "raise", "over"})

-----------------------------------------------------------------------------
(* The commit *)

\* captureWorktreeGuard: the snapshot is persisted before a hook runs; nothing
\* at risk leaves the guard inert.  A hook is started.
Capture ==
  /\ wgPc = "capture"
  /\ want' = wgTree
  /\ LET atRisk == \E p \in WgPaths : wgTree[p] # "index"
     IN /\ artifact' = atRisk /\ armed' = atRisk /\ finalized' = ~atRisk
        /\ hpc' = IF atRisk THEN "watch" ELSE "none"
  /\ wgPc' = "pre-commit"
  /\ hook' = TRUE
  /\ UNCHANGED <<wgTree, failed, stash, sig, mu, todo, writing, conflicts, failures, clean, late>>

\* The status or a file cannot be read, or the artifact cannot be written: no
\* hook runs.
CaptureFails ==
  /\ wgPc = "capture"
  /\ wgPc' = "done"
  /\ failed' = TRUE
  /\ UNCHANGED <<wgTree, guard, artifact, hook, stash, sig, hpc, restoring, clean, late>>

\* RunHook waited for the hook.  A rejection by pre-commit or commit-msg, and a
\* failed commit, end in the deferred Close.
HookDone ==
  /\ wgPc \in HookSteps
  /\ ~hook
  /\ \/ /\ wgPc' = (CASE wgPc = "pre-commit" -> "commit-msg" [] wgPc = "commit-msg" -> "commit"
                    [] wgPc = "post-commit" -> "push")
        /\ failed' = failed
        /\ hook' = (wgPc = "pre-commit")
     \/ /\ wgPc # "post-commit"
        /\ wgPc' = "close" /\ failed' = TRUE /\ hook' = FALSE
  /\ UNCHANGED <<wgTree, guard, artifact, stash, sig, hpc, restoring, clean, late>>

Commit ==
  /\ wgPc = "commit"
  /\ \/ wgPc' = "post-commit" /\ hook' = TRUE /\ failed' = failed
     \/ wgPc' = "close" /\ failed' = TRUE /\ hook' = hook
  /\ UNCHANGED <<wgTree, guard, artifact, stash, sig, hpc, restoring, clean, late>>

\* The push may replay the commit onto upstream: first it looks which paths hold
\* uncommitted work (PushEngine!CheckUncommitted), then it writes others.
Push ==
  /\ wgPc = "push"
  /\ \/ wgPc' = "checkout" /\ clean' = {p \in WgPaths : wgTree[p] = "index"} /\ failed' = failed
     \/ wgPc' = "close" /\ clean' = clean /\ failed' \in BOOLEAN
  /\ UNCHANGED <<wgTree, guard, artifact, hook, stash, sig, hpc, restoring, late>>

WgCheckout ==
  /\ wgPc = "checkout"
  /\ \E q \in SUBSET clean :
       wgTree' = [p \in WgPaths |-> IF p \in q THEN "other" ELSE wgTree[p]]
  /\ wgPc' = "close"
  /\ MarkLate
  /\ UNCHANGED <<guard, artifact, failed, hook, stash, sig, hpc, restoring, clean>>

-----------------------------------------------------------------------------
(* Hooks: external processes that do as they please with the worktree *)

HookStash ==
  /\ hook
  /\ stash = [p \in WgPaths |-> None]
  /\ stash' = wgTree
  /\ wgTree' = [p \in WgPaths |-> "index"]
  /\ MarkLate
  /\ UNCHANGED <<guard, artifact, wgPc, failed, hook, sig, hpc, restoring, clean>>

HookUnstash ==
  /\ hook
  /\ stash # [p \in WgPaths |-> None]
  /\ wgTree' = [p \in WgPaths |-> IF wgTree[p] = "index" THEN stash[p] ELSE wgTree[p]]
  /\ stash' = [p \in WgPaths |-> None]
  /\ MarkLate
  /\ UNCHANGED <<guard, artifact, wgPc, failed, hook, sig, hpc, restoring, clean>>

HookWrite(p) ==
  /\ hook
  /\ \E v \in {"other", "gone"} : wgTree' = [wgTree EXCEPT ![p] = v]
  /\ MarkLate
  /\ UNCHANGED <<guard, artifact, wgPc, failed, hook, stash, sig, hpc, restoring, clean>>

\* The hook ends in its own time, or is killed (with the terminal's process
\* group, say); what it had set aside is stranded then.
HookEnds ==
  /\ hook
  /\ hook' = FALSE
  /\ stash' = [p \in WgPaths |-> None]
  /\ UNCHANGED <<wgTree, guard, artifact, wgPc, failed, sig, hpc, restoring, clean, late>>

-----------------------------------------------------------------------------
(* restore: by the deferred Close or by the handler, under the mutex *)

Lock(who) ==
  /\ mu = None
  /\ mu' = who
  /\ todo' = IF finalized THEN {} ELSE Snapshot

\* The deferred Close of an inert guard, or after the handler's restore,
\* returns at once.
Close ==
  /\ wgPc = "close"
  /\ Lock("main")
  /\ wgPc' = "restore"
  /\ UNCHANGED <<wgTree, guard, artifact, failed, hook, stash, sig, hpc, writing, finalized,
                 conflicts, failures, clean, late>>

\* Mutant: whatever differs from the snapshot is written over.
ClassifyOverwrite(p) ==
  /\ Alive
  /\ mu # None /\ writing = None /\ p \in todo
  /\ todo' = todo \ {p}
  /\ writing' = IF wgTree[p] = want[p] THEN None ELSE p
  /\ UNCHANGED <<wgTree, guard, artifact, wgPc, failed, hook, stash, sig, hpc, mu, finalized,
                 conflicts, failures, clean, late>>

\* One path: already the operator's, wiped (to nothing or to the index), or
\* something new, which is left alone.
Classify(p) ==
  /\ Alive
  /\ mu # None /\ writing = None /\ p \in todo
  /\ todo' = todo \ {p}
  /\ LET wiped == wgTree[p] = "index" \/ (wgTree[p] = "gone" /\ want[p] = "edit")
     IN /\ writing' = IF wgTree[p] # want[p] /\ wiped THEN p ELSE None
        /\ conflicts' = conflicts \cup IF wgTree[p] = want[p] \/ wiped THEN {} ELSE {p}
  /\ UNCHANGED <<wgTree, guard, artifact, wgPc, failed, hook, stash, sig, hpc, mu, finalized,
                 failures, clean, late>>

\* os.WriteFile truncates first; os.Remove is one step.
WriteBegin ==
  /\ Alive
  /\ mu # None /\ writing # None
  /\ want[writing] = "edit" /\ wgTree[writing] # "torn"
  /\ wgTree' = [wgTree EXCEPT ![writing] = "torn"]
  /\ UNCHANGED <<guard, artifact, wgPc, failed, hook, stash, sig, hpc, restoring, clean, late>>

WriteEnd ==
  /\ Alive
  /\ mu # None /\ writing # None
  /\ want[writing] = "gone" \/ wgTree[writing] = "torn"
  /\ wgTree' = [wgTree EXCEPT ![writing] = want[writing]]
  /\ writing' = None
  /\ UNCHANGED <<guard, artifact, wgPc, failed, hook, stash, sig, hpc, mu, todo, finalized,
                 conflicts, failures, clean, late>>

WriteFails ==
  /\ Alive
  /\ mu # None /\ writing # None
  /\ failures' = failures \cup {writing}
  /\ writing' = None
  /\ UNCHANGED <<wgTree, guard, artifact, wgPc, failed, hook, stash, sig, hpc, mu, todo, finalized,
                 conflicts, clean, late>>

\* The artifact is cleared when nothing is left to reconcile.
Finalize ==
  /\ Alive
  /\ mu # None /\ todo = {} /\ writing = None
  /\ wgPc = "restore" \/ hpc = "restore"
  /\ finalized' = TRUE
  /\ armed' = FALSE
  /\ artifact' = (artifact /\ (finalized \/ conflicts \cup failures # {}))
  /\ mu' = None
  /\ IF mu = "main"
     THEN wgPc' = "done" /\ failed' = (failed \/ (~finalized /\ failures # {})) /\ hpc' = hpc
     ELSE hpc' = "raise" /\ UNCHANGED <<wgPc, failed>>
  /\ UNCHANGED <<wgTree, want, hook, stash, sig, todo, writing, conflicts, failures, clean, late>>

-----------------------------------------------------------------------------
(* Signals and death *)

Over == IF hpc \in {"restore", "raise", "over"} THEN "over" ELSE "quit"

\* Delivered to the handler while it is installed, fatal otherwise.
Signal ==
  /\ wgPc \notin {"done", "dead"}
  /\ ~sig
  /\ IF armed THEN sig' = TRUE /\ UNCHANGED <<wgPc, hpc, mu>>
              ELSE sig' = sig /\ wgPc' = "dead" /\ hpc' = Over /\ mu' = None
  /\ UNCHANGED <<wgTree, guard, artifact, failed, hook, stash, todo, writing, finalized,
                 conflicts, failures, clean, late>>

\* The handler restores unless that is done, and re-raises the signal.
Handle ==
  /\ Alive /\ wgPc # "done"
  /\ hpc = "watch" /\ sig
  /\ IF finalized
     THEN hpc' = "raise" /\ UNCHANGED <<mu, todo>>
     ELSE hpc' = "restore" /\ Lock("handler")
  /\ UNCHANGED <<wgTree, guard, artifact, wgPc, failed, hook, stash, sig, writing, finalized,
                 conflicts, failures, clean, late>>

\* done is closed: the select may take it and leave a pending signal unheard.
Unwatch ==
  /\ Alive
  /\ hpc = "watch" /\ ~armed
  /\ hpc' = "quit"
  /\ UNCHANGED <<wgTree, guard, artifact, wgPc, failed, hook, stash, sig, restoring, clean, late>>

Die ==
  /\ wgPc' = "dead" /\ hpc' = Over /\ mu' = None
  /\ UNCHANGED <<wgTree, guard, artifact, failed, hook, stash, sig, todo, writing, finalized,
                 conflicts, failures, clean, late>>

Raise == Alive /\ hpc = "raise" /\ Die

Kill == wgPc \notin {"done", "dead"} /\ Die

-----------------------------------------------------------------------------
Main == Capture \/ CaptureFails \/ HookDone \/ Commit \/ Push \/ WgCheckout \/ Close

Restore ==
  \/ \E p \in WgPaths : Classify(p)
  \/ WriteBegin \/ WriteEnd \/ WriteFails \/ Finalize

Hook == HookStash \/ HookUnstash \/ (\E p \in WgPaths : HookWrite(p)) \/ HookEnds

WgNext == Main \/ Restore \/ Hook \/ Signal \/ Handle \/ Unwatch \/ Raise \/ Kill

\* The goroutines go on, and hooks end.
WgFairness == WF_wgVars(Main) /\ WF_wgVars(Restore) /\ WF_wgVars(Handle) /\ WF_wgVars(Raise) /\ WF_wgVars(HookEnds)

WgSpec == WgInit /\ [][WgNext]_wgVars /\ WgFairness

-----------------------------------------------------------------------------
WgTypeOK ==
  /\ wgTree \in [WgPaths -> {"edit", "index", "other", "gone", "torn"}]
  /\ want \in [WgPaths -> {"edit", "index", "gone"}]
  /\ artifact \in BOOLEAN /\ failed \in BOOLEAN /\ hook \in BOOLEAN /\ armed \in BOOLEAN
  /\ sig \in BOOLEAN /\ finalized \in BOOLEAN /\ late \in BOOLEAN
  /\ stash \in [WgPaths -> {"edit", "index", "other", "gone", "torn", None}]
  /\ wgPc \in HookSteps \cup {"capture", "commit", "push", "checkout", "close", "restore", "done", "dead"}
  /\ hpc \in {"none", "watch", "restore", "raise", "quit", "over"}
  /\ mu \in {None, "main", "handler"}
  /\ todo \subseteq WgPaths /\ writing \in WgPaths \cup {None}
  /\ conflicts \subseteq WgPaths /\ failures \subseteq WgPaths /\ clean \subseteq WgPaths

\* "No commit operation may DESTROY, DISCARD, or ORPHAN unstaged tracked worktree
\* changes" (worktree_guard.go:25): once captured, the operator's content of a
\* path is in the worktree or in the artifact, after rejected hooks, failed
\* pushes, interrupts and kills at any point; as long as no hook and no checkout
\* wrote after the handler began to restore.
NothingLost == ~late => \A p \in Snapshot : artifact \/ wgTree[p] = want[p]

\* "blindly overwriting it with the snapshot would itself be the destructive
\* act": restore never writes over what a hook or upstream wrote.
NoClobber ==
  [][ ~late /\ mu # None /\ mu' = mu /\ wgPc # "dead" /\ ~late' => \A p \in WgPaths : wgTree[p] = "other" => wgTree'[p] = "other"]_wgVars

\* A clean end leaves no artifact behind to be taken for stranded work.
CleanEndClears ==
  wgPc = "done" /\ ~late /\ conflicts = {} /\ failures = {} => ~artifact

\* The guard's promise: what the operator had not committed is in the worktree
\* or in the artifact at every point, a clean end leaves no artifact, and the
\* restore writes over nobody's newer content (commit/worktree_guard.go).
GuardKeeps == [](WgTypeOK /\ NothingLost /\ CleanEndClears) /\ NoClobber
=============================================================================
