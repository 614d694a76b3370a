--------------------------- MODULE Workspace_proofs ---------------------------
(***************************************************************************)
(* Proofs about what processes share on a host.  They have no state in     *)
(* common; each has its own inductive invariant.                           *)
(*                                                                         *)
(* UnitLease, for any processes, directories and number of crashes: what   *)
(* the leases, the install locks and the cache root's lock are for,        *)
(* whoever waits for, loses or takes over which of them.  A step is one    *)
(* process's.  The parts of the invariant are said process by process, so  *)
(* that a step has to be looked at for its own process and for what it     *)
(* does to the shared state; what the others keep is said once             *)
(* (OthersKeep).                                                           *)
(*                                                                         *)
(* WorktreeGuard, for every set of tracked paths: whatever the hooks do to *)
(* them, and wherever the commit is interrupted or killed, the operator's  *)
(* uncommitted work is in the worktree or in the artifact.                 *)
(***************************************************************************)
EXTENDS UnitLease, WorktreeGuard, FiniteSetTheorems, TLAPS

Leasing == {"mkdir", "open", "flock", "verify"}
Installing == {"recheck", "install", "finish"}
Excluding == {"install lock", "rename", "sweep", "promote"}
OneRenamer == Cardinality(Renamers) <= 1

\* The type invariant, by what it is about.
FilesOK ==
  /\ kind \in Kinds
  /\ cast \in Casts
  /\ dir \in Dirs \cup {NoDir}
  /\ recorded \subseteq Dirs
  /\ content \in [Dirs -> {"empty", "partial", "ready"}]
  /\ tombs \subseteq Dirs
  /\ crashes \in 0..MaxCrashes
  /\ astray \in BOOLEAN

LocksOK ==
  /\ sh \in [Dirs -> SUBSET Procs]
  /\ ex \in [Dirs -> SUBSET Procs]
  /\ inst \in [Dirs -> SUBSET Procs]
  /\ rsh \subseteq Procs
  /\ rex \subseteq Procs

LocalsOK ==
  /\ ulPc \in [Procs -> Labels]
  /\ then \in [Procs -> {"idle", "warm", "lockfile", "using", "done"}]
  /\ held \in [Procs -> Dirs \cup {NoDir}]
  /\ fd \in [Procs -> Dirs \cup {NoDir}]
  /\ ifd \in [Procs -> Dirs \cup {NoDir}]
  /\ tomb \in [Procs -> Dirs \cup {NoDir}]
  /\ tries \in [Procs -> 0..MaxTries]
  /\ unrec \in [Procs -> BOOLEAN]

\* Which process can be at which step.
LabelledAt(p) ==
  /\ ulPc[p] # "idle" => p \in cast
  /\ ulPc[p] \in {"upgrade", "retake", "discover", "release"} => p \in Evictors
  /\ ulPc[p] \in Leasing \cup Installing \cup {"warm", "lockfile", "poll", "using", "promote"}
       => p \in Runs
  /\ ulPc[p] \in Leasing => then[p] # "idle" /\ tries[p] < MaxTries
  /\ ulPc[p] \in {"xopen", "xlock"} \cup Excluding => p \in Evictors \/ kind \in {"scanner", "buildkit"}
  /\ ulPc[p] \in {"install lock", "rename", "sweep"} => p \in Evictors \/ kind = "scanner"
  /\ then[p] \in {"using", "done"} => kind # "venv"
  /\ unrec[p] => p \in Evictors

\* What it has open there.
OpenedAt(p) ==
  /\ ulPc[p] \in {"flock", "verify", "xlock"} \cup Excluding => fd[p] # NoDir
  /\ ulPc[p] \in {"open", "flock", "verify", "xopen", "xlock"} \cup Excluding => held[p] = NoDir
  /\ p \in Evictors => held[p] = NoDir
  /\ ulPc[p] \in Installing \cup {"poll"} => ifd[p] # NoDir
  /\ ulPc[p] \in Installing \cup {"lockfile", "poll"} => held[p] # NoDir
  /\ kind = "venv" /\ ulPc[p] \in {"warm", "using"} => held[p] # NoDir

\* The kernel's tables have it wherever it should be.
LockedAt(p) ==
  /\ held[p] # NoDir => p \in sh[held[p]]
  /\ ulPc[p] = "verify" => p \in sh[fd[p]]
  /\ ulPc[p] \in Excluding => p \in ex[fd[p]]
  /\ ulPc[p] \in Installing => p \in inst[ifd[p]]

\* A lock held exclusively is held by one.
Exclusive ==
  \A d \in Dirs : \A p, q \in Procs :
    /\ p \in ex[d] => q \notin sh[d]
    /\ p \in ex[d] /\ q \in ex[d] => p = q
    /\ p \in inst[d] /\ q \in inst[d] => p = q

RootExclusive == \A p \in rex : rex = {p} /\ rsh = {}

\* Past HoldCacheRoot a process that can has the root; it evicts an unrecorded unit only
\* with the root to itself.
RootAt(p) ==
  /\ ulPc[p] \notin {"idle", "root", "retake", "gone"} => p \in rsh \cup rex \cup Unlocked
  /\ p \in Unlocked => p \notin rex
  /\ ulPc[p] \in {"xopen", "xlock", "install lock", "rename"} /\ unrec[p] => rex = {p}

\* Until an eviction goes astray, every open file that matters is in the
\* directory at the unit's path; with one evictor, the lock it evicts under too.
InPlaceAt(p) ==
  /\ ~astray =>
       /\ held[p] # NoDir => dir = held[p]
       /\ ulPc[p] \in Installing \cup {"poll"} => ifd[p] = dir
  /\ OneRenamer /\ ulPc[p] \in {"xlock", "install lock", "rename"} /\ p \in Renamers
       => fd[p] = dir

\* And then a virtual environment is complete while used, and not yet while it
\* is installed.
CompleteAt(p) ==
  kind = "venv" /\ ~astray =>
    /\ ulPc[p] = "using" => Ready
    /\ ulPc[p] \in {"install", "finish"} => ~Ready

ProcessOK(p) ==
  /\ LabelledAt(p)
  /\ OpenedAt(p)
  /\ LockedAt(p)
  /\ RootAt(p)
  /\ InPlaceAt(p)
  /\ CompleteAt(p)

IInv ==
  /\ FilesOK /\ LocksOK /\ LocalsOK
  /\ Exclusive
  /\ RootExclusive
  /\ OneRenamer => ~astray
  /\ \A p \in Procs : ProcessOK(p)

\* A step of p leaves the others where they are, with the locks they have.
OthersKeep(p) ==
  /\ kind' = kind /\ cast' = cast /\ (astray => astray')
  /\ \A q \in Procs \ {p} :
       /\ ulPc'[q] = ulPc[q] /\ then'[q] = then[q] /\ tries'[q] = tries[q]
       /\ unrec'[q] = unrec[q] /\ held'[q] = held[q] /\ fd'[q] = fd[q] /\ ifd'[q] = ifd[q]

OthersKeepLocks(p) ==
  \A q \in Procs \ {p} :
    /\ \A d \in Dirs : /\ q \in sh'[d] <=> q \in sh[d]
                       /\ q \in ex'[d] <=> q \in ex[d]
                       /\ q \in inst'[d] <=> q \in inst[d]
    /\ q \in rsh' <=> q \in rsh
    /\ q \in rex' <=> q \in rex

\* A process goes on at l in the same call, or calls LeaseUnit first; it has
\* these files open afterwards.
Goes(p, l) == ulPc'[p] = l /\ then'[p] = then[p] /\ tries'[p] = tries[p]
Calls(p, l) == ulPc'[p] = "mkdir" /\ then'[p] = l /\ tries'[p] = 0
Finds(p) == IF kind = "toolchain" THEN Calls(p, "using") ELSE Goes(p, "using")
Leaves(p) ==
  IF p \in Evictors THEN Goes(p, "release")
  ELSE Calls(p, IF kind = "scanner" THEN "using" ELSE "done")
Has(p, h, f, i) == held'[p] = h /\ fd'[p] = f /\ ifd'[p] = i /\ unrec'[p] = unrec[p]
HasSame(p) == Has(p, held[p], fd[p], ifd[p])

-----------------------------------------------------------------------------
(* At first nothing is open or locked.                                      *)
LEMMA InitInv == UlInit => IInv
<1> SUFFICES ASSUME UlInit PROVE IInv
  OBVIOUS
<1>1. dir \in Dirs \cup {NoDir}
  BY UnitLeaseAssumption DEF UlInit
<1>2. FilesOK
  <2>1. kind \in Kinds /\ cast \in Casts /\ recorded \subseteq Dirs /\ tombs \subseteq Dirs
    BY <1>1 DEF UlInit
  <2>2. content \in [Dirs -> {"empty", "partial", "ready"}]
    BY DEF UlInit
  <2>3. crashes \in 0..MaxCrashes /\ astray \in BOOLEAN
    <3>1. crashes = 0
      BY DEF UlInit
    <3>2. MaxCrashes \in Nat
      BY UnitLeaseAssumption
    <3>3. astray \in BOOLEAN
      BY DEF UlInit
    <3> QED BY <3>1, <3>2, <3>3
  <2> QED BY <1>1, <2>1, <2>2, <2>3 DEF FilesOK
<1>6. LocksOK /\ ~astray
  BY DEF UlInit, LocksOK
<1>3. LocalsOK
  BY DEF UlInit, LocalsOK, Labels, MaxTries
<1>4. Exclusive /\ RootExclusive
  BY DEF UlInit, Exclusive, RootExclusive
<1>5. ASSUME NEW p \in Procs PROVE ProcessOK(p)
  <2>1. LabelledAt(p) /\ OpenedAt(p) /\ LockedAt(p)
    BY DEF UlInit, LabelledAt, OpenedAt, LockedAt, Leasing, Installing, Excluding
  <2>2. RootAt(p) /\ InPlaceAt(p) /\ CompleteAt(p)
    BY DEF UlInit, RootAt, InPlaceAt, CompleteAt, Installing
  <2> QED BY <2>1, <2>2 DEF ProcessOK
<1> QED
  BY <1>2, <1>3, <1>4, <1>5, <1>6 DEF IInv

(* Two processes that may rename are one, if one process at most may.       *)
LEMMA SoleRenamer ==
  ASSUME cast \in Casts, OneRenamer, NEW p \in Renamers, NEW q \in Renamers
  PROVE  p = q
<1>1. IsFiniteSet(cast) /\ Renamers \subseteq cast
  BY UnitLeaseAssumption DEF Renamers
<1>2. IsFiniteSet(Renamers)
  BY <1>1, FS_Subset
<1>3. SUFFICES ASSUME p # q PROVE FALSE
  OBVIOUS
<1>4. Cardinality({p, q}) = 2
  <2>1. Cardinality({p}) = 1 /\ IsFiniteSet({p})
    BY FS_Singleton
  <2>2. {p, q} = {p} \cup {q} /\ q \notin {p}
    BY <1>3
  <2> QED BY <2>1, <2>2, FS_AddElement
<1>5. Cardinality({p, q}) <= Cardinality(Renamers)
  BY <1>2, FS_Subset
<1>6. Cardinality(Renamers) \in Nat
  BY <1>2, FS_CardinalityType
<1> QED BY <1>4, <1>5, <1>6 DEF OneRenamer

-----------------------------------------------------------------------------
(* What the steps have in common: where a call goes on, and with what.      *)
LEMMA CallType ==
  ASSUME LocalsOK, NEW p \in Procs, NEW l \in {"warm", "lockfile", "using", "done"},
         CallLease(p, l)
  PROVE  /\ ulPc' \in [Procs -> Labels]
         /\ then' \in [Procs -> {"idle", "warm", "lockfile", "using", "done"}]
         /\ tries' \in [Procs -> 0..MaxTries]
<1>1. ulPc' \in [Procs -> Labels]
  BY DEF LocalsOK, CallLease, Goto, Labels
<1>2. then' \in [Procs -> {"idle", "warm", "lockfile", "using", "done"}]
  BY DEF LocalsOK, CallLease
<1>3. 0 \in 0..MaxTries
  BY DEF MaxTries
<1>4. tries' \in [Procs -> 0..MaxTries]
  BY <1>3 DEF LocalsOK, CallLease
<1> QED BY <1>1, <1>2, <1>4

(* Found either calls LeaseUnit or goes on to use the unit.                 *)
LEMMA FoundType ==
  ASSUME LocalsOK, NEW p \in Procs, Found(p)
  PROVE  /\ ulPc' \in [Procs -> Labels]
         /\ then' \in [Procs -> {"idle", "warm", "lockfile", "using", "done"}]
         /\ tries' \in [Procs -> 0..MaxTries]
<1>1. CASE kind = "toolchain"
  BY <1>1, CallType DEF Found
<1>2. CASE kind # "toolchain"
  BY <1>2 DEF Found, LocalsOK, Goto, Labels
<1> QED BY <1>1, <1>2

(* AfterExclusive ends an evictor's pass, or calls LeaseUnit.               *)
LEMMA AfterType ==
  ASSUME LocalsOK, NEW p \in Procs, AfterExclusive(p)
  PROVE  /\ ulPc' \in [Procs -> Labels]
         /\ then' \in [Procs -> {"idle", "warm", "lockfile", "using", "done"}]
         /\ tries' \in [Procs -> 0..MaxTries]
<1>1. CASE p \in Evictors
  BY <1>1 DEF AfterExclusive, LocalsOK, Goto, Labels
<1>2. CASE p \notin Evictors
  BY <1>2, CallType DEF AfterExclusive
<1> QED BY <1>1, <1>2

(* A failed LeaseUnit goes on at a step there is.                           *)
LEMMA FailedType ==
  ASSUME LocalsOK, NEW p \in Procs
  PROVE  LeaseFailed(p) \in Labels
BY DEF LocalsOK, LeaseFailed, Labels

(* Every step leaves each process at a step there is, with files there are. *)
LEMMA LocalsType ==
  ASSUME IInv, NEW p \in Procs, Start(p) \/ Step(p) \/ Crash(p)
  PROVE  LocalsOK'
<1> USE DEF IInv, unit, flocks, root, files, counts
<1>0. NoDir \notin Dirs /\ (p \in Runs \/ p \in Evictors) /\ ~(p \in Runs /\ p \in Evictors)
  BY UnitLeaseAssumption DEF Procs
<1>1. ASSUME Start(p) PROVE LocalsOK'
  BY <1>0, <1>1 DEF Start, Goto, LocalsOK, FilesOK, Labels, MaxTries
<1>2. ASSUME HoldCacheRoot(p) PROVE LocalsOK'
  <2>1. CASE p \in Runs /\ kind # "toolchain"
    BY <1>0, <2>1, <1>2, CallType DEF HoldCacheRoot, LocalsOK
  <2>2. CASE ~(p \in Runs /\ kind # "toolchain")
    BY <1>0, <2>2, <1>2 DEF HoldCacheRoot, Goto, LocalsOK, Labels
  <2> QED BY <1>0, <2>1, <2>2
<1>3. ASSUME ExclusiveCacheRoot(p) PROVE LocalsOK'
  BY <1>0, <1>3 DEF ExclusiveCacheRoot, Goto, LocalsOK, FilesOK, Labels, MaxTries
<1>4. ASSUME Retake(p) PROVE LocalsOK'
  BY <1>0, <1>4 DEF Retake, Goto, LocalsOK, FilesOK, Labels, MaxTries
<1>5. ASSUME ReleaseRoot(p) PROVE LocalsOK'
  BY <1>0, <1>5 DEF ReleaseRoot, Goto, LocalsOK, FilesOK, Labels, MaxTries
<1>6. ASSUME LeaseHeld(p) PROVE LocalsOK'
  <2>1. then[p] \in Labels
    BY DEF LocalsOK, Labels
  <2>2. ulPc' \in [Procs -> Labels]
    BY <2>1, <1>6 DEF LeaseHeld, Goto, LocalsOK, Labels
  <2>3. held' \in [Procs -> Dirs \cup {NoDir}]
    BY <1>6 DEF LeaseHeld, LocalsOK
  <2> QED BY <2>2, <2>3, <1>6 DEF LeaseHeld, LocalsOK
<1>7. ASSUME OpenLease(p) PROVE LocalsOK'
  <2>1. ulPc' \in [Procs -> Labels]
    <3>1. LeaseFailed(p) \in Labels /\ "flock" \in Labels
      BY FailedType DEF Labels
    <3>2. Goto(p, LeaseFailed(p)) \/ Goto(p, "flock")
      BY <1>7 DEF OpenLease
    <3> QED BY <3>1, <3>2 DEF Goto, LocalsOK
  <2>2. fd' \in [Procs -> Dirs \cup {NoDir}]
    BY <1>7 DEF OpenLease, LocalsOK, FilesOK
  <2> QED BY <2>1, <2>2, <1>7 DEF OpenLease, LocalsOK
<1>8. ASSUME FlockShared(p) PROVE LocalsOK'
  BY <1>0, <1>8 DEF FlockShared, Goto, LocalsOK, FilesOK, Labels, MaxTries
<1>9. ASSUME VerifyLease(p) PROVE LocalsOK'
  <2>1. ulPc[p] = "verify"
    BY <1>9 DEF VerifyLease
  <2>2. tries[p] < MaxTries
    BY <2>1 DEF ProcessOK, LabelledAt, Leasing
  <2>3. tries[p] + 1 \in 0..MaxTries
    BY <2>2 DEF LocalsOK, MaxTries
  <2>4. tries' \in [Procs -> 0..MaxTries]
    BY <2>3, <1>9 DEF VerifyLease, LocalsOK
  <2>5. LeaseFailed(p) \in Labels /\ then[p] \in Labels /\ "mkdir" \in Labels
    BY FailedType DEF LocalsOK, Labels
  <2>6. ulPc' \in [Procs -> Labels]
    BY <2>5, <1>9 DEF VerifyLease, Goto, LocalsOK
  <2> QED BY <2>4, <2>6, <1>9 DEF VerifyLease, LocalsOK
<1>10. ASSUME WarmHit(p) PROVE LocalsOK'
BY <1>10, FoundType DEF WarmHit, LocalsOK
<1>11. ASSUME WarmMiss(p) PROVE LocalsOK'
BY <1>11, CallType DEF WarmMiss, LocalsOK
<1>12. ASSUME OpenInstallLock(p) PROVE LocalsOK'
  BY <1>0, <1>12 DEF OpenInstallLock, Goto, LocalsOK, FilesOK, Labels, MaxTries
<1>13. ASSUME PollInstallLock(p) PROVE LocalsOK'
  BY <1>0, <1>13 DEF PollInstallLock, Goto, LocalsOK, FilesOK, Labels, MaxTries
<1>14. ASSUME Recheck(p) PROVE LocalsOK'
  <2>1. CASE Ready
    BY <2>1, <1>14, FoundType DEF Recheck, ReleaseInstallLock, LocalsOK
  <2>2. CASE ~Ready
    BY <2>2, <1>14 DEF Recheck, Goto, LocalsOK, Labels
  <2> QED BY <2>1, <2>2
<1>15. ASSUME Install(p) PROVE LocalsOK'
  BY <1>0, <1>15 DEF Install, Goto, Mkdir, LocalsOK, FilesOK, Labels, MaxTries
<1>16. ASSUME FinishInstall(p) PROVE LocalsOK'
BY <1>16, FoundType DEF FinishInstall, ReleaseInstallLock, LocalsOK
<1>17. ASSUME FailInstall(p) PROVE LocalsOK'
  BY <1>0, <1>17 DEF FailInstall, Goto, ReleaseInstallLock, CloseInstall,
     LocalsOK, FilesOK, Labels, MaxTries
<1>18. ASSUME DropForExclusive(p) PROVE LocalsOK'
  BY <1>0, <1>18 DEF DropForExclusive, Goto, CloseLease, LocalsOK, FilesOK,
     Labels, MaxTries
<1>19. ASSUME Discover(p) PROVE LocalsOK'
  BY <1>0, <1>19 DEF Discover, Goto, LocalsOK, FilesOK, Labels, MaxTries
<1>20. ASSUME OpenExclusive(p) PROVE LocalsOK'
  <2>1. CASE dir = NoDir
    BY <2>1, <1>20, AfterType DEF OpenExclusive, LocalsOK
  <2>2. CASE dir # NoDir
    <3>1. Goto(p, "xlock")
      BY <2>2, <1>20 DEF OpenExclusive
    <3>2. ulPc' \in [Procs -> Labels]
      BY <3>1 DEF Goto, LocalsOK, Labels
    <3> QED BY <3>2, <2>2, <1>20 DEF OpenExclusive, LocalsOK, FilesOK
  <2> QED BY <2>1, <2>2
<1>21. ASSUME LockExclusive(p) PROVE LocalsOK'
  <2>1. CASE sh[fd[p]] = {} /\ ex[fd[p]] = {}
    BY <2>1, <1>21 DEF LockExclusive, Goto, LocalsOK, Labels
  <2>2. CASE ~(sh[fd[p]] = {} /\ ex[fd[p]] = {})
    BY <2>2, <1>21, AfterType DEF LockExclusive, LocalsOK
  <2> QED BY <2>1, <2>2
<1>22. ASSUME LockInstallToo(p) PROVE LocalsOK'
  <2>1. CASE dir = NoDir \/ inst[dir] = {}
    <3>1. ulPc' \in [Procs -> Labels]
      BY <2>1, <1>22 DEF LockInstallToo, Goto, LocalsOK, Labels
    <3> QED BY <3>1, <2>1, <1>22 DEF LockInstallToo, LocalsOK, FilesOK
  <2>2. CASE ~(dir = NoDir \/ inst[dir] = {})
    BY <2>2, <1>22, AfterType DEF LockInstallToo, LocalsOK
  <2> QED BY <2>1, <2>2
<1>23. ASSUME Rename(p) PROVE LocalsOK'
  BY <1>0, <1>23 DEF Rename, Goto, LocalsOK, FilesOK, Labels, MaxTries
<1>24. ASSUME Sweep(p) PROVE LocalsOK'
BY <1>24, AfterType DEF Sweep, LocalsOK
<1>25. ASSUME Promote(p) PROVE LocalsOK'
BY <1>25, AfterType DEF Promote, LocalsOK
<1>26. ASSUME Exit(p) PROVE LocalsOK'
  <2>1. ulPc' \in [Procs -> Labels]
    BY <1>26 DEF Exit, EndProcess, Goto, LocalsOK, Labels
  <2>2. tries' \in [Procs -> 0..MaxTries]
    BY <1>26 DEF Exit, EndProcess, LocalsOK, MaxTries
  <2> QED BY <2>1, <2>2, <1>26 DEF Exit, EndProcess, LocalsOK
<1>27. ASSUME Crash(p) PROVE LocalsOK'
  <2>1. ulPc' \in [Procs -> Labels]
    BY <1>27 DEF Crash, EndProcess, Goto, LocalsOK, Labels
  <2>2. tries' \in [Procs -> 0..MaxTries]
    BY <1>27 DEF Crash, EndProcess, LocalsOK, MaxTries
  <2> QED BY <2>1, <2>2, <1>27 DEF Crash, EndProcess, LocalsOK
<1> QED BY <1>1, <1>2, <1>3, <1>4, <1>5, <1>6, <1>7, <1>8, <1>9, <1>10, <1>11,
   <1>12, <1>13, <1>14, <1>15, <1>16, <1>17, <1>18, <1>19, <1>20, <1>21, <1>22,
   <1>23, <1>24, <1>25, <1>26, <1>27 DEF Step

(* The lock tables stay tables of processes.                                *)
LEMMA LocksType ==
  ASSUME IInv, NEW p \in Procs, Start(p) \/ Step(p) \/ Crash(p)
  PROVE  LocksOK'
<1> USE DEF IInv, unit, flocks, root, files, counts
<1>0. NoDir \notin Dirs /\ (p \in Runs \/ p \in Evictors) /\ ~(p \in Runs /\ p \in Evictors)
  BY UnitLeaseAssumption DEF Procs
<1>1. ASSUME Start(p) PROVE LocksOK'
  BY <1>0, <1>1 DEF Start, Goto, LocksOK
<1>2. ASSUME HoldCacheRoot(p) PROVE LocksOK'
  BY <1>0, <1>2 DEF HoldCacheRoot, Goto, CallLease, LocksOK
<1>3. ASSUME ExclusiveCacheRoot(p) PROVE LocksOK'
  BY <1>0, <1>3 DEF ExclusiveCacheRoot, Goto, LocksOK
<1>4. ASSUME Retake(p) PROVE LocksOK'
  BY <1>0, <1>4 DEF Retake, Goto, LocksOK
<1>5. ASSUME ReleaseRoot(p) PROVE LocksOK'
  BY <1>0, <1>5 DEF ReleaseRoot, Goto, LocksOK
<1>6. ASSUME LeaseHeld(p) PROVE LocksOK'
  BY <1>0, <1>6 DEF LeaseHeld, Goto, Mkdir, CloseLease, LocksOK
<1>7. ASSUME OpenLease(p) PROVE LocksOK'
  BY <1>0, <1>7 DEF OpenLease, Goto, LeaseFailed, LocksOK
<1>8. ASSUME FlockShared(p) PROVE LocksOK'
  BY <1>0, <1>8 DEF FlockShared, Goto, LocksOK
<1>9. ASSUME VerifyLease(p) PROVE LocksOK'
  BY <1>0, <1>9 DEF VerifyLease, Goto, CloseLease, LeaseFailed, LocksOK
<1>10. ASSUME WarmHit(p) PROVE LocksOK'
  BY <1>0, <1>10 DEF WarmHit, Found, Goto, CallLease, LocksOK
<1>11. ASSUME WarmMiss(p) PROVE LocksOK'
  BY <1>0, <1>11 DEF WarmMiss, Goto, CallLease, LocksOK
<1>12. ASSUME OpenInstallLock(p) PROVE LocksOK'
  BY <1>0, <1>12 DEF OpenInstallLock, Goto, LocksOK
<1>13. ASSUME PollInstallLock(p) PROVE LocksOK'
  BY <1>0, <1>13 DEF PollInstallLock, Goto, LocksOK
<1>14. ASSUME Recheck(p) PROVE LocksOK'
  BY <1>0, <1>14 DEF Recheck, Found, Goto, CallLease, ReleaseInstallLock,
     CloseInstall, LocksOK
<1>15. ASSUME Install(p) PROVE LocksOK'
  BY <1>0, <1>15 DEF Install, Goto, Mkdir, LocksOK
<1>16. ASSUME FinishInstall(p) PROVE LocksOK'
  BY <1>0, <1>16 DEF FinishInstall, Found, Goto, CallLease, ReleaseInstallLock,
     CloseInstall, LocksOK
<1>17. ASSUME FailInstall(p) PROVE LocksOK'
  BY <1>0, <1>17 DEF FailInstall, Goto, ReleaseInstallLock, CloseInstall, LocksOK
<1>18. ASSUME DropForExclusive(p) PROVE LocksOK'
  BY <1>0, <1>18 DEF DropForExclusive, Goto, CloseLease, LocksOK
<1>19. ASSUME Discover(p) PROVE LocksOK'
  BY <1>0, <1>19 DEF Discover, Goto, LocksOK
<1>20. ASSUME OpenExclusive(p) PROVE LocksOK'
  BY <1>0, <1>20 DEF OpenExclusive, Goto, CallLease, AfterExclusive, LocksOK
<1>21. ASSUME LockExclusive(p) PROVE LocksOK'
  <2>1. CASE sh[fd[p]] = {} /\ ex[fd[p]] = {}
    <3>1. ex' = [ex EXCEPT ![fd[p]] = {p}] /\ sh' = sh /\ inst' = inst /\ rsh' = rsh /\ rex' = rex
      BY <2>1, <1>21 DEF LockExclusive
    <3> QED BY <3>1 DEF LocksOK
  <2>2. CASE ~(sh[fd[p]] = {} /\ ex[fd[p]] = {})
    <3>1. ex' = ex /\ sh' = sh /\ inst' = inst /\ rsh' = rsh /\ rex' = rex
      BY <2>2, <1>21 DEF LockExclusive
    <3> QED BY <3>1 DEF LocksOK
  <2> QED BY <2>1, <2>2
<1>22. ASSUME LockInstallToo(p) PROVE LocksOK'
  <2>1. CASE dir = NoDir \/ inst[dir] = {}
    <3>1. /\ ex' = ex /\ sh' = sh /\ rsh' = rsh /\ rex' = rex
          /\ inst' = inst \/ inst' = [inst EXCEPT ![dir] = {p}]
      BY <2>1, <1>22 DEF LockInstallToo
    <3> QED BY <3>1 DEF LocksOK
  <2>2. CASE ~(dir = NoDir \/ inst[dir] = {})
    <3>1. CloseLease(p, fd[p]) /\ inst' = inst /\ rsh' = rsh /\ rex' = rex
      BY <2>2, <1>22 DEF LockInstallToo
    <3> QED BY <3>1 DEF LocksOK, CloseLease
  <2> QED BY <2>1, <2>2
<1>23. ASSUME Rename(p) PROVE LocksOK'
  BY <1>0, <1>23 DEF Rename, Goto, LocksOK
<1>24. ASSUME Sweep(p) PROVE LocksOK'
  BY <1>0, <1>24 DEF Sweep, Goto, CallLease, CloseLease, CloseInstall,
     AfterExclusive, LocksOK
<1>25. ASSUME Promote(p) PROVE LocksOK'
  BY <1>0, <1>25 DEF Promote, Goto, CallLease, CloseLease, AfterExclusive, LocksOK
<1>26. ASSUME Exit(p) PROVE LocksOK'
  BY <1>0, <1>26 DEF Exit, EndProcess, Goto, CloseInstall, LocksOK
<1>27. ASSUME Crash(p) PROVE LocksOK'
  BY <1>0, <1>27 DEF Crash, EndProcess, Goto, CloseInstall, LocksOK
<1> QED BY <1>1, <1>2, <1>3, <1>4, <1>5, <1>6, <1>7, <1>8, <1>9, <1>10, <1>11,
   <1>12, <1>13, <1>14, <1>15, <1>16, <1>17, <1>18, <1>19, <1>20, <1>21, <1>22,
   <1>23, <1>24, <1>25, <1>26, <1>27 DEF Step

(* The unit's directories stay what they can be.                            *)
LEMMA FilesType ==
  ASSUME IInv, NEW p \in Procs, Start(p) \/ Step(p) \/ Crash(p)
  PROVE  FilesOK'
<1> USE DEF IInv, unit, flocks, root, files, counts
<1>0. NoDir \notin Dirs /\ (p \in Runs \/ p \in Evictors) /\ ~(p \in Runs /\ p \in Evictors)
  BY UnitLeaseAssumption DEF Procs
<1>1. ASSUME Start(p) PROVE FilesOK'
  BY <1>0, <1>1, UnitLeaseAssumption DEF Start, Goto, FilesOK
<1>2. ASSUME HoldCacheRoot(p) PROVE FilesOK'
  BY <1>0, <1>2, UnitLeaseAssumption DEF HoldCacheRoot, Goto, CallLease, FilesOK
<1>3. ASSUME ExclusiveCacheRoot(p) PROVE FilesOK'
  BY <1>0, <1>3, UnitLeaseAssumption DEF ExclusiveCacheRoot, Goto, FilesOK
<1>4. ASSUME Retake(p) PROVE FilesOK'
  BY <1>0, <1>4, UnitLeaseAssumption DEF Retake, Goto, FilesOK
<1>5. ASSUME ReleaseRoot(p) PROVE FilesOK'
  BY <1>0, <1>5, UnitLeaseAssumption DEF ReleaseRoot, Goto, FilesOK
<1>6. ASSUME LeaseHeld(p) PROVE FilesOK'
  BY <1>0, <1>6, UnitLeaseAssumption DEF LeaseHeld, Goto, Mkdir, CloseLease,
     FilesOK
<1>7. ASSUME OpenLease(p) PROVE FilesOK'
  BY <1>0, <1>7, UnitLeaseAssumption DEF OpenLease, Goto, LeaseFailed, FilesOK
<1>8. ASSUME FlockShared(p) PROVE FilesOK'
  BY <1>0, <1>8, UnitLeaseAssumption DEF FlockShared, Goto, FilesOK
<1>9. ASSUME VerifyLease(p) PROVE FilesOK'
  BY <1>0, <1>9, UnitLeaseAssumption DEF VerifyLease, Goto, CloseLease,
     LeaseFailed, FilesOK
<1>10. ASSUME WarmHit(p) PROVE FilesOK'
  BY <1>0, <1>10, UnitLeaseAssumption DEF WarmHit, Found, Goto, CallLease, FilesOK
<1>11. ASSUME WarmMiss(p) PROVE FilesOK'
  BY <1>0, <1>11, UnitLeaseAssumption DEF WarmMiss, Goto, CallLease, FilesOK
<1>12. ASSUME OpenInstallLock(p) PROVE FilesOK'
  BY <1>0, <1>12, UnitLeaseAssumption DEF OpenInstallLock, Goto, FilesOK
<1>13. ASSUME PollInstallLock(p) PROVE FilesOK'
  BY <1>0, <1>13, UnitLeaseAssumption DEF PollInstallLock, Goto, FilesOK
<1>14. ASSUME Recheck(p) PROVE FilesOK'
  BY <1>0, <1>14, UnitLeaseAssumption DEF Recheck, Found, Goto, CallLease,
     ReleaseInstallLock, CloseInstall, FilesOK
<1>15. ASSUME Install(p) PROVE FilesOK'
  BY <1>0, <1>15, UnitLeaseAssumption DEF Install, Goto, Mkdir, FilesOK
<1>16. ASSUME FinishInstall(p) PROVE FilesOK'
  BY <1>0, <1>16, UnitLeaseAssumption DEF FinishInstall, Found, Goto, CallLease,
     ReleaseInstallLock, CloseInstall, FilesOK
<1>17. ASSUME FailInstall(p) PROVE FilesOK'
  BY <1>0, <1>17, UnitLeaseAssumption DEF FailInstall, Goto, ReleaseInstallLock,
     CloseInstall, FilesOK
<1>18. ASSUME DropForExclusive(p) PROVE FilesOK'
  BY <1>0, <1>18, UnitLeaseAssumption DEF DropForExclusive, Goto, CloseLease,
     FilesOK
<1>19. ASSUME Discover(p) PROVE FilesOK'
  BY <1>0, <1>19, UnitLeaseAssumption DEF Discover, Goto, FilesOK
<1>20. ASSUME OpenExclusive(p) PROVE FilesOK'
  BY <1>0, <1>20, UnitLeaseAssumption DEF OpenExclusive, Goto, CallLease,
     AfterExclusive, FilesOK
<1>21. ASSUME LockExclusive(p) PROVE FilesOK'
  BY <1>0, <1>21, UnitLeaseAssumption DEF LockExclusive, Goto, CallLease,
     AfterExclusive, FilesOK
<1>22. ASSUME LockInstallToo(p) PROVE FilesOK'
  BY <1>0, <1>22, UnitLeaseAssumption DEF LockInstallToo, Goto, CallLease,
     CloseLease, AfterExclusive, FilesOK
<1>23. ASSUME Rename(p) PROVE FilesOK'
  BY <1>0, <1>23, UnitLeaseAssumption DEF Rename, Goto, FilesOK
<1>24. ASSUME Sweep(p) PROVE FilesOK'
  BY <1>0, <1>24, UnitLeaseAssumption DEF Sweep, Goto, CallLease, CloseLease,
     CloseInstall, AfterExclusive, FilesOK
<1>25. ASSUME Promote(p) PROVE FilesOK'
  BY <1>0, <1>25, UnitLeaseAssumption DEF Promote, Goto, CallLease, CloseLease,
     AfterExclusive, FilesOK
<1>26. ASSUME Exit(p) PROVE FilesOK'
  BY <1>0, <1>26, UnitLeaseAssumption DEF Exit, EndProcess, Goto, CloseInstall,
     FilesOK
<1>27. ASSUME Crash(p) PROVE FilesOK'
  BY <1>0, <1>27, UnitLeaseAssumption DEF Crash, EndProcess, Goto, CloseInstall,
     FilesOK
<1> QED BY <1>1, <1>2, <1>3, <1>4, <1>5, <1>6, <1>7, <1>8, <1>9, <1>10, <1>11,
   <1>12, <1>13, <1>14, <1>15, <1>16, <1>17, <1>18, <1>19, <1>20, <1>21, <1>22,
   <1>23, <1>24, <1>25, <1>26, <1>27 DEF Step

(* The other processes stay where they are.                                 *)
LEMMA OthersStay ==
  ASSUME IInv, NEW p \in Procs, Start(p) \/ Step(p) \/ Crash(p)
  PROVE  OthersKeep(p)
<1> USE DEF IInv, unit, flocks, root, files, counts
<1>0. NoDir \notin Dirs /\ (p \in Runs \/ p \in Evictors) /\ ~(p \in Runs /\ p \in Evictors)
  BY UnitLeaseAssumption DEF Procs
<1>1. ASSUME Start(p) PROVE OthersKeep(p)
  BY <1>0, <1>1 DEF Start, Goto, LocalsOK, OthersKeep
<1>2. ASSUME HoldCacheRoot(p) PROVE OthersKeep(p)
  BY <1>0, <1>2 DEF HoldCacheRoot, Goto, CallLease, LocalsOK, OthersKeep
<1>3. ASSUME ExclusiveCacheRoot(p) PROVE OthersKeep(p)
  BY <1>0, <1>3 DEF ExclusiveCacheRoot, Goto, LocalsOK, OthersKeep
<1>4. ASSUME Retake(p) PROVE OthersKeep(p)
  BY <1>0, <1>4 DEF Retake, Goto, LocalsOK, OthersKeep
<1>5. ASSUME ReleaseRoot(p) PROVE OthersKeep(p)
  BY <1>0, <1>5 DEF ReleaseRoot, Goto, LocalsOK, OthersKeep
<1>6. ASSUME LeaseHeld(p) PROVE OthersKeep(p)
  BY <1>0, <1>6 DEF LeaseHeld, Goto, Mkdir, CloseLease, LocalsOK, OthersKeep
<1>7. ASSUME OpenLease(p) PROVE OthersKeep(p)
  BY <1>0, <1>7 DEF OpenLease, Goto, LeaseFailed, LocalsOK, OthersKeep
<1>8. ASSUME FlockShared(p) PROVE OthersKeep(p)
  BY <1>0, <1>8 DEF FlockShared, Goto, LocalsOK, OthersKeep
<1>9. ASSUME VerifyLease(p) PROVE OthersKeep(p)
  BY <1>0, <1>9 DEF VerifyLease, Goto, CloseLease, LeaseFailed, LocalsOK,
     OthersKeep
<1>10. ASSUME WarmHit(p) PROVE OthersKeep(p)
  BY <1>0, <1>10 DEF WarmHit, Found, Goto, CallLease, LocalsOK, OthersKeep
<1>11. ASSUME WarmMiss(p) PROVE OthersKeep(p)
  BY <1>0, <1>11 DEF WarmMiss, Goto, CallLease, LocalsOK, OthersKeep
<1>12. ASSUME OpenInstallLock(p) PROVE OthersKeep(p)
  BY <1>0, <1>12 DEF OpenInstallLock, Goto, LocalsOK, OthersKeep
<1>13. ASSUME PollInstallLock(p) PROVE OthersKeep(p)
  BY <1>0, <1>13 DEF PollInstallLock, Goto, LocalsOK, OthersKeep
<1>14. ASSUME Recheck(p) PROVE OthersKeep(p)
  BY <1>0, <1>14 DEF Recheck, Found, Goto, CallLease, ReleaseInstallLock,
     CloseInstall, LocalsOK, OthersKeep
<1>15. ASSUME Install(p) PROVE OthersKeep(p)
  BY <1>0, <1>15 DEF Install, Goto, Mkdir, LocalsOK, OthersKeep
<1>16. ASSUME FinishInstall(p) PROVE OthersKeep(p)
  BY <1>0, <1>16 DEF FinishInstall, Found, Goto, CallLease, ReleaseInstallLock,
     CloseInstall, LocalsOK, OthersKeep
<1>17. ASSUME FailInstall(p) PROVE OthersKeep(p)
  BY <1>0, <1>17 DEF FailInstall, Goto, ReleaseInstallLock, CloseInstall,
     LocalsOK, OthersKeep
<1>18. ASSUME DropForExclusive(p) PROVE OthersKeep(p)
  BY <1>0, <1>18 DEF DropForExclusive, Goto, CloseLease, LocalsOK, OthersKeep
<1>19. ASSUME Discover(p) PROVE OthersKeep(p)
  BY <1>0, <1>19 DEF Discover, Goto, LocalsOK, OthersKeep
<1>20. ASSUME OpenExclusive(p) PROVE OthersKeep(p)
  BY <1>0, <1>20 DEF OpenExclusive, Goto, CallLease, AfterExclusive, LocalsOK,
     OthersKeep
<1>21. ASSUME LockExclusive(p) PROVE OthersKeep(p)
  BY <1>0, <1>21 DEF LockExclusive, Goto, CallLease, AfterExclusive, LocalsOK,
     OthersKeep
<1>22. ASSUME LockInstallToo(p) PROVE OthersKeep(p)
  BY <1>0, <1>22 DEF LockInstallToo, Goto, CallLease, CloseLease, AfterExclusive,
     LocalsOK, OthersKeep
<1>23. ASSUME Rename(p) PROVE OthersKeep(p)
  BY <1>0, <1>23 DEF Rename, Goto, LocalsOK, OthersKeep
<1>24. ASSUME Sweep(p) PROVE OthersKeep(p)
  BY <1>0, <1>24 DEF Sweep, Goto, CallLease, CloseLease, CloseInstall,
     AfterExclusive, LocalsOK, OthersKeep
<1>25. ASSUME Promote(p) PROVE OthersKeep(p)
  BY <1>0, <1>25 DEF Promote, Goto, CallLease, CloseLease, AfterExclusive,
     LocalsOK, OthersKeep
<1>26. ASSUME Exit(p) PROVE OthersKeep(p)
  BY <1>0, <1>26 DEF Exit, EndProcess, Goto, CloseInstall, LocalsOK, OthersKeep
<1>27. ASSUME Crash(p) PROVE OthersKeep(p)
  BY <1>0, <1>27 DEF Crash, EndProcess, Goto, CloseInstall, LocalsOK, OthersKeep
<1> QED BY <1>1, <1>2, <1>3, <1>4, <1>5, <1>6, <1>7, <1>8, <1>9, <1>10, <1>11,
   <1>12, <1>13, <1>14, <1>15, <1>16, <1>17, <1>18, <1>19, <1>20, <1>21, <1>22,
   <1>23, <1>24, <1>25, <1>26, <1>27 DEF Step

(* They keep the locks they have, and get no other.                         *)
LEMMA OthersLocks ==
  ASSUME IInv, NEW p \in Procs, Start(p) \/ Step(p) \/ Crash(p)
  PROVE  OthersKeepLocks(p)
<1> USE DEF IInv, unit, flocks, root, files, counts
<1>0. NoDir \notin Dirs /\ (p \in Runs \/ p \in Evictors) /\ ~(p \in Runs /\ p \in Evictors)
  BY UnitLeaseAssumption DEF Procs
<1>1. ASSUME Start(p) PROVE OthersKeepLocks(p)
  BY <1>0, <1>1 DEF Start, Goto, LocksOK, OthersKeepLocks
<1>2. ASSUME HoldCacheRoot(p) PROVE OthersKeepLocks(p)
  BY <1>0, <1>2 DEF HoldCacheRoot, Goto, CallLease, LocksOK, OthersKeepLocks
<1>3. ASSUME ExclusiveCacheRoot(p) PROVE OthersKeepLocks(p)
  BY <1>0, <1>3 DEF ExclusiveCacheRoot, Goto, LocksOK, OthersKeepLocks
<1>4. ASSUME Retake(p) PROVE OthersKeepLocks(p)
  BY <1>0, <1>4 DEF Retake, Goto, LocksOK, OthersKeepLocks
<1>5. ASSUME ReleaseRoot(p) PROVE OthersKeepLocks(p)
  BY <1>0, <1>5 DEF ReleaseRoot, Goto, LocksOK, OthersKeepLocks
<1>6. ASSUME LeaseHeld(p) PROVE OthersKeepLocks(p)
  BY <1>0, <1>6 DEF LeaseHeld, Goto, Mkdir, CloseLease, LocksOK, OthersKeepLocks
<1>7. ASSUME OpenLease(p) PROVE OthersKeepLocks(p)
  BY <1>0, <1>7 DEF OpenLease, Goto, LeaseFailed, LocksOK, OthersKeepLocks
<1>8. ASSUME FlockShared(p) PROVE OthersKeepLocks(p)
  BY <1>0, <1>8 DEF FlockShared, Goto, LocksOK, OthersKeepLocks
<1>9. ASSUME VerifyLease(p) PROVE OthersKeepLocks(p)
  BY <1>0, <1>9 DEF VerifyLease, Goto, CloseLease, LeaseFailed, LocksOK,
     OthersKeepLocks
<1>10. ASSUME WarmHit(p) PROVE OthersKeepLocks(p)
  BY <1>0, <1>10 DEF WarmHit, Found, Goto, CallLease, LocksOK, OthersKeepLocks
<1>11. ASSUME WarmMiss(p) PROVE OthersKeepLocks(p)
  BY <1>0, <1>11 DEF WarmMiss, Goto, CallLease, LocksOK, OthersKeepLocks
<1>12. ASSUME OpenInstallLock(p) PROVE OthersKeepLocks(p)
  BY <1>0, <1>12 DEF OpenInstallLock, Goto, LocksOK, OthersKeepLocks
<1>13. ASSUME PollInstallLock(p) PROVE OthersKeepLocks(p)
  BY <1>0, <1>13 DEF PollInstallLock, Goto, LocksOK, OthersKeepLocks
<1>14. ASSUME Recheck(p) PROVE OthersKeepLocks(p)
  BY <1>0, <1>14 DEF Recheck, Found, Goto, CallLease, ReleaseInstallLock,
     CloseInstall, LocksOK, OthersKeepLocks
<1>15. ASSUME Install(p) PROVE OthersKeepLocks(p)
  BY <1>0, <1>15 DEF Install, Goto, Mkdir, LocksOK, OthersKeepLocks
<1>16. ASSUME FinishInstall(p) PROVE OthersKeepLocks(p)
  BY <1>0, <1>16 DEF FinishInstall, Found, Goto, CallLease, ReleaseInstallLock,
     CloseInstall, LocksOK, OthersKeepLocks
<1>17. ASSUME FailInstall(p) PROVE OthersKeepLocks(p)
  BY <1>0, <1>17 DEF FailInstall, Goto, ReleaseInstallLock, CloseInstall, LocksOK,
     OthersKeepLocks
<1>18. ASSUME DropForExclusive(p) PROVE OthersKeepLocks(p)
  BY <1>0, <1>18 DEF DropForExclusive, Goto, CloseLease, LocksOK, OthersKeepLocks
<1>19. ASSUME Discover(p) PROVE OthersKeepLocks(p)
  BY <1>0, <1>19 DEF Discover, Goto, LocksOK, OthersKeepLocks
<1>20. ASSUME OpenExclusive(p) PROVE OthersKeepLocks(p)
  BY <1>0, <1>20 DEF OpenExclusive, Goto, CallLease, AfterExclusive, LocksOK,
     OthersKeepLocks
<1>21. ASSUME LockExclusive(p) PROVE OthersKeepLocks(p)
  <2>1. CASE sh[fd[p]] = {} /\ ex[fd[p]] = {}
    <3>1. ex[fd[p]] = {} /\ ex' = [ex EXCEPT ![fd[p]] = {p}] /\ sh' = sh /\ inst' = inst /\ rsh' = rsh /\ rex' = rex
      BY <2>1, <1>21 DEF LockExclusive
    <3> QED BY <3>1 DEF LocksOK, OthersKeepLocks
  <2>2. CASE ~(sh[fd[p]] = {} /\ ex[fd[p]] = {})
    <3>1. ex' = ex /\ sh' = sh /\ inst' = inst /\ rsh' = rsh /\ rex' = rex
      BY <2>2, <1>21 DEF LockExclusive
    <3> QED BY <3>1 DEF LocksOK, OthersKeepLocks
  <2> QED BY <2>1, <2>2
<1>22. ASSUME LockInstallToo(p) PROVE OthersKeepLocks(p)
  <2>1. CASE dir = NoDir \/ inst[dir] = {}
    <3>1. /\ dir = NoDir \/ inst[dir] = {}
          /\ ex' = ex /\ sh' = sh /\ rsh' = rsh /\ rex' = rex
          /\ inst' = inst \/ (inst[dir] = {} /\ inst' = [inst EXCEPT ![dir] = {p}])
      BY <2>1, <1>22 DEF LockInstallToo
    <3> QED BY <3>1 DEF LocksOK, OthersKeepLocks
  <2>2. CASE ~(dir = NoDir \/ inst[dir] = {})
    <3>1. CloseLease(p, fd[p]) /\ inst' = inst /\ rsh' = rsh /\ rex' = rex
      BY <2>2, <1>22 DEF LockInstallToo
    <3> QED BY <3>1 DEF LocksOK, OthersKeepLocks, CloseLease
  <2> QED BY <2>1, <2>2
<1>23. ASSUME Rename(p) PROVE OthersKeepLocks(p)
  BY <1>0, <1>23 DEF Rename, Goto, LocksOK, OthersKeepLocks
<1>24. ASSUME Sweep(p) PROVE OthersKeepLocks(p)
  BY <1>0, <1>24 DEF Sweep, Goto, CallLease, CloseLease, CloseInstall,
     AfterExclusive, LocksOK, OthersKeepLocks
<1>25. ASSUME Promote(p) PROVE OthersKeepLocks(p)
  BY <1>0, <1>25 DEF Promote, Goto, CallLease, CloseLease, AfterExclusive,
     LocksOK, OthersKeepLocks
<1>26. ASSUME Exit(p) PROVE OthersKeepLocks(p)
  BY <1>0, <1>26 DEF Exit, EndProcess, Goto, CloseInstall, LocksOK,
     OthersKeepLocks
<1>27. ASSUME Crash(p) PROVE OthersKeepLocks(p)
  BY <1>0, <1>27 DEF Crash, EndProcess, Goto, CloseInstall, LocksOK,
     OthersKeepLocks
<1> QED BY <1>1, <1>2, <1>3, <1>4, <1>5, <1>6, <1>7, <1>8, <1>9, <1>10, <1>11,
   <1>12, <1>13, <1>14, <1>15, <1>16, <1>17, <1>18, <1>19, <1>20, <1>21, <1>22,
   <1>23, <1>24, <1>25, <1>26, <1>27 DEF Step

(* A process that calls LeaseUnit is one that may.                          *)
LEMMA Called ==
  ASSUME NEW p \in Procs, NEW l \in {"warm", "lockfile", "using", "done"},
         LabelledAt(p), Calls(p, l), p \in Runs, ulPc[p] # "idle",
         kind' = kind, cast' = cast, unrec'[p] = unrec[p],
         l \in {"using", "done"} => kind # "venv"
  PROVE  LabelledAt(p)'
<1>1. p \in cast /\ (unrec[p] => p \in Evictors)
  BY DEF LabelledAt
<1>2. tries'[p] < MaxTries
  BY DEF Calls, MaxTries
<1> QED
  BY <1>1, <1>2 DEF LabelledAt, Calls, Leasing, Installing, Excluding

(* The process that steps goes where it may, with the files and the locks it *)
(* needs there, and finds the unit as it should.                           *)
LEMMA StepOwn ==
  ASSUME IInv, NEW p \in Procs, Start(p) \/ Step(p) \/ Crash(p)
  PROVE  ProcessOK(p)'
<1>0. NoDir \notin Dirs /\ (p \in Runs \/ p \in Evictors) /\ ~(p \in Runs /\ p \in Evictors)
  BY UnitLeaseAssumption DEF Procs
<1>a. LabelledAt(p) /\ OpenedAt(p) /\ LockedAt(p) /\ RootAt(p) /\ InPlaceAt(p) /\ CompleteAt(p)
  BY DEF IInv, ProcessOK
<1>b. /\ then[p] \in {"idle", "warm", "lockfile", "using", "done"}
      /\ tries[p] \in 0..MaxTries
      /\ held[p] \in Dirs \cup {NoDir} /\ fd[p] \in Dirs \cup {NoDir} /\ ifd[p] \in Dirs \cup {NoDir}
      /\ dir \in Dirs \cup {NoDir}
  BY DEF IInv, LocalsOK, FilesOK
<1>c. /\ kind' = kind /\ cast' = cast
      /\ Renamers' = Renamers /\ OneRenamer' = OneRenamer /\ (astray => astray')
  BY OthersStay DEF OthersKeep, Renamers, OneRenamer
<1> USE DEF unit, flocks, root, files, counts
<1>1. ASSUME Start(p) PROVE ProcessOK(p)'
  <2>1. /\ ulPc[p] = "idle" /\ p \in cast
        /\ Goes(p, "root") /\ HasSame(p)
    BY <1>1, <1>a DEF IInv, LocalsOK, LabelledAt, Goes, HasSame, Has, Start, Goto
  <2>2. LabelledAt(p)'
    BY <1>0, <1>a, <1>b, <1>c, <2>1 DEF LabelledAt, Goes, HasSame, Has, Leasing,
       Installing, Excluding
  <2>3. OpenedAt(p)'
    BY <1>0, <1>a, <1>b, <1>c, <2>1 DEF LabelledAt, OpenedAt, Goes, HasSame, Has,
       Leasing, Installing, Excluding
  <2>4. LockedAt(p)'
    BY <1>0, <1>a, <1>b, <1>c, <1>1, <2>1 DEF IInv, LocksOK, LabelledAt, OpenedAt,
       LockedAt, Goes, HasSame, Has, Leasing, Installing, Excluding, Start
  <2>5. RootAt(p)'
    <3>1. rsh' = rsh /\ rex' = rex
      BY <1>1 DEF Start
    <3> QED BY <1>0, <1>a, <1>b, <2>1, <3>1 DEF LabelledAt, RootAt, Goes, HasSame,
       Has
  <2>6. InPlaceAt(p)'
    <3>1. dir' = dir
      BY <1>1 DEF Start
    <3> QED BY <1>0, <1>a, <1>b, <1>c, <2>1, <3>1 DEF LabelledAt, InPlaceAt, Goes,
       HasSame, Has, Leasing, Installing, Excluding
  <2>7. CompleteAt(p)'
    BY <1>0, <1>a, <1>b, <1>c, <2>1 DEF LabelledAt, CompleteAt, Goes, HasSame,
       Has, Leasing, Installing, Excluding
  <2> QED BY <2>2, <2>3, <2>4, <2>5, <2>6, <2>7 DEF ProcessOK
<1>2. ASSUME HoldCacheRoot(p) PROVE ProcessOK(p)'
  <2>1. /\ ulPc[p] = "root" /\ HasSame(p)
        /\ \/ p \in Evictors /\ Goes(p, "upgrade")
           \/ p \notin Evictors /\ kind = "toolchain" /\ Goes(p, "warm")
           \/ p \notin Evictors /\ Calls(p, "warm")
    BY <1>2, <1>a DEF IInv, LocalsOK, LabelledAt, Goes, Calls, HasSame, Has,
       HoldCacheRoot, Goto, CallLease
  <2>2. LabelledAt(p)'
    <3>1. ASSUME Calls(p, "warm"), p \notin Evictors PROVE LabelledAt(p)'
      BY <3>1, <1>0, <1>a, <1>c, <2>1, Called DEF Has, HasSame
    <3>2. ASSUME ~(Calls(p, "warm") /\ p \notin Evictors) PROVE LabelledAt(p)'
      BY <3>2, <1>0, <1>a, <1>b, <1>c, <2>1
      DEF LabelledAt, Goes, Has, HasSame, Leasing, Installing, Excluding
    <3> QED BY <3>1, <3>2
  <2>3. OpenedAt(p)'
    BY <1>0, <1>a, <1>b, <1>c, <2>1 DEF LabelledAt, OpenedAt, Goes, Calls,
       HasSame, Has, Leasing, Installing, Excluding
  <2>4. LockedAt(p)'
    BY <1>0, <1>a, <1>b, <1>c, <1>2, <2>1 DEF IInv, LocksOK, LabelledAt, OpenedAt,
       LockedAt, Goes, Calls, HasSame, Has, Leasing, Installing, Excluding,
       HoldCacheRoot
  <2>5. RootAt(p)'
    BY <1>0, <1>a, <1>2, <2>1 DEF IInv, RootExclusive, LabelledAt, RootAt, Goes,
       Calls, HasSame, Has, HoldCacheRoot
  <2>6. InPlaceAt(p)'
    <3>1. dir' = dir
      BY <1>2 DEF HoldCacheRoot
    <3> QED BY <1>0, <1>a, <1>b, <1>c, <2>1, <3>1 DEF LabelledAt, InPlaceAt, Goes,
       Calls, HasSame, Has, Leasing, Installing, Excluding
  <2>7. CompleteAt(p)'
    BY <1>0, <1>a, <1>b, <1>c, <2>1 DEF LabelledAt, CompleteAt, Goes, Calls,
       HasSame, Has, Leasing, Installing, Excluding
  <2> QED BY <2>2, <2>3, <2>4, <2>5, <2>6, <2>7 DEF ProcessOK
<1>3. ASSUME ExclusiveCacheRoot(p) PROVE ProcessOK(p)'
  <2>1. /\ ulPc[p] = "upgrade" /\ HasSame(p)
        /\ \/ Goes(p, "discover") /\ rex' = IF p \in Unlocked THEN rex ELSE {p}
           \/ Goes(p, "retake")
    BY <1>3, <1>a DEF IInv, LocalsOK, LabelledAt, Goes, HasSame, Has,
       ExclusiveCacheRoot, Goto
  <2>2. LabelledAt(p)'
    BY <1>0, <1>a, <1>b, <1>c, <2>1 DEF LabelledAt, Goes, HasSame, Has, Leasing,
       Installing, Excluding
  <2>3. OpenedAt(p)'
    BY <1>0, <1>a, <1>b, <1>c, <2>1 DEF LabelledAt, OpenedAt, Goes, HasSame, Has,
       Leasing, Installing, Excluding
  <2>4. LockedAt(p)'
    BY <1>0, <1>a, <1>b, <1>c, <1>3, <2>1 DEF IInv, LocksOK, LabelledAt, OpenedAt,
       LockedAt, Goes, HasSame, Has, Leasing, Installing, Excluding,
       ExclusiveCacheRoot
  <2>5. RootAt(p)'
    BY <1>0, <1>a, <1>3, <2>1 DEF IInv, RootExclusive, LabelledAt, RootAt, Goes,
       HasSame, Has, ExclusiveCacheRoot
  <2>6. InPlaceAt(p)'
    <3>1. dir' = dir
      BY <1>3 DEF ExclusiveCacheRoot
    <3> QED BY <1>0, <1>a, <1>b, <1>c, <2>1, <3>1 DEF LabelledAt, InPlaceAt, Goes,
       HasSame, Has, Leasing, Installing, Excluding
  <2>7. CompleteAt(p)'
    BY <1>0, <1>a, <1>b, <1>c, <2>1 DEF LabelledAt, CompleteAt, Goes, HasSame,
       Has, Leasing, Installing, Excluding
  <2> QED BY <2>2, <2>3, <2>4, <2>5, <2>6, <2>7 DEF ProcessOK
<1>4. ASSUME Retake(p) PROVE ProcessOK(p)'
  <2>1. /\ ulPc[p] = "retake" /\ HasSame(p)
        /\ Goes(p, "discover")
    BY <1>4, <1>a DEF IInv, LocalsOK, LabelledAt, Goes, HasSame, Has, Retake, Goto
  <2>2. LabelledAt(p)'
    BY <1>0, <1>a, <1>b, <1>c, <2>1 DEF LabelledAt, Goes, HasSame, Has, Leasing,
       Installing, Excluding
  <2>3. OpenedAt(p)'
    BY <1>0, <1>a, <1>b, <1>c, <2>1 DEF LabelledAt, OpenedAt, Goes, HasSame, Has,
       Leasing, Installing, Excluding
  <2>4. LockedAt(p)'
    BY <1>0, <1>a, <1>b, <1>c, <1>4, <2>1 DEF IInv, LocksOK, LabelledAt, OpenedAt,
       LockedAt, Goes, HasSame, Has, Leasing, Installing, Excluding, Retake
  <2>5. RootAt(p)'
    BY <1>0, <1>a, <1>4, <2>1 DEF IInv, RootExclusive, LabelledAt, RootAt, Goes,
       HasSame, Has, Retake
  <2>6. InPlaceAt(p)'
    <3>1. dir' = dir
      BY <1>4 DEF Retake
    <3> QED BY <1>0, <1>a, <1>b, <1>c, <2>1, <3>1 DEF LabelledAt, InPlaceAt, Goes,
       HasSame, Has, Leasing, Installing, Excluding
  <2>7. CompleteAt(p)'
    BY <1>0, <1>a, <1>b, <1>c, <2>1 DEF LabelledAt, CompleteAt, Goes, HasSame,
       Has, Leasing, Installing, Excluding
  <2> QED BY <2>2, <2>3, <2>4, <2>5, <2>6, <2>7 DEF ProcessOK
<1>5. ASSUME ReleaseRoot(p) PROVE ProcessOK(p)'
  <2>1. /\ ulPc[p] = "release" /\ HasSame(p)
        /\ Goes(p, "done")
    BY <1>5, <1>a DEF IInv, LocalsOK, LabelledAt, Goes, HasSame, Has, ReleaseRoot,
       Goto
  <2>2. LabelledAt(p)'
    BY <1>0, <1>a, <1>b, <1>c, <2>1 DEF LabelledAt, Goes, HasSame, Has, Leasing,
       Installing, Excluding
  <2>3. OpenedAt(p)'
    BY <1>0, <1>a, <1>b, <1>c, <2>1 DEF LabelledAt, OpenedAt, Goes, HasSame, Has,
       Leasing, Installing, Excluding
  <2>4. LockedAt(p)'
    BY <1>0, <1>a, <1>b, <1>c, <1>5, <2>1 DEF IInv, LocksOK, LabelledAt, OpenedAt,
       LockedAt, Goes, HasSame, Has, Leasing, Installing, Excluding, ReleaseRoot
  <2>5. RootAt(p)'
    BY <1>0, <1>a, <1>5, <2>1 DEF IInv, RootExclusive, LabelledAt, RootAt, Goes,
       HasSame, Has, ReleaseRoot
  <2>6. InPlaceAt(p)'
    <3>1. dir' = dir
      BY <1>5 DEF ReleaseRoot
    <3> QED BY <1>0, <1>a, <1>b, <1>c, <2>1, <3>1 DEF LabelledAt, InPlaceAt, Goes,
       HasSame, Has, Leasing, Installing, Excluding
  <2>7. CompleteAt(p)'
    BY <1>0, <1>a, <1>b, <1>c, <2>1 DEF LabelledAt, CompleteAt, Goes, HasSame,
       Has, Leasing, Installing, Excluding
  <2> QED BY <2>2, <2>3, <2>4, <2>5, <2>6, <2>7 DEF ProcessOK
<1>6. ASSUME LeaseHeld(p) PROVE ProcessOK(p)'
  <2>1. /\ ulPc[p] = "mkdir"
        /\ \/ held[p] # NoDir /\ Goes(p, then[p]) /\ HasSame(p) /\ sh' = sh
           \/ Goes(p, "open") /\ Has(p, NoDir, fd[p], ifd[p])
    BY <1>6, <1>a DEF IInv, LocalsOK, LabelledAt, Goes, HasSame, Has, LeaseHeld,
       Goto, Mkdir, CloseLease
  <2>2. LabelledAt(p)'
    BY <1>0, <1>a, <1>b, <1>c, <2>1 DEF LabelledAt, Goes, HasSame, Has, Leasing,
       Installing, Excluding
  <2>3. OpenedAt(p)'
    BY <1>0, <1>a, <1>b, <1>c, <2>1 DEF LabelledAt, OpenedAt, Goes, HasSame, Has,
       Leasing, Installing, Excluding
  <2>4. LockedAt(p)'
    <3>1. CASE Goes(p, then[p]) /\ HasSame(p) /\ sh' = sh
      BY <3>1, <1>a, <1>b, <1>c, <2>1
      DEF IInv, LocksOK, OpenedAt, LockedAt, Goes, Has, HasSame, Leasing, Installing, Excluding
    <3>2. CASE Goes(p, "open") /\ Has(p, NoDir, fd[p], ifd[p])
      BY <3>2, <1>a, <1>b, <1>c, <2>1
      DEF IInv, LocksOK, OpenedAt, LockedAt, Goes, Calls, Finds, Leaves, Has, HasSame, Leasing, Installing, Excluding
    <3> QED BY <3>1, <3>2, <2>1
  <2>5. RootAt(p)'
    <3>1. rsh' = rsh /\ rex' = rex
      BY <1>6 DEF LeaseHeld
    <3> QED BY <1>0, <1>a, <1>b, <2>1, <3>1 DEF LabelledAt, RootAt, Goes, HasSame,
       Has
  <2>6. InPlaceAt(p)'
    BY <1>0, <1>a, <1>b, <1>c, <1>6, <2>1 DEF LabelledAt, OpenedAt, InPlaceAt,
       Goes, HasSame, Has, Leasing, Installing, Excluding, LeaseHeld, Mkdir
  <2>7. CompleteAt(p)'
    BY <1>0, <1>a, <1>b, <1>c, <2>1 DEF LabelledAt, CompleteAt, Goes, HasSame,
       Has, Leasing, Installing, Excluding
  <2> QED BY <2>2, <2>3, <2>4, <2>5, <2>6, <2>7 DEF ProcessOK
<1>7. ASSUME OpenLease(p) PROVE ProcessOK(p)'
  <2>1. /\ ulPc[p] = "open"
        /\ \/ Goes(p, LeaseFailed(p)) /\ HasSame(p)
           \/ dir # NoDir /\ Goes(p, "flock") /\ Has(p, held[p], dir, ifd[p])
    BY <1>7, <1>a DEF IInv, LocalsOK, LabelledAt, Goes, HasSame, Has, OpenLease,
       Goto
  <2>2. LabelledAt(p)'
    BY <1>0, <1>a, <1>b, <1>c, <2>1 DEF LabelledAt, Goes, HasSame, Has, Leasing,
       Installing, Excluding, LeaseFailed
  <2>3. OpenedAt(p)'
    BY <1>0, <1>a, <1>b, <1>c, <2>1 DEF LabelledAt, OpenedAt, Goes, HasSame, Has,
       Leasing, Installing, Excluding, LeaseFailed
  <2>4. LockedAt(p)'
    BY <1>0, <1>a, <1>b, <1>c, <1>7, <2>1 DEF IInv, LocksOK, LabelledAt, OpenedAt,
       LockedAt, Goes, HasSame, Has, Leasing, Installing, Excluding, LeaseFailed,
       OpenLease
  <2>5. RootAt(p)'
    <3>1. rsh' = rsh /\ rex' = rex
      BY <1>7 DEF OpenLease
    <3> QED BY <1>0, <1>a, <1>b, <2>1, <3>1 DEF LabelledAt, RootAt, Goes, HasSame,
       Has, LeaseFailed
  <2>6. InPlaceAt(p)'
    <3>1. dir' = dir
      BY <1>7 DEF OpenLease
    <3> QED BY <1>0, <1>a, <1>b, <1>c, <2>1, <3>1 DEF LabelledAt, InPlaceAt, Goes,
       HasSame, Has, Leasing, Installing, Excluding, LeaseFailed
  <2>7. CompleteAt(p)'
    BY <1>0, <1>a, <1>b, <1>c, <2>1 DEF LabelledAt, CompleteAt, Goes, HasSame,
       Has, Leasing, Installing, Excluding, LeaseFailed
  <2> QED BY <2>2, <2>3, <2>4, <2>5, <2>6, <2>7 DEF ProcessOK
<1>8. ASSUME FlockShared(p) PROVE ProcessOK(p)'
  <2>1. /\ ulPc[p] = "flock"
        /\ Goes(p, "verify") /\ HasSame(p)
    BY <1>8, <1>a DEF IInv, LocalsOK, LabelledAt, Goes, HasSame, Has, FlockShared,
       Goto
  <2>2. LabelledAt(p)'
    BY <1>0, <1>a, <1>b, <1>c, <2>1 DEF LabelledAt, Goes, HasSame, Has, Leasing,
       Installing, Excluding
  <2>3. OpenedAt(p)'
    BY <1>0, <1>a, <1>b, <1>c, <2>1 DEF LabelledAt, OpenedAt, Goes, HasSame, Has,
       Leasing, Installing, Excluding
  <2>4. LockedAt(p)'
    BY <1>0, <1>a, <1>b, <1>c, <1>8, <2>1 DEF IInv, LocksOK, LabelledAt, OpenedAt,
       LockedAt, Goes, HasSame, Has, Leasing, Installing, Excluding, FlockShared
  <2>5. RootAt(p)'
    <3>1. rsh' = rsh /\ rex' = rex
      BY <1>8 DEF FlockShared
    <3> QED BY <1>0, <1>a, <1>b, <2>1, <3>1 DEF LabelledAt, RootAt, Goes, HasSame,
       Has
  <2>6. InPlaceAt(p)'
    <3>1. dir' = dir
      BY <1>8 DEF FlockShared
    <3> QED BY <1>0, <1>a, <1>b, <1>c, <2>1, <3>1 DEF LabelledAt, InPlaceAt, Goes,
       HasSame, Has, Leasing, Installing, Excluding
  <2>7. CompleteAt(p)'
    BY <1>0, <1>a, <1>b, <1>c, <2>1 DEF LabelledAt, CompleteAt, Goes, HasSame,
       Has, Leasing, Installing, Excluding
  <2> QED BY <2>2, <2>3, <2>4, <2>5, <2>6, <2>7 DEF ProcessOK
<1>9. ASSUME VerifyLease(p) PROVE ProcessOK(p)'
  <2>1. /\ ulPc[p] = "verify"
        /\ \/ fd[p] = dir /\ Goes(p, then[p]) /\ Has(p, fd[p], NoDir, ifd[p])
           \/ /\ Has(p, held[p], NoDir, ifd[p]) /\ then'[p] = then[p] /\ tries'[p] = tries[p] + 1
              /\ (tries[p] + 1 < MaxTries /\ ulPc'[p] = "mkdir") \/ ulPc'[p] = LeaseFailed(p)
    BY <1>9, <1>a DEF IInv, LocalsOK, LabelledAt, Goes, Has, VerifyLease, Goto,
       CloseLease
  <2>2. LabelledAt(p)'
    BY <1>0, <1>a, <1>b, <1>c, <2>1 DEF LabelledAt, Goes, Has, Leasing,
       Installing, Excluding, LeaseFailed, MaxTries
  <2>3. OpenedAt(p)'
    BY <1>0, <1>a, <1>b, <1>c, <2>1 DEF LabelledAt, OpenedAt, Goes, Has, Leasing,
       Installing, Excluding, LeaseFailed
  <2>4. LockedAt(p)'
    BY <1>0, <1>a, <1>b, <1>c, <1>9, <2>1 DEF IInv, LocksOK, LabelledAt, OpenedAt,
       LockedAt, Goes, Has, Leasing, Installing, Excluding, LeaseFailed,
       VerifyLease, CloseLease
  <2>5. RootAt(p)'
    <3>1. rsh' = rsh /\ rex' = rex
      BY <1>9 DEF VerifyLease
    <3> QED BY <1>0, <1>a, <1>b, <2>1, <3>1 DEF LabelledAt, RootAt, Goes, Has,
       LeaseFailed
  <2>6. InPlaceAt(p)'
    <3>1. dir' = dir
      BY <1>9 DEF VerifyLease
    <3> QED BY <1>0, <1>a, <1>b, <1>c, <2>1, <3>1 DEF LabelledAt, InPlaceAt, Goes,
       Has, Leasing, Installing, Excluding, LeaseFailed
  <2>7. CompleteAt(p)'
    BY <1>0, <1>a, <1>b, <1>c, <2>1 DEF LabelledAt, CompleteAt, Goes, Has,
       Leasing, Installing, Excluding, LeaseFailed
  <2> QED BY <2>2, <2>3, <2>4, <2>5, <2>6, <2>7 DEF ProcessOK
<1>10. ASSUME WarmHit(p) PROVE ProcessOK(p)'
  <2>1. /\ ulPc[p] = "warm" /\ HasSame(p)
        /\ Finds(p)
    BY <1>10, <1>a DEF IInv, LocalsOK, LabelledAt, Goes, Calls, Finds, HasSame,
       Has, WarmHit, Found, Goto, CallLease
  <2>2. LabelledAt(p)'
    <3>1. ASSUME Finds(p) PROVE LabelledAt(p)'
      <4>1. CASE kind = "toolchain"
        BY <4>1, <1>a, <1>c, <2>1, <3>1, Called DEF LabelledAt, Finds, Has, HasSame, Installing
      <4>2. CASE kind # "toolchain"
        BY <4>2, <1>a, <1>c, <2>1, <3>1
        DEF LabelledAt, Finds, Goes, Has, HasSame, Leasing, Installing, Excluding
      <4> QED BY <4>1, <4>2
    <3>2. ASSUME ~Finds(p) PROVE LabelledAt(p)'
      BY <3>2, <1>0, <1>a, <1>b, <1>c, <2>1
      DEF LabelledAt, Goes, Has, HasSame, Leasing, Installing, Excluding
    <3> QED BY <3>1, <3>2
  <2>3. OpenedAt(p)'
    BY <1>0, <1>a, <1>b, <1>c, <2>1 DEF LabelledAt, OpenedAt, Goes, Calls, Finds,
       HasSame, Has, Leasing, Installing, Excluding
  <2>4. LockedAt(p)'
    BY <1>0, <1>a, <1>b, <1>c, <1>10, <2>1 DEF IInv, LocksOK, LabelledAt,
       OpenedAt, LockedAt, Goes, Calls, Finds, HasSame, Has, Leasing, Installing,
       Excluding, WarmHit
  <2>5. RootAt(p)'
    <3>1. rsh' = rsh /\ rex' = rex
      BY <1>10 DEF WarmHit
    <3> QED BY <1>0, <1>a, <1>b, <2>1, <3>1 DEF LabelledAt, RootAt, Goes, Calls,
       Finds, HasSame, Has
  <2>6. InPlaceAt(p)'
    <3>1. dir' = dir
      BY <1>10 DEF WarmHit
    <3> QED BY <1>0, <1>a, <1>b, <1>c, <2>1, <3>1 DEF LabelledAt, InPlaceAt, Goes,
       Calls, Finds, HasSame, Has, Leasing, Installing, Excluding
  <2>7. CompleteAt(p)'
    BY <1>0, <1>a, <1>b, <1>c, <1>10, <2>1 DEF IInv, FilesOK, LabelledAt,
       CompleteAt, Ready, Goes, Calls, Finds, HasSame, Has, WarmHit
  <2> QED BY <2>2, <2>3, <2>4, <2>5, <2>6, <2>7 DEF ProcessOK
<1>11. ASSUME WarmMiss(p) PROVE ProcessOK(p)'
  <2>1. /\ ulPc[p] = "warm" /\ HasSame(p)
        /\ Calls(p, "lockfile") /\ kind \in {"venv", "toolchain"}
    BY <1>11, <1>a DEF IInv, LocalsOK, LabelledAt, Calls, HasSame, Has, WarmMiss,
       Goto, CallLease
  <2>2. LabelledAt(p)'
    BY <1>0, <1>a, <1>b, <1>c, <2>1 DEF LabelledAt, Calls, HasSame, Has, Leasing,
       Installing, Excluding, MaxTries
  <2>3. OpenedAt(p)'
    BY <1>0, <1>a, <1>b, <1>c, <2>1 DEF LabelledAt, OpenedAt, Calls, HasSame, Has,
       Leasing, Installing, Excluding
  <2>4. LockedAt(p)'
    BY <1>0, <1>a, <1>b, <1>c, <1>11, <2>1 DEF IInv, LocksOK, LabelledAt,
       OpenedAt, LockedAt, Calls, HasSame, Has, Leasing, Installing, Excluding,
       WarmMiss
  <2>5. RootAt(p)'
    <3>1. rsh' = rsh /\ rex' = rex
      BY <1>11 DEF WarmMiss
    <3> QED BY <1>0, <1>a, <1>b, <2>1, <3>1 DEF LabelledAt, RootAt, Calls,
       HasSame, Has
  <2>6. InPlaceAt(p)'
    <3>1. dir' = dir
      BY <1>11 DEF WarmMiss
    <3> QED BY <1>0, <1>a, <1>b, <1>c, <2>1, <3>1 DEF LabelledAt, InPlaceAt,
       Calls, HasSame, Has, Leasing, Installing, Excluding
  <2>7. CompleteAt(p)'
    BY <1>0, <1>a, <1>b, <1>c, <2>1 DEF LabelledAt, CompleteAt, Calls, HasSame,
       Has, Leasing, Installing, Excluding
  <2> QED BY <2>2, <2>3, <2>4, <2>5, <2>6, <2>7 DEF ProcessOK
<1>12. ASSUME OpenInstallLock(p) PROVE ProcessOK(p)'
  <2>1. /\ ulPc[p] = "lockfile" /\ Has(p, held[p], fd[p], dir)
        /\ Goes(p, "failed") \/ (dir # NoDir /\ Goes(p, "poll"))
    BY <1>12, <1>a DEF IInv, LocalsOK, LabelledAt, Goes, Has, OpenInstallLock,
       Goto
  <2>2. LabelledAt(p)'
    BY <1>0, <1>a, <1>b, <1>c, <2>1 DEF LabelledAt, Goes, Has, Leasing,
       Installing, Excluding
  <2>3. OpenedAt(p)'
    BY <1>0, <1>a, <1>b, <1>c, <2>1 DEF LabelledAt, OpenedAt, Goes, Has, Leasing,
       Installing, Excluding
  <2>4. LockedAt(p)'
    BY <1>0, <1>a, <1>b, <1>c, <1>12, <2>1 DEF IInv, LocksOK, LabelledAt,
       OpenedAt, LockedAt, Goes, Has, Leasing, Installing, Excluding,
       OpenInstallLock
  <2>5. RootAt(p)'
    <3>1. rsh' = rsh /\ rex' = rex
      BY <1>12 DEF OpenInstallLock
    <3> QED BY <1>0, <1>a, <1>b, <2>1, <3>1 DEF LabelledAt, RootAt, Goes, Has
  <2>6. InPlaceAt(p)'
    <3>1. dir' = dir
      BY <1>12 DEF OpenInstallLock
    <3> QED BY <1>0, <1>a, <1>b, <1>c, <2>1, <3>1 DEF LabelledAt, InPlaceAt, Goes,
       Has, Leasing, Installing, Excluding
  <2>7. CompleteAt(p)'
    BY <1>0, <1>a, <1>b, <1>c, <2>1 DEF LabelledAt, CompleteAt, Goes, Has,
       Leasing, Installing, Excluding
  <2> QED BY <2>2, <2>3, <2>4, <2>5, <2>6, <2>7 DEF ProcessOK
<1>13. ASSUME PollInstallLock(p) PROVE ProcessOK(p)'
  <2>1. /\ ulPc[p] = "poll" /\ sh' = sh
        /\ \/ Goes(p, "recheck") /\ HasSame(p) /\ inst' = [inst EXCEPT ![ifd[p]] = {p}]
           \/ Goes(p, "failed") /\ Has(p, held[p], fd[p], NoDir)
    BY <1>13, <1>a DEF IInv, LocalsOK, LabelledAt, Goes, HasSame, Has,
       PollInstallLock, Goto
  <2>2. LabelledAt(p)'
    BY <1>0, <1>a, <1>b, <1>c, <2>1 DEF LabelledAt, Goes, HasSame, Has, Leasing,
       Installing, Excluding
  <2>3. OpenedAt(p)'
    BY <1>0, <1>a, <1>b, <1>c, <2>1 DEF LabelledAt, OpenedAt, Goes, HasSame, Has,
       Leasing, Installing, Excluding
  <2>4. LockedAt(p)'
    <3>1. CASE Goes(p, "recheck") /\ HasSame(p) /\ inst' = [inst EXCEPT ![ifd[p]] = {p}]
      BY <3>1, <1>a, <1>b, <1>c, <2>1
      DEF IInv, LocksOK, OpenedAt, LockedAt, Goes, Has, HasSame, Leasing, Installing, Excluding
    <3>2. CASE Goes(p, "failed") /\ Has(p, held[p], fd[p], NoDir)
      BY <3>2, <1>a, <1>b, <1>c, <2>1
      DEF IInv, LocksOK, OpenedAt, LockedAt, Goes, Calls, Finds, Leaves, Has, HasSame, Leasing, Installing, Excluding
    <3> QED BY <3>1, <3>2, <2>1
  <2>5. RootAt(p)'
    <3>1. rsh' = rsh /\ rex' = rex
      BY <1>13 DEF PollInstallLock
    <3> QED BY <1>0, <1>a, <1>b, <2>1, <3>1 DEF LabelledAt, RootAt, Goes, HasSame,
       Has
  <2>6. InPlaceAt(p)'
    <3>1. dir' = dir
      BY <1>13 DEF PollInstallLock
    <3> QED BY <1>0, <1>a, <1>b, <1>c, <2>1, <3>1 DEF LabelledAt, InPlaceAt, Goes,
       HasSame, Has, Leasing, Installing, Excluding
  <2>7. CompleteAt(p)'
    BY <1>0, <1>a, <1>b, <1>c, <2>1 DEF LabelledAt, CompleteAt, Goes, HasSame,
       Has, Leasing, Installing, Excluding
  <2> QED BY <2>2, <2>3, <2>4, <2>5, <2>6, <2>7 DEF ProcessOK
<1>14. ASSUME Recheck(p) PROVE ProcessOK(p)'
  <2>1. /\ ulPc[p] = "recheck" /\ sh' = sh
        /\ \/ Ready /\ Finds(p) /\ Has(p, held[p], fd[p], NoDir)
           \/ ~Ready /\ Goes(p, "install") /\ HasSame(p) /\ inst' = inst
    BY <1>14, <1>a DEF IInv, LocalsOK, LabelledAt, Goes, Calls, Finds, HasSame,
       Has, Recheck, Found, Goto, CallLease, ReleaseInstallLock, CloseInstall
  <2>2. LabelledAt(p)'
    <3>1. ASSUME Finds(p) PROVE LabelledAt(p)'
      <4>1. CASE kind = "toolchain"
        BY <4>1, <1>a, <1>c, <2>1, <3>1, Called DEF LabelledAt, Finds, Has, HasSame, Installing
      <4>2. CASE kind # "toolchain"
        BY <4>2, <1>a, <1>c, <2>1, <3>1
        DEF LabelledAt, Finds, Goes, Has, HasSame, Leasing, Installing, Excluding
      <4> QED BY <4>1, <4>2
    <3>2. ASSUME ~Finds(p) PROVE LabelledAt(p)'
      BY <3>2, <1>0, <1>a, <1>b, <1>c, <2>1
      DEF LabelledAt, Goes, Has, HasSame, Leasing, Installing, Excluding
    <3> QED BY <3>1, <3>2
  <2>3. OpenedAt(p)'
    BY <1>0, <1>a, <1>b, <1>c, <2>1 DEF LabelledAt, OpenedAt, Goes, Calls, Finds,
       HasSame, Has, Leasing, Installing, Excluding
  <2>4. LockedAt(p)'
    <3>1. CASE Goes(p, "install") /\ HasSame(p) /\ inst' = inst
      BY <3>1, <1>a, <1>b, <1>c, <2>1
      DEF IInv, LocksOK, OpenedAt, LockedAt, Goes, Has, HasSame, Leasing, Installing, Excluding
    <3>2. CASE Finds(p) /\ Has(p, held[p], fd[p], NoDir)
      BY <3>2, <1>a, <1>b, <1>c, <2>1
      DEF IInv, LocksOK, OpenedAt, LockedAt, Goes, Calls, Finds, Leaves, Has, HasSame, Leasing, Installing, Excluding
    <3> QED BY <3>1, <3>2, <2>1
  <2>5. RootAt(p)'
    <3>1. rsh' = rsh /\ rex' = rex
      BY <1>14 DEF Recheck
    <3> QED BY <1>0, <1>a, <1>b, <2>1, <3>1 DEF LabelledAt, RootAt, Goes, Calls,
       Finds, HasSame, Has
  <2>6. InPlaceAt(p)'
    <3>1. dir' = dir
      BY <1>14 DEF Recheck
    <3> QED BY <1>0, <1>a, <1>b, <1>c, <2>1, <3>1 DEF LabelledAt, InPlaceAt, Goes,
       Calls, Finds, HasSame, Has, Leasing, Installing, Excluding
  <2>7. CompleteAt(p)'
    BY <1>0, <1>a, <1>b, <1>c, <1>14, <2>1 DEF IInv, FilesOK, LabelledAt,
       CompleteAt, Ready, Goes, Calls, Finds, HasSame, Has, Recheck
  <2> QED BY <2>2, <2>3, <2>4, <2>5, <2>6, <2>7 DEF ProcessOK
<1>15. ASSUME Install(p) PROVE ProcessOK(p)'
  <2>1. /\ ulPc[p] = "install"
        /\ Goes(p, "finish") /\ HasSame(p)
    BY <1>15, <1>a DEF IInv, LocalsOK, LabelledAt, Goes, HasSame, Has, Install,
       Goto, Mkdir
  <2>2. LabelledAt(p)'
    BY <1>0, <1>a, <1>b, <1>c, <2>1 DEF LabelledAt, Goes, HasSame, Has, Leasing,
       Installing, Excluding
  <2>3. OpenedAt(p)'
    BY <1>0, <1>a, <1>b, <1>c, <2>1 DEF LabelledAt, OpenedAt, Goes, HasSame, Has,
       Leasing, Installing, Excluding
  <2>4. LockedAt(p)'
    BY <1>0, <1>a, <1>b, <1>c, <1>15, <2>1 DEF IInv, LocksOK, LabelledAt,
       OpenedAt, LockedAt, Goes, HasSame, Has, Leasing, Installing, Excluding,
       Install
  <2>5. RootAt(p)'
    <3>1. rsh' = rsh /\ rex' = rex
      BY <1>15 DEF Install
    <3> QED BY <1>0, <1>a, <1>b, <2>1, <3>1 DEF LabelledAt, RootAt, Goes, HasSame,
       Has
  <2>6. InPlaceAt(p)'
    BY <1>0, <1>a, <1>b, <1>c, <1>15, <2>1 DEF LabelledAt, OpenedAt, InPlaceAt,
       Goes, HasSame, Has, Leasing, Installing, Excluding, Install, Mkdir
  <2>7. CompleteAt(p)'
    BY <1>0, <1>a, <1>b, <1>c, <1>15, <2>1 DEF IInv, FilesOK, LabelledAt,
       CompleteAt, Ready, Goes, HasSame, Has, Install, Mkdir
  <2> QED BY <2>2, <2>3, <2>4, <2>5, <2>6, <2>7 DEF ProcessOK
<1>16. ASSUME FinishInstall(p) PROVE ProcessOK(p)'
  <2>1. /\ ulPc[p] = "finish"
        /\ Finds(p) /\ Has(p, held[p], fd[p], NoDir)
    BY <1>16, <1>a DEF IInv, LocalsOK, LabelledAt, Goes, Calls, Finds, Has,
       FinishInstall, Found, Goto, CallLease, ReleaseInstallLock, CloseInstall
  <2>2. LabelledAt(p)'
    <3>1. ASSUME Finds(p) PROVE LabelledAt(p)'
      <4>1. CASE kind = "toolchain"
        BY <4>1, <1>a, <1>c, <2>1, <3>1, Called DEF LabelledAt, Finds, Has, HasSame, Installing
      <4>2. CASE kind # "toolchain"
        BY <4>2, <1>a, <1>c, <2>1, <3>1
        DEF LabelledAt, Finds, Goes, Has, HasSame, Leasing, Installing, Excluding
      <4> QED BY <4>1, <4>2
    <3>2. ASSUME ~Finds(p) PROVE LabelledAt(p)'
      BY <3>2, <1>0, <1>a, <1>b, <1>c, <2>1
      DEF LabelledAt, Goes, Has, HasSame, Leasing, Installing, Excluding
    <3> QED BY <3>1, <3>2
  <2>3. OpenedAt(p)'
    BY <1>0, <1>a, <1>b, <1>c, <2>1 DEF LabelledAt, OpenedAt, Goes, Calls, Finds,
       Has, Leasing, Installing, Excluding
  <2>4. LockedAt(p)'
    BY <1>0, <1>a, <1>b, <1>c, <1>16, <2>1 DEF IInv, LocksOK, LabelledAt,
       OpenedAt, LockedAt, Goes, Calls, Finds, Has, Leasing, Installing,
       Excluding, FinishInstall, ReleaseInstallLock, CloseInstall
  <2>5. RootAt(p)'
    <3>1. rsh' = rsh /\ rex' = rex
      BY <1>16 DEF FinishInstall
    <3> QED BY <1>0, <1>a, <1>b, <2>1, <3>1 DEF LabelledAt, RootAt, Goes, Calls,
       Finds, Has
  <2>6. InPlaceAt(p)'
    <3>1. dir' = dir
      BY <1>16 DEF FinishInstall
    <3> QED BY <1>0, <1>a, <1>b, <1>c, <2>1, <3>1 DEF LabelledAt, InPlaceAt, Goes,
       Calls, Finds, Has, Leasing, Installing, Excluding
  <2>7. CompleteAt(p)'
    BY <1>0, <1>a, <1>b, <1>c, <1>16, <2>1 DEF IInv, FilesOK, LabelledAt,
       CompleteAt, Ready, Goes, Calls, Finds, Has, FinishInstall
  <2> QED BY <2>2, <2>3, <2>4, <2>5, <2>6, <2>7 DEF ProcessOK
<1>17. ASSUME FailInstall(p) PROVE ProcessOK(p)'
  <2>1. /\ ulPc[p] = "finish"
        /\ Goes(p, "failed") /\ Has(p, held[p], fd[p], NoDir)
    BY <1>17, <1>a DEF IInv, LocalsOK, LabelledAt, Goes, Has, FailInstall, Goto,
       ReleaseInstallLock, CloseInstall
  <2>2. LabelledAt(p)'
    BY <1>0, <1>a, <1>b, <1>c, <2>1 DEF LabelledAt, Goes, Has, Leasing,
       Installing, Excluding
  <2>3. OpenedAt(p)'
    BY <1>0, <1>a, <1>b, <1>c, <2>1 DEF LabelledAt, OpenedAt, Goes, Has, Leasing,
       Installing, Excluding
  <2>4. LockedAt(p)'
    BY <1>0, <1>a, <1>b, <1>c, <1>17, <2>1 DEF IInv, LocksOK, LabelledAt,
       OpenedAt, LockedAt, Goes, Has, Leasing, Installing, Excluding, FailInstall,
       ReleaseInstallLock, CloseInstall
  <2>5. RootAt(p)'
    <3>1. rsh' = rsh /\ rex' = rex
      BY <1>17 DEF FailInstall
    <3> QED BY <1>0, <1>a, <1>b, <2>1, <3>1 DEF LabelledAt, RootAt, Goes, Has
  <2>6. InPlaceAt(p)'
    <3>1. dir' = dir
      BY <1>17 DEF FailInstall
    <3> QED BY <1>0, <1>a, <1>b, <1>c, <2>1, <3>1 DEF LabelledAt, InPlaceAt, Goes,
       Has, Leasing, Installing, Excluding
  <2>7. CompleteAt(p)'
    BY <1>0, <1>a, <1>b, <1>c, <2>1 DEF LabelledAt, CompleteAt, Goes, Has,
       Leasing, Installing, Excluding
  <2> QED BY <2>2, <2>3, <2>4, <2>5, <2>6, <2>7 DEF ProcessOK
<1>18. ASSUME DropForExclusive(p) PROVE ProcessOK(p)'
  <2>1. /\ Goes(p, "xopen") /\ Has(p, NoDir, fd[p], ifd[p])
        /\ (kind = "scanner" /\ ulPc[p] = "warm") \/ (kind = "buildkit" /\ ulPc[p] = "using")
    BY <1>18, <1>a DEF IInv, LocalsOK, LabelledAt, Goes, Has, DropForExclusive,
       Goto, CloseLease
  <2>2. LabelledAt(p)'
    BY <1>0, <1>a, <1>b, <1>c, <2>1 DEF LabelledAt, Goes, Has, Leasing,
       Installing, Excluding
  <2>3. OpenedAt(p)'
    BY <1>0, <1>a, <1>b, <1>c, <2>1 DEF LabelledAt, OpenedAt, Goes, Has, Leasing,
       Installing, Excluding
  <2>4. LockedAt(p)'
    BY <1>0, <1>a, <1>b, <1>c, <1>18, <2>1 DEF IInv, LocksOK, LabelledAt,
       OpenedAt, LockedAt, Goes, Has, Leasing, Installing, Excluding,
       DropForExclusive, CloseLease
  <2>5. RootAt(p)'
    <3>1. rsh' = rsh /\ rex' = rex
      BY <1>18 DEF DropForExclusive
    <3> QED BY <1>0, <1>a, <1>b, <2>1, <3>1 DEF LabelledAt, RootAt, Goes, Has
  <2>6. InPlaceAt(p)'
    <3>1. dir' = dir
      BY <1>18 DEF DropForExclusive
    <3> QED BY <1>0, <1>a, <1>b, <1>c, <2>1, <3>1 DEF LabelledAt, InPlaceAt, Goes,
       Has, Leasing, Installing, Excluding
  <2>7. CompleteAt(p)'
    BY <1>0, <1>a, <1>b, <1>c, <2>1 DEF LabelledAt, CompleteAt, Goes, Has,
       Leasing, Installing, Excluding
  <2> QED BY <2>2, <2>3, <2>4, <2>5, <2>6, <2>7 DEF ProcessOK
<1>19. ASSUME Discover(p) PROVE ProcessOK(p)'
  <2>1. /\ ulPc[p] = "discover"
        /\ held'[p] = held[p] /\ fd'[p] = fd[p] /\ ifd'[p] = ifd[p] /\ unrec'[p] = (dir \notin recorded)
        /\ Goes(p, "release") \/ (Goes(p, "xopen") /\ (dir \in recorded \/ rex = {p}))
    BY <1>19, <1>a DEF IInv, LocalsOK, LabelledAt, Goes, Discover, Goto
  <2>2. LabelledAt(p)'
    BY <1>0, <1>a, <1>b, <1>c, <2>1 DEF LabelledAt, Goes, Leasing, Installing,
       Excluding
  <2>3. OpenedAt(p)'
    BY <1>0, <1>a, <1>b, <1>c, <2>1 DEF LabelledAt, OpenedAt, Goes, Leasing,
       Installing, Excluding
  <2>4. LockedAt(p)'
    BY <1>0, <1>a, <1>b, <1>c, <1>19, <2>1 DEF IInv, LocksOK, LabelledAt,
       OpenedAt, LockedAt, Goes, Leasing, Installing, Excluding, Discover
  <2>5. RootAt(p)'
    <3>1. rsh' = rsh /\ rex' = rex
      BY <1>19 DEF Discover
    <3> QED BY <1>0, <1>a, <1>b, <2>1, <3>1 DEF LabelledAt, RootAt, Goes
  <2>6. InPlaceAt(p)'
    <3>1. dir' = dir
      BY <1>19 DEF Discover
    <3> QED BY <1>0, <1>a, <1>b, <1>c, <2>1, <3>1 DEF LabelledAt, InPlaceAt, Goes,
       Leasing, Installing, Excluding
  <2>7. CompleteAt(p)'
    BY <1>0, <1>a, <1>b, <1>c, <2>1 DEF LabelledAt, CompleteAt, Goes, Leasing,
       Installing, Excluding
  <2> QED BY <2>2, <2>3, <2>4, <2>5, <2>6, <2>7 DEF ProcessOK
<1>20. ASSUME OpenExclusive(p) PROVE ProcessOK(p)'
  <2>1. /\ ulPc[p] = "xopen"
        /\ \/ Leaves(p) /\ HasSame(p)
           \/ dir # NoDir /\ Goes(p, "xlock") /\ Has(p, held[p], dir, ifd[p])
    BY <1>20, <1>a DEF IInv, LocalsOK, LabelledAt, Goes, Calls, Leaves, HasSame,
       Has, OpenExclusive, Goto, CallLease, AfterExclusive
  <2>2. LabelledAt(p)'
    <3>1. ASSUME Leaves(p) PROVE LabelledAt(p)'
      <4>1. CASE p \in Evictors
        BY <4>1, <1>0, <1>a, <1>c, <2>1, <3>1
        DEF LabelledAt, Leaves, Goes, Has, HasSame, Leasing, Installing, Excluding
      <4>2. CASE p \notin Evictors
        <5>1. p \in Runs /\ kind \in {"scanner", "buildkit"}
          BY <4>2, <1>0, <1>a, <2>1 DEF LabelledAt, Excluding
        <5> QED
          BY <4>2, <5>1, <1>a, <1>c, <2>1, <3>1, Called DEF Leaves, Has, HasSame
      <4> QED BY <4>1, <4>2
    <3>2. ASSUME ~Leaves(p) PROVE LabelledAt(p)'
      BY <3>2, <1>0, <1>a, <1>b, <1>c, <2>1
      DEF LabelledAt, Goes, Has, HasSame, Leasing, Installing, Excluding
    <3> QED BY <3>1, <3>2
  <2>3. OpenedAt(p)'
    BY <1>0, <1>a, <1>b, <1>c, <2>1 DEF LabelledAt, OpenedAt, Goes, Calls, Leaves,
       HasSame, Has, Leasing, Installing, Excluding
  <2>4. LockedAt(p)'
    BY <1>0, <1>a, <1>b, <1>c, <1>20, <2>1 DEF IInv, LocksOK, LabelledAt,
       OpenedAt, LockedAt, Goes, Calls, Leaves, HasSame, Has, Leasing, Installing,
       Excluding, OpenExclusive
  <2>5. RootAt(p)'
    <3>1. rsh' = rsh /\ rex' = rex
      BY <1>20 DEF OpenExclusive
    <3> QED BY <1>0, <1>a, <1>b, <2>1, <3>1 DEF LabelledAt, RootAt, Goes, Calls,
       Leaves, HasSame, Has
  <2>6. InPlaceAt(p)'
    <3>1. dir' = dir
      BY <1>20 DEF OpenExclusive
    <3> QED BY <1>0, <1>a, <1>b, <1>c, <2>1, <3>1 DEF LabelledAt, InPlaceAt, Goes,
       Calls, Leaves, HasSame, Has, Leasing, Installing, Excluding
  <2>7. CompleteAt(p)'
    BY <1>0, <1>a, <1>b, <1>c, <2>1 DEF LabelledAt, CompleteAt, Goes, Calls,
       Leaves, HasSame, Has, Leasing, Installing, Excluding
  <2> QED BY <2>2, <2>3, <2>4, <2>5, <2>6, <2>7 DEF ProcessOK
<1>21. ASSUME LockExclusive(p) PROVE ProcessOK(p)'
  <2>1. /\ ulPc[p] = "xlock"
        /\ \/ /\ HasSame(p) /\ ex' = [ex EXCEPT ![fd[p]] = {p}]
              /\ \/ Goes(p, "promote") /\ kind = "buildkit" /\ p \in Runs
                 \/ Goes(p, "install lock") /\ ~(kind = "buildkit" /\ p \in Runs)
           \/ Leaves(p) /\ Has(p, held[p], NoDir, ifd[p])
    BY <1>21, <1>a DEF IInv, LocalsOK, LabelledAt, Goes, Calls, Leaves, HasSame,
       Has, LockExclusive, Goto, CallLease, AfterExclusive
  <2>2. LabelledAt(p)'
    <3>1. ASSUME Leaves(p) PROVE LabelledAt(p)'
      <4>1. CASE p \in Evictors
        BY <4>1, <1>0, <1>a, <1>c, <2>1, <3>1
        DEF LabelledAt, Leaves, Goes, Has, HasSame, Leasing, Installing, Excluding
      <4>2. CASE p \notin Evictors
        <5>1. p \in Runs /\ kind \in {"scanner", "buildkit"}
          BY <4>2, <1>0, <1>a, <2>1 DEF LabelledAt, Excluding
        <5> QED
          BY <4>2, <5>1, <1>a, <1>c, <2>1, <3>1, Called DEF Leaves, Has, HasSame
      <4> QED BY <4>1, <4>2
    <3>2. ASSUME ~Leaves(p) PROVE LabelledAt(p)'
      BY <3>2, <1>0, <1>a, <1>b, <1>c, <2>1
      DEF LabelledAt, Goes, Has, HasSame, Leasing, Installing, Excluding
    <3> QED BY <3>1, <3>2
  <2>3. OpenedAt(p)'
    BY <1>0, <1>a, <1>b, <1>c, <2>1 DEF LabelledAt, OpenedAt, Goes, Calls, Leaves,
       HasSame, Has, Leasing, Installing, Excluding
  <2>4. LockedAt(p)'
    <3>1. CASE HasSame(p) /\ ex' = [ex EXCEPT ![fd[p]] = {p}] /\ (Goes(p, "promote") \/ Goes(p, "install lock"))
      BY <3>1, <1>a, <1>b, <1>c, <2>1
      DEF IInv, LocksOK, OpenedAt, LockedAt, Goes, Has, HasSame, Leasing, Installing, Excluding
    <3>2. CASE Leaves(p) /\ Has(p, held[p], NoDir, ifd[p])
      BY <3>2, <1>a, <1>b, <1>c, <2>1
      DEF IInv, LocksOK, OpenedAt, LockedAt, Goes, Calls, Finds, Leaves, Has, HasSame, Leasing, Installing, Excluding
    <3> QED BY <3>1, <3>2, <2>1
  <2>5. RootAt(p)'
    <3>1. rsh' = rsh /\ rex' = rex
      BY <1>21 DEF LockExclusive
    <3> QED BY <1>0, <1>a, <1>b, <2>1, <3>1 DEF LabelledAt, RootAt, Goes, Calls,
       Leaves, HasSame, Has
  <2>6. InPlaceAt(p)'
    <3>1. dir' = dir
      BY <1>21 DEF LockExclusive
    <3> QED BY <1>0, <1>a, <1>b, <1>c, <2>1, <3>1 DEF LabelledAt, InPlaceAt, Goes,
       Calls, Leaves, HasSame, Has, Leasing, Installing, Excluding
  <2>7. CompleteAt(p)'
    BY <1>0, <1>a, <1>b, <1>c, <2>1 DEF LabelledAt, CompleteAt, Goes, Calls,
       Leaves, HasSame, Has, Leasing, Installing, Excluding
  <2> QED BY <2>2, <2>3, <2>4, <2>5, <2>6, <2>7 DEF ProcessOK
<1>22. ASSUME LockInstallToo(p) PROVE ProcessOK(p)'
  <2>1. /\ ulPc[p] = "install lock"
        /\ \/ Goes(p, "rename") /\ Has(p, held[p], fd[p], dir) /\ ex' = ex
           \/ Leaves(p) /\ Has(p, held[p], NoDir, ifd[p])
    BY <1>22, <1>a DEF IInv, LocalsOK, LabelledAt, Goes, Calls, Leaves, Has,
       LockInstallToo, Goto, CallLease, CloseLease, AfterExclusive
  <2>2. LabelledAt(p)'
    <3>1. ASSUME Leaves(p) PROVE LabelledAt(p)'
      <4>1. CASE p \in Evictors
        BY <4>1, <1>0, <1>a, <1>c, <2>1, <3>1
        DEF LabelledAt, Leaves, Goes, Has, HasSame, Leasing, Installing, Excluding
      <4>2. CASE p \notin Evictors
        <5>1. p \in Runs /\ kind \in {"scanner", "buildkit"}
          BY <4>2, <1>0, <1>a, <2>1 DEF LabelledAt, Excluding
        <5> QED
          BY <4>2, <5>1, <1>a, <1>c, <2>1, <3>1, Called DEF Leaves, Has, HasSame
      <4> QED BY <4>1, <4>2
    <3>2. ASSUME ~Leaves(p) PROVE LabelledAt(p)'
      BY <3>2, <1>0, <1>a, <1>b, <1>c, <2>1
      DEF LabelledAt, Goes, Has, HasSame, Leasing, Installing, Excluding
    <3> QED BY <3>1, <3>2
  <2>3. OpenedAt(p)'
    BY <1>0, <1>a, <1>b, <1>c, <2>1 DEF LabelledAt, OpenedAt, Goes, Calls, Leaves,
       Has, Leasing, Installing, Excluding
  <2>4. LockedAt(p)'
    <3>1. CASE Goes(p, "rename") /\ Has(p, held[p], fd[p], dir) /\ ex' = ex
      BY <3>1, <1>a, <1>b, <1>c, <2>1
      DEF IInv, LocksOK, OpenedAt, LockedAt, Goes, Has, HasSame, Leasing, Installing, Excluding
    <3>2. CASE Leaves(p) /\ Has(p, held[p], NoDir, ifd[p])
      BY <3>2, <1>a, <1>b, <1>c, <2>1
      DEF IInv, LocksOK, OpenedAt, LockedAt, Goes, Calls, Finds, Leaves, Has, HasSame, Leasing, Installing, Excluding
    <3> QED BY <3>1, <3>2, <2>1
  <2>5. RootAt(p)'
    <3>1. rsh' = rsh /\ rex' = rex
      BY <1>22 DEF LockInstallToo
    <3> QED BY <1>0, <1>a, <1>b, <2>1, <3>1 DEF LabelledAt, RootAt, Goes, Calls,
       Leaves, Has
  <2>6. InPlaceAt(p)'
    <3>1. dir' = dir
      BY <1>22 DEF LockInstallToo
    <3> QED BY <1>0, <1>a, <1>b, <1>c, <2>1, <3>1 DEF LabelledAt, InPlaceAt, Goes,
       Calls, Leaves, Has, Leasing, Installing, Excluding
  <2>7. CompleteAt(p)'
    BY <1>0, <1>a, <1>b, <1>c, <2>1 DEF LabelledAt, CompleteAt, Goes, Calls,
       Leaves, Has, Leasing, Installing, Excluding
  <2> QED BY <2>2, <2>3, <2>4, <2>5, <2>6, <2>7 DEF ProcessOK
<1>23. ASSUME Rename(p) PROVE ProcessOK(p)'
  <2>1. /\ ulPc[p] = "rename"
        /\ Goes(p, "sweep") /\ HasSame(p)
    BY <1>23, <1>a DEF IInv, LocalsOK, LabelledAt, Goes, HasSame, Has, Rename,
       Goto
  <2>2. LabelledAt(p)'
    BY <1>0, <1>a, <1>b, <1>c, <2>1 DEF LabelledAt, Goes, HasSame, Has, Leasing,
       Installing, Excluding
  <2>3. OpenedAt(p)'
    BY <1>0, <1>a, <1>b, <1>c, <2>1 DEF LabelledAt, OpenedAt, Goes, HasSame, Has,
       Leasing, Installing, Excluding
  <2>4. LockedAt(p)'
    BY <1>0, <1>a, <1>b, <1>c, <1>23, <2>1 DEF IInv, LocksOK, LabelledAt,
       OpenedAt, LockedAt, Goes, HasSame, Has, Leasing, Installing, Excluding,
       Rename
  <2>5. RootAt(p)'
    <3>1. rsh' = rsh /\ rex' = rex
      BY <1>23 DEF Rename
    <3> QED BY <1>0, <1>a, <1>b, <2>1, <3>1 DEF LabelledAt, RootAt, Goes, HasSame,
       Has
  <2>6. InPlaceAt(p)'
    BY <1>0, <1>a, <1>b, <1>c, <1>23, <2>1 DEF LabelledAt, OpenedAt, InPlaceAt,
       Goes, HasSame, Has, Leasing, Installing, Excluding, Rename
  <2>7. CompleteAt(p)'
    BY <1>0, <1>a, <1>b, <1>c, <2>1 DEF LabelledAt, CompleteAt, Goes, HasSame,
       Has, Leasing, Installing, Excluding
  <2> QED BY <2>2, <2>3, <2>4, <2>5, <2>6, <2>7 DEF ProcessOK
<1>24. ASSUME Sweep(p) PROVE ProcessOK(p)'
  <2>1. /\ ulPc[p] = "sweep"
        /\ Leaves(p) /\ Has(p, held[p], NoDir, NoDir)
    BY <1>24, <1>a DEF IInv, LocalsOK, LabelledAt, Goes, Calls, Leaves, Has,
       Sweep, Goto, CallLease, CloseLease, CloseInstall, AfterExclusive
  <2>2. LabelledAt(p)'
    <3>1. ASSUME Leaves(p) PROVE LabelledAt(p)'
      <4>1. CASE p \in Evictors
        BY <4>1, <1>0, <1>a, <1>c, <2>1, <3>1
        DEF LabelledAt, Leaves, Goes, Has, HasSame, Leasing, Installing, Excluding
      <4>2. CASE p \notin Evictors
        <5>1. p \in Runs /\ kind \in {"scanner", "buildkit"}
          BY <4>2, <1>0, <1>a, <2>1 DEF LabelledAt, Excluding
        <5> QED
          BY <4>2, <5>1, <1>a, <1>c, <2>1, <3>1, Called DEF Leaves, Has, HasSame
      <4> QED BY <4>1, <4>2
    <3>2. ASSUME ~Leaves(p) PROVE LabelledAt(p)'
      BY <3>2, <1>0, <1>a, <1>b, <1>c, <2>1
      DEF LabelledAt, Goes, Has, HasSame, Leasing, Installing, Excluding
    <3> QED BY <3>1, <3>2
  <2>3. OpenedAt(p)'
    BY <1>0, <1>a, <1>b, <1>c, <2>1 DEF LabelledAt, OpenedAt, Goes, Calls, Leaves,
       Has, Leasing, Installing, Excluding
  <2>4. LockedAt(p)'
    BY <1>0, <1>a, <1>b, <1>c, <1>24, <2>1 DEF IInv, LocksOK, LabelledAt,
       OpenedAt, LockedAt, Goes, Calls, Leaves, Has, Leasing, Installing,
       Excluding, Sweep, CloseLease, CloseInstall
  <2>5. RootAt(p)'
    <3>1. rsh' = rsh /\ rex' = rex
      BY <1>24 DEF Sweep
    <3> QED BY <1>0, <1>a, <1>b, <2>1, <3>1 DEF LabelledAt, RootAt, Goes, Calls,
       Leaves, Has
  <2>6. InPlaceAt(p)'
    <3>1. dir' = dir
      BY <1>24 DEF Sweep
    <3> QED BY <1>0, <1>a, <1>b, <1>c, <2>1, <3>1 DEF LabelledAt, InPlaceAt, Goes,
       Calls, Leaves, Has, Leasing, Installing, Excluding
  <2>7. CompleteAt(p)'
    BY <1>0, <1>a, <1>b, <1>c, <2>1 DEF LabelledAt, CompleteAt, Goes, Calls,
       Leaves, Has, Leasing, Installing, Excluding
  <2> QED BY <2>2, <2>3, <2>4, <2>5, <2>6, <2>7 DEF ProcessOK
<1>25. ASSUME Promote(p) PROVE ProcessOK(p)'
  <2>1. /\ ulPc[p] = "promote"
        /\ Leaves(p) /\ Has(p, held[p], NoDir, ifd[p])
    BY <1>25, <1>a DEF IInv, LocalsOK, LabelledAt, Goes, Calls, Leaves, Has,
       Promote, Goto, CallLease, CloseLease, AfterExclusive
  <2>2. LabelledAt(p)'
    <3>1. ASSUME Leaves(p) PROVE LabelledAt(p)'
      <4>1. CASE p \in Evictors
        BY <4>1, <1>0, <1>a, <1>c, <2>1, <3>1
        DEF LabelledAt, Leaves, Goes, Has, HasSame, Leasing, Installing, Excluding
      <4>2. CASE p \notin Evictors
        <5>1. p \in Runs /\ kind \in {"scanner", "buildkit"}
          BY <4>2, <1>0, <1>a, <2>1 DEF LabelledAt, Excluding
        <5> QED
          BY <4>2, <5>1, <1>a, <1>c, <2>1, <3>1, Called DEF Leaves, Has, HasSame
      <4> QED BY <4>1, <4>2
    <3>2. ASSUME ~Leaves(p) PROVE LabelledAt(p)'
      BY <3>2, <1>0, <1>a, <1>b, <1>c, <2>1
      DEF LabelledAt, Goes, Has, HasSame, Leasing, Installing, Excluding
    <3> QED BY <3>1, <3>2
  <2>3. OpenedAt(p)'
    BY <1>0, <1>a, <1>b, <1>c, <2>1 DEF LabelledAt, OpenedAt, Goes, Calls, Leaves,
       Has, Leasing, Installing, Excluding
  <2>4. LockedAt(p)'
    BY <1>0, <1>a, <1>b, <1>c, <1>25, <2>1 DEF IInv, LocksOK, LabelledAt,
       OpenedAt, LockedAt, Goes, Calls, Leaves, Has, Leasing, Installing,
       Excluding, Promote, CloseLease
  <2>5. RootAt(p)'
    <3>1. rsh' = rsh /\ rex' = rex
      BY <1>25 DEF Promote
    <3> QED BY <1>0, <1>a, <1>b, <2>1, <3>1 DEF LabelledAt, RootAt, Goes, Calls,
       Leaves, Has
  <2>6. InPlaceAt(p)'
    <3>1. dir' = dir
      BY <1>25 DEF Promote
    <3> QED BY <1>0, <1>a, <1>b, <1>c, <2>1, <3>1 DEF LabelledAt, InPlaceAt, Goes,
       Calls, Leaves, Has, Leasing, Installing, Excluding
  <2>7. CompleteAt(p)'
    BY <1>0, <1>a, <1>b, <1>c, <2>1 DEF LabelledAt, CompleteAt, Goes, Calls,
       Leaves, Has, Leasing, Installing, Excluding
  <2> QED BY <2>2, <2>3, <2>4, <2>5, <2>6, <2>7 DEF ProcessOK
<1>26. ASSUME Exit(p) PROVE ProcessOK(p)'
  <2>1. /\ ulPc[p] # "idle" /\ ulPc'[p] = "gone" /\ then'[p] = "idle" /\ tries'[p] = 0
        /\ held'[p] = NoDir /\ fd'[p] = NoDir /\ ifd'[p] = NoDir /\ ~unrec'[p]
    BY <1>26, <1>a DEF IInv, LocalsOK, LabelledAt, Exit, EndProcess, Goto,
       CloseInstall
  <2>2. LabelledAt(p)'
    BY <1>0, <1>a, <1>b, <1>c, <2>1 DEF LabelledAt, Leasing, Installing,
       Excluding, MaxTries
  <2>3. OpenedAt(p)'
    BY <1>0, <1>a, <1>b, <1>c, <2>1 DEF LabelledAt, OpenedAt, Leasing, Installing,
       Excluding
  <2>4. LockedAt(p)'
    BY <1>0, <1>a, <1>b, <1>c, <1>26, <2>1 DEF IInv, LocksOK, LabelledAt,
       OpenedAt, LockedAt, Leasing, Installing, Excluding, Exit, EndProcess,
       CloseInstall
  <2>5. RootAt(p)'
    BY <1>0, <1>a, <1>26, <2>1 DEF IInv, RootExclusive, LabelledAt, RootAt, Exit,
       EndProcess
  <2>6. InPlaceAt(p)'
    <3>1. dir' = dir
      BY <1>26 DEF Exit, EndProcess
    <3> QED BY <1>0, <1>a, <1>b, <1>c, <2>1, <3>1 DEF LabelledAt, InPlaceAt,
       Leasing, Installing, Excluding
  <2>7. CompleteAt(p)'
    BY <1>0, <1>a, <1>b, <1>c, <2>1 DEF LabelledAt, CompleteAt, Leasing,
       Installing, Excluding
  <2> QED BY <2>2, <2>3, <2>4, <2>5, <2>6, <2>7 DEF ProcessOK
<1>27. ASSUME Crash(p) PROVE ProcessOK(p)'
  <2>1. /\ ulPc[p] # "idle" /\ ulPc'[p] = "gone" /\ then'[p] = "idle" /\ tries'[p] = 0
        /\ held'[p] = NoDir /\ fd'[p] = NoDir /\ ifd'[p] = NoDir /\ ~unrec'[p]
    BY <1>27, <1>a DEF IInv, LocalsOK, LabelledAt, Crash, EndProcess, Goto,
       CloseInstall
  <2>2. LabelledAt(p)'
    BY <1>0, <1>a, <1>b, <1>c, <2>1 DEF LabelledAt, Leasing, Installing,
       Excluding, MaxTries
  <2>3. OpenedAt(p)'
    BY <1>0, <1>a, <1>b, <1>c, <2>1 DEF LabelledAt, OpenedAt, Leasing, Installing,
       Excluding
  <2>4. LockedAt(p)'
    BY <1>0, <1>a, <1>b, <1>c, <1>27, <2>1 DEF IInv, LocksOK, LabelledAt,
       OpenedAt, LockedAt, Leasing, Installing, Excluding, Crash, EndProcess,
       CloseInstall
  <2>5. RootAt(p)'
    BY <1>0, <1>a, <1>27, <2>1 DEF IInv, RootExclusive, LabelledAt, RootAt, Crash,
       EndProcess
  <2>6. InPlaceAt(p)'
    <3>1. dir' = dir
      BY <1>27 DEF Crash, EndProcess
    <3> QED BY <1>0, <1>a, <1>b, <1>c, <2>1, <3>1 DEF LabelledAt, InPlaceAt,
       Leasing, Installing, Excluding
  <2>7. CompleteAt(p)'
    BY <1>0, <1>a, <1>b, <1>c, <2>1 DEF LabelledAt, CompleteAt, Leasing,
       Installing, Excluding
  <2> QED BY <2>2, <2>3, <2>4, <2>5, <2>6, <2>7 DEF ProcessOK
<1> QED BY <1>1, <1>2, <1>3, <1>4, <1>5, <1>6, <1>7, <1>8, <1>9, <1>10, <1>11,
   <1>12, <1>13, <1>14, <1>15, <1>16, <1>17, <1>18, <1>19, <1>20, <1>21, <1>22,
   <1>23, <1>24, <1>25, <1>26, <1>27 DEF Step

(* Locks are given only to one where only one may have them.                *)
LEMMA StepExclusive ==
  ASSUME IInv, NEW p \in Procs, Start(p) \/ Step(p) \/ Crash(p)
  PROVE  Exclusive'
<1> USE DEF IInv, unit, flocks, root, files, counts
<1>0. NoDir \notin Dirs /\ (p \in Runs \/ p \in Evictors) /\ ~(p \in Runs /\ p \in Evictors)
  BY UnitLeaseAssumption DEF Procs
<1>1. ASSUME Start(p) PROVE Exclusive'
  BY <1>0, <1>1 DEF Start, Goto, LocksOK, Exclusive
<1>2. ASSUME HoldCacheRoot(p) PROVE Exclusive'
  BY <1>0, <1>2 DEF HoldCacheRoot, Goto, CallLease, LocksOK, Exclusive
<1>3. ASSUME ExclusiveCacheRoot(p) PROVE Exclusive'
  BY <1>0, <1>3 DEF ExclusiveCacheRoot, Goto, LocksOK, Exclusive
<1>4. ASSUME Retake(p) PROVE Exclusive'
  BY <1>0, <1>4 DEF Retake, Goto, LocksOK, Exclusive
<1>5. ASSUME ReleaseRoot(p) PROVE Exclusive'
  BY <1>0, <1>5 DEF ReleaseRoot, Goto, LocksOK, Exclusive
<1>6. ASSUME LeaseHeld(p) PROVE Exclusive'
  BY <1>0, <1>6 DEF LeaseHeld, Goto, Mkdir, CloseLease, LocksOK, Exclusive
<1>7. ASSUME OpenLease(p) PROVE Exclusive'
  BY <1>0, <1>7 DEF OpenLease, Goto, LeaseFailed, LocksOK, Exclusive
<1>8. ASSUME FlockShared(p) PROVE Exclusive'
  BY <1>0, <1>8 DEF FlockShared, Goto, LocksOK, Exclusive
<1>9. ASSUME VerifyLease(p) PROVE Exclusive'
  BY <1>0, <1>9 DEF VerifyLease, Goto, CloseLease, LeaseFailed, LocksOK, Exclusive
<1>10. ASSUME WarmHit(p) PROVE Exclusive'
  BY <1>0, <1>10 DEF WarmHit, Found, Goto, CallLease, LocksOK, Exclusive
<1>11. ASSUME WarmMiss(p) PROVE Exclusive'
  BY <1>0, <1>11 DEF WarmMiss, Goto, CallLease, LocksOK, Exclusive
<1>12. ASSUME OpenInstallLock(p) PROVE Exclusive'
  BY <1>0, <1>12 DEF OpenInstallLock, Goto, LocksOK, Exclusive
<1>13. ASSUME PollInstallLock(p) PROVE Exclusive'
  BY <1>0, <1>13 DEF PollInstallLock, Goto, LocksOK, Exclusive
<1>14. ASSUME Recheck(p) PROVE Exclusive'
  BY <1>0, <1>14 DEF Recheck, Found, Goto, CallLease, ReleaseInstallLock,
     CloseInstall, LocksOK, Exclusive
<1>15. ASSUME Install(p) PROVE Exclusive'
  BY <1>0, <1>15 DEF Install, Goto, Mkdir, LocksOK, Exclusive
<1>16. ASSUME FinishInstall(p) PROVE Exclusive'
  BY <1>0, <1>16 DEF FinishInstall, Found, Goto, CallLease, ReleaseInstallLock,
     CloseInstall, LocksOK, Exclusive
<1>17. ASSUME FailInstall(p) PROVE Exclusive'
  BY <1>0, <1>17 DEF FailInstall, Goto, ReleaseInstallLock, CloseInstall, LocksOK,
     Exclusive
<1>18. ASSUME DropForExclusive(p) PROVE Exclusive'
  BY <1>0, <1>18 DEF DropForExclusive, Goto, CloseLease, LocksOK, Exclusive
<1>19. ASSUME Discover(p) PROVE Exclusive'
  BY <1>0, <1>19 DEF Discover, Goto, LocksOK, Exclusive
<1>20. ASSUME OpenExclusive(p) PROVE Exclusive'
  BY <1>0, <1>20 DEF OpenExclusive, Goto, CallLease, AfterExclusive, LocksOK,
     Exclusive
<1>21. ASSUME LockExclusive(p) PROVE Exclusive'
  <2>1. CASE sh[fd[p]] = {} /\ ex[fd[p]] = {}
    <3>1. sh[fd[p]] = {} /\ ex[fd[p]] = {} /\ ex' = [ex EXCEPT ![fd[p]] = {p}] /\ sh' = sh /\ inst' = inst /\ rsh' = rsh /\ rex' = rex
      BY <2>1, <1>21 DEF LockExclusive
    <3> QED BY <3>1 DEF LocksOK, Exclusive
  <2>2. CASE ~(sh[fd[p]] = {} /\ ex[fd[p]] = {})
    <3>1. ex' = ex /\ sh' = sh /\ inst' = inst /\ rsh' = rsh /\ rex' = rex
      BY <2>2, <1>21 DEF LockExclusive
    <3> QED BY <3>1 DEF LocksOK, Exclusive
  <2> QED BY <2>1, <2>2
<1>22. ASSUME LockInstallToo(p) PROVE Exclusive'
  <2>1. CASE dir = NoDir \/ inst[dir] = {}
    <3>1. /\ dir = NoDir \/ inst[dir] = {}
          /\ ex' = ex /\ sh' = sh /\ rsh' = rsh /\ rex' = rex
          /\ inst' = inst \/ (inst[dir] = {} /\ inst' = [inst EXCEPT ![dir] = {p}])
      BY <2>1, <1>22 DEF LockInstallToo
    <3> QED BY <3>1 DEF LocksOK, Exclusive
  <2>2. CASE ~(dir = NoDir \/ inst[dir] = {})
    <3>1. CloseLease(p, fd[p]) /\ inst' = inst /\ rsh' = rsh /\ rex' = rex
      BY <2>2, <1>22 DEF LockInstallToo
    <3> QED BY <3>1 DEF LocksOK, Exclusive, CloseLease
  <2> QED BY <2>1, <2>2
<1>23. ASSUME Rename(p) PROVE Exclusive'
  BY <1>0, <1>23 DEF Rename, Goto, LocksOK, Exclusive
<1>24. ASSUME Sweep(p) PROVE Exclusive'
  BY <1>0, <1>24 DEF Sweep, Goto, CallLease, CloseLease, CloseInstall,
     AfterExclusive, LocksOK, Exclusive
<1>25. ASSUME Promote(p) PROVE Exclusive'
  BY <1>0, <1>25 DEF Promote, Goto, CallLease, CloseLease, AfterExclusive,
     LocksOK, Exclusive
<1>26. ASSUME Exit(p) PROVE Exclusive'
  BY <1>0, <1>26 DEF Exit, EndProcess, Goto, CloseInstall, LocksOK, Exclusive
<1>27. ASSUME Crash(p) PROVE Exclusive'
  BY <1>0, <1>27 DEF Crash, EndProcess, Goto, CloseInstall, LocksOK, Exclusive
<1> QED BY <1>1, <1>2, <1>3, <1>4, <1>5, <1>6, <1>7, <1>8, <1>9, <1>10, <1>11,
   <1>12, <1>13, <1>14, <1>15, <1>16, <1>17, <1>18, <1>19, <1>20, <1>21, <1>22,
   <1>23, <1>24, <1>25, <1>26, <1>27 DEF Step

(* A process takes the whole cache root only when no other is past            *)
(* HoldCacheRoot.                                                          *)
LEMMA StepRoot ==
  ASSUME IInv, NEW p \in Procs, Start(p) \/ Step(p) \/ Crash(p)
  PROVE  RootExclusive' /\ \A q \in Procs \ {p} : RootAt(q)'
<1> USE DEF root
<1>1. OthersKeep(p) /\ OthersKeepLocks(p)
  BY OthersStay, OthersLocks
<1>2. RootExclusive /\ (\A q \in Procs : RootAt(q)) /\ rsh \subseteq Procs /\ rex \subseteq Procs
  BY DEF IInv, ProcessOK, LocksOK
<1>3. CASE rsh' = rsh /\ rex' = rex
  BY <1>1, <1>2, <1>3 DEF RootExclusive, RootAt, OthersKeep
<1>4. CASE HoldCacheRoot(p) \/ Retake(p)
  BY <1>1, <1>2, <1>4 DEF RootExclusive, RootAt, OthersKeep, HoldCacheRoot, Retake
<1>5. CASE ExclusiveCacheRoot(p)
  BY <1>1, <1>2, <1>5 DEF RootExclusive, RootAt, OthersKeep, ExclusiveCacheRoot
<1>6. CASE ReleaseRoot(p)
  BY <1>1, <1>2, <1>6 DEF RootExclusive, RootAt, OthersKeep, ReleaseRoot
<1>7. CASE EndProcess(p)
  BY <1>1, <1>2, <1>7 DEF RootExclusive, RootAt, OthersKeep, EndProcess
<1> QED
  BY <1>3, <1>4, <1>5, <1>6, <1>7
  DEF Step, Start, LeaseHeld, OpenLease, FlockShared, VerifyLease, WarmHit, WarmMiss,
      OpenInstallLock, PollInstallLock, Recheck, Install, FinishInstall, FailInstall,
      DropForExclusive, Discover, OpenExclusive, LockExclusive, LockInstallToo, Rename,
      Sweep, Promote, Exit, Crash

(* Who renames the unit has it alone: nobody holds a lease on it, and nobody  *)
(* is installing.                                                          *)
LEMMA RenamesAlone ==
  ASSUME IInv, NEW p \in Procs, Rename(p)
  PROVE  /\ p \in Renamers
         /\ ~astray' => \A q \in Procs : held[q] = NoDir
<1>1. ulPc[p] = "rename"
  BY DEF Rename
<1>2. LabelledAt(p) /\ OpenedAt(p) /\ LockedAt(p) /\ InPlaceAt(p)
  BY DEF IInv, ProcessOK
<1>3. p \in Renamers
  BY <1>1, <1>2 DEF LabelledAt, Renamers, Excluding, Procs
<1>4. ASSUME ~astray' PROVE ~astray /\ fd[p] = dir /\ dir # NoDir /\ p \in ex[dir] /\ dir \in Dirs
  BY <1>1, <1>2, <1>4 DEF Rename, OpenedAt, LockedAt, Excluding, IInv, FilesOK
<1>5. ASSUME ~astray', NEW q \in Procs, held[q] # NoDir PROVE FALSE
  <2>1. dir = held[q] /\ q \in sh[held[q]]
    BY <1>4, <1>5 DEF IInv, ProcessOK, InPlaceAt, LockedAt
  <2> QED BY <2>1, <1>4, <1>5 DEF IInv, Exclusive
<1> QED BY <1>3, <1>5

(* No step takes the unit's directory from under the others.                *)
LEMMA StepInPlace ==
  ASSUME IInv, NEW p \in Procs, Start(p) \/ Step(p) \/ Crash(p), NEW q \in Procs \ {p}
  PROVE  InPlaceAt(q)'
<1> USE DEF unit
<1>1. OthersKeep(p)
  BY OthersStay
<1>2. Renamers' = Renamers /\ OneRenamer' = OneRenamer
  BY <1>1 DEF OthersKeep, Renamers, OneRenamer
<1>3. InPlaceAt(q) /\ OpenedAt(q)
  BY DEF IInv, ProcessOK
<1>4. CASE dir' = dir
  BY <1>1, <1>2, <1>3, <1>4 DEF InPlaceAt, OthersKeep
<1>5. CASE \E d \in Dirs : Mkdir(d)
  BY <1>1, <1>2, <1>3, <1>5
  DEF Mkdir, InPlaceAt, OpenedAt, OthersKeep, Installing, Excluding
<1>6. CASE Rename(p)
  <2>1. p \in Renamers /\ (~astray' => held[q] = NoDir) /\ cast \in Casts
    BY <1>6, RenamesAlone DEF IInv, FilesOK
  <2>2. OneRenamer => q \notin Renamers
    BY <2>1, SoleRenamer
  <2> QED BY <1>1, <1>2, <1>3, <2>1, <2>2 DEF InPlaceAt, OpenedAt, OthersKeep
<1> QED
  BY <1>4, <1>5, <1>6
  DEF Step, Start, HoldCacheRoot, ExclusiveCacheRoot, Retake, ReleaseRoot, LeaseHeld,
      OpenLease, FlockShared, VerifyLease, WarmHit, WarmMiss, OpenInstallLock,
      PollInstallLock, Recheck, Install, FinishInstall, FailInstall, DropForExclusive,
      Discover, OpenExclusive, LockExclusive, LockInstallToo, Sweep, Promote, Exit,
      Crash, EndProcess

(* Two processes that install are one.                                      *)
LEMMA InstallsAlone ==
  ASSUME IInv, ~astray, NEW p \in Procs, NEW q \in Procs,
         ulPc[p] \in Installing, ulPc[q] \in Installing
  PROVE  p = q
<1>1. /\ OpenedAt(p) /\ LockedAt(p) /\ InPlaceAt(p)
      /\ OpenedAt(q) /\ LockedAt(q) /\ InPlaceAt(q)
  BY DEF IInv, ProcessOK
<1>2. ifd[p] = dir /\ ifd[q] = dir /\ dir # NoDir /\ p \in inst[dir] /\ q \in inst[dir]
  BY <1>1 DEF OpenedAt, LockedAt, InPlaceAt
<1> QED BY <1>2 DEF IInv, Exclusive, FilesOK

(* No step spoils an environment that others use, or installs one that others *)
(* are installing.                                                         *)
LEMMA StepComplete ==
  ASSUME IInv, NEW p \in Procs, Start(p) \/ Step(p) \/ Crash(p), NEW q \in Procs \ {p}
  PROVE  CompleteAt(q)'
<1> USE DEF unit
<1>1. OthersKeep(p)
  BY OthersStay
<1>2. kind' = kind /\ ulPc'[q] = ulPc[q] /\ (astray => astray')
  BY <1>1 DEF OthersKeep
<1>3. OpenedAt(q) /\ InPlaceAt(q) /\ CompleteAt(q) /\ LabelledAt(p) /\ CompleteAt(p)
  BY DEF IInv, ProcessOK
<1> SUFFICES ASSUME kind = "venv", ~astray', ~astray, ulPc[q] \in {"using", "install", "finish"}
             PROVE  CompleteAt(q)'
  BY <1>2 DEF CompleteAt
<1>4. held[q] # NoDir /\ dir = held[q]
  BY <1>3 DEF OpenedAt, InPlaceAt, Installing
<1>5. CASE dir' = dir /\ content' = content
  BY <1>2, <1>3, <1>5 DEF CompleteAt, Ready
<1>6. CASE LeaseHeld(p)
  BY <1>2, <1>3, <1>4, <1>6 DEF LeaseHeld, Mkdir, CompleteAt, Ready
<1>7. CASE Rename(p)
  BY <1>4, <1>7, RenamesAlone
<1>8. CASE Promote(p)
  BY <1>3, <1>8, UnitLeaseAssumption DEF Promote, LabelledAt, Excluding
<1>9. CASE Recheck(p)
  <2>1. q \notin Runs \/ ulPc[q] = "using"
    BY <1>9, InstallsAlone DEF Recheck, Installing
  <2> QED BY <1>2, <1>3, <1>9, <2>1, InstallsAlone DEF Recheck, CompleteAt, Ready, Installing
<1>10. CASE Install(p)
  <2>1. ulPc[q] = "using"
    BY <1>10, InstallsAlone DEF Install, Installing
  <2> QED BY <1>3, <1>10, <2>1 DEF Install, CompleteAt, Ready
<1>11. CASE FinishInstall(p) \/ FailInstall(p)
  <2>1. ulPc[q] = "using"
    BY <1>11, InstallsAlone DEF FinishInstall, FailInstall, Installing
  <2> QED BY <1>3, <1>11, <2>1 DEF FinishInstall, FailInstall, CompleteAt, Ready
<1> QED
  BY <1>5, <1>6, <1>7, <1>8, <1>9, <1>10, <1>11
  DEF Step, Start, HoldCacheRoot, ExclusiveCacheRoot, Retake, ReleaseRoot, OpenLease,
      FlockShared, VerifyLease, WarmHit, WarmMiss, OpenInstallLock, PollInstallLock,
      DropForExclusive, Discover, OpenExclusive, LockExclusive, LockInstallToo, Sweep,
      Exit, Crash, EndProcess

-----------------------------------------------------------------------------
(* The only evictor renames what it locked.                                 *)
LEMMA StepAstray ==
  ASSUME IInv, NEW p \in Procs, Start(p) \/ Step(p) \/ Crash(p)
  PROVE  (OneRenamer => ~astray)'
<1> USE DEF counts
<1>1. OneRenamer' = OneRenamer /\ (OneRenamer => ~astray)
  BY OthersStay DEF OthersKeep, Renamers, OneRenamer, IInv
<1>2. CASE astray' = astray
  BY <1>1, <1>2
<1>3. CASE Rename(p)
  <2>1. p \in Renamers /\ InPlaceAt(p) /\ ulPc[p] = "rename"
    BY <1>3, RenamesAlone DEF IInv, ProcessOK, Rename
  <2> QED BY <1>1, <1>3, <2>1 DEF InPlaceAt, Rename
<1> QED
  BY <1>2, <1>3
  DEF Step, Start, HoldCacheRoot, ExclusiveCacheRoot, Retake, ReleaseRoot, LeaseHeld,
      OpenLease, FlockShared, VerifyLease, WarmHit, WarmMiss, OpenInstallLock,
      PollInstallLock, Recheck, Install, FinishInstall, FailInstall, DropForExclusive,
      Discover, OpenExclusive, LockExclusive, LockInstallToo, Sweep, Promote, Exit, Crash

(* Every step of every process keeps the invariant.                         *)
LEMMA StepInv ==
  ASSUME IInv, NEW p \in Procs, Start(p) \/ Step(p) \/ Crash(p)
  PROVE  IInv'
<1>1. FilesOK' /\ LocksOK' /\ LocalsOK'
  BY FilesType, LocksType, LocalsType
<1>2. Exclusive' /\ RootExclusive'
  BY StepExclusive, StepRoot
<1>3. ProcessOK(p)'
  BY StepOwn
<1>4. ASSUME NEW q \in Procs \ {p} PROVE ProcessOK(q)'
  <2>1. OthersKeep(p) /\ OthersKeepLocks(p)
    BY OthersStay, OthersLocks
  <2>2. LabelledAt(q) /\ OpenedAt(q) /\ LockedAt(q)
    BY DEF IInv, ProcessOK
  <2>3. LabelledAt(q)'
    BY <2>1, <2>2 DEF OthersKeep, LabelledAt
  <2>4. OpenedAt(q)'
    BY <2>1, <2>2 DEF OthersKeep, OpenedAt
  <2>5. LockedAt(q)'
    <3>1. held[q] \in Dirs \cup {NoDir} /\ fd[q] \in Dirs \cup {NoDir} /\ ifd[q] \in Dirs \cup {NoDir}
      BY DEF IInv, LocalsOK
    <3> QED BY <2>1, <2>2, <3>1 DEF OthersKeep, OthersKeepLocks, LockedAt, OpenedAt, Installing, Excluding
  <2>6. RootAt(q)' /\ InPlaceAt(q)' /\ CompleteAt(q)'
    BY StepRoot, StepInPlace, StepComplete
  <2> QED BY <2>3, <2>4, <2>5, <2>6 DEF ProcessOK
<1> QED
  BY <1>1, <1>2, <1>3, <1>4, StepAstray DEF IInv

(* The invariant holds in every reachable state.                            *)
THEOREM Invariance == UlSpec => []IInv
<1>1. ASSUME IInv, [UlNext]_ulVars PROVE IInv'
  <2>1. CASE UlNext
    BY <1>1, <2>1, StepInv DEF UlNext
  <2>2. CASE UNCHANGED ulVars
    <3>1. FilesOK' /\ LocksOK' /\ LocalsOK'
      BY <1>1, <2>2 DEF IInv, ulVars, unit, flocks, root, counts, locals, FilesOK, LocksOK, LocalsOK
    <3>2. Exclusive' /\ RootExclusive'
      BY <1>1, <2>2 DEF IInv, ulVars, flocks, root, Exclusive, RootExclusive
    <3>3. ASSUME NEW q \in Procs PROVE ProcessOK(q)'
      BY <1>1, <2>2
      DEF IInv, ulVars, unit, flocks, root, counts, locals, ProcessOK, LabelledAt, OpenedAt, LockedAt,
          RootAt, InPlaceAt, CompleteAt, OneRenamer, Renamers, Ready
    <3>4. (OneRenamer => ~astray)'
      BY <1>1, <2>2 DEF IInv, ulVars, counts, OneRenamer, Renamers
    <3> QED BY <3>1, <3>2, <3>3, <3>4 DEF IInv
  <2> QED BY <1>1, <2>1, <2>2
<1> QED
  BY <1>1, InitInv, PTL DEF UlSpec

(* What the invariant says of the properties.                               *)
LEMMA IInvLeaseSafe == IInv => LeaseSafe
<1> SUFFICES ASSUME IInv PROVE LeaseSafe
  OBVIOUS
<1>1. UlTypeOK
  BY DEF IInv, UlTypeOK, FilesOK, LocksOK, LocalsOK
<1>2. InUseStays
  BY DEF IInv, ProcessOK, InUseStays, InPlaceAt
<1>7. OneNeverAstray
  BY DEF IInv, OneNeverAstray, OneRenamer
<1>3. ExclusiveMeansAlone
  <2> SUFFICES ASSUME NEW p \in Procs, ulPc[p] \in {"rename", "promote"}, fd[p] = dir,
                      NEW q \in Procs \ {p}, dir = held[q]
               PROVE  FALSE
    BY DEF ExclusiveMeansAlone
  <2>1. OpenedAt(p) /\ LockedAt(p) /\ LockedAt(q)
    BY DEF IInv, ProcessOK
  <2>2. dir # NoDir /\ p \in ex[dir] /\ q \in sh[dir] /\ dir \in Dirs
    BY <2>1 DEF OpenedAt, LockedAt, Excluding, IInv, FilesOK
  <2> QED BY <2>2 DEF IInv, Exclusive
<1>4. UsesComplete
  BY DEF IInv, ProcessOK, UsesComplete, CompleteAt, Procs
<1>5. InstallAlone
  BY InstallsAlone DEF InstallAlone, Installing, Procs
<1>6. UnrecordedOnlyAlone
  <2> SUFFICES ASSUME NEW p \in Procs, ulPc[p] \in {"xopen", "xlock", "install lock", "rename"},
                      unrec[p]
               PROVE  /\ p \notin Unlocked
                      /\ \A q \in Procs \ ({p} \cup Unlocked) :
                           ulPc[q] \in {"idle", "root", "retake", "gone"}
    BY DEF UnrecordedOnlyAlone
  <2>1. RootAt(p) /\ rex = {p} /\ p \notin Unlocked
    BY DEF IInv, ProcessOK, RootAt
  <2>2. ASSUME NEW q \in Procs \ ({p} \cup Unlocked),
               ulPc[q] \notin {"idle", "root", "retake", "gone"}
        PROVE  FALSE
    <3>1. q \in rsh \cup rex
      BY <2>2 DEF IInv, ProcessOK, RootAt
    <3> QED BY <2>1, <2>2, <3>1 DEF IInv, RootExclusive
  <2> QED BY <2>1, <2>2
<1> QED
  BY <1>1, <1>2, <1>3, <1>4, <1>5, <1>6, <1>7 DEF LeaseSafe

(* What the leases are for (paths/unit.go, cachelock.go), for any number of  *)
(* runs and evictors: whoever holds exclusively the unit it locked is alone, *)
(* and an unrecorded unit is taken by who is alone on the root.  A unit in   *)
(* use stays, complete, and is installed by one, until an eviction renames a *)
(* directory it had not locked; with one evictor none does.                  *)
THEOREM LeasesHold == UlSpec => []LeaseSafe
BY Invariance, IInvLeaseSafe, PTL

-----------------------------------------------------------------------------
(* WorktreeGuard *)

(* Who is where: the mutex names the one that restores, hooks run only      *)
(* while the commit waits for them or is dead.                              *)
Control ==
  /\ hook => wgPc \in HookSteps \cup {"dead"}
  /\ mu = "main" <=> wgPc = "restore"
  /\ mu = "handler" <=> hpc = "restore"
  /\ wgPc = "capture" =>
       /\ wgTree \in [WgPaths -> {"edit", "index", "gone"}]
       /\ want = [p \in WgPaths |-> "index"]
       /\ ~artifact /\ ~finalized /\ hpc = "none" /\ conflicts = {} /\ failures = {}
  /\ stash = [p \in WgPaths |-> None] \/ \A p \in WgPaths : stash[p] # None

(* The artifact stays until a restore is over, and is left behind only for  *)
(* a path that the restore could not bring back.                            *)
ArtifactStays ==
  /\ ~finalized /\ ~artifact => Snapshot = {}
  /\ finalized /\ artifact => conflicts \cup failures # {}
  /\ wgPc = "done" /\ artifact => finalized

(* After the one restore that counts, only someone who sets late can write. *)
RestoredOnce ==
  /\ finalized /\ Snapshot # {} => hpc \in {"raise", "over"} \/ wgPc = "done"
  /\ finalized /\ mu # None => todo = {} /\ writing = None
  /\ Alive /\ mu = None => writing = None

(* While it runs, each path of the snapshot is still to be looked at, being *)
(* written, given up, or the operator's again; and the one being written    *)
(* holds nobody's work.                                                     *)
RestoreCovers ==
  /\ todo \subseteq Snapshot /\ writing \in Snapshot \cup {None}
  /\ ~late /\ mu # None /\ ~finalized =>
       \A p \in Snapshot : p \in todo \cup conflicts \cup failures \/ p = writing
                             \/ wgTree[p] = want[p]
  /\ ~late /\ mu # None /\ writing # None => wgTree[writing] # "other"
  /\ finalized /\ ~artifact /\ ~late => \A p \in Snapshot : wgTree[p] = want[p]

GuardIInv == WgTypeOK /\ Control /\ ArtifactStays /\ RestoredOnce /\ RestoreCovers

-----------------------------------------------------------------------------
(* Before the capture there is nothing to keep.                             *)
LEMMA GuardInitInv == WgInit => GuardIInv
<1> SUFFICES ASSUME WgInit PROVE GuardIInv
  OBVIOUS
<1>1. Snapshot = {}
  BY DEF WgInit, Snapshot
<1>2. WgTypeOK
  BY DEF WgInit, WgTypeOK, HookSteps, None
<1>3. Control /\ ArtifactStays /\ RestoredOnce
  BY <1>1 DEF WgInit, Control, ArtifactStays, RestoredOnce, HookSteps, None
<1>4. RestoreCovers
  BY <1>1 DEF WgInit, RestoreCovers, None
<1> QED BY <1>2, <1>3, <1>4 DEF GuardIInv

(* Every step of the commit, the handler and the hooks keeps the invariant. *)
LEMMA GuardStepInv == GuardIInv /\ [WgNext]_wgVars => GuardIInv'
<1> SUFFICES ASSUME GuardIInv, [WgNext]_wgVars PROVE GuardIInv'
  OBVIOUS
<1>0. None \notin WgPaths
  BY WorktreeGuardAssumption
<1> USE DEF GuardIInv, guard, restoring
<1>1. CASE Capture
  <2> USE <1>1 DEF Capture
  <2>1. WgTypeOK'
    BY <1>0 DEF WgTypeOK, Control, Snapshot, HookSteps, None
  <2>2. Control'
    BY DEF WgTypeOK, Control, HookSteps, None
  <2>3. ArtifactStays'
    BY DEF WgTypeOK, Control, ArtifactStays, RestoredOnce, HookSteps, Snapshot, None
  <2>4. RestoredOnce'
    BY <1>0 DEF WgTypeOK, Control, ArtifactStays, RestoredOnce, RestoreCovers, HookSteps, Snapshot,
              Alive, None
  <2>5. RestoreCovers'
    BY <1>0 DEF WgTypeOK, Control, ArtifactStays, RestoredOnce, RestoreCovers, HookSteps, Snapshot,
              Alive, None
  <2> QED BY <2>1, <2>2, <2>3, <2>4, <2>5
<1>2. CASE CaptureFails
  <2> USE <1>2 DEF CaptureFails
  <2>1. WgTypeOK'
    BY <1>0 DEF WgTypeOK, Control, Snapshot, HookSteps, None
  <2>2. Control'
    BY DEF WgTypeOK, Control, HookSteps, None
  <2>3. ArtifactStays'
    BY DEF WgTypeOK, Control, ArtifactStays, RestoredOnce, HookSteps, Snapshot, None
  <2>4. RestoredOnce'
    BY <1>0 DEF WgTypeOK, Control, ArtifactStays, RestoredOnce, RestoreCovers, HookSteps, Snapshot,
              Alive, None
  <2>5. RestoreCovers'
    BY <1>0 DEF WgTypeOK, Control, ArtifactStays, RestoredOnce, RestoreCovers, HookSteps, Snapshot,
              Alive, None
  <2> QED BY <2>1, <2>2, <2>3, <2>4, <2>5
<1>3. CASE HookDone
  <2> USE <1>3 DEF HookDone
  <2>1. WgTypeOK'
    BY <1>0 DEF WgTypeOK, Control, Snapshot, HookSteps, None
  <2>2. Control'
    BY DEF WgTypeOK, Control, HookSteps, None
  <2>3. ArtifactStays'
    BY DEF WgTypeOK, Control, ArtifactStays, RestoredOnce, HookSteps, Snapshot, None
  <2>4. RestoredOnce'
    BY <1>0 DEF WgTypeOK, Control, ArtifactStays, RestoredOnce, RestoreCovers, HookSteps, Snapshot,
              Alive, None
  <2>5. RestoreCovers'
    BY <1>0 DEF WgTypeOK, Control, ArtifactStays, RestoredOnce, RestoreCovers, HookSteps, Snapshot,
              Alive, None
  <2> QED BY <2>1, <2>2, <2>3, <2>4, <2>5
<1>4. CASE Commit
  <2> USE <1>4 DEF Commit
  <2>1. WgTypeOK'
    BY <1>0 DEF WgTypeOK, Control, Snapshot, HookSteps, None
  <2>2. Control'
    BY DEF WgTypeOK, Control, HookSteps, None
  <2>3. ArtifactStays'
    BY DEF WgTypeOK, Control, ArtifactStays, RestoredOnce, HookSteps, Snapshot, None
  <2>4. RestoredOnce'
    BY <1>0 DEF WgTypeOK, Control, ArtifactStays, RestoredOnce, RestoreCovers, HookSteps, Snapshot,
              Alive, None
  <2>5. RestoreCovers'
    BY <1>0 DEF WgTypeOK, Control, ArtifactStays, RestoredOnce, RestoreCovers, HookSteps, Snapshot,
              Alive, None
  <2> QED BY <2>1, <2>2, <2>3, <2>4, <2>5
<1>5. CASE Push
  <2> USE <1>5 DEF Push
  <2>1. WgTypeOK'
    BY <1>0 DEF WgTypeOK, Control, Snapshot, HookSteps, None
  <2>2. Control'
    BY DEF WgTypeOK, Control, HookSteps, None
  <2>3. ArtifactStays'
    BY DEF WgTypeOK, Control, ArtifactStays, RestoredOnce, HookSteps, Snapshot, None
  <2>4. RestoredOnce'
    BY <1>0 DEF WgTypeOK, Control, ArtifactStays, RestoredOnce, RestoreCovers, HookSteps, Snapshot,
              Alive, None
  <2>5. RestoreCovers'
    BY <1>0 DEF WgTypeOK, Control, ArtifactStays, RestoredOnce, RestoreCovers, HookSteps, Snapshot,
              Alive, None
  <2> QED BY <2>1, <2>2, <2>3, <2>4, <2>5
<1>6. CASE WgCheckout
  <2> USE <1>6 DEF WgCheckout, MarkLate
  <2>1. WgTypeOK'
    BY <1>0 DEF WgTypeOK, Control, Snapshot, HookSteps, None
  <2>2. Control'
    BY DEF WgTypeOK, Control, HookSteps, None
  <2>3. ArtifactStays'
    BY DEF WgTypeOK, Control, ArtifactStays, RestoredOnce, HookSteps, Snapshot, None
  <2>4. RestoredOnce'
    BY <1>0 DEF WgTypeOK, Control, ArtifactStays, RestoredOnce, RestoreCovers, HookSteps, Snapshot,
              Alive, None
  <2>5. RestoreCovers'
    BY <1>0 DEF WgTypeOK, Control, ArtifactStays, RestoredOnce, RestoreCovers, HookSteps, Snapshot,
              Alive, None
  <2> QED BY <2>1, <2>2, <2>3, <2>4, <2>5
<1>7. CASE Close
  <2> USE <1>7 DEF Close, Lock
  <2>1. WgTypeOK'
    BY <1>0 DEF WgTypeOK, Control, Snapshot, HookSteps, None
  <2>2. Control'
    BY DEF WgTypeOK, Control, HookSteps, None
  <2>3. ArtifactStays'
    BY DEF WgTypeOK, Control, ArtifactStays, RestoredOnce, HookSteps, Snapshot, None
  <2>4. RestoredOnce'
    BY <1>0 DEF WgTypeOK, Control, ArtifactStays, RestoredOnce, RestoreCovers, HookSteps, Snapshot,
              Alive, None
  <2>5. RestoreCovers'
    BY <1>0 DEF WgTypeOK, Control, ArtifactStays, RestoredOnce, RestoreCovers, HookSteps, Snapshot,
              Alive, None
  <2> QED BY <2>1, <2>2, <2>3, <2>4, <2>5
<1>8. ASSUME NEW p \in WgPaths, Classify(p) PROVE GuardIInv'
  <2> USE <1>8 DEF Classify
  <2>1. WgTypeOK'
    BY <1>0 DEF WgTypeOK, Control, Snapshot, HookSteps, None
  <2>2. Control'
    BY DEF WgTypeOK, Control, HookSteps, None
  <2>3. ArtifactStays'
    BY DEF WgTypeOK, Control, ArtifactStays, RestoredOnce, HookSteps, Snapshot, None
  <2>4. RestoredOnce'
    BY <1>0 DEF WgTypeOK, Control, ArtifactStays, RestoredOnce, RestoreCovers, HookSteps, Snapshot,
              Alive, None
  <2>5. RestoreCovers'
    BY <1>0 DEF WgTypeOK, Control, ArtifactStays, RestoredOnce, RestoreCovers, HookSteps, Snapshot,
              Alive, None
  <2> QED BY <2>1, <2>2, <2>3, <2>4, <2>5
<1>9. CASE WriteBegin
  <2> USE <1>9 DEF WriteBegin
  <2>1. WgTypeOK'
    BY <1>0 DEF WgTypeOK, Control, Snapshot, HookSteps, None
  <2>2. Control'
    BY DEF WgTypeOK, Control, HookSteps, None
  <2>3. ArtifactStays'
    BY DEF WgTypeOK, Control, ArtifactStays, RestoredOnce, HookSteps, Snapshot, None
  <2>4. RestoredOnce'
    BY <1>0 DEF WgTypeOK, Control, ArtifactStays, RestoredOnce, RestoreCovers, HookSteps, Snapshot,
              Alive, None
  <2>5. RestoreCovers'
    BY <1>0 DEF WgTypeOK, Control, ArtifactStays, RestoredOnce, RestoreCovers, HookSteps, Snapshot,
              Alive, None
  <2> QED BY <2>1, <2>2, <2>3, <2>4, <2>5
<1>10. CASE WriteEnd
  <2> USE <1>10 DEF WriteEnd
  <2>1. WgTypeOK'
    BY <1>0 DEF WgTypeOK, Control, Snapshot, HookSteps, None
  <2>2. Control'
    BY DEF WgTypeOK, Control, HookSteps, None
  <2>3. ArtifactStays'
    BY DEF WgTypeOK, Control, ArtifactStays, RestoredOnce, HookSteps, Snapshot, None
  <2>4. RestoredOnce'
    BY <1>0 DEF WgTypeOK, Control, ArtifactStays, RestoredOnce, RestoreCovers, HookSteps, Snapshot,
              Alive, None
  <2>5. RestoreCovers'
    BY <1>0 DEF WgTypeOK, Control, ArtifactStays, RestoredOnce, RestoreCovers, HookSteps, Snapshot,
              Alive, None
  <2> QED BY <2>1, <2>2, <2>3, <2>4, <2>5
<1>11. CASE WriteFails
  <2> USE <1>11 DEF WriteFails
  <2>1. WgTypeOK'
    BY <1>0 DEF WgTypeOK, Control, Snapshot, HookSteps, None
  <2>2. Control'
    BY DEF WgTypeOK, Control, HookSteps, None
  <2>3. ArtifactStays'
    BY DEF WgTypeOK, Control, ArtifactStays, RestoredOnce, HookSteps, Snapshot, None
  <2>4. RestoredOnce'
    BY <1>0 DEF WgTypeOK, Control, ArtifactStays, RestoredOnce, RestoreCovers, HookSteps, Snapshot,
              Alive, None
  <2>5. RestoreCovers'
    BY <1>0 DEF WgTypeOK, Control, ArtifactStays, RestoredOnce, RestoreCovers, HookSteps, Snapshot,
              Alive, None
  <2> QED BY <2>1, <2>2, <2>3, <2>4, <2>5
<1>12. CASE Finalize
  <2> USE <1>12 DEF Finalize
  <2>1. WgTypeOK'
    BY <1>0 DEF WgTypeOK, Control, Snapshot, HookSteps, None
  <2>2. Control'
    BY DEF WgTypeOK, Control, HookSteps, None
  <2>3. ArtifactStays'
    BY DEF WgTypeOK, Control, ArtifactStays, RestoredOnce, HookSteps, Snapshot, None
  <2>4. RestoredOnce'
    BY <1>0 DEF WgTypeOK, Control, ArtifactStays, RestoredOnce, RestoreCovers, HookSteps, Snapshot,
              Alive, None
  <2>5. RestoreCovers'
    BY <1>0 DEF WgTypeOK, Control, ArtifactStays, RestoredOnce, RestoreCovers, HookSteps, Snapshot,
              Alive, None
  <2> QED BY <2>1, <2>2, <2>3, <2>4, <2>5
<1>13. CASE HookStash
  <2> USE <1>13 DEF HookStash, MarkLate
  <2>1. WgTypeOK'
    BY <1>0 DEF WgTypeOK, Control, Snapshot, HookSteps, None
  <2>2. Control'
    BY DEF WgTypeOK, Control, HookSteps, None
  <2>3. ArtifactStays'
    BY DEF WgTypeOK, Control, ArtifactStays, RestoredOnce, HookSteps, Snapshot, None
  <2>4. RestoredOnce'
    BY <1>0 DEF WgTypeOK, Control, ArtifactStays, RestoredOnce, RestoreCovers, HookSteps, Snapshot,
              Alive, None
  <2>5. RestoreCovers'
    BY <1>0 DEF WgTypeOK, Control, ArtifactStays, RestoredOnce, RestoreCovers, HookSteps, Snapshot,
              Alive, None
  <2> QED BY <2>1, <2>2, <2>3, <2>4, <2>5
<1>14. CASE HookUnstash
  <2> USE <1>14 DEF HookUnstash, MarkLate
  <2>1. WgTypeOK'
    BY <1>0 DEF WgTypeOK, Control, Snapshot, HookSteps, None
  <2>2. Control'
    BY DEF WgTypeOK, Control, HookSteps, None
  <2>3. ArtifactStays'
    BY DEF WgTypeOK, Control, ArtifactStays, RestoredOnce, HookSteps, Snapshot, None
  <2>4. RestoredOnce'
    BY <1>0 DEF WgTypeOK, Control, ArtifactStays, RestoredOnce, RestoreCovers, HookSteps, Snapshot,
              Alive, None
  <2>5. RestoreCovers'
    BY <1>0 DEF WgTypeOK, Control, ArtifactStays, RestoredOnce, RestoreCovers, HookSteps, Snapshot,
              Alive, None
  <2> QED BY <2>1, <2>2, <2>3, <2>4, <2>5
<1>15. ASSUME NEW p \in WgPaths, HookWrite(p) PROVE GuardIInv'
  <2> USE <1>15 DEF HookWrite, MarkLate
  <2>1. WgTypeOK'
    BY <1>0 DEF WgTypeOK, Control, Snapshot, HookSteps, None
  <2>2. Control'
    BY DEF WgTypeOK, Control, HookSteps, None
  <2>3. ArtifactStays'
    BY DEF WgTypeOK, Control, ArtifactStays, RestoredOnce, HookSteps, Snapshot, None
  <2>4. RestoredOnce'
    BY <1>0 DEF WgTypeOK, Control, ArtifactStays, RestoredOnce, RestoreCovers, HookSteps, Snapshot,
              Alive, None
  <2>5. RestoreCovers'
    BY <1>0 DEF WgTypeOK, Control, ArtifactStays, RestoredOnce, RestoreCovers, HookSteps, Snapshot,
              Alive, None
  <2> QED BY <2>1, <2>2, <2>3, <2>4, <2>5
<1>16. CASE HookEnds
  <2> USE <1>16 DEF HookEnds
  <2>1. WgTypeOK'
    BY <1>0 DEF WgTypeOK, Control, Snapshot, HookSteps, None
  <2>2. Control'
    BY DEF WgTypeOK, Control, HookSteps, None
  <2>3. ArtifactStays'
    BY DEF WgTypeOK, Control, ArtifactStays, RestoredOnce, HookSteps, Snapshot, None
  <2>4. RestoredOnce'
    BY <1>0 DEF WgTypeOK, Control, ArtifactStays, RestoredOnce, RestoreCovers, HookSteps, Snapshot,
              Alive, None
  <2>5. RestoreCovers'
    BY <1>0 DEF WgTypeOK, Control, ArtifactStays, RestoredOnce, RestoreCovers, HookSteps, Snapshot,
              Alive, None
  <2> QED BY <2>1, <2>2, <2>3, <2>4, <2>5
<1>17. CASE Signal
  <2> USE <1>17 DEF Signal, Over
  <2>1. WgTypeOK'
    BY <1>0 DEF WgTypeOK, Control, Snapshot, HookSteps, None
  <2>2. Control'
    BY DEF WgTypeOK, Control, HookSteps, None
  <2>3. ArtifactStays'
    BY DEF WgTypeOK, Control, ArtifactStays, RestoredOnce, HookSteps, Snapshot, None
  <2>4. RestoredOnce'
    BY <1>0 DEF WgTypeOK, Control, ArtifactStays, RestoredOnce, RestoreCovers, HookSteps, Snapshot,
              Alive, None
  <2>5. RestoreCovers'
    BY <1>0 DEF WgTypeOK, Control, ArtifactStays, RestoredOnce, RestoreCovers, HookSteps, Snapshot,
              Alive, None
  <2> QED BY <2>1, <2>2, <2>3, <2>4, <2>5
<1>18. CASE Handle
  <2> USE <1>18 DEF Handle, Lock
  <2>1. WgTypeOK'
    BY <1>0 DEF WgTypeOK, Control, Snapshot, HookSteps, None
  <2>2. Control'
    BY DEF WgTypeOK, Control, HookSteps, None
  <2>3. ArtifactStays'
    BY DEF WgTypeOK, Control, ArtifactStays, RestoredOnce, HookSteps, Snapshot, None
  <2>4. RestoredOnce'
    BY <1>0 DEF WgTypeOK, Control, ArtifactStays, RestoredOnce, RestoreCovers, HookSteps, Snapshot,
              Alive, None
  <2>5. RestoreCovers'
    BY <1>0 DEF WgTypeOK, Control, ArtifactStays, RestoredOnce, RestoreCovers, HookSteps, Snapshot,
              Alive, None
  <2> QED BY <2>1, <2>2, <2>3, <2>4, <2>5
<1>19. CASE Unwatch
  <2> USE <1>19 DEF Unwatch
  <2>1. WgTypeOK'
    BY <1>0 DEF WgTypeOK, Control, Snapshot, HookSteps, None
  <2>2. Control'
    BY DEF WgTypeOK, Control, HookSteps, None
  <2>3. ArtifactStays'
    BY DEF WgTypeOK, Control, ArtifactStays, RestoredOnce, HookSteps, Snapshot, None
  <2>4. RestoredOnce'
    BY <1>0 DEF WgTypeOK, Control, ArtifactStays, RestoredOnce, RestoreCovers, HookSteps, Snapshot,
              Alive, None
  <2>5. RestoreCovers'
    BY <1>0 DEF WgTypeOK, Control, ArtifactStays, RestoredOnce, RestoreCovers, HookSteps, Snapshot,
              Alive, None
  <2> QED BY <2>1, <2>2, <2>3, <2>4, <2>5
<1>20. CASE Raise \/ Kill
  <2> USE <1>20 DEF Raise, Kill, Die, Over
  <2>1. WgTypeOK'
    BY <1>0 DEF WgTypeOK, Control, Snapshot, HookSteps, None
  <2>2. Control'
    BY DEF WgTypeOK, Control, HookSteps, None
  <2>3. ArtifactStays'
    BY DEF WgTypeOK, Control, ArtifactStays, RestoredOnce, HookSteps, Snapshot, None
  <2>4. RestoredOnce'
    BY <1>0 DEF WgTypeOK, Control, ArtifactStays, RestoredOnce, RestoreCovers, HookSteps, Snapshot,
              Alive, None
  <2>5. RestoreCovers'
    BY DEF RestoreCovers, Snapshot, None
  <2> QED BY <2>1, <2>2, <2>3, <2>4, <2>5
<1>21. CASE UNCHANGED wgVars
  BY <1>21 DEF wgVars, WgTypeOK, Control, ArtifactStays, RestoredOnce, RestoreCovers, Snapshot,
              Alive
<1> QED
  BY <1>1, <1>2, <1>3, <1>4, <1>5, <1>6, <1>7, <1>8, <1>9, <1>10,
     <1>11, <1>12, <1>13, <1>14, <1>15, <1>16, <1>17, <1>18, <1>19, <1>20, <1>21
  DEF WgNext, Main, Restore, Hook

(* The invariant holds throughout.                                          *)
THEOREM GuardInvariance == WgSpec => []GuardIInv
<1>1. WgInit => GuardIInv
  BY GuardInitInv
<1>2. GuardIInv /\ [WgNext]_wgVars => GuardIInv'
  BY GuardStepInv
<1> QED BY <1>1, <1>2, PTL DEF WgSpec

(* What the invariant says of the run's invariants.                         *)
LEMMA IInvKeeps == GuardIInv => WgTypeOK /\ NothingLost /\ CleanEndClears
<1> SUFFICES ASSUME GuardIInv PROVE WgTypeOK /\ NothingLost /\ CleanEndClears
  OBVIOUS
<1>1. NothingLost
  BY DEF GuardIInv, ArtifactStays, RestoreCovers, NothingLost
<1>2. CleanEndClears
  BY DEF GuardIInv, ArtifactStays, CleanEndClears
<1> QED BY <1>1, <1>2 DEF GuardIInv

(* What a running restore steps on is not someone else's work: the path it  *)
(* writes was wiped when it was classified, and who has written since has   *)
(* set late.                                                                *)
LEMMA StepClobbers ==
  ASSUME GuardIInv, [WgNext]_wgVars, ~late, mu # None, mu' = mu, wgPc # "dead", ~late',
         NEW p \in WgPaths, wgTree[p] = "other"
  PROVE  wgTree'[p] = "other"
<1> USE DEF guard, restoring
<1>1. CASE UNCHANGED wgTree
  BY <1>1
<1>2. CASE WriteBegin \/ WriteEnd
  <2>1. wgTree' = [wgTree EXCEPT ![writing] = wgTree'[writing]] /\ writing # p
    BY <1>2 DEF WriteBegin, WriteEnd, GuardIInv, WgTypeOK, RestoreCovers
  <2> QED BY <2>1 DEF GuardIInv, WgTypeOK
<1>3. CASE hook
  <2>1. mu = "handler" /\ hpc = "restore"
    BY <1>3 DEF GuardIInv, WgTypeOK, Control, HookSteps, None
  <2>2. ~HookStash /\ ~HookUnstash /\ ~(\E q \in WgPaths : HookWrite(q))
    BY <2>1 DEF HookStash, HookUnstash, HookWrite, MarkLate
  <2> QED
    BY <1>1, <1>2, <2>2
    DEF WgNext, Main, Capture, CaptureFails, HookDone, Commit, Push, WgCheckout, Close, Restore,
        Classify, WriteFails, Finalize, Hook, HookEnds, Signal, Handle, Unwatch, Raise, Kill,
        Die, wgVars, HookSteps
<1>4. CASE ~hook
  <2>1. ~WgCheckout
    BY DEF WgCheckout, MarkLate, GuardIInv, WgTypeOK, Control, None
  <2> QED
    BY <1>1, <1>2, <1>4, <2>1
    DEF WgNext, Main, Capture, CaptureFails, HookDone, Commit, Push, Close, Restore,
        Classify, WriteFails, Finalize, Hook, HookStash, HookUnstash, HookWrite, HookEnds,
        Signal, Handle, Unwatch, Raise, Kill, Die, wgVars
<1> QED BY <1>3, <1>4

(* The guard's promise, for every set of paths: wherever the commit is      *)
(* rejected, interrupted or killed, and whatever its hooks write before the *)
(* handler restores, no uncommitted work is lost, none is written over, and *)
(* a clean end leaves no artifact behind.  A hook or a checkout that writes  *)
(* once the handler restores ends the promise (`late'): hooks are not waited *)
(* for (commit/worktree_guard.go).                                           *)
THEOREM GuardKeepsWork == WgSpec => GuardKeeps
<1>1. WgSpec => [](WgTypeOK /\ NothingLost /\ CleanEndClears)
  <2>1. GuardIInv => WgTypeOK /\ NothingLost /\ CleanEndClears
    BY IInvKeeps
  <2> QED BY GuardInvariance, <2>1, PTL
<1>2. WgSpec => NoClobber
  <2>1. GuardIInv /\ [WgNext]_wgVars =>
          [ ~late /\ mu # None /\ mu' = mu /\ wgPc # "dead" /\ ~late' =>
              \A p \in WgPaths : wgTree[p] = "other" => wgTree'[p] = "other"]_wgVars
    BY StepClobbers
  <2> QED BY GuardInvariance, <2>1, PTL DEF WgSpec, NoClobber
<1> QED BY <1>1, <1>2 DEF GuardKeeps

=============================================================================
