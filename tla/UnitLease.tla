------------------------------- MODULE UnitLease -------------------------------
(***************************************************************************)
(* One cache unit shared by the StageFreight processes of a host            *)
(* (src/paths/unit.go, src/paths/cachelock.go): processes that lease it,    *)
(* install into it, reset it or promote a build cache generation in it, and *)
(* the disk GC that evicts it (src/prune/execute.go).  Every lock is a      *)
(* flock(2) on a file of the unit's directory, so it follows the directory  *)
(* when an eviction renames it aside, while later opens of the same path    *)
(* find the directory that replaced it.                                     *)
(*                                                                         *)
(* A directory stands for its own lease file and install lock: an open      *)
(* lock file is the directory it was opened in.                             *)
(***************************************************************************)
EXTENDS Naturals, FiniteSets

CONSTANTS
  Runs,        \* processes that use the unit
  Evictors,    \* processes that run the disk GC (or toolchain prune)
  Casts,       \* the sets of processes to consider together
  Unlocked,    \* those that cannot open the cache root's lock file, and may
               \* fail to open or lock the unit's lease
  Dirs,        \* directories that can stand at the unit's path, one at a time
  NoDir,       \* no directory, no open file
  Kinds,       \* the uses of a unit to consider: see KindNames
  MaxCrashes   \* bound: processes that die before their last step

KindNames == {"venv", "toolchain", "scanner", "buildkit"}

ASSUME UnitLeaseAssumption ==
  /\ NoDir \notin Dirs
  /\ Dirs # {}
  /\ Runs \cap Evictors = {}
  /\ Casts \subseteq SUBSET (Runs \cup Evictors)
  /\ \A c \in Casts : IsFiniteSet(c)
  /\ Unlocked \subseteq Runs \cup Evictors
  /\ Kinds \subseteq KindNames
  /\ MaxCrashes \in Nat

Procs == Runs \cup Evictors

VARIABLES
  kind,      \* what the unit is used for
  cast,      \* the processes that take part
  dir,       \* the directory at the unit's path, or NoDir
  recorded,  \* directories that carry a lease file
  content,   \* what is installed in each directory
  tombs,     \* directories renamed aside and not yet deleted
  sh, ex,    \* per lease file: its shared and its exclusive holders
  inst,      \* per install lock: its holders
  rsh, rex,  \* holders of the cache root's lock
  ulPc,        \* the next step of each process
  then,      \* what the process goes on with when LeaseUnit returns
  held,      \* leases.held: the lease this process keeps
  fd,        \* the lease file opened by the running call
  ifd,       \* the install lock opened by the running call
  tomb,      \* the directory the running eviction renamed aside
  tries,     \* attempts of the running LeaseUnit
  unrec,     \* the evictor's snapshot found no lease file
  crashes,
  astray     \* history: an eviction renamed a directory it had not locked

unit == <<dir, recorded, content, tombs>>
flocks == <<sh, ex, inst>>
root == <<rsh, rex>>
files == <<fd, ifd, tomb>>
counts == <<crashes, astray>>
locals == <<ulPc, then, held, fd, ifd, tomb, tries, unrec>>
ulVars == <<kind, cast, unit, flocks, root, locals, counts>>

MaxTries == 3

-----------------------------------------------------------------------------
Goto(p, l) == ulPc' = [ulPc EXCEPT ![p] = l]

\* Closing a lease file releases the flock on it.
CloseLease(p, d) ==
  /\ sh' = [x \in Dirs |-> IF x = d THEN sh[x] \ {p} ELSE sh[x]]
  /\ ex' = [x \in Dirs |-> IF x = d THEN ex[x] \ {p} ELSE ex[x]]

CloseInstall(p) == inst' = [x \in Dirs |-> inst[x] \ {p}]

\* Directories that are neither on disk nor kept alive by an open file.
Unused ==
  Dirs \ ({dir} \cup tombs \cup {held[p] : p \in Procs}
          \cup {fd[p] : p \in Procs} \cup {ifd[p] : p \in Procs})

\* os.MkdirAll of the unit.
Mkdir(d) ==
  /\ IF dir = NoDir
     THEN Unused # {} /\ d = CHOOSE x \in Unused : TRUE
     ELSE d = dir
  /\ dir' = d
  /\ UNCHANGED <<recorded, tombs>>

\* A call of LeaseUnit(dir) that goes on with label l.
CallLease(p, l) ==
  /\ Goto(p, "mkdir")
  /\ then' = [then EXCEPT ![p] = l]
  /\ tries' = [tries EXCEPT ![p] = 0]

\* markUsed, ResetUnit and WithUnitExclusive drop LeaseUnit's error.
LeaseFailed(p) == IF then[p] \in {"using", "done"} THEN then[p] ELSE "failed"

UlInit ==
  /\ kind \in Kinds
  /\ cast \in Casts
  /\ dir \in {NoDir, CHOOSE d \in Dirs : TRUE}
  /\ recorded \in {{}, {dir} \ {NoDir}}
  /\ \E c \in {"empty", "ready"} :
       content = [d \in Dirs |-> IF d = dir THEN c ELSE "empty"]
  /\ tombs = {}
  /\ sh = [d \in Dirs |-> {}]
  /\ ex = [d \in Dirs |-> {}]
  /\ inst = [d \in Dirs |-> {}]
  /\ rsh = {}
  /\ rex = {}
  /\ ulPc = [p \in Procs |-> "idle"]
  /\ then = [p \in Procs |-> "idle"]
  /\ held = [p \in Procs |-> NoDir]
  /\ fd = [p \in Procs |-> NoDir]
  /\ ifd = [p \in Procs |-> NoDir]
  /\ tomb = [p \in Procs |-> NoDir]
  /\ tries = [p \in Procs |-> 0]
  /\ unrec = [p \in Procs |-> FALSE]
  /\ crashes = 0
  /\ astray = FALSE

-----------------------------------------------------------------------------
(* The cache root's lock *)

Start(p) ==
  /\ ulPc[p] = "idle"
  /\ p \in cast
  /\ Goto(p, "root")
  /\ UNCHANGED <<kind, cast, unit, flocks, root, then, held, files, tries, unrec, counts>>

\* What a run does first once it holds the cache root: the toolchain resolver
\* looks for a valid install, the others lease their unit.  A root that cannot
\* carry the lock file is not locked, and the process goes on.
HoldCacheRoot(p) ==
  /\ ulPc[p] = "root"
  /\ rex = {} \/ p \in Unlocked
  /\ rsh' = rsh \cup ({p} \ Unlocked)
  /\ IF p \in Evictors
     THEN Goto(p, "upgrade") /\ UNCHANGED <<then, tries>>
     ELSE IF kind = "toolchain"
          THEN Goto(p, "warm") /\ UNCHANGED <<then, tries>>
          ELSE CallLease(p, "warm")
  /\ UNCHANGED <<kind, cast, unit, flocks, rex, held, files, unrec, counts>>

\* flock(LOCK_EX|LOCK_NB) on the descriptor that carries the shared lock: the
\* kernel drops the shared lock before it looks for conflicts.  Who cannot open
\* the lock file has it reported busy at once.
ExclusiveCacheRoot(p) ==
  /\ ulPc[p] = "upgrade"
  /\ rsh' = rsh \ {p}
  /\ IF rsh \ {p} = {} /\ rex = {} /\ p \notin Unlocked
     THEN rex' = {p} /\ Goto(p, "discover")
     ELSE rex' = rex /\ Goto(p, IF p \in Unlocked THEN "discover" ELSE "retake")
  /\ UNCHANGED <<kind, cast, unit, flocks, then, held, files, tries, unrec, counts>>

\* The shared lock is taken back, waiting, before the root is reported busy.
Retake(p) ==
  /\ ulPc[p] = "retake"
  /\ rex = {}
  /\ rsh' = rsh \cup {p}
  /\ Goto(p, "discover")
  /\ UNCHANGED <<kind, cast, unit, flocks, rex, then, held, files, tries, unrec, counts>>

\* release: the exclusive root becomes shared again; the pass is over.
ReleaseRoot(p) ==
  /\ ulPc[p] = "release"
  /\ rex' = rex \ {p}
  /\ rsh' = rsh \cup ({p} \ Unlocked)
  /\ Goto(p, "done")
  /\ UNCHANGED <<kind, cast, unit, flocks, then, held, files, tries, unrec, counts>>

-----------------------------------------------------------------------------
(* LeaseUnit: at most MaxTries attempts of mkdir, open, flock, sameFile *)

\* A lease this process already holds is good while it is still the file at the
\* unit's path; otherwise it is dropped.
LeaseHeld(p) ==
  /\ ulPc[p] = "mkdir"
  /\ \E d \in Dirs : Mkdir(d)
  /\ content' = content
  /\ IF held[p] # NoDir /\ held[p] = dir'
     THEN Goto(p, then[p]) /\ UNCHANGED <<held, sh, ex>>
     ELSE /\ Goto(p, "open")
          /\ held' = [held EXCEPT ![p] = NoDir]
          /\ CloseLease(p, held[p])
  /\ UNCHANGED <<kind, cast, inst, root, then, files, tries, unrec, counts>>

OpenLease(p) ==
  /\ ulPc[p] = "open"
  /\ \/ /\ dir = NoDir \/ p \in Unlocked
        /\ Goto(p, LeaseFailed(p))
        /\ UNCHANGED <<recorded, fd>>
     \/ /\ dir # NoDir
        /\ recorded' = recorded \cup {dir}
        /\ fd' = [fd EXCEPT ![p] = dir]
        /\ Goto(p, "flock")
  /\ UNCHANGED <<kind, cast, dir, content, tombs, flocks, root, then, held, ifd, tomb, tries, unrec, counts>>

\* flock(LOCK_SH) waits out an eviction.
FlockShared(p) ==
  /\ ulPc[p] = "flock"
  /\ ex[fd[p]] = {}
  /\ sh' = [sh EXCEPT ![fd[p]] = @ \cup {p}]
  /\ Goto(p, "verify")
  /\ UNCHANGED <<kind, cast, unit, ex, inst, root, then, held, files, tries, unrec, counts>>

\* Mutant: the lease is kept without looking whether it is still the unit's.
KeepUnverified(p) ==
  /\ ulPc[p] = "verify"
  /\ held' = [held EXCEPT ![p] = fd[p]]
  /\ fd' = [fd EXCEPT ![p] = NoDir]
  /\ Goto(p, then[p])
  /\ UNCHANGED <<kind, cast, unit, flocks, root, then, ifd, tomb, tries, unrec, counts>>

\* sameFile: an eviction may have replaced the unit while this process waited.
VerifyLease(p) ==
  /\ ulPc[p] = "verify"
  /\ fd' = [fd EXCEPT ![p] = NoDir]
  /\ IF fd[p] = dir
     THEN /\ held' = [held EXCEPT ![p] = fd[p]]
          /\ Goto(p, then[p])
          /\ UNCHANGED <<sh, ex, tries>>
     ELSE /\ CloseLease(p, fd[p])
          /\ tries' = [tries EXCEPT ![p] = @ + 1]
          /\ Goto(p, IF tries[p] + 1 < MaxTries THEN "mkdir" ELSE LeaseFailed(p))
          /\ held' = held
  /\ UNCHANGED <<kind, cast, unit, inst, root, then, ifd, tomb, unrec, counts>>

-----------------------------------------------------------------------------
(* Users of the unit *)

Ready == dir # NoDir /\ content[dir] = "ready"

\* A usable install: ensurePyVenv already leases it, the toolchain resolver
\* leases what it found only now (markUsed).
Found(p) ==
  IF kind = "toolchain" THEN CallLease(p, "using")
                        ELSE Goto(p, "using") /\ UNCHANGED <<then, tries>>

WarmHit(p) ==
  /\ ulPc[p] = "warm"
  /\ kind \in {"venv", "toolchain"} => Ready
  /\ Found(p)
  /\ UNCHANGED <<kind, cast, unit, flocks, root, held, files, unrec, counts>>

\* AcquireInstallLock leases the unit first.
WarmMiss(p) ==
  /\ ulPc[p] = "warm"
  /\ kind \in {"venv", "toolchain"}
  /\ ~Ready
  /\ CallLease(p, "lockfile")
  /\ UNCHANGED <<kind, cast, unit, flocks, root, held, files, unrec, counts>>

OpenInstallLock(p) ==
  /\ ulPc[p] = "lockfile"
  /\ ifd' = [ifd EXCEPT ![p] = dir]
  /\ Goto(p, IF dir = NoDir THEN "failed" ELSE "poll")
  /\ UNCHANGED <<kind, cast, unit, flocks, root, then, held, fd, tomb, tries, unrec, counts>>

\* The lock is polled; a holder that outlasts the timeout fails the install.
PollInstallLock(p) ==
  /\ ulPc[p] = "poll"
  /\ IF inst[ifd[p]] = {}
     THEN /\ inst' = [inst EXCEPT ![ifd[p]] = {p}]
          /\ ifd' = ifd
          /\ Goto(p, "recheck")
     ELSE /\ inst' = inst
          /\ ifd' = [ifd EXCEPT ![p] = NoDir]
          /\ Goto(p, "failed")
  /\ UNCHANGED <<kind, cast, unit, sh, ex, root, then, held, fd, tomb, tries, unrec, counts>>

ReleaseInstallLock(p) ==
  /\ CloseInstall(p)
  /\ ifd' = [ifd EXCEPT ![p] = NoDir]

\* Another process may have installed while this one waited.  ensurePyVenv
\* clears what an unfinished install left.
Recheck(p) ==
  /\ ulPc[p] = "recheck"
  /\ IF Ready
     THEN Found(p) /\ ReleaseInstallLock(p) /\ content' = content
     ELSE /\ Goto(p, "install")
          /\ content' = IF kind = "venv" /\ dir # NoDir
                        THEN [content EXCEPT ![dir] = "empty"] ELSE content
          /\ UNCHANGED <<then, tries, ifd, inst>>
  /\ UNCHANGED <<kind, cast, dir, recorded, tombs, sh, ex, root, held, fd, tomb, unrec, counts>>

\* The files of the install are written below the unit's path, whatever
\* directory is there by now.
Install(p) ==
  /\ ulPc[p] = "install"
  /\ \E d \in Dirs :
       /\ Mkdir(d)
       /\ content' = [content EXCEPT ![d] = "partial"]
  /\ Goto(p, "finish")
  /\ UNCHANGED <<kind, cast, flocks, root, then, held, files, tries, unrec, counts>>

\* The record that makes the install valid (.metadata.json, .sf-ready) is
\* written last.
FinishInstall(p) ==
  /\ ulPc[p] = "finish"
  /\ dir # NoDir /\ content[dir] # "empty"
  /\ content' = [content EXCEPT ![dir] = "ready"]
  /\ Found(p)
  /\ ReleaseInstallLock(p)
  /\ UNCHANGED <<kind, cast, dir, recorded, tombs, sh, ex, root, held, fd, tomb, unrec, counts>>

\* A failed install: the resolvers clear the unit, ensurePyVenv leaves it.
FailInstall(p) ==
  /\ ulPc[p] = "finish"
  /\ content' = IF kind = "toolchain" /\ dir # NoDir
                THEN [content EXCEPT ![dir] = "empty"] ELSE content
  /\ Goto(p, "failed")
  /\ ReleaseInstallLock(p)
  /\ UNCHANGED <<kind, cast, dir, recorded, tombs, sh, ex, root, then, held, fd, tomb, tries, unrec, counts>>

\* A scanner database over its policy is reset before use (ResetUnit), a build
\* cache generation promoted after it (WithUnitExclusive): both drop the lease
\* this process holds and take the unit exclusively.
DropForExclusive(p) ==
  /\ \/ kind = "scanner" /\ ulPc[p] = "warm"
     \/ kind = "buildkit" /\ ulPc[p] = "using"
  /\ CloseLease(p, held[p])
  /\ held' = [held EXCEPT ![p] = NoDir]
  /\ Goto(p, "xopen")
  /\ UNCHANGED <<kind, cast, unit, inst, root, then, files, tries, unrec, counts>>

-----------------------------------------------------------------------------
(* Exclusive holders: EvictUnit (by an evictor, or by ResetUnit of a run) and *)
(* WithUnitExclusive                                                          *)

\* Interrupted evictions are finished first.  An unrecorded unit is left alone
\* unless the whole cache root is held exclusively.
Discover(p) ==
  /\ ulPc[p] = "discover"
  /\ tombs' = {}
  /\ unrec' = [unrec EXCEPT ![p] = dir \notin recorded]
  /\ \/ Goto(p, "release")
     \/ /\ dir # NoDir
        /\ dir \in recorded \/ rex = {p}
        /\ Goto(p, "xopen")
  /\ UNCHANGED <<kind, cast, dir, recorded, content, flocks, root, then, held, files, tries, counts>>

\* The call is over: the evictor's pass ends, a run leases the unit again.
AfterExclusive(p) ==
  IF p \in Evictors THEN Goto(p, "release") /\ UNCHANGED <<then, tries>>
  ELSE CallLease(p, IF kind = "scanner" THEN "using" ELSE "done")

OpenExclusive(p) ==
  /\ ulPc[p] = "xopen"
  /\ IF dir = NoDir
     THEN AfterExclusive(p) /\ UNCHANGED <<recorded, fd>>
     ELSE /\ recorded' = recorded \cup {dir}
          /\ fd' = [fd EXCEPT ![p] = dir]
          /\ Goto(p, "xlock")
          /\ UNCHANGED <<then, tries>>
  /\ UNCHANGED <<kind, cast, dir, content, tombs, flocks, root, held, ifd, tomb, unrec, counts>>

\* flock(LOCK_EX|LOCK_NB): a unit in use is left alone.
LockExclusive(p) ==
  /\ ulPc[p] = "xlock"
  /\ IF sh[fd[p]] = {} /\ ex[fd[p]] = {}
     THEN /\ ex' = [ex EXCEPT ![fd[p]] = {p}]
          /\ Goto(p, IF kind = "buildkit" /\ p \in Runs THEN "promote" ELSE "install lock")
          /\ UNCHANGED <<fd, then, tries>>
     ELSE /\ fd' = [fd EXCEPT ![p] = NoDir]
          /\ ex' = ex
          /\ AfterExclusive(p)
  /\ UNCHANGED <<kind, cast, unit, sh, inst, root, held, ifd, tomb, unrec, counts>>

\* EvictUnit also respects an install by a process that holds no lease.
LockInstallToo(p) ==
  /\ ulPc[p] = "install lock"
  /\ IF dir = NoDir \/ inst[dir] = {}
     THEN /\ Goto(p, "rename")
          /\ ifd' = [ifd EXCEPT ![p] = dir]
          /\ inst' = IF dir = NoDir THEN inst ELSE [inst EXCEPT ![dir] = {p}]
          /\ UNCHANGED <<then, tries, fd, sh, ex>>
     ELSE /\ CloseLease(p, fd[p])
          /\ fd' = [fd EXCEPT ![p] = NoDir]
          /\ UNCHANGED <<inst, ifd>>
          /\ AfterExclusive(p)
  /\ UNCHANGED <<kind, cast, unit, root, held, tomb, unrec, counts>>

\* The unit is renamed aside: whatever directory is at the path now.  What is
\* in it is out of reach from here on.
Rename(p) ==
  /\ ulPc[p] = "rename"
  /\ tombs' = tombs \cup ({dir} \ {NoDir})
  /\ tomb' = [tomb EXCEPT ![p] = dir]
  /\ dir' = NoDir
  /\ recorded' = recorded \ {dir}
  /\ content' = [d \in Dirs |-> IF d = dir THEN "empty" ELSE content[d]]
  /\ astray' = (astray \/ fd[p] # dir)
  /\ Goto(p, "sweep")
  /\ UNCHANGED <<kind, cast, flocks, root, then, held, fd, ifd, tries, unrec, crashes>>

\* RemoveAllWritable of the tombstone; the deferred closes release the locks.
Sweep(p) ==
  /\ ulPc[p] = "sweep"
  /\ tombs' = tombs \ {tomb[p]}
  /\ tomb' = [tomb EXCEPT ![p] = NoDir]
  /\ fd' = [fd EXCEPT ![p] = NoDir]
  /\ ifd' = [ifd EXCEPT ![p] = NoDir]
  /\ CloseLease(p, fd[p])
  /\ CloseInstall(p)
  /\ AfterExclusive(p)
  /\ UNCHANGED <<kind, cast, dir, recorded, content, root, held, unrec, counts>>

\* Mutant: the deferred calls run in the other order, LeaseUnit before Close.
PromoteLeaseFirst(p) ==
  /\ ulPc[p] = "promote"
  /\ fd' = [fd EXCEPT ![p] = NoDir]
  /\ AfterExclusive(p)
  /\ UNCHANGED <<kind, cast, unit, flocks, root, held, ifd, tomb, unrec, counts>>

\* promoteLocalCache: the generation at the path is replaced by this build's.
Promote(p) ==
  /\ ulPc[p] = "promote"
  /\ content' = IF dir = NoDir THEN content ELSE [content EXCEPT ![dir] = "ready"]
  /\ fd' = [fd EXCEPT ![p] = NoDir]
  /\ CloseLease(p, fd[p])
  /\ AfterExclusive(p)
  /\ UNCHANGED <<kind, cast, dir, recorded, tombs, inst, root, held, ifd, tomb, unrec, counts>>

-----------------------------------------------------------------------------
(* The end of a process, in its own time or not: the kernel closes its files *)

EndProcess(p) ==
  /\ Goto(p, "gone")
  /\ held' = [held EXCEPT ![p] = NoDir]
  /\ fd' = [fd EXCEPT ![p] = NoDir]
  /\ ifd' = [ifd EXCEPT ![p] = NoDir]
  /\ tomb' = [tomb EXCEPT ![p] = NoDir]
  /\ then' = [then EXCEPT ![p] = "idle"]
  /\ tries' = [tries EXCEPT ![p] = 0]
  /\ unrec' = [unrec EXCEPT ![p] = FALSE]
  /\ sh' = [d \in Dirs |-> sh[d] \ {p}]
  /\ ex' = [d \in Dirs |-> ex[d] \ {p}]
  /\ CloseInstall(p)
  /\ rsh' = rsh \ {p}
  /\ rex' = rex \ {p}
  /\ UNCHANGED <<kind, cast, unit>>

Exit(p) ==
  /\ ulPc[p] \in {"using", "done", "failed"}
  /\ EndProcess(p)
  /\ UNCHANGED counts

Crash(p) ==
  /\ ulPc[p] \notin {"idle", "using", "done", "failed", "gone"}
  /\ crashes < MaxCrashes
  /\ crashes' = crashes + 1
  /\ UNCHANGED astray
  /\ EndProcess(p)

Step(p) ==
  \/ HoldCacheRoot(p) \/ ExclusiveCacheRoot(p) \/ Retake(p) \/ ReleaseRoot(p)
  \/ LeaseHeld(p) \/ OpenLease(p) \/ FlockShared(p) \/ VerifyLease(p)
  \/ WarmHit(p) \/ WarmMiss(p) \/ OpenInstallLock(p) \/ PollInstallLock(p)
  \/ Recheck(p) \/ Install(p) \/ FinishInstall(p) \/ FailInstall(p)
  \/ DropForExclusive(p) \/ Discover(p) \/ OpenExclusive(p) \/ LockExclusive(p)
  \/ LockInstallToo(p) \/ Rename(p) \/ Sweep(p) \/ Promote(p) \/ Exit(p)

UlNext == \E p \in Procs : Start(p) \/ Step(p) \/ Crash(p)

\* A process that can take its next step does: a blocked flock is granted when
\* the lock it waits for is released.
UlFairness == \A p \in Procs : WF_ulVars(Step(p))

UlSpec == UlInit /\ [][UlNext]_ulVars /\ UlFairness

-----------------------------------------------------------------------------
Labels ==
  {"idle", "root", "upgrade", "retake", "discover", "release", "mkdir", "open",
   "flock", "verify", "warm", "lockfile", "poll", "recheck", "install", "finish",
   "using", "failed", "done", "xopen", "xlock", "install lock", "rename",
   "sweep", "promote", "gone"}

UlTypeOK ==
  /\ kind \in Kinds
  /\ cast \in Casts
  /\ dir \in Dirs \cup {NoDir}
  /\ recorded \subseteq Dirs
  /\ content \in [Dirs -> {"empty", "partial", "ready"}]
  /\ tombs \subseteq Dirs
  /\ sh \in [Dirs -> SUBSET Procs]
  /\ ex \in [Dirs -> SUBSET Procs]
  /\ inst \in [Dirs -> SUBSET Procs]
  /\ rsh \subseteq Procs
  /\ rex \subseteq Procs
  /\ ulPc \in [Procs -> Labels]
  /\ then \in [Procs -> {"idle", "warm", "lockfile", "using", "done"}]
  /\ held \in [Procs -> Dirs \cup {NoDir}]
  /\ fd \in [Procs -> Dirs \cup {NoDir}]
  /\ ifd \in [Procs -> Dirs \cup {NoDir}]
  /\ tomb \in [Procs -> Dirs \cup {NoDir}]
  /\ tries \in [Procs -> 0..MaxTries]
  /\ unrec \in [Procs -> BOOLEAN]
  /\ crashes \in 0..MaxCrashes
  /\ astray \in BOOLEAN

\* Processes that may rename the unit.
Renamers == (cast \cap Evictors) \cup IF kind = "scanner" THEN cast \cap Runs ELSE {}

\* "A unit in use is never removed" (unit.go:19): a lease, once LeaseUnit
\* returned it, is on the directory at the unit's path for as long as the process
\* keeps it, until an eviction renames a directory it had not locked.
InUseStays ==
  ~astray => \A p \in Procs : held[p] # NoDir => dir = held[p]

\* That never happens while one process at most evicts.  Two can do it: the
\* rename takes whatever stands at the path by then (unit.go:108).
OneNeverAstray == Cardinality(Renamers) <= 1 => ~astray

\* Whoever changes the unit while holding the lock file at its path (eviction,
\* reset, promotion) finds no other process holding the unit.
ExclusiveMeansAlone ==
  \A p \in Procs :
    ulPc[p] \in {"rename", "promote"} /\ fd[p] = dir =>
      \A q \in Procs \ {p} : dir \notin {held[q]}

\* ensurePyVenv hands out complete environments only, whatever was evicted,
\* interrupted or installed by others before, and they stay complete while used
\* (until an eviction goes astray, as above).
UsesComplete ==
  kind = "venv" /\ ~astray =>
    \A p \in Runs : ulPc[p] = "using" => Ready

\* Two processes never write an install at the same time, until an eviction goes
\* astray.
InstallAlone ==
  ~astray =>
    \A p, q \in Runs :
      ulPc[p] \in {"install", "finish"} /\ ulPc[q] \in {"install", "finish"} => p = q

\* A directory without a use record is taken only while no other process is
\* using the cache: none is past HoldCacheRoot, even after failed upgrades.  One
\* that could not lock the root goes on without it (cachelock.go:51-58) and is
\* not seen.
UnrecordedOnlyAlone ==
  \A p \in Procs :
    ulPc[p] \in {"xopen", "xlock", "install lock", "rename"} /\ unrec[p] =>
      /\ p \notin Unlocked
      /\ \A q \in Procs \ ({p} \cup Unlocked) :
           ulPc[q] \in {"idle", "root", "retake", "gone"}

\* A run that asks for the unit gets it or an error, unless it dies.
Served == \A p \in Runs : ulPc[p] = "root" ~> ulPc[p] \in {"using", "failed", "gone"}

\* What the leases are for, whatever the processes do and wherever one dies
\* (paths/unit.go, paths/cachelock.go).  Whoever holds the unit it locked
\* exclusively is alone with it, and an unrecorded unit is safe from a GC that is
\* not alone among those that could lock the root.  A unit in use stays, a
\* handed-out environment is complete and one process installs at a time, until
\* an eviction renames a directory it had not locked: with one evictor never.
LeaseSafe ==
  /\ UlTypeOK
  /\ InUseStays
  /\ OneNeverAstray
  /\ ExclusiveMeansAlone
  /\ UsesComplete
  /\ InstallAlone
  /\ UnrecordedOnlyAlone
=============================================================================
