----------------------------- MODULE LintEngine ------------------------------
(***************************************************************************)
(* The lint run (lint/engine.go, lint/cache.go, cli/cmd/lint.go): files    *)
(* fan out to one task per file and module under a semaphore, results are  *)
(* kept in a cache that outlives the run, whole-repository modules run     *)
(* after the barrier, then the baseline, the gate and the safe fixes.      *)
(* People edit files, options, the engine and the advisory feeds move.     *)
(* A file's content is 0 (clean under the default options) or 1.           *)
(***************************************************************************)
EXTENDS Naturals, Integers, FiniteSets

CONSTANTS
  LiFiles,     \* paths of the repository
  LiSlots,     \* largest weight of the semaphore, twice the processors
  LiRuns,      \* lint runs
  LiEvents,    \* edits, changes of options, engine and feeds, ticks, failures
  LiCap        \* entries the size limit of the cache leaves

ASSUME LintAssumption ==
  /\ LiFiles # {} /\ IsFiniteSet(LiFiles)
  /\ LiSlots \in Nat \ {0} /\ LiRuns \in Nat /\ LiEvents \in Nat /\ LiCap \in Nat

VARIABLES
  liCfg,       \* scope, baseline and remediation of the runs, provenance and base content of the files
  content,     \* what is on disk
  opt, eng,    \* module options, version of the engine
  feed,        \* since when an advisory is out: clock value, or Never
  liNow,       \* clock
  liCache,     \* entries, at most one of a key
  liPc,        \* label of the run
  todo,        \* files the loop has not reached
  scan,        \* scanned file -> content read for the cache key
  task,        \* per file and module
  found,       \* findings of the run
  erred,       \* file and module pairs that failed
  fresh,       \* findings that are new since the baseline; NoBase when nothing is diffed
  fixing,      \* content the remediation read of the file it is at
  verdict,
  raced,       \* ghost: files edited since the remediation read them
  since,       \* ghost: clock at the start of the run
  liRuns, liEvents

lintWorld == <<content, opt, eng, feed, liNow>>
lintRun == <<liPc, todo, scan, task, found, erred, fresh, fixing, verdict, since>>
lintVars == <<liCfg, lintWorld, liCache, lintRun, raced, liRuns, liEvents>>

LiMods == {"hygiene", "freshness"}
LiContent == {0, 1}
Never == 9
NoData == 9
NoEntry == [key |-> <<>>]
Idle == [pc |-> "none", res |-> FALSE, of |-> 0, via |-> NoEntry]
NoBase == {<<"none", "none", 0>>}

\* ttl: age after which results of freshness expire, -1 never cached. base: content
\* at the merge base, NoData when the file is new.
LiConfigs == [slots : 1..LiSlots, full : BOOLEAN, baseline : BOOLEAN, fix : BOOLEAN, ttl : {0, -1},
              vendored : SUBSET LiFiles, base : [LiFiles -> {0, NoData}]]

LiEvent == liEvents < LiEvents /\ liEvents' = liEvents + 1
LiOk == UNCHANGED liEvents

-----------------------------------------------------------------------------
\* What a module finds in a content: hygiene reports on authored files what its
\* options and version name; freshness what the advisory feeds name.
Finds(m, f, c) ==
  IF m = "hygiene" THEN f \notin liCfg.vendored /\ c + opt + eng >= 1
                   ELSE c = 1 /\ feed # Never

KeyNoEngine(c, m) == <<c, m, opt, 0>>
\* The cache key. Path and provenance of the file are not part of it.
Key(c, m) == <<c, m, opt, eng>>

Expired(m, e) == m = "freshness" /\ liNow - e.at > liCfg.ttl

Stored(k) == {e \in liCache : e.key = k}
Others(k) == liCache \ Stored(k)
Usable(k, m) == {e \in Stored(k) : ~e.torn /\ ~Expired(m, e)}

NoCache(m) == m = "freshness" /\ liCfg.ttl < 0

\* Only files that differ from the merge base, unless the level is full.
InDelta == IF liCfg.full THEN LiFiles ELSE {f \in LiFiles : content[f] # liCfg.base[f]}

Running == {t \in DOMAIN task : task[t].pc \in {"get", "check", "finish"}}

LintFrom(label) ==
  /\ content \in [LiFiles -> LiContent]
  /\ opt = 0 /\ eng = 0 /\ feed = Never /\ liNow = 0
  /\ liCache = {}
  /\ liPc = label /\ todo = {} /\ scan = [f \in LiFiles |-> NoData]
  /\ task = [t \in LiFiles \X LiMods |-> Idle]
  /\ found = {} /\ erred = {} /\ fresh = NoBase /\ fixing = NoData /\ verdict = "none"
  /\ raced = {} /\ since = 0 /\ liRuns = 0 /\ liEvents = 0

LintInit == liCfg \in LiConfigs /\ LintFrom("start")

\* The engine is built, files are collected and filtered by the delta.
LintStart ==
  /\ liPc \in {"start", "done"} /\ liRuns < LiRuns
  /\ liRuns' = liRuns + 1
  /\ todo' = InDelta
  /\ liPc' = "loop" /\ verdict' = "none" /\ since' = liNow
  /\ LiOk /\ UNCHANGED <<liCfg, lintWorld, liCache, scan, task, found, erred, fresh, fixing, raced>>

\* The loop reads the next file, in the order of the walk, for its key and classifies it. A file that cannot be
\* read is linted without the cache.
Classify(f) ==
  /\ liPc = "loop" /\ f \in todo /\ f = CHOOSE g \in todo : TRUE
  /\ \A t \in DOMAIN task : task[t].pc # "queued"
  /\ todo' = todo \ {f}
  /\ \/ LiOk /\ scan' = [scan EXCEPT ![f] = content[f]]
     \/ LiEvent /\ scan' = scan
  /\ task' = [t \in DOMAIN task |-> IF t[1] = f THEN [Idle EXCEPT !.pc = "queued"] ELSE task[t]]
  /\ UNCHANGED <<liCfg, lintWorld, liCache, liPc, found, erred, fresh, fixing, verdict, raced, since, liRuns>>

\* The loop starts the next task, module after module, once the semaphore has room.
Spawn(t) ==
  /\ t[2] = "hygiene" \/ task[<<t[1], "hygiene">>].pc # "queued"
  /\ liPc = "loop" /\ task[t].pc = "queued" /\ Cardinality(Running) < liCfg.slots
  /\ task' = [task EXCEPT ![t].pc =
       IF scan[t[1]] = NoData \/ NoCache(t[2]) THEN "check" ELSE "get"]
  /\ LiOk /\ UNCHANGED <<liCfg, lintWorld, liCache, liPc, todo, scan, found, erred, fresh, fixing, verdict, raced, since, liRuns>>

\* A usable entry is reported as it was stored, under the path it was found at, and
\* touched; a torn one is removed.
CacheGet(t) ==
  /\ liPc = "loop" /\ task[t].pc = "get"
  /\ LET k == Key(scan[t[1]], t[2]) IN
     \/ \E e \in Usable(k, t[2]) :
          /\ liCache' = Others(k) \cup {[e EXCEPT !.used = liNow]}
          /\ task' = [task EXCEPT ![t].pc = "done", ![t].via = e]
          /\ found' = IF e.hit THEN found \cup {<<e.from, t[2], e.of>>} ELSE found
     \/ /\ Usable(k, t[2]) = {}
        /\ liCache' = Others(k) \cup {e \in Stored(k) : ~e.torn}
        /\ task' = [task EXCEPT ![t].pc = "check"]
        /\ UNCHANGED found
  /\ LiOk /\ UNCHANGED <<liCfg, lintWorld, liPc, todo, scan, erred, fresh, fixing, verdict, raced, since, liRuns>>

\* The module reads the file again.
Check(t) ==
  /\ liPc = "loop" /\ task[t].pc = "check"
  /\ task' = [task EXCEPT ![t].pc = "finish", ![t].of = content[t[1]],
                          ![t].res = Finds(t[2], t[1], content[t[1]])]
  /\ LiOk /\ UNCHANGED <<liCfg, lintWorld, liCache, liPc, todo, scan, found, erred, fresh, fixing, verdict, raced, since, liRuns>>

\* Under the lock: findings are appended and the result is stored under the key of the
\* content the loop read. The write may fail.
Finish(t) ==
  /\ liPc = "loop" /\ task[t].pc = "finish"
  /\ task' = [task EXCEPT ![t].pc = "done"]
  /\ found' = IF task[t].res THEN found \cup {<<t[1], t[2], task[t].of>>} ELSE found
  /\ \/ /\ LiOk
        /\ liCache' = IF scan[t[1]] = NoData \/ NoCache(t[2]) THEN liCache
             ELSE LET k == Key(scan[t[1]], t[2]) IN Others(k) \cup
               {[key |-> k, hit |-> task[t].res, at |-> liNow, used |-> liNow,
                 of |-> task[t].of, from |-> t[1], torn |-> FALSE]}
     \/ LiEvent /\ UNCHANGED liCache
  /\ UNCHANGED <<liCfg, lintWorld, liPc, todo, scan, erred, fresh, fixing, verdict, raced, since, liRuns>>

\* A failed check reports an error and stores nothing.
CheckFailed(t) ==
  /\ liPc = "loop" /\ task[t].pc = "check" /\ LiEvent
  /\ task' = [task EXCEPT ![t].pc = "done"]
  /\ erred' = erred \cup {t}
  /\ UNCHANGED <<liCfg, lintWorld, liCache, liPc, todo, scan, found, fresh, fixing, verdict, raced, since, liRuns>>

\* After the barrier every whole-repository module runs once over the scanned files,
\* uncached; a file that fails costs only its own findings.
WholeRepo ==
  /\ liPc = "loop" /\ todo = {} /\ \A t \in DOMAIN task : task[t].pc \in {"none", "done"}
  /\ LET scanned == {t[1] : t \in {u \in DOMAIN task : task[u].pc = "done"}} IN
     \E bad \in SUBSET scanned :
       /\ IF bad = {} THEN LiOk ELSE LiEvent
       /\ erred' = erred \cup {<<f, "vulnerabilities">> : f \in bad}
       /\ found' = found \cup {<<f, "vulnerabilities", 1>> : f \in
                      {g \in scanned \ bad : content[g] = 1 /\ feed # Never}}
  /\ liPc' = "base"
  /\ UNCHANGED <<liCfg, lintWorld, liCache, todo, scan, task, fresh, fixing, verdict, raced, since, liRuns>>

\* Findings that a lint of the base content would not give; feeds never count as new.
NewSinceBase ==
  {x \in found : x[2] = "hygiene" /\
     (liCfg.base[x[1]] = NoData \/ (content[x[1]] # liCfg.base[x[1]] /\
        LET kept == Usable(Key(liCfg.base[x[1]], "hygiene"), "hygiene") IN
        IF kept # {} THEN \A e \in kept : ~e.hit
        ELSE ~Finds("hygiene", x[1], liCfg.base[x[1]])))}

\* The diff against the baseline; when it fails the whole set gates.
BaselineDiff ==
  /\ liPc = "base" /\ liPc' = "gate"
  /\ \/ ~liCfg.baseline /\ LiOk /\ UNCHANGED fresh
     \/ liCfg.baseline /\ LiOk /\ fresh' = NewSinceBase
     \/ liCfg.baseline /\ LiEvent /\ UNCHANGED fresh
  /\ UNCHANGED <<liCfg, lintWorld, liCache, todo, scan, task, found, erred, fixing, verdict, raced, since, liRuns>>

\* Remediation reads the file of a fixable finding; a file that no longer has the
\* bytes the finding expects is left alone.
RemediateRead(f) ==
  /\ liPc = "gate" /\ liCfg.fix
  /\ \E x \in found : x[1] = f /\ x[2] = "hygiene" /\ x[3] = content[f] /\ content[f] = 1
  /\ fixing' = content[f] /\ todo' = {f} /\ liPc' = "fix" /\ raced' = {}
  /\ LiOk /\ UNCHANGED <<liCfg, lintWorld, liCache, scan, task, found, erred, fresh, verdict, since, liRuns>>

\* ... and replaces the file.
RemediateWrite(f) ==
  /\ liPc = "fix" /\ f \in todo
  /\ content' = [content EXCEPT ![f] = 0]
  /\ todo' = {} /\ liPc' = "gate" /\ fixing' = NoData
  /\ LiOk /\ UNCHANGED <<liCfg, opt, eng, feed, liNow, liCache, scan, task, found, erred, fresh, verdict, raced, since, liRuns>>

\* The gate: what is new when a baseline was diffed, else everything. Errors are a warning.
GateError == IF fresh # NoBase THEN fresh # {} ELSE found # {}

\* The gate's verdict. The cache loses what was not used lately, then its oldest entries
\* down to the limit.
LintEnd ==
  /\ liPc = "gate"
  /\ verdict' = IF GateError THEN "fail" ELSE "pass"
  /\ LET kept == {e \in liCache : liNow - e.used <= 1}
         over == IF Cardinality(kept) > LiCap THEN Cardinality(kept) - LiCap ELSE 0 IN
     \E gone \in {S \in SUBSET kept : Cardinality(S) = over} :
       /\ \A d \in gone, e \in kept \ gone : d.used <= e.used
       /\ liCache' = kept \ gone
  /\ liPc' = "done"
  /\ scan' = [f \in LiFiles |-> NoData] /\ task' = [t \in LiFiles \X LiMods |-> Idle]
  /\ found' = {} /\ erred' = {} /\ fresh' = NoBase /\ since' = 0 /\ raced' = {}
  /\ LiOk /\ UNCHANGED <<liCfg, lintWorld, todo, fixing, liRuns>>

-----------------------------------------------------------------------------
(* Environment *)

\* Somebody edits a file, at any time.
EditFile(f) ==
  /\ LiEvent /\ liPc # "off"
  /\ content' = [content EXCEPT ![f] = 1 - @]
  /\ raced' = IF liPc = "fix" THEN raced \cup {f} ELSE raced
  /\ UNCHANGED <<liCfg, opt, eng, feed, liNow, liCache, lintRun, liRuns>>

\* Between runs: the options or the engine change.
Reconfigure ==
  /\ LiEvent /\ liPc \in {"start", "done"}
  /\ \/ opt' = 1 - opt /\ UNCHANGED eng
     \/ eng = 0 /\ eng' = 1 /\ UNCHANGED opt
  /\ UNCHANGED <<liCfg, content, feed, liNow, liCache, lintRun, raced, liRuns>>

\* An advisory is published.
Advise ==
  /\ LiEvent /\ feed = Never /\ liPc # "off"
  /\ feed' = liNow
  /\ UNCHANGED <<liCfg, content, opt, eng, liNow, liCache, lintRun, raced, liRuns>>

\* Time passes; a check is short against the age limit of its result.
LintTick ==
  /\ LiEvent /\ liPc # "off" /\ \A t \in DOMAIN task : task[t].pc # "finish"
  /\ liNow' = liNow + 1
  /\ UNCHANGED <<liCfg, content, opt, eng, feed, liCache, lintRun, raced, liRuns>>

\* An entry is damaged on disk.
Damage ==
  /\ LiEvent /\ liPc \in {"start", "done"}
  /\ \E e \in liCache : ~e.torn /\ liCache' = (liCache \ {e}) \cup {[e EXCEPT !.torn = TRUE]}
  /\ UNCHANGED <<liCfg, lintWorld, lintRun, raced, liRuns>>

LintStep ==
  \/ WholeRepo \/ BaselineDiff \/ LintEnd
  \/ \E f \in LiFiles : Classify(f) \/ RemediateRead(f) \/ RemediateWrite(f)
  \/ \E t \in LiFiles \X LiMods : Spawn(t) \/ CacheGet(t) \/ Check(t) \/ Finish(t) \/ CheckFailed(t)

LintNext ==
  \/ LintStart \/ LintStep \/ Reconfigure \/ Advise \/ LintTick \/ Damage
  \/ \E f \in LiFiles : EditFile(f)

LintSpec == LintInit /\ [][LintNext]_lintVars /\ WF_lintVars(LintStep)

-----------------------------------------------------------------------------
\* Types; never more tasks than slots, and nothing of a file runs before the loop read it.
LintTypeOK ==
  /\ content \in [LiFiles -> LiContent] /\ opt \in {0, 1} /\ eng \in {0, 1}
  /\ feed \in (0..LiEvents) \cup {Never} /\ liNow \in 0..LiEvents
  /\ \A d, e \in liCache : d.key = e.key => d = e
  /\ liPc \in {"off", "start", "loop", "base", "gate", "fix", "done"}
  /\ scan \in [LiFiles -> {0, 1, NoData}] /\ todo \subseteq LiFiles
  /\ Cardinality(Running) <= liCfg.slots
  /\ verdict \in {"none", "pass", "fail"} /\ liRuns \in 0..LiRuns /\ liEvents \in 0..LiEvents
  /\ \A t \in DOMAIN task : task[t].pc # "none" => t[1] \notin todo \/ liPc = "fix"

\* What a run should have found in the content it read, by feeds older than the run.
Due(t) ==
  IF t[2] = "hygiene" THEN Finds("hygiene", t[1], scan[t[1]])
  ELSE scan[t[1]] = 1 /\ feed < since

Reported(f, m) == \E x \in found : x[1] = f /\ x[2] = m
\* The result came from an entry stored when this other path was checked ...
Astray(t) == task[t].via # NoEntry /\ task[t].via.from # t[1]
\* ... or by a run in which the file changed between the reading of the key and the check:
\* the content of the key is then not the one the result is of.
CrossedEntry(t) == task[t].via # NoEntry /\ task[t].via.of # scan[t[1]]
\* The file changed between the two reads in this run.
CrossedNow(t) == task[t].via = NoEntry /\ task[t].of # scan[t[1]]

\* Whatever is true of a scanned file is reported, or its module reported an error. What
\* another path's entry answers is reported under that path, unless that one is vendored:
\* then its relaxed result hides the finding. A file edited between the two reads of a run
\* is reported as its module read it; and the entry that run leaves, under the key of the
\* older content, is the one thing that hides a finding later (lint/engine.go 307-313,
\* 388-417).
NothingMissed ==
  liPc \in {"base", "gate", "fix"} =>
    \A t \in DOMAIN task :
      (task[t].pc = "done" /\ scan[t[1]] # NoData /\ t \notin erred /\ Due(t)) =>
        \/ Reported(t[1], t[2])
        \/ Astray(t) /\ Reported(task[t].via.from, t[2])
        \/ Astray(t) /\ t[2] = "hygiene" /\ task[t].via.from \in liCfg.vendored
        \/ CrossedEntry(t)
        \/ CrossedNow(t) /\ ~Finds(t[2], t[1], task[t].of)

\* Safe remediation rewrites only authored files, and only what still has the bytes that
\* were scanned when it reads it; an edit made between this read and its write, and no
\* other, is lost (lint/remediation.go 24-36, 68, 107).
RemediationSafe ==
  [][\A f \in LiFiles : (liPc = "fix" /\ liPc' = "gate" /\ content[f] # content'[f]) =>
       /\ f \notin liCfg.vendored
       /\ content[f] = fixing \/ f \in raced
       /\ \E x \in found : x[1] = f /\ x[3] = fixing]_lintVars

\* What a lint run leaves true, with cached results, edits and a changing
\* engine: what is true of a file it scanned is hidden only by the cached result of a
\* vendored twin or of a file that was edited while it was scanned, and a remediation
\* loses no edit but one made while it rewrites the file (lint/engine.go).
LintKeeps ==
  /\ [](LintTypeOK /\ NothingMissed)
  /\ RemediationSafe
=============================================================================
