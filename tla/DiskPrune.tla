------------------------------ MODULE DiskPrune -------------------------------
(***************************************************************************)
(* prune: the disk lifecycle of a runner host (cli/cmd/prune.go, prune/,   *)
(* retention/, toolchain/prune.go). A pass plans its actions and takes     *)
(* them in order: images of the daemon, entries of the Go build cache,     *)
(* cache units, toolchain versions, units under pressure, the repository's *)
(* own image generations and the images the operator declared. Jobs use    *)
(* the same host meanwhile; the leases of units are in UnitLease, and a    *)
(* unit is here evicted unless leased. Times are half days, and all things *)
(* have size one.                                                          *)
(***************************************************************************)
EXTENDS Naturals, FiniteSets, Sequences, FiniteSetsExt, SequencesExt

CONSTANTS
  Today,       \* the time of the pass; 0 stands for a time that cannot be parsed
  DpEvents     \* uses by jobs, and failures

ASSUME PruneAssumption == Today \in Nat \ {0} /\ DpEvents \in Nat

VARIABLES
  dpCfg, dpPc,
  units,       \* cache units: [id, last, rec]
  cacheFiles,  \* entries of the Go build cache: [id, last]
  tools,       \* toolchain versions: [id, last, pinned, meta]
  images,      \* tagged images: [id, repo, shape, branch, made, pulled]
  inUse,       \* images of containers
  jobs,        \* another run holds the cache root
  leased,      \* units that run has leased
  rootLock,    \* of this pass: "none", "held", "busy"
  dpPlan,      \* kinds of action planned
  queue,       \* ids the current action has yet to look at
  view,        \* what the action listed
  viewUse,     \* the images it found in use
  dpErr,       \* an action reported an error
  gone,        \* ghost: what the pass removed: <<action, thing>>
  touched,     \* ghost: ids used, pulled or run since the action listed them, or not removable
  dpEvents

dpHost == <<units, cacheFiles, tools, images, inUse, jobs, leased>>
dpAct == <<queue, view, viewUse>>
dpVars == <<dpCfg, dpPc, dpHost, rootLock, dpPlan, dpAct, dpErr, gone, touched, dpEvents>>

\* What a registry target declares: keep, daily, weekly, maxAge, branches: rules, 0 is off;
\* devKeep: a scoped rule for branch d; protect: ids; shapes: what its templates make.
RetentionPolicy ==
  [keep : Nat, daily : Nat, weekly : Nat, maxAge : Nat, branches : Nat, devKeep : Nat,
   protect : SUBSET STRING, shapes : SUBSET {"series", "rolling"}]
NoRules ==
  [keep |-> 0, daily |-> 0, weekly |-> 0, maxAge |-> 0, branches |-> 0, devKeep |-> 0, protect |-> {}, shapes |-> {}]

\* pin, toolKeep: of the toolchains. gcMax, gcAge, gcMin: of the daemon's images. cacheMax,
\* unitAge, target, gate: of the cache root, the gate being the mark where no target is given.
\* host: declared clean-up is authorised, of the images in adopt, of which adoptKeep stay.
DpPolicies ==
  [targets : Seq(RetentionPolicy), pin : STRING, toolKeep : Nat, gcMax : Nat, gcAge : Nat, gcMin : Nat, cacheMax : Nat,
   unitAge : Nat, gate : Nat, target : Nat, host : BOOLEAN, adopt : SUBSET STRING, adoptKeep : Nat]

DpFail == dpEvents < DpEvents /\ dpEvents' = dpEvents + 1
DpOk == UNCHANGED dpEvents

\* What the host starts from is in the configuration: [pol, units, files, tools, images].
DpFrom(label) ==
  /\ dpPc = label
  /\ units = dpCfg.units /\ cacheFiles = dpCfg.files /\ tools = dpCfg.tools /\ images = dpCfg.images
  /\ inUse = {} /\ jobs = FALSE /\ leased = {} /\ rootLock = "none" /\ dpPlan = {}
  /\ queue = {} /\ view = {} /\ viewUse = {} /\ dpErr = FALSE /\ gone = {} /\ touched = {} /\ dpEvents = 0

-----------------------------------------------------------------------------
(* The jobs *)

JobStart ==
  /\ DpOk /\ ~jobs /\ rootLock # "held" /\ jobs' = TRUE
  /\ UNCHANGED <<dpCfg, dpPc, units, cacheFiles, tools, images, inUse, leased, rootLock, dpPlan, dpAct, dpErr, gone, touched>>

JobEnd ==
  /\ DpOk /\ jobs /\ jobs' = FALSE /\ leased' = {}
  /\ UNCHANGED <<dpCfg, dpPc, units, cacheFiles, tools, images, inUse, rootLock, dpPlan, dpAct, dpErr, gone, touched>>

JobUsesUnit(u) ==
  /\ DpFail /\ jobs /\ u.rec
  /\ leased' = leased \cup {u.id} /\ units' = (units \ {u}) \cup {[u EXCEPT !.last = Today]}
  /\ touched' = touched \cup {u.id}
  /\ UNCHANGED <<dpCfg, dpPc, cacheFiles, tools, images, inUse, jobs, rootLock, dpPlan, dpAct, dpErr, gone>>

JobUsesFile(f) ==
  /\ DpFail /\ jobs /\ f.last # Today
  /\ cacheFiles' = (cacheFiles \ {f}) \cup {[f EXCEPT !.last = Today]} /\ touched' = touched \cup {f.id}
  /\ UNCHANGED <<dpCfg, dpPc, units, tools, images, inUse, jobs, leased, rootLock, dpPlan, dpAct, dpErr, gone>>

\* Anyone on the host may run a container, or pull an image again.
HostRuns(i) ==
  /\ DpFail /\ inUse' = inUse \cup {i.id} /\ touched' = touched \cup {i.id}
  /\ UNCHANGED <<dpCfg, dpPc, units, cacheFiles, tools, images, jobs, leased, rootLock, dpPlan, dpAct, dpErr, gone>>

HostPulls(i) ==
  /\ DpFail /\ i.pulled # Today
  /\ images' = (images \ {i}) \cup {[i EXCEPT !.pulled = Today]} /\ touched' = touched \cup {i.id}
  /\ UNCHANGED <<dpCfg, dpPc, units, cacheFiles, tools, inUse, jobs, leased, rootLock, dpPlan, dpAct, dpErr, gone>>

-----------------------------------------------------------------------------
(* The retention grammar *)

Ids(S) == {x.id : x \in S}
Newer(S, x) == {y \in S : y.made > x.made}

\* The newest of each of the newest n buckets that hold anything; what has no time has none.
ApplyTimeBucket(S, n, width) ==
  {x \in S : /\ x.made # 0
             /\ ~ \E y \in Newer(S, x) : y.made \div width = x.made \div width
             /\ Cardinality({y.made \div width : y \in Newer(S, x)}) < n}

ApplyPolicies(S, keep, p) ==
  {x \in S : keep > 0 /\ Cardinality(Newer(S, x)) < keep}
  \cup {x \in S : p.maxAge > 0 /\ x.made # 0 /\ x.made + p.maxAge > Today}
  \cup (IF p.daily > 0 THEN ApplyTimeBucket(S, p.daily, 2) ELSE {})
  \cup (IF p.weekly > 0 THEN ApplyTimeBucket(S, p.weekly, 14) ELSE {})

\* A scoped rule replaces the rule of its name for the names it matches.
Effective(p, branch) == IF branch = "d" /\ p.devKeep > 0 THEN p.devKeep ELSE p.keep
ApplyPoliciesScoped(S, p) ==
  LET dev == {x \in S : x.branch = "d"}
  IN IF p.devKeep = 0 THEN ApplyPolicies(S, p.keep, p)
     ELSE ApplyPolicies(dev, Effective(p, "d"), p) \cup ApplyPolicies(S \ dev, Effective(p, "m"), p)

Seqs(p) == p.keep > 0 \/ p.daily > 0 \/ p.weekly > 0 \/ p.maxAge > 0 \/ p.devKeep > 0
Active(p) == Seqs(p) \/ p.branches > 0

\* A group: what one template made for one branch.
groupKey(x) == <<x.shape, x.branch>>
newestOf(G) == Max({x.made : x \in G})

\* keep_branches: the groups of a template beyond the most recently active ones.
Dropped(S, p) ==
  {k \in {groupKey(x) : x \in S} :
     LET Of(key) == {x \in S : groupKey(x) = key}
         rivals == {l \in {groupKey(x) : x \in S} : l[1] = k[1] /\ newestOf(Of(l)) > newestOf(Of(k))}
     IN p.branches > 0 /\ Cardinality(rivals) >= p.branches}

active(p) == SelectSeq(p.targets, Active)
\* One policy for the stream: that of the target with the largest keep_last, whole; of
\* targets with other rules only none is taken, and three generations stay.
imageStreamKeepLast == 3
imageStreamPolicy(p) ==
  LET larger(best, t) == IF t.keep > best.keep THEN t ELSE best
      policy == FoldLeft(larger, NoRules, active(p))
  IN IF Active(policy) THEN policy ELSE [NoRules EXCEPT !.keep = imageStreamKeepLast]

InScope(S, shapes) == {x \in S : x.shape \in shapes}
Retained(S, p) ==
  LET free == {x \in S : x.id \notin p.protect}
      live == {x \in free : groupKey(x) \notin Dropped(free, p)}
      Of(key) == {x \in live : groupKey(x) = key}
  IN (S \ free)
     \cup {x \in live : x.shape = "rolling" \/ ~Seqs(p)}
     \cup UNION {ApplyPoliciesScoped(Of(k), p) : k \in {groupKey(x) : x \in {y \in live : y.shape = "series"}}}

-----------------------------------------------------------------------------
(* The pass *)

Host == Cardinality(units) + Cardinality(cacheFiles) + Cardinality(tools)

Order == <<"gc", "go", "units", "tools", "press", "stream", "declared">>
Following(k, plan) ==
  LET i == IF k = "plan" THEN 0 ELSE CHOOSE j \in DOMAIN Order : Order[j] = k
      later == {j \in DOMAIN Order : j > i /\ Order[j] \in plan}
  IN IF later = {} THEN "end" ELSE Order[Min(later)]

AuthorisedByName(p) == p.adopt # {}
Authorised(p) == p.host /\ p.adopt # {}
\* Pressure is relieved from the high mark on, down to the low one.
pressureHysteresis == 1
pressureGate(p) == IF p.target = 0 THEN p.gate ELSE p.target
Low(p) == pressureGate(p) - pressureHysteresis

\* Below the target only the daemon's images have a plan.
Plan ==
  /\ dpPc = "plan" /\ DpOk
  /\ LET p == dpCfg.pol
         daemon == IF p.gcMax > 0 \/ p.gcAge > 0 THEN {"gc"} ELSE {}
     IN dpPlan' = IF p.target > 0 /\ Host < p.target THEN daemon
                  ELSE daemon
                       \cup (IF cacheFiles # {} THEN {"go"} ELSE {}) \cup {"units", "tools"}
                       \cup (IF Host >= pressureGate(p) THEN {"press"} ELSE {})
                       \cup (IF active(p) # <<>> THEN {"stream"} ELSE {})
                       \cup (IF Authorised(p) THEN {"declared"} ELSE {})
  /\ dpPc' = Following("plan", dpPlan')
  /\ UNCHANGED <<dpCfg, dpHost, rootLock, dpAct, dpErr, gone, touched>>

\* The cache root is taken with the first action of the cache, where no other run holds it,
\* and released with the last one.
TakeRoot ==
  rootLock' = IF rootLock # "none" THEN rootLock ELSE IF jobs THEN "busy" ELSE "held"
LastLocked(k) == dpPlan \cap {"go", "units", "tools", "press"} \cap {Order[j] : j \in {i \in DOMAIN Order : \E l \in DOMAIN Order : Order[l] = k /\ i > l}} = {}

Lists(S, next) == view' = S /\ queue' = Ids(S) /\ touched' = {} /\ dpPc' = next

\* Images first, then containers, then the size of the store: three calls; a failure of any
\* ends the action.
daemonImages ==
  /\ dpPc = "gc"
  /\ \/ DpOk /\ Lists(images, "gcUse") /\ UNCHANGED dpErr
     \/ DpFail /\ dpErr' = TRUE /\ dpPc' = Following("gc", dpPlan) /\ UNCHANGED <<view, queue, touched>>
  /\ UNCHANGED <<dpCfg, dpHost, rootLock, dpPlan, viewUse, gone>>

imagesInUse ==
  /\ dpPc = "gcUse"
  /\ \/ DpOk /\ viewUse' = inUse /\ dpPc' = "gcSize" /\ UNCHANGED dpErr
     \/ DpFail /\ dpErr' = TRUE /\ dpPc' = Following("gc", dpPlan) /\ UNCHANGED viewUse
  /\ UNCHANGED <<dpCfg, dpHost, rootLock, dpPlan, queue, view, gone, touched>>

imageStoreBytes ==
  /\ dpPc = "gcSize"
  /\ \/ DpOk /\ dpPc' = "gcEach" /\ UNCHANGED dpErr
     \/ DpFail /\ dpErr' = TRUE /\ dpPc' = Following("gc", dpPlan)
  /\ UNCHANGED <<dpCfg, dpHost, rootLock, dpPlan, dpAct, gone, touched>>

Seen(id) == CHOOSE x \in view : x.id = id
Oldest(by(_)) == CHOOSE x \in {Seen(i) : i \in queue} : \A y \in {Seen(i) : i \in queue} : by(x) <= by(y)

\* The store is over budget, or the image too old.
GcWants(x) ==
  \/ dpCfg.pol.gcAge > 0 /\ x.pulled + dpCfg.pol.gcAge < Today
  \/ dpCfg.pol.gcMax > 0 /\ Cardinality(images) > dpCfg.pol.gcMax
GcSpares(x) == x.id \in viewUse \/ x.pulled + dpCfg.pol.gcMin > Today
\* The daemon refuses to remove an image that a container uses.
Refuses(id) == id \in inUse

\* Least recently pulled first, until one is neither too old nor needed for the budget. For
\* the budget the store is measured again after each removal, and the action ends where
\* that fails.
pruneDaemonImages ==
  /\ dpPc = "gcEach" /\ queue # {}
  /\ LET x == Oldest(LAMBDA i : i.pulled) IN
     IF GcSpares(x) THEN queue' = queue \ {x.id} /\ DpOk /\ UNCHANGED <<images, gone, touched, dpErr>>
     ELSE IF ~GcWants(x) THEN queue' = {} /\ DpOk /\ UNCHANGED <<images, gone, touched, dpErr>>
     ELSE /\ \/ /\ ~Refuses(x.id)
                /\ images' = {i \in images : i.id # x.id} /\ gone' = gone \cup {<<"gc", x.id>>}
                /\ \/ DpOk /\ queue' = queue \ {x.id} /\ UNCHANGED dpErr
                   \/ dpCfg.pol.gcMax > 0 /\ DpFail /\ queue' = {} /\ dpErr' = TRUE
             \/ DpOk /\ Refuses(x.id) /\ queue' = queue \ {x.id} /\ UNCHANGED <<images, gone, dpErr>>
             \/ DpFail /\ queue' = queue \ {x.id} /\ UNCHANGED <<images, gone, dpErr>>
          /\ touched' = (IF images' = images THEN touched \cup {x.id} ELSE touched)
  /\ UNCHANGED <<dpCfg, dpPc, units, cacheFiles, tools, inUse, jobs, leased, rootLock, dpPlan, view, viewUse>>

EndAction(label, k) ==
  /\ dpPc = label /\ queue = {} /\ DpOk /\ dpPc' = Following(k, dpPlan)
  /\ rootLock' = IF k \in {"go", "units", "tools", "press"} /\ LastLocked(k) THEN "none" ELSE rootLock
  /\ UNCHANGED <<dpCfg, dpHost, dpPlan, dpAct, dpErr, gone, touched>>

\* With another run about, only what was not used for a day goes.
listFiles ==
  /\ dpPc = "go" /\ DpOk /\ TakeRoot /\ Lists(cacheFiles, "goEach")
  /\ UNCHANGED <<dpCfg, dpHost, dpPlan, viewUse, dpErr, gone>>

evictFilesLRU ==
  /\ dpPc = "goEach" /\ queue # {}
  /\ LET f == Oldest(LAMBDA x : x.last) IN
     IF (rootLock = "busy" /\ f.last + 2 > Today) \/ Cardinality(cacheFiles) <= dpCfg.pol.cacheMax
     THEN queue' = {} /\ DpOk /\ UNCHANGED <<cacheFiles, gone, dpErr>>
     ELSE /\ queue' = queue \ {f.id}
          /\ \/ /\ DpOk /\ cacheFiles' = {x \in cacheFiles : x.id # f.id} /\ gone' = gone \cup {<<"go", f.id>>}
                /\ UNCHANGED dpErr
             \/ DpFail /\ dpErr' = TRUE /\ UNCHANGED <<cacheFiles, gone>>
  /\ UNCHANGED <<dpCfg, dpPc, units, tools, images, inUse, jobs, leased, rootLock, dpPlan, view, viewUse, touched>>

discoverUnits(label, next) ==
  /\ dpPc = label /\ DpOk /\ TakeRoot /\ Lists(units, next)
  /\ UNCHANGED <<dpCfg, dpHost, dpPlan, viewUse, dpErr, gone>>

EvictUnit(action, u) ==
  \/ /\ DpOk /\ u.id \notin leased
     /\ units' = {x \in units : x.id # u.id} /\ gone' = gone \cup {<<action, u.id>>} /\ UNCHANGED <<dpErr, touched>>
  \/ DpOk /\ u.id \in leased /\ UNCHANGED <<units, gone, dpErr, touched>>
  \/ DpFail /\ dpErr' = TRUE /\ touched' = touched \cup {u.id} /\ UNCHANGED <<units, gone>>

\* With no record of its use, a directory goes only while no other run is about.
Evictable(u) == u.last + dpCfg.pol.unitAge < Today /\ (u.rec \/ rootLock = "held")

evictUnits ==
  /\ dpPc = "unitEach"
  /\ \E id \in queue :
       /\ queue' = queue \ {id}
       /\ IF Evictable(Seen(id)) THEN EvictUnit("unit", Seen(id)) ELSE DpOk /\ UNCHANGED <<units, gone, dpErr, touched>>
  /\ UNCHANGED <<dpCfg, dpPc, cacheFiles, tools, images, inUse, jobs, leased, rootLock, dpPlan, view, viewUse>>

-----------------------------------------------------------------------------
(* Toolchains *)

\* The versions with the latest uses; those never used so have no rank.
keptBy(S, at(_), n) ==
  {v \in S : at(v) # 0 /\ Cardinality({w \in S : at(w) > at(v)}) < n}

PlanVersionRetention ==
  LET S == {v \in tools : v.meta}
      n == IF dpCfg.pol.toolKeep = 0 THEN 2 ELSE dpCfg.pol.toolKeep
  IN {v \in S : /\ v \notin keptBy(S, LAMBDA x : x.last, n) \cup keptBy(S, LAMBDA x : x.pinned, n)
                /\ v.id # dpCfg.pol.pin}

listVersions ==
  /\ dpPc = "tools" /\ DpOk /\ TakeRoot /\ Lists(PlanVersionRetention, "toolEach")
  /\ UNCHANGED <<dpCfg, dpHost, dpPlan, viewUse, dpErr, gone>>

evictVersions ==
  /\ dpPc = "toolEach" /\ queue # {}
  /\ LET id == CHOOSE i \in queue : TRUE IN
       /\ queue' = queue \ {id}
       /\ \/ DpOk /\ tools' = {v \in tools : v.id # id} /\ gone' = gone \cup {<<"tool", id>>} /\ UNCHANGED dpErr
          \/ DpFail /\ dpErr' = TRUE /\ UNCHANGED <<tools, gone>>
  /\ UNCHANGED <<dpCfg, dpPc, units, cacheFiles, images, inUse, jobs, leased, rootLock, dpPlan, view, viewUse, touched>>

-----------------------------------------------------------------------------
(* Pressure *)

\* Least recently used first, until the disk is down to the low mark. What has no record
\* stays; what is leased is passed over.
evictUnderPressure ==
  /\ dpPc = "pressEach" /\ queue # {}
  /\ LET u == Oldest(LAMBDA x : x.last) IN
     IF Host <= Low(dpCfg.pol) THEN queue' = {} /\ DpOk /\ UNCHANGED <<units, gone, dpErr, touched>>
     ELSE /\ queue' = queue \ {u.id}
          /\ IF u.rec THEN EvictUnit("pressure", u) ELSE DpOk /\ UNCHANGED <<units, gone, dpErr, touched>>
  /\ UNCHANGED <<dpCfg, dpPc, cacheFiles, tools, images, inUse, jobs, leased, rootLock, dpPlan, view, viewUse>>

-----------------------------------------------------------------------------
(* Image generations *)

\* The last component of a repository's name is the project's: a repository somebody else
\* owns may have the same.
OfStream(x) == x.repo \in {"own", "namesake"}

\* The local copies of what repositories of this name publish, each by itself, by its own
\* targets' retention. Without a daemon the action is skipped.
pruneImageStream ==
  /\ dpPc = "stream" /\ UNCHANGED viewUse
  /\ LET p == dpCfg.pol
         shapes == UNION {t.shapes : t \in ToSet(active(p))}
         stream == {i \in images : OfStream(i)}
         beyond(repo) == LET S == InScope({i \in stream : i.repo = repo}, shapes) IN S \ Retained(S, imageStreamPolicy(p))
     IN /\ view' = stream /\ touched' = {} /\ dpPc' = "streamEach"
        /\ \/ DpOk /\ queue' = UNION {Ids(beyond(i.repo)) : i \in stream}
           \/ DpFail /\ queue' = {}
  /\ UNCHANGED <<dpCfg, dpHost, rootLock, dpPlan, dpErr, gone>>

\* Third-party images go only where the operator has named them and allowed it.
pruneDeclaredImages ==
  /\ dpPc = "declared" /\ UNCHANGED viewUse
  /\ LET adopted == {i \in images : i.id \in dpCfg.pol.adopt} IN
     /\ view' = adopted /\ touched' = {} /\ dpPc' = "declaredEach"
     /\ \/ DpOk /\ queue' = Ids(adopted \ ApplyPolicies(adopted, dpCfg.pol.adoptKeep, NoRules))
        \/ DpFail /\ queue' = {}
  /\ UNCHANGED <<dpCfg, dpHost, rootLock, dpPlan, dpErr, gone>>

\* One repository after the other, newest first.
RemoveImage(label, action) ==
  /\ dpPc = label
  /\ \E repo \in {Seen(i).repo : i \in queue} :
       LET of == {Seen(i) : i \in queue} \cap {x \in view : x.repo = repo}
           id == (CHOOSE x \in of : \A y \in of : y.made <= x.made).id
       IN /\ queue' = queue \ {id}
          /\ \/ /\ DpOk /\ ~Refuses(id)
                /\ images' = {i \in images : i.id # id} /\ gone' = gone \cup {<<action, id>>} /\ UNCHANGED dpErr
             \/ DpOk /\ Refuses(id) /\ dpErr' = TRUE /\ UNCHANGED <<images, gone>>
             \/ DpFail /\ dpErr' = TRUE /\ UNCHANGED <<images, gone>>
  /\ UNCHANGED <<dpCfg, dpPc, units, cacheFiles, tools, inUse, jobs, leased, rootLock, dpPlan, view, viewUse, touched>>

-----------------------------------------------------------------------------
DpStep ==
  \/ Plan
  \/ daemonImages \/ imagesInUse \/ imageStoreBytes \/ pruneDaemonImages \/ EndAction("gcEach", "gc")
  \/ listFiles \/ evictFilesLRU \/ EndAction("goEach", "go")
  \/ discoverUnits("units", "unitEach") \/ evictUnits \/ EndAction("unitEach", "units")
  \/ listVersions \/ evictVersions \/ EndAction("toolEach", "tools")
  \/ discoverUnits("press", "pressEach") \/ evictUnderPressure \/ EndAction("pressEach", "press")
  \/ pruneImageStream \/ RemoveImage("streamEach", "stream") \/ EndAction("streamEach", "stream")
  \/ pruneDeclaredImages \/ RemoveImage("declaredEach", "declared") \/ EndAction("declaredEach", "declared")

DpNext ==
  \/ DpStep \/ JobStart \/ JobEnd
  \/ \E u \in units : JobUsesUnit(u)
  \/ \E f \in cacheFiles : JobUsesFile(f)
  \/ \E i \in images : HostRuns(i) \/ HostPulls(i)

-----------------------------------------------------------------------------
(* Properties *)

Went(action) == {g[2] : g \in {h \in gone : h[1] = action}}
Was(S, id) == CHOOSE x \in S : x.id = id

\* Nothing is both there and removed, nothing appears that the host did not have, and an
\* action works only on what it listed.
DpTypeOK ==
  /\ Ids(units) \cup Went("unit") \cup Went("pressure") = Ids(dpCfg.units)
  /\ Ids(units) \cap (Went("unit") \cup Went("pressure")) = {}
  /\ Ids(tools) = Ids(dpCfg.tools) \ Went("tool") /\ Ids(cacheFiles) = Ids(dpCfg.files) \ Went("go")
  /\ Ids(images) = Ids(dpCfg.images) \ (Went("gc") \cup Went("stream") \cup Went("declared"))
  /\ queue \subseteq Ids(view) /\ leased \subseteq Ids(dpCfg.units)
  /\ rootLock \in {"none", "held", "busy"} /\ (rootLock = "held" => ~jobs)
  /\ dpErr \in BOOLEAN /\ dpEvents \in 0..DpEvents

\* No step takes an image away from a container, and for the daemon's budget none goes that
\* was pulled within the declared age, so that it survives until its container starts
\* (unless it was pulled after the images were listed).
ImagesNeededSurvive ==
  [][\A i \in images : i.id \notin Ids(images') =>
       /\ i.id \notin inUse
       /\ dpPc = "gcEach" => i.pulled + dpCfg.pol.gcMin <= Today \/ i.id \in touched]_dpVars

\* When the daemon's images have been gone through, the store is within its budget, or all
\* that is left was in use, new, used meanwhile, or could not be removed; or its size could
\* not be read again on the way, and the action says so.
BudgetIsMet ==
  dpPc = "gcEach" /\ queue = {} =>
    \/ dpErr \/ dpCfg.pol.gcMax = 0 \/ Cardinality(images) <= dpCfg.pol.gcMax
    \/ \A i \in images : i.id \in viewUse \cup touched \/ i.pulled + dpCfg.pol.gcMin > Today

\* With another run about, no build-cache entry used within the last day goes, and a
\* directory without a record of its use goes only while there is no other run.
ColdWhileBusy ==
  [][/\ rootLock = "busy" => \A f \in cacheFiles \ cacheFiles' : f.id \in touched \cup Ids(cacheFiles') \/ f.last + 2 <= Today
     /\ \A u \in units : u.id \notin Ids(units') /\ ~u.rec => ~jobs]_dpVars

\* Under pressure a unit goes only when every recorded unit used less recently is gone, is
\* leased or used since, or could not be removed, and only while the disk is over its low mark.
LeastRecentFirst ==
  [][\A u \in units :
       u.id \notin Ids(units') /\ dpPc = "pressEach" =>
         /\ Host > Low(dpCfg.pol)
         /\ u.id \notin touched => \A w \in units : w.rec /\ w.id \notin leased \cup touched => w.last >= u.last]_dpVars

\* The version this repository pins survives, and so do the version used last of all and
\* the one used last by a run that pins it; versions of unknown provenance are left alone.
ToolchainsSurvive ==
  \A id \in Went("tool") :
    LET v == Was(dpCfg.tools, id) IN
    /\ v.meta /\ id # dpCfg.pol.pin
    /\ \E w \in tools : w.last > v.last
    /\ v.pinned > 0 => \E w \in tools : w.pinned > v.pinned

\* The rules that govern the stream: all those of the first target with the largest
\* keep_last, and of no other; three generations where no target has a keep_last.
Governing ==
  LET targets == dpCfg.pol.targets
      best == {i \in DOMAIN targets : targets[i].keep > 0 /\ \A j \in DOMAIN targets : targets[j].keep <= targets[i].keep}
  IN IF best = {} THEN [NoRules EXCEPT !.keep = imageStreamKeepLast] ELSE targets[Min(best)]

\* What retention removes of the published generations is beyond every rule that governs
\* the stream: it is not protected, and either its branch is retired, as many others having
\* newer tags of that template, or it is of a series with as many newer ones of its own
\* repository and branch left as the rule says, too old for the age rule, and with a newer
\* one of its day or days enough. The age or the protection another target declares does
\* not govern (prune/plan.go 220-235).
BeyondEveryRule ==
  dpPc = "streamEach" =>
  \A id \in Went("stream") :
    LET p == Governing
        x == Was(view, id)
        kind == {y \in images : y.repo = x.repo /\ y.shape = x.shape}
        newer == {y \in kind : y.branch = x.branch /\ y.made > x.made}
        retired == p.branches > 0 /\ Cardinality({y.branch : y \in kind} \ {x.branch}) >= p.branches
    IN /\ \E i \in DOMAIN dpCfg.pol.targets : x.shape \in dpCfg.pol.targets[i].shapes
       /\ id \notin p.protect
       /\ ~retired =>
            /\ x.shape = "series" /\ Seqs(p)
            /\ Cardinality(newer) >= Effective(p, x.branch)
            /\ p.maxAge > 0 => x.made = 0 \/ x.made + p.maxAge <= Today
            /\ p.daily > 0 /\ x.made # 0 =>
                 \/ \E y \in newer : y.made \div 2 = x.made \div 2
                 \/ Cardinality({y.made \div 2 : y \in newer}) >= p.daily

\* An image of another's repository is removed only by the declared budget of the daemon,
\* where the operator named it and allowed clean-up of the host, or as one of a repository
\* whose name ends as this project's does (prune/execute.go 486-491).
OwnershipRespected ==
  /\ \A id \in Went("stream") : Was(dpCfg.images, id).repo \in {"own", "namesake"}
  /\ \A id \in Went("declared") : dpCfg.pol.host /\ id \in dpCfg.pol.adopt
  /\ Went("gc") # {} => dpCfg.pol.gcMax > 0 \/ dpCfg.pol.gcAge > 0

\* What a prune leaves true of the host: the budget is met where it can be,
\* pinned toolchains survive, what goes is beyond every rule that governs it and
\* of a repository of the project's name or adopted, images in use survive, busy
\* caches lose only cold entries, the least recently used goes first
\* (prune/execute.go, prune/plan.go, config/retention.go).
PruneKeeps ==
  /\ [](DpTypeOK /\ BudgetIsMet /\ ToolchainsSurvive)
  /\ [](BeyondEveryRule /\ OwnershipRespected)
  /\ ImagesNeededSurvive
  /\ ColdWhileBusy
  /\ LeastRecentFirst
=============================================================================
