----------------------------- MODULE K8sInventory -----------------------------
(***************************************************************************)
(* The cluster inventory (k8s/): a sweep lists what a cluster runs, groups *)
(* the workloads into apps, decides who serves them, how they are exposed  *)
(* and which section of the page they belong to, and reconciles the        *)
(* manifest that remembers apps between runs and says which are retired.   *)
(* The cluster changes at any time, also between the lists of one sweep,   *)
(* lists and saves fail, and the manifest of a run may never be committed. *)
(* A name is the sequence of its words between hyphens; an image is a      *)
(* registry host, a path and a tag.                                        *)
(***************************************************************************)
EXTENDS Naturals, FiniteSets, Sequences, SequencesExt, FiniteSetsExt

CONSTANTS
  KiClusters,       \* states of the cluster: [wls, owners, svcs, routes, ings]
  KiConfigs,        \* a sequence of [catalog, bad, places, rules, source, flux, torn]
  KiLetters,        \* words and namespaces in lexical order
  KiShort,          \* words of fewer than three letters
  KiServing,        \* words that say what a workload does for the cluster
  KiBackingImages,  \* paths whose last element names a database, a cache, a queue, ...
  KiBackingPaths,   \* paths that contain such a name anywhere
  KiBackingNames,   \* endings of names, as sequences of words, that say the same
  KiSidecars,       \* paths of sidecar images
  KiGrace, KiTimes, KiEvents

ASSUME InventoryAssumption == KiGrace \in Nat \ {0} /\ KiTimes \in Nat /\ KiEvents \in Nat

VARIABLES
  kiCfg, kiPc,
  kiRuns,      \* what the cluster runs
  kiNow,       \* the time
  kiListed,    \* what the cluster ran when the sweep under way listed the workloads, or 0
  kiAt,        \* when this sweep began
  kiFile,      \* the manifest in the checkout: [ok, apps]
  kiKept,      \* the manifest as committed
  kiMemo,      \* what this process's sweep found
  kiSeen,      \* ghost: when a sweep whose manifest stands last listed an app
  kiEvents

kiVars == <<kiCfg, kiPc, kiRuns, kiNow, kiListed, kiAt, kiFile, kiKept, kiMemo, kiSeen, kiEvents>>

KiFail == kiEvents < KiEvents /\ kiEvents' = kiEvents + 1

-----------------------------------------------------------------------------
(* Apps *)

NoOwner == [kind |-> "", name |-> <<>>, uid |-> ""]
maxOwnerRefDepth == 10

\* The root of a workload's controllers: up through the ReplicaSets that can be read,
\* no further than a controller already met.
walkOwnerRefs(c, w) ==
  LET up(path) ==
        LET at == <<w.ns, Last(path).name>>
        IN IF Last(path).kind = "ReplicaSet" /\ at \in DOMAIN c.owners /\ c.owners[at] # NoOwner
                /\ \A i \in DOMAIN path : path[i].uid # c.owners[at].uid
           THEN Append(path, c.owners[at]) ELSE path
  IN Last(FoldLeft(LAMBDA path, depth : up(path), <<w.owner>>, [depth \in 2..maxOwnerRefDepth |-> depth]))

\* Labels first, then the chart without its version, the root, the workload's own name.
resolveIdentity(c, w) ==
  LET root == walkOwnerRefs(c, w)
      named == <<[src |-> "label/instance", id |-> w.instance], [src |-> "label/name", id |-> w.app],
                 [src |-> "helm", id |-> IF Len(w.chart) > 1 THEN Front(w.chart) ELSE w.chart],
                 [src |-> "ownerRef", id |-> root.name]>>
      first == SelectInSeq(named, LAMBDA n : n.id # <<>>)
  IN IF first = 0 THEN [src |-> "name", id |-> w.name, root |-> ""]
     ELSE [src |-> named[first].src, id |-> named[first].id, root |-> root.uid]

AppKey(ns, id, uid) == [ns |-> ns, id |-> id, uid |-> uid]
NewGroup(src, root, wls) == [src |-> src, root |-> root, wls |-> wls, svcs |-> {}, routes |-> {}]

With(groups, k, g) == [x \in DOMAIN groups \cup {k} |-> IF x = k THEN g ELSE groups[x]]

\* The same identity under another root is another app.
addWorkload(groups, id, w) ==
  LET plain == AppKey(w.ns, id.id, "")
      clash == plain \in DOMAIN groups /\ id.root # "" /\ groups[plain].root \notin {"", id.root}
      key == IF clash THEN AppKey(w.ns, id.id, id.root) ELSE plain
  IN IF key \in DOMAIN groups THEN [groups EXCEPT ![key].wls = Append(@, w)]
     ELSE With(groups, key, NewGroup(id.src, id.root, <<w>>))

discoverWorkloads(c) ==
  FoldLeft(LAMBDA groups, w : addWorkload(groups, resolveIdentity(c, w), w), [k \in {} |-> <<>>], c.wls)

-----------------------------------------------------------------------------
(* Families *)

Letter(w) == SelectInSeq(KiLetters, LAMBDA x : x = w)
LexLess(s, t) ==
  LET differ == {i \in 1..Min({Len(s), Len(t)}) : s[i] # t[i]}
  IN IF differ = {} THEN Len(s) < Len(t) ELSE Letter(s[Min(differ)]) < Letter(t[Min(differ)])
\* By namespace, then identity.
less(k, l) == LexLess(<<k.ns>> \o k.id \o SelectSeq(<<k.uid>>, LAMBDA u : u # ""), <<l.ns>> \o l.id \o SelectSeq(<<l.uid>>, LAMBDA u : u # ""))
InOrder(S) == CHOOSE s \in SetToSeqs(S) : \A i, j \in DOMAIN s : i < j => ~less(s[j], s[i])

genericPrefixDenylist ==
  {"api", "web", "app", "service", "backend", "frontend", "worker", "server", "db", "cache", "proxy", "ingress"}

\* The first word of a name of several; not one that is short or says nothing.
firstSegment(id) == IF Len(id) < 2 \/ id[1] \in KiShort \cup genericPrefixDenylist THEN "" ELSE id[1]

\* The words all names begin with, cut back to a hyphen: a name that is itself the prefix
\* of the others loses its last word.
longestCommonHyphenPrefix(names) ==
  LET common == LongestCommonPrefix(names) IN IF common \in names THEN Front(common) ELSE common

\* Unlabelled workloads of a namespace whose names begin alike are one app, unless a
\* labelled app has that name already.
groupByPrefix(groups) ==
  LET named == {k \in DOMAIN groups : groups[k].src = "name" /\ firstSegment(k.id) # ""}
      alike == {{l \in named : l.ns = k.ns /\ l.id[1] = k.id[1]} : k \in named}
      family(ks) == AppKey((CHOOSE k \in ks : TRUE).ns, longestCommonHyphenPrefix({k.id : k \in ks}), "")
      merged == {ks \in alike : Cardinality(ks) > 1 /\ family(ks) \notin ks
                                /\ (family(ks) \in DOMAIN groups => groups[family(ks)].src = "name")}
      joined(ks) ==
        LET own == IF family(ks) \in DOMAIN groups THEN groups[family(ks)] ELSE NewGroup("prefix", "", <<>>)
        IN [own EXCEPT !.wls = FoldLeft(LAMBDA wls, k : wls \o groups[k].wls, @, InOrder(ks))]
  IN [k \in (DOMAIN groups \ UNION merged) \cup {family(ks) : ks \in merged} |->
        IF \E ks \in merged : family(ks) = k THEN joined(CHOOSE ks \in merged : family(ks) = k) ELSE groups[k]]

-----------------------------------------------------------------------------
(* Services and routes *)

selectorMatches(selector, labels) == selector # {} /\ selector \subseteq labels

\* The one app a service belongs to: it selects a workload of it; the lowest of several.
serviceOwner(groups, s) ==
  LET fit == {k \in DOMAIN groups : k.ns = s.ns /\ \E i \in DOMAIN groups[k].wls : selectorMatches(s.selector, groups[k].wls[i].labels)}
  IN {k \in fit : \A l \in fit \ {k} : less(k, l)}

augmentServices(groups, c) ==
  [k \in DOMAIN groups |-> [groups[k] EXCEPT !.svcs = {s \in c.svcs : k \in serviceOwner(groups, s)}]]

\* The group an object declares where the cluster says apps declare it.
declaredGroup(o, source) == IF source = "annotation" THEN o.annotation ELSE IF source = "label" THEN o.label ELSE ""

serviceIndex(g) == {<<s.ns, s.name>> : s \in g.svcs}

\* One attachment for every host and every reference to a service of the app.
augmentHTTPRoutes(groups, c, source) ==
  [k \in DOMAIN groups |->
    [groups[k] EXCEPT !.routes = @ \cup UNION {UNION
       {{[from |-> <<r.ns, r.name, i>>, host |-> h, gateway |-> r.gateway, class |-> "", group |-> declaredGroup(r, source)] : h \in r.hosts} :
        i \in {j \in DOMAIN r.backends : r.backends[j] \in serviceIndex(groups[k])}} : r \in c.routes}]]

augmentIngresses(groups, c, source) ==
  [k \in DOMAIN groups |->
    [groups[k] EXCEPT !.routes = @ \cup UNION {UNION
       {{[from |-> <<r.ns, r.name, s>>, host |-> h, gateway |-> "", class |-> r.class, group |-> declaredGroup(r, source)] : h \in r.hosts} :
        s \in {t \in r.services : <<r.ns, t>> \in serviceIndex(groups[k])}} : r \in c.ings}]]

\* The most declared group, the lowest of several.
appGroupName(g, source) ==
  LET said == [n \in {declaredGroup(s, source) : s \in g.svcs} \cup {r.group : r \in g.routes} |->
                 Cardinality({s \in g.svcs : declaredGroup(s, source) = n}) + Cardinality({r \in g.routes : r.group = n})]
      names == DOMAIN said \ {""}
      best == {n \in names : \A m \in names \ {n} : said[m] < said[n] \/ (said[m] = said[n] /\ Letter(n) < Letter(m))}
  IN IF best = {} THEN "" ELSE CHOOSE n \in best : TRUE

\* The most reachable type of the services and every address the balanced ones serve.
exposedService(svcs) ==
  LET rank(t) == CASE t = "LoadBalancer" -> 3 [] t = "NodePort" -> 2 [] t = "ClusterIP" -> 1 [] OTHER -> 0
      best == {s.type : s \in {x \in svcs : \A y \in svcs : rank(y.type) <= rank(x.type)}}
  IN [type |-> IF best = {} THEN "" ELSE CHOOSE t \in best : TRUE,
      endpoints |-> UNION {(IF s.status # {} THEN s.status ELSE s.spec) \X s.ports : s \in {x \in svcs : x.type = "LoadBalancer"}}]

-----------------------------------------------------------------------------
(* Exposure *)

\* The rules that match at one precedence; rules of different levels contradict.
resolveMatches(rules, matches, confidence) ==
  IF Cardinality({rules[i].level : i \in matches}) = 1
  THEN [declared |-> rules[Max(matches)].level, confidence |-> confidence, rule |-> Max(matches)]
  ELSE [declared |-> "unknown", confidence |-> "unknown", rule |-> 0]

matchByEndpoint(rules, endpoints) == {i \in DOMAIN rules : rules[i].endpoints \cap endpoints # {}}
matchByGateway(rules, routes) ==
  {i \in DOMAIN rules : \E r \in routes : r.gateway \in rules[i].gateways \/ r.class \in rules[i].classes}
matchByCIDR(rules, endpoints) ==
  {i \in DOMAIN rules : \E e \in endpoints : e[1] \in rules[i].cidr /\ (rules[i].ports # {} => e[2] \in rules[i].ports)}
matchByServiceType(rules, type) == {i \in DOMAIN rules : type \in rules[i].types}

ClassifyExposure(routes, svc, rules) ==
  LET matched == <<matchByEndpoint(rules, svc.endpoints), matchByGateway(rules, routes),
                   matchByCIDR(rules, svc.endpoints), matchByServiceType(rules, svc.type)>>
      first == SelectInSeq(matched, LAMBDA m : m # {})
  IN IF first > 0 THEN resolveMatches(rules, matched[first], <<"exact", "inferred", "inferred", "fallback">>[first])
     ELSE IF routes # {} THEN [declared |-> "unknown", confidence |-> "unknown", rule |-> 0]
     ELSE [declared |-> "cluster", confidence |-> "fallback", rule |-> 0]

-----------------------------------------------------------------------------
(* Records *)

\* What the cluster declares of a namespace; of two declarations the later.
CategoryResolver(places, ns) ==
  LET holds == {i \in DOMAIN places : ns \in places[i].namespaces}
  IN IF holds = {} THEN [declared |-> FALSE, tier |-> ""] ELSE [declared |-> TRUE, tier |-> places[Max(holds)].tier]

\* The images of an app's main containers; a sidecar is none of its own.
extractImagesAndVersion(g) == UNION {{m \in g.wls[i].images : m.path \notin KiSidecars} : i \in DOMAIN g.wls}

\* Every role the code knows is that of something that serves an app.
IsSubordinate(w) ==
  \/ \E m \in w.images : m.path \in KiBackingImages \ KiSidecars
  \/ \E n \in KiBackingNames : IsStrictSuffix(n, w.name)

\* The declared tier, then what Kubernetes and the names say, then routes.
classify(k, g, hosts, place) ==
  IF place.tier # "" THEN place.tier
  ELSE IF \/ k.ns \in {"kube-system", "kube-node-lease", "kube-public"}
          \/ \E i \in DOMAIN k.id : k.id[i] \in KiServing
          \/ \A i \in DOMAIN g.wls : g.wls[i].kind = "DaemonSet"
       THEN "platform"
  ELSE IF hosts # {} THEN "app"
  ELSE IF place.declared THEN "platform" ELSE "unresolved"

\* What the catalog says of an app; it hides what it ignores.
ApplyOverrides(catalog, k, tier) ==
  LET entry == SelectInSeq(catalog, LAMBDA e : e.ns = k.ns /\ e.id = k.id /\ k.uid = "")
  IN IF entry = 0 THEN tier
     ELSE IF catalog[entry].ignore THEN "hidden"
     ELSE IF catalog[entry].tier # "" THEN catalog[entry].tier ELSE tier

buildRecords(groups, cfg) ==
  [k \in DOMAIN groups |->
    LET g == groups[k]
        hosts == {r.host : r \in g.routes} \ {""}
        placed == IF appGroupName(g, cfg.source) # "" THEN "app" ELSE classify(k, g, hosts, CategoryResolver(cfg.places, k.ns))
        label == SelectInSeq(g.wls, LAMBDA w : w.tier # "")
    IN [tier |-> ApplyOverrides(cfg.catalog, k, IF label > 0 THEN g.wls[label].tier ELSE placed),
        components |-> {[name |-> g.wls[i].name, kind |-> g.wls[i].kind, sub |-> IsSubordinate(g.wls[i])] : i \in DOMAIN g.wls},
        images |-> extractImagesAndVersion(g),
        hosts |-> hosts,
        exposure |-> ClassifyExposure(g.routes, exposedService(g.svcs), cfg.rules)]]

\* An app all of whose components serve another is folded into the app of its namespace
\* with the longest name its own continues; with none it stays.
FoldSubordinates(records) ==
  LET subs == {k \in DOMAIN records : \A x \in records[k].components : x.sub}
      above(k) == {p \in DOMAIN records \ subs : p.ns = k.ns /\ p.uid = "" /\ IsStrictPrefix(p.id, k.id)}
      parent(k) == CHOOSE p \in above(k) : \A q \in above(k) : Len(q.id) <= Len(p.id)
      folded(p) == {k \in subs : above(k) # {} /\ parent(k) = p}
  IN [p \in {k \in DOMAIN records : k \in subs => above(k) = {}} |->
       [records[p] EXCEPT !.components = @ \cup UNION {records[k].components : k \in folded(p)},
                          !.images = @ \cup UNION {records[k].images : k \in folded(p)}]]

-----------------------------------------------------------------------------
(* Declared sources *)

Source(k, relation, primary) == [path |-> k.path, width |-> k.width, relation |-> relation, primary |-> primary]

\* The shorter of the first path and a new one is the primary.
Declare(sources, k) ==
  IF \E i \in DOMAIN sources : sources[i].path = k.path THEN sources
  ELSE IF sources = <<>> THEN <<Source(k, "deploys", TRUE)>>
  ELSE IF k.width < sources[1].width
       THEN Append([sources EXCEPT ![1].primary = FALSE], Source(k, "deploys", TRUE))
  ELSE Append(sources, Source(k, "deploys", FALSE))

\* The sources of an app: the Kustomizations of its namespace with its name, or with a
\* path that ends in it, and those they depend on; in the order the map is read.
resolveFluxSources(flux, order, key) ==
  LET depends(k) == SelectSeq(flux, LAMBDA d : <<d.ns, d.name>> \in k.deps /\ d.path # "")
      match(k) == k.ns = key.ns /\ key.uid = "" /\ key.id \in {k.name, k.leaf}
  IN FoldLeft(LAMBDA s, k : IF match(k) THEN Declare(s, k) \o [i \in DOMAIN depends(k) |-> Source(depends(k)[i], "depends_on", FALSE)] ELSE s,
              <<>>, order)

-----------------------------------------------------------------------------
(* The manifest *)

NoApps == [k \in {} |-> 0]

\* The software an app is: the paths of its images but for what runs alongside it.
Products(images) ==
  LET own == {m.path : m \in images} \ KiBackingPaths IN IF own = {} THEN {m.path : m \in images} ELSE own

\* What runs anywhere in the cluster, by name and by product.
Live(recs) ==
  [names |-> {[id |-> k.id, uid |-> k.uid] : k \in DOMAIN recs} \cup UNION {{[id |-> x.name, uid |-> ""] : x \in recs[k].components} : k \in DOMAIN recs},
   products |-> UNION {{m.path : m \in recs[k].images} : k \in DOMAIN recs}]

runsAnywhereByName(k, entry, live) == [id |-> k.id, uid |-> k.uid] \in live.names
runsAnywhere(k, entry, live) ==
  [id |-> k.id, uid |-> k.uid] \in live.names \/ Products(entry.images) \cap live.products # {}

buildObserved(rec) == rec.images

\* An app that is listed is active; one that is not is missing, and retired when it stays
\* so; one whose software runs under another name is forgotten.
ReconcileLifecycle(apps, recs, now) ==
  LET keep == {k \in DOMAIN apps : k \in DOMAIN recs \/ ~runsAnywhere(k, apps[k], Live(recs))}
      absent(e) == CASE e.state = "active" -> [e EXCEPT !.state = "missing", !.since = now]
                     [] e.state = "missing" /\ ~(e.since # 0 /\ now - e.since < KiGrace) -> [e EXCEPT !.state = "graveyard"]
                     [] OTHER -> e
      seen(e, rec) == [state |-> "active", since |-> IF e.state = "active" THEN e.since ELSE 0, images |-> buildObserved(rec)]
  IN [k \in keep \cup DOMAIN recs |->
       IF k \notin DOMAIN apps THEN [state |-> "active", since |-> 0, images |-> buildObserved(recs[k])]
       ELSE IF k \in DOMAIN recs THEN seen(apps[k], recs[k]) ELSE absent(apps[k])]

\* A pass that changes no state is not saved.
Changed(apps, new) == DOMAIN new # DOMAIN apps \/ \E k \in DOMAIN apps : new[k].state # apps[k].state

\* One line for every retired product.
GraveyardFromManifest(apps) ==
  LET gone == {k \in DOMAIN apps : apps[k].state = "graveyard"}
      product(k) == [of |-> Products(apps[k].images), app |-> IF apps[k].images = {} THEN {k} ELSE {}]
  IN {[apps |-> {k \in gone : product(k) = p}, since |-> Max({apps[k].since : k \in {l \in gone : product(l) = p}})] : p \in {product(k) : k \in gone}}

-----------------------------------------------------------------------------
(* A sweep *)

\* What a sweep finds that lists the workloads in one state of the cluster and the rest in
\* another; with gateways and ingresses that it can read or not.
KiSeeds == [at \in DOMAIN KiClusters |-> groupByPrefix(discoverWorkloads(KiClusters[at]))]
Records(cfg, at, then, gateways, ingresses) ==
  LET serving == augmentServices(KiSeeds[at], KiClusters[then])
      routed == IF gateways THEN augmentHTTPRoutes(serving, KiClusters[then], cfg.source) ELSE serving
      groups == IF ingresses THEN augmentIngresses(routed, KiClusters[then], cfg.source) ELSE routed
  IN FoldSubordinates(buildRecords(groups, cfg))
KiFound == [cfg \in {c \in DOMAIN KiConfigs : ~KiConfigs[c].bad}, at \in DOMAIN KiClusters, then \in DOMAIN KiClusters, gateways \in BOOLEAN, ingresses \in BOOLEAN |->
              Records(KiConfigs[cfg], at, then, gateways, ingresses)]

\* What the page lists: apps, platform and unresolved; no hidden app, and none of a tier
\* that is none of the four.
OnPage(recs) == [k \in {l \in DOMAIN recs : recs[l].tier \in {"app", "platform", "unresolved"}} |-> recs[k]]

NoMemo == [done |-> FALSE, ok |-> FALSE, of |-> <<>>, sources |-> NoApps, graveyard |-> {}, saved |-> FALSE]
Failed == [NoMemo EXCEPT !.done = TRUE]
Recs(memo) == KiFound[kiCfg, memo.of[1], memo.of[2], memo.of[3], memo.of[4]]

\* A file that cannot be parsed stays as it is.
LoadManifest == kiFile.apps

SeenAt(k) == IF k \in DOMAIN kiSeen THEN kiSeen[k] ELSE 0
Sight(recs, t) == [k \in DOMAIN kiSeen \cup DOMAIN recs |-> IF k \in DOMAIN recs THEN t ELSE kiSeen[k]]

KiFrom(label) ==
  /\ kiPc = label /\ kiRuns \in DOMAIN KiClusters /\ kiListed = 0 /\ kiNow = 1 /\ kiAt = 1
  /\ kiFile = [ok |-> ~KiConfigs[kiCfg].torn, apps |-> NoApps] /\ kiKept = kiFile
  /\ kiMemo = NoMemo /\ kiSeen = NoApps /\ kiEvents = 0
KiInit == kiCfg \in DOMAIN KiConfigs /\ KiFrom("idle")

\* The cluster changes; time passes.
Evolve(c) ==
  /\ kiPc # "off" /\ KiFail /\ c # kiRuns /\ kiRuns' = c
  /\ UNCHANGED <<kiCfg, kiPc, kiNow, kiListed, kiAt, kiFile, kiKept, kiMemo, kiSeen>>
KiElapse ==
  /\ kiPc = "idle" /\ kiNow < KiTimes /\ kiNow' = kiNow + 1
  /\ UNCHANGED <<kiCfg, kiPc, kiRuns, kiListed, kiAt, kiFile, kiKept, kiMemo, kiSeen, kiEvents>>

\* One sweep per process, for the page and the badge alike. It needs the cluster, the
\* catalog and every list of workloads.
Sweep ==
  /\ kiPc = "idle" /\ ~kiMemo.done
  /\ kiAt' = kiNow
  /\ \/ ~KiConfigs[kiCfg].bad /\ kiPc' = "listed" /\ kiListed' = kiRuns /\ UNCHANGED <<kiMemo, kiEvents>>
     \/ KiConfigs[kiCfg].bad /\ kiPc' = "idle" /\ kiMemo' = Failed /\ UNCHANGED <<kiListed, kiEvents>>
     \/ KiFail /\ kiPc' = "idle" /\ kiMemo' = Failed /\ UNCHANGED kiListed
  /\ UNCHANGED <<kiCfg, kiRuns, kiNow, kiFile, kiKept, kiSeen>>

\* No list of services, no result.
ServicesUnread ==
  /\ kiPc = "listed" /\ KiFail /\ kiPc' = "idle" /\ kiMemo' = Failed /\ kiListed' = 0
  /\ UNCHANGED <<kiCfg, kiRuns, kiNow, kiAt, kiFile, kiKept, kiSeen>>

\* Routes that cannot be read add nothing. A save that fails is not noticed.
Discover(gateways, ingresses, written, order) ==
  /\ kiPc = "listed" /\ kiPc' = "idle" /\ kiListed' = 0
  /\ LET recs == KiFound[kiCfg, kiListed, kiRuns, gateways, ingresses]
         new == ReconcileLifecycle(LoadManifest, OnPage(recs), kiAt)
         save == kiFile.ok /\ Changed(LoadManifest, new)
     IN /\ kiFile' = IF save /\ written THEN [kiFile EXCEPT !.apps = new] ELSE kiFile
        /\ kiMemo' = [done |-> TRUE, ok |-> TRUE, of |-> <<kiListed, kiRuns, gateways, ingresses>>, saved |-> save /\ written,
                      sources |-> [k \in DOMAIN OnPage(recs) |-> resolveFluxSources(KiConfigs[kiCfg].flux, order, k)],
                      graveyard |-> IF kiFile.ok THEN GraveyardFromManifest(new) ELSE {}]
        /\ kiSeen' = IF kiFile.ok /\ ~save THEN Sight(OnPage(recs), kiAt) ELSE kiSeen
  /\ IF gateways /\ ingresses /\ written THEN UNCHANGED kiEvents ELSE KiFail
  /\ UNCHANGED <<kiCfg, kiRuns, kiNow, kiAt, kiKept>>

\* The process ends. What it wrote is committed and pushed, or the next checkout is
\* without it.
Land ==
  /\ kiPc = "idle" /\ kiMemo.done /\ kiKept' = kiFile /\ kiMemo' = NoMemo
  /\ kiSeen' = IF kiMemo.saved THEN Sight(OnPage(Recs(kiMemo)), kiAt) ELSE kiSeen
  /\ UNCHANGED <<kiCfg, kiPc, kiRuns, kiNow, kiListed, kiAt, kiFile, kiEvents>>
Lose ==
  /\ kiPc # "off" /\ KiFail /\ kiFile' = kiKept /\ kiMemo' = NoMemo /\ kiPc' = "idle" /\ kiListed' = 0
  /\ UNCHANGED <<kiCfg, kiRuns, kiNow, kiAt, kiKept, kiSeen>>

KiNext ==
  \/ \E c \in DOMAIN KiClusters : Evolve(c)
  \/ KiElapse \/ Sweep \/ ServicesUnread \/ Land \/ Lose
  \/ \E gateways, ingresses, written \in BOOLEAN, order \in SetToSeqs(Range(KiConfigs[kiCfg].flux)) : Discover(gateways, ingresses, written, order)

KiSpec == KiInit /\ [][KiNext]_kiVars

-----------------------------------------------------------------------------
(* Properties *)

Swept == kiMemo'.ok /\ kiMemo' # kiMemo
KiTurned == [c \in DOMAIN KiConfigs |-> {d \in DOMAIN KiConfigs : ~KiConfigs[d].bad /\ KiConfigs[d] = [KiConfigs[c] EXCEPT !.rules = Reverse(@)]}]

\* An app is retired only when it has not been listed for the whole grace: what stands
\* against it is no older than the last sweep that saw it, whatever was lost between.
RetiredAfterGrace ==
  \A k \in DOMAIN kiKept'.apps :
    kiKept'.apps[k].state = "graveyard" /\ (k \in DOMAIN kiKept.apps => kiKept.apps[k].state # "graveyard")
      => kiAt - SeenAt(k) >= KiGrace

\* The manifest forgets an app only when its name or its software runs under another key.
ForgetsOnlyMoved ==
  \A k \in DOMAIN kiKept.apps \ DOMAIN kiKept'.apps :
    \E l \in DOMAIN OnPage(Recs(kiMemo)) \ {k} :
      LET r == Recs(kiMemo)[l]
      IN \/ l.id = k.id \/ k.id \in {x.name : x \in r.components}
         \/ Products(kiKept.apps[k].images) \cap {m.path : m \in r.images} # {}

\* No page lists an app, a part of one or its software both as running and as retired.
NeverBothRunningAndRetired ==
  Swept => \A line \in kiMemo'.graveyard : \A k \in line.apps : \A l \in DOMAIN OnPage(Recs(kiMemo')) :
    /\ k # l /\ k.id \notin {x.name : x \in Recs(kiMemo')[l].components}
    /\ k \in DOMAIN kiKept.apps => Products(kiKept.apps[k].images) \cap {m.path : m \in Recs(kiMemo')[l].images} = {}

\* Grouping, families and folding place every listed workload in exactly one app.
WorkloadsPlaced ==
  Swept => \A i \in DOMAIN KiClusters[kiMemo'.of[1]].wls :
    LET w == KiClusters[kiMemo'.of[1]].wls[i]
        holds == {k \in DOMAIN Recs(kiMemo') : k.ns = w.ns /\ \E x \in Recs(kiMemo')[k].components : x.name = w.name /\ x.kind = w.kind}
    IN Cardinality(holds) = 1

\* Every app with declared sources has a primary one, and its sources are those of a
\* Kustomization that names it or of what that depends on.
SourcesAuthoritative ==
  Swept => \A k \in DOMAIN kiMemo'.sources : kiMemo'.sources[k] # <<>> =>
    /\ \E s \in Range(kiMemo'.sources[k]) : s.primary
    /\ \A s \in Range(kiMemo'.sources[k]) : s.relation = "deploys" =>
         \E f \in Range(KiConfigs[kiCfg].flux) : f.path = s.path /\ f.ns = k.ns /\ k.id \in {f.name, f.leaf}

\* No rule decides because it comes first: with the rules the other way round every app
\* is exposed alike.
RuleOrderIrrelevant ==
  Swept => \A cfg \in KiTurned[kiCfg] :
    LET of == kiMemo'.of
        turned == KiFound[cfg, of[1], of[2], of[3], of[4]]
    IN \A k \in DOMAIN turned : turned[k].exposure.declared = Recs(kiMemo')[k].exposure.declared

InventorySafe ==
  /\ RetiredAfterGrace /\ ForgetsOnlyMoved /\ NeverBothRunningAndRetired
  /\ WorkloadsPlaced /\ SourcesAuthoritative /\ RuleOrderIrrelevant

\* The inventory keeps its word about what runs, what is retired and since when.
InventoryKeeps == [][InventorySafe]_kiVars
=============================================================================
