------------------------------ MODULE MCEstate ------------------------------
(* What changes hosts and other services, for TLC: governance, gitops and  *)
(* compose reconciles, the disk prune; the configuration that routes a run *)
(* to its targets; and the inventory of a cluster.  They share no state,   *)
(* so every behaviour is about one of them while the others stay as they   *)
(* start.                                                                  *)
EXTENDS Governance, GitopsReconcile, ComposeReconcile, DiskPrune, Routing, K8sInventory

VARIABLE part      \* the component this behaviour is about

-----------------------------------------------------------------------------
(* Governance *)
E(r, q, o, a) == [repo |-> r, prof |-> q, over |-> o, asset |-> a]
\* Two repositories, one of them with an override or with an asset; one repository that
\* two profiles name; a version that does not load.
MCGvConfigs ==
  {[catalog |-> <<E("a", "p", TRUE, FALSE), E("b", "p", FALSE, TRUE)>>, bad |-> {}],
   [catalog |-> <<E("a", "p", FALSE, FALSE), E("b", "q", FALSE, FALSE)>>, bad |-> {2}],
   [catalog |-> <<E("a", "p", FALSE, FALSE), E("a", "q", FALSE, FALSE)>>, bad |-> {}]}
MCGvInit == gvCfg \in MCGvConfigs /\ GvFrom("idle")

-----------------------------------------------------------------------------
(* GitopsReconcile *)
Doc(k, p, d) == [key |-> k, path |-> p, deps |-> d]
Docs == {
  <<Doc(1, "a", {2}), Doc(2, "b", {3}), Doc(3, "c", {})>>,
  <<Doc(1, "a", {}), Doc(2, "b", {1}), Doc(1, "", {2}), Doc(3, "b", {2})>>,
  <<Doc(1, "", {2}), Doc(2, "a", {}), Doc(3, "b", {9})>>,
  <<Doc(1, "a", {2}), Doc(2, "b", {1}), Doc(3, "c", {1}), Doc(4, "b", {})>>,
  <<>> }
Play(i, h, r) == [id |-> i, hosts |-> h, required |-> r]
PlaySets == { <<>>, <<Play("p", {"h1", "h2"}, TRUE), Play("q", {"h1"}, FALSE)>> }
GrMC == [docs : Docs, root : {"ok", "empty", "crash", "invalid", "crd", "unparsable"}, bad : {"b"},
         tool : {"ok", "absent", "pinned"}, plays : PlaySets, creds : {TRUE}, ca64 : {TRUE}, ref : {"hand", "default"}, dry : BOOLEAN]
        \cup [docs : {Head(<<x>>) : x \in {<<Doc(1, "a", {})>>}}, root : {"ok"}, bad : {"b"},
         tool : {"ok"}, plays : PlaySets, creds : BOOLEAN, ca64 : BOOLEAN, ref : {"default", "other"}, dry : BOOLEAN]
GrInit == grCfg \in GrMC /\ GrFrom("audition")

-----------------------------------------------------------------------------
(* ComposeReconcile *)
Inventory == [k \in {"site", "web", "lab"} |->
  IF k = "site" THEN [hosts |-> {}, kids |-> {"web"}] ELSE IF k = "web" THEN [hosts |-> {"h"}, kids |-> {}] ELSE [hosts |-> {"g"}, kids |-> {"site"}]]
Estate(on, st, dm, org, orp, conf, th) ==
  [inv |-> Inventory, groups |-> {"site"}, on |-> on, stacks |-> st, daemon |-> dm, origin |-> org, orphan |-> orp, confirm |-> conf, threshold |-> th]
One == {<<"h", "a">>}
Two == {<<"h", "a">>, <<"g", "b">>}
CrMC == { Estate("local", Two, TRUE, TRUE, "down", FALSE, 0), Estate("h", Two, FALSE, TRUE, "prune", TRUE, 1),
          Estate("local", Two, TRUE, TRUE, "prune", FALSE, 1), Estate("h", One, FALSE, FALSE, "down", FALSE, 0),
          Estate("h", One, TRUE, TRUE, "down", FALSE, 0) }
CrInit == crCfg \in CrMC /\ CrFrom("idle")

-----------------------------------------------------------------------------
(* DiskPrune *)
Keep == [NoRules EXCEPT !.keep = 1, !.shapes = {"series", "rolling"}]
Pol == [targets |-> <<Keep>>,
        pin |-> "t1", toolKeep |-> 1, gcMax |-> 0, gcAge |-> 0, gcMin |-> 2, cacheMax |-> 1, unitAge |-> 10,
        gate |-> 9, target |-> 0, host |-> FALSE, adopt |-> {"x1", "x2"}, adoptKeep |-> 1]
Img(i, o, s, b, m, p) == [id |-> i, repo |-> o, shape |-> s, branch |-> b, made |-> m, pulled |-> p]
Third == {Img("x1", "x", "other", "m", 3, 4), Img("x2", "x", "other", "m", 6, 19)}
Gens == {Img("a", "own", "series", "m", 5, 5), Img("b", "own", "series", "m", 14, 14), Img("c", "own", "series", "m", 15, 15),
         Img("d", "own", "series", "d", 8, 8), Img("e", "own", "series", "d", 10, 10), Img("l", "own", "rolling", "m", 15, 15),
         Img("r", "own", "rolling", "d", 10, 10), Img("z", "own", "series", "m", 0, 2)}
U(i, l, r) == [id |-> i, last |-> l, rec |-> r]
T(i, l, p, m) == [id |-> i, last |-> l, pinned |-> p, meta |-> m]
HostOf(p, gens) ==
  [pol |-> p, images |-> gens \cup Third,
   units |-> {U("u1", 2, TRUE), U("u2", 12, TRUE), U("u3", 15, TRUE), U("u4", 3, FALSE)},
   files |-> {[id |-> "f1", last |-> 4], [id |-> "f2", last |-> 16], [id |-> "f3", last |-> 19]},
   tools |-> {T("t1", 3, 0, TRUE), T("t2", 9, 9, TRUE), T("t3", 12, 0, TRUE), T("t4", 10, 4, TRUE), T("t5", 1, 0, FALSE)}]
\* The cache, the toolchains and the daemon's budget, over a few images.
HostConfigs ==
  {HostOf([Pol EXCEPT !.gcMax = g, !.gcAge = a, !.gate = l, !.host = h],
          {Img("a", "own", "series", "m", 5, 5), Img("l", "own", "rolling", "m", 15, 15)}) :
     g \in {0, 1}, a \in {0, 12}, l \in {7, 9}, h \in BOOLEAN}
  \cup {HostOf([Pol EXCEPT !.target = 20, !.gcMax = 2], {}), HostOf([Pol EXCEPT !.gate = 13], {}),
        HostOf([Pol EXCEPT !.target = 11], {})}
\* The retention grammar, over more, and over a repository of somebody else's of the same name.
Namesake == {Img("n", "namesake", "series", "m", 4, 4), Img("o", "namesake", "series", "m", 6, 6)}
Target(r, b, v) ==
  [keep |-> r[1], daily |-> r[2], maxAge |-> r[3], weekly |-> r[4], branches |-> b, devKeep |-> v, protect |-> {"d"},
   shapes |-> {"series", "rolling"}]
GenConfigs(targets) ==
  {[HostOf([Pol EXCEPT !.targets = t], Gens \cup Namesake) EXCEPT !.units = {}, !.files = {}, !.tools = {}] : t \in targets}
MCDpConfigs ==
  HostConfigs \cup GenConfigs(
    {<<Target(r, b, v)>> : r \in {<<1, 0, 0, 0>>, <<2, 0, 0, 0>>, <<1, 2, 0, 0>>, <<1, 0, 8, 0>>, <<1, 0, 0, 2>>}, b \in {0, 1}, v \in {0, 2}}
    \cup {<<Target(<<0, 0, 8, 0>>, b, 0)>> : b \in {0, 1}}
    \cup {<<Keep, Target(<<2, 1, 0, 0>>, 0, 2)>>, <<Target(<<0, 1, 8, 0>>, 0, 0), Keep>>,
          <<[Keep EXCEPT !.shapes = {"rolling"}], [NoRules EXCEPT !.shapes = {"series"}]>>})
MCDpInit == dpCfg \in MCDpConfigs /\ DpFrom("plan")

-----------------------------------------------------------------------------
(* Routing *)
Tok(text) == [neg |-> FALSE, re |-> FALSE, text |-> text]
Except(text) == [neg |-> TRUE, re |-> FALSE, text |-> text]
Free == [events |-> {}, tags |-> {}, branches |-> {}, forges |-> {}, schedules |-> {}]
Tgt(id, kind, when) ==
    [id |-> id, kind |-> kind, build |-> "", registry |-> <<>>, url |-> "", path |-> "", repos |-> <<>>, repo |-> "",
     archives |-> "", version |-> "", provider |-> "", tag |-> "", profile |-> "", dir |-> "", when |-> when]
OnMain == {[Free EXCEPT !.branches = {Tok("main")}, !.events = {"push", "schedule"}]}
OnStable == {[Free EXCEPT !.tags = {Tok("stable")}, !.events = {"tag"}]}

RtBase ==
    [forges |-> <<[id |-> "lab", provider |-> "gitlab", url |-> "u"]>>,
     repos |-> <<[id |-> "src", forge |-> "lab", project |-> "{var:x}", roles |-> {"primary"}, default |-> "main", sync |-> "", only |-> {}],
                 [id |-> "cp", forge |-> "lab", project |-> "p", roles |-> {"mirror"}, default |-> "", sync |-> "git", only |-> {}]>>,
     registries |-> <<[id |-> "hub", provider |-> "docker", url |-> "h"]>>,
     profiles |-> <<[id |-> "kms1", class |-> "kms", block |-> "kms", provider |-> "vault"]>>,
     tags |-> <<[id |-> "stable", pattern |-> "v.*"], [id |-> "pre", pattern |-> "rc.*"]>>,
     branches |-> <<[id |-> "main", pattern |-> "^main$"], [id |-> "feat", pattern |-> "^feat$"]>>,
     rules |-> <<[id |-> "default", match |-> "", base |-> <<"pre", "stable">>], [id |-> "trunk", match |-> "main", base |-> <<"stable">>]>>,
     builds |-> <<[id |-> "bin", kind |-> "binary", builder |-> "go", from |-> "f", stage |-> "", deps |-> {}],
                  [id |-> "img", kind |-> "docker", builder |-> "", from |-> "", stage |-> "bin", deps |-> {"bin"}]>>,
     targets |-> <<[Tgt("image", "registry", OnMain) EXCEPT !.build = "img", !.registry = <<"hub">>, !.profile = "kms1"],
                   [Tgt("rel", "release", OnStable) EXCEPT !.repos = <<"cp">>],
                   [Tgt("pkg", "generic-package", {[Free EXCEPT !.branches = {Tok("main"), Except("feat")}]})
                        EXCEPT !.repo = "src", !.archives = "a", !.version = "x"]>>,
     notes |-> <<[id |-> "chat", provider |-> "ntfy", url |-> "n", when |-> {}, outcomes |-> {"failure"}]>>,
     globals |-> [profile |-> "", providers |-> {"vault"}, schedules |-> {"weekly"}, var |-> "org"]]
\* A second repository: a channel, a release target for every tag, an inline
\* registry, pages, metadata, no version rules.
RtSecond ==
    [RtBase EXCEPT !.rules = <<>>, !.repos[2].sync = "all",
        !.targets = <<[Tgt("chan", "release", {[Free EXCEPT !.events = {"push"}]}) EXCEPT !.repos = <<"src">>, !.tag = "dev1"],
                      [Tgt("inline", "registry", OnMain) EXCEPT !.build = "img", !.url = "h", !.path = "p"],
                      [Tgt("every", "release", {}) EXCEPT !.repos = <<"src">>],
                      [Tgt("site", "pages", {}) EXCEPT !.provider = "github", !.dir = "d"],
                      [Tgt("about", "metadata", OnMain) EXCEPT !.repos = <<"src">>]>>]
\* No identity section at all, what referred to it left behind.
RtBare == [RtBase EXCEPT !.forges = <<>>, !.repos = <<>>, !.registries = <<>>]
RtConfigsMC == {RtBase, RtSecond, RtBare}

RtValuesMC ==
    [forges |-> [id |-> {"hub", "f2"}, url |-> {""}],
     repos |-> [forge |-> {"", "f2"}, project |-> {"", "{var:x}"}, roles |-> {{}, {"mirror"}, {"primary"}, {"primary", "mirror"}},
                sync |-> {"", "all", "git", "releases"}, id |-> {"cp", "src"}, only |-> {{"stable"}, {"pre"}}],
     registries |-> [url |-> {"", "{var:x}"}, id |-> {"lab"}],
     profiles |-> [block |-> {""}, class |-> {"key", "nope"}, provider |-> {"", "p2"}],
     tags |-> [pattern |-> {"", "(", ".*"}, id |-> {"pre"}],
     branches |-> [pattern |-> {"(", ".*"}],
     rules |-> [id |-> {"trunk", "default"}, match |-> {"", "main", "feat", "gone"}, base |-> {<<>>, <<"stable", "pre">>, <<"gone">>}],
     builds |-> [kind |-> {"docker", "binary"}, stage |-> {"img", "gone"}, deps |-> {{"img"}, {"gone"}}],
     targets |-> [registry |-> {<<>>, <<"gone">>}, url |-> {"u"}, path |-> {"p"}, repo |-> {"", "gone"}, repos |-> {<<"cp">>, <<"gone">>, <<"src", "cp">>},
                  profile |-> {"", "gone"}, tag |-> {"dev1"}, build |-> {"", "gone"},
                  when |-> {{}, OnStable, {[Free EXCEPT !.branches = {Except("feat")}]}, {[Free EXCEPT !.branches = {Tok("mian")}]},
                            {[Free EXCEPT !.schedules = {"weekly"}]}, {[Free EXCEPT !.schedules = {"gone"}]}, {[Free EXCEPT !.forges = {"github"}]}}],
     notes |-> [outcomes |-> {{}, {"meh"}}, when |-> {OnMain}],
     globals |-> [profile |-> {"kms1", "gone"}, schedules |-> {{}}, var |-> {"", "{var:x}", "undeclared"}]]

RtTagOrderMC == <<"rc3", "v2", "v1">>
RtNames == {"v1", "v2", "rc3", "dev1", "main", "feat"}
RtMatchMC == [x \in {"v.*", "rc.*", ".*", "^main$", "^feat$", "mian", "feat", "main", "stable", "pre"} |->
    CASE x = "v.*" -> {"v1", "v2"} [] x = "rc.*" -> {"rc3"} [] x = ".*" -> RtNames [] x \in {"^main$", "main"} -> {"main"}
      [] x \in {"^feat$", "feat"} -> {"feat"} [] OTHER -> {}]
Env(event, branch) == [sfTag |-> "", ciTag |-> "", event |-> event, branch |-> branch, refName |-> "", provider |-> "gitlab", fired |-> {}, outcome |-> "failure"]
RtEnvsMC == {Env("push", "main"), Env("web", "feat"), [Env("schedule", "main") EXCEPT !.fired = {"weekly"}],
             [Env("push", "") EXCEPT !.ciTag = "v1"], [Env("push", "") EXCEPT !.sfTag = "rc3", !.refName = "rc3", !.provider = "github", !.outcome = "success"]}

-----------------------------------------------------------------------------
(* K8sInventory *)
Im(host, path) == [host |-> host, path |-> path, tag |-> "1"]
Wl(ns, name, kind, image) ==
  [ns |-> ns, name |-> name, kind |-> kind, instance |-> <<>>, app |-> <<>>, chart |-> <<>>, owner |-> NoOwner,
   images |-> {Im("", image)}, labels |-> {name[Len(name)]}, tier |-> ""]
Svc(ns, name, selector, type) ==
  [ns |-> ns, name |-> name, selector |-> selector, type |-> type, status |-> {}, spec |-> {"ip1"}, ports |-> {80, 443}, annotation |-> "", label |-> ""]
Http(ns, name, gateway, backends) == [ns |-> ns, name |-> name, gateway |-> gateway, hosts |-> {"h"}, backends |-> backends, annotation |-> "", label |-> ""]
Ingr(ns, name, class, services) == [ns |-> ns, name |-> name, class |-> class, hosts |-> {"i"}, services |-> services, annotation |-> "", label |-> ""]
Owned(kind, name, uid) == [kind |-> kind, name |-> name, uid |-> uid]

Jelly == [Wl("media", <<"jelly">>, "Deployment", "jelly") EXCEPT !.instance = <<"jelly">>]
JellyRedis == Wl("media", <<"jelly", "redis">>, "StatefulSet", "redis")
ErpWeb == Wl("media", <<"erp", "web">>, "Deployment", "erp")
ErpJob == [Wl("media", <<"erp", "job">>, "Deployment", "erp") EXCEPT !.images = @ \cup {Im("ghcr", "mesh")}]
Exporter == Wl("kube-system", <<"exporter">>, "DaemonSet", "exporter")
Pair(name, owner) == [Wl("data", name, "StatefulSet", "pg") EXCEPT !.app = <<"pair">>, !.owner = owner]
Running(wls, svcs, routes, ings) ==
  [wls |-> wls, svcs |-> svcs, routes |-> routes, ings |-> ings,
   owners |-> [r \in {<<"data", <<"rs1">>>>, <<"data", <<"rs2">>>>} |->
                 IF r[2] = <<"rs1">> THEN Owned("ReplicaSet", <<"rs2">>, "u2") ELSE Owned("ReplicaSet", <<"rs1">>, "u1")]]
MCKiClusters == <<
  \* A family, an app with its cache, what serves the nodes.
  Running(<<ErpJob, ErpWeb, Jelly, JellyRedis, [JellyRedis EXCEPT !.name = @ \o <<"redis">>], Exporter>>,
          {Svc("media", "jelly", {"jelly"}, "LoadBalancer"), [Svc("media", "erp", {"web"}, "ClusterIP") EXCEPT !.annotation = "tools"]},
          {Http("media", "j", "edge", <<<<"media", "jelly">>, <<"media", "jelly">>>>)},
          {[Ingr("media", "e", "inner", {"erp"}) EXCEPT !.annotation = "work"]}),
  \* One of the family labelled, the cache alone.
  Running(<<ErpJob, [ErpWeb EXCEPT !.instance = <<"erp">>], JellyRedis, Exporter>>,
          {Svc("media", "any", {"redis"}, "NodePort")}, {}, {}),
  \* The app's software under another name; two of one name, one hidden; controllers in a circle.
  Running(<<[Jelly EXCEPT !.ns = "data", !.name = <<"base">>, !.chart = <<"base", "v1">>, !.instance = <<>>],
            Pair(<<"pg", "one">>, Owned("ReplicaSet", <<"rs1">>, "u1")),
            [Pair(<<"pg", "two">>, Owned("Cluster", <<"big">>, "u3")) EXCEPT !.tier = "hidden"]>>, {}, {}, {}),
  \* The family beside an app of its name.
  Running(<<Exporter, Wl("media", <<"erp">>, "Deployment", "erp"), ErpWeb, ErpJob>>, {}, {}, {}) >>

Rule(level) == [level |-> level, endpoints |-> {}, gateways |-> {}, classes |-> {}, cidr |-> {}, ports |-> {}, types |-> {}]
Rules == <<[Rule("internet") EXCEPT !.gateways = {"edge"}, !.endpoints = {<<"ip2", 80>>}],
           [Rule("intranet") EXCEPT !.classes = {"inner"}, !.cidr = {"ip1"}, !.ports = {443}, !.gateways = {"edge"}],
           [Rule("cluster") EXCEPT !.types = {"NodePort", "ClusterIP"}]>>
Kust(name, leaf, path, width, deps) == [ns |-> "media", name |-> name, leaf |-> leaf, path |-> path, width |-> width, deps |-> deps]
Flux == <<Kust(<<"jelly">>, <<"x">>, "long", 4, {<<"media", <<"base">>>>}), Kust(<<"j">>, <<"jelly">>, "p", 1, {}), Kust(<<"base">>, <<"base">>, "base", 4, {})>>
KiBase == [catalog |-> <<>>, bad |-> FALSE, places |-> <<>>, rules |-> Rules, source |-> "annotation", flux |-> Flux, torn |-> FALSE]
MCKiConfigs ==
  <<KiBase, [KiBase EXCEPT !.rules = Reverse(Rules)],
   [KiBase EXCEPT !.rules = <<>>, !.flux = <<>>, !.source = "",
      !.places = <<[namespaces |-> {"media", "data"}, tier |-> ""], [namespaces |-> {"data"}, tier |-> "app"]>>,
      !.catalog = <<[ns |-> "media", id |-> <<"erp">>, tier |-> "", ignore |-> TRUE], [ns |-> "media", id |-> <<"jelly">>, tier |-> "platform", ignore |-> FALSE]>>],
   [KiBase EXCEPT !.bad = TRUE], [KiBase EXCEPT !.torn = TRUE, !.flux = <<>>, !.rules = <<>>] >>
MCKiLetters == <<"base", "data", "erp", "exporter", "jelly", "job", "kube-system", "media", "one", "pair", "pg", "redis", "tools", "two", "u1", "u2", "u3", "web", "work">>
MCKiBackingNames == {<<"redis">>}
MCKiInit == kiCfg \in DOMAIN MCKiConfigs \ {2} /\ KiFrom("idle")

-----------------------------------------------------------------------------
GovernanceIdle == gvCfg = (CHOOSE c \in MCGvConfigs : TRUE) /\ GvFrom("off")
GitopsIdle == grCfg = (CHOOSE c \in GrMC : TRUE) /\ GrFrom("off")
ComposeIdle == crCfg = (CHOOSE c \in CrMC : TRUE) /\ CrFrom("off")
PruneIdle == dpCfg = (CHOOSE c \in MCDpConfigs : TRUE) /\ DpFrom("off")
RoutingIdle == rtCfg = (CHOOSE c \in RtConfigs : TRUE) /\ RtFrom("off")
InventoryIdle == kiCfg = 1 /\ kiRuns = 1 /\ KiFrom("off")

EstateInit ==
    \/ part = "governance" /\ MCGvInit /\ GitopsIdle /\ ComposeIdle /\ PruneIdle /\ RoutingIdle /\ InventoryIdle
    \/ part = "gitops" /\ GrInit /\ GovernanceIdle /\ ComposeIdle /\ PruneIdle /\ RoutingIdle /\ InventoryIdle
    \/ part = "compose" /\ CrInit /\ GovernanceIdle /\ GitopsIdle /\ PruneIdle /\ RoutingIdle /\ InventoryIdle
    \/ part = "prune" /\ MCDpInit /\ GovernanceIdle /\ GitopsIdle /\ ComposeIdle /\ RoutingIdle /\ InventoryIdle
    \/ part = "routing" /\ RtInit /\ GovernanceIdle /\ GitopsIdle /\ ComposeIdle /\ PruneIdle /\ InventoryIdle
    \/ part = "inventory" /\ MCKiInit /\ GovernanceIdle /\ GitopsIdle /\ ComposeIdle /\ PruneIdle /\ RoutingIdle

EstateNext ==
    \/ part = "governance" /\ GvNext /\ UNCHANGED <<part, grVars, crVars, dpVars, rtVars, kiVars>>
    \/ part = "gitops" /\ GrNext /\ UNCHANGED <<part, gvVars, crVars, dpVars, rtVars, kiVars>>
    \/ part = "compose" /\ CrNext /\ UNCHANGED <<part, gvVars, grVars, dpVars, rtVars, kiVars>>
    \/ part = "prune" /\ DpNext /\ UNCHANGED <<part, gvVars, grVars, crVars, rtVars, kiVars>>
    \/ part = "routing" /\ RtNext /\ UNCHANGED <<part, gvVars, grVars, crVars, dpVars, kiVars>>
    \/ part = "inventory" /\ KiNext /\ UNCHANGED <<part, gvVars, grVars, crVars, dpVars, rtVars>>

estateVars == <<part, gvVars, grVars, crVars, dpVars, rtVars, kiVars>>

EstateSpec ==
    /\ EstateInit /\ [][EstateNext]_estateVars
    /\ CrFair

\* EstateSettles of the behaviours that are about compose.
EstateSettled == part = "compose" => EstateSettles
=============================================================================
