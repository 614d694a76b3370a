------------------------------ MODULE Routing -------------------------------
(***************************************************************************)
(* The configuration as a graph of names and how a run follows it.  Forges,*)
(* repositories, registries, signing profiles, tag sources, branch         *)
(* matchers, builds and schedules are declared under ids; targets, version *)
(* rules and notifications refer to them.  Validate refuses a              *)
(* configuration; a run of an accepted one derives its version, selects    *)
(* the targets its event routes to and looks their references up.          *)
(*                                                                         *)
(* The owner edits one field or drops one entry at a time.  Scalars are    *)
(* strings, "" when unset; a pattern stands for the names it matches.      *)
(***************************************************************************)
EXTENDS Naturals, Sequences, FiniteSets, SequencesExt

CONSTANTS
    RtConfigs,    \* the configurations the owner starts from
    RtValues,     \* section -> field -> the values an edit may give it
    RtTagOrder,   \* every tag, newest version first
    RtMatch,      \* text -> the tags and branches it matches as a regular expression
    RtBadText,    \* the texts that do not compile
    RtPlain,      \* the texts that are identifiers
    RtSemver,     \* the tags that are semantic versions
    RtEnvs,       \* environments of CI runs
    RtEdits, RtRuns, RtPushes   \* bounds: edits, runs, tags pushed

ASSUME RtBoundsAssumption == {RtEdits, RtRuns, RtPushes} \subseteq Nat

VARIABLES
    rtCfg,        \* the configuration in the repository
    rtTags,       \* the tags of the repository
    rtAt,         \* "off", "idle", "loaded", "versioned", "routed"
    rtEnv,        \* the environment of the run
    rtVersion,    \* its version: [kind, tag, source]
    rtTo,         \* the targets and notifications it is routed to
    rtGate,       \* whether the release subsystem runs
    rtReached,    \* repositories released to, by "target" or by "mirror"
    rtErrs,       \* lookups that failed
    rtEdits, rtRuns, rtPushes
rtVars == <<rtCfg, rtTags, rtAt, rtEnv, rtVersion, rtTo, rtGate, rtReached, rtErrs, rtEdits, rtRuns, rtPushes>>

NoVersion == [kind |-> "none", tag |-> "", source |-> ""]
RtFrom(at) ==
    /\ rtCfg \in RtConfigs /\ rtTags = {} /\ rtAt = at /\ rtEnv \in {CHOOSE e \in RtEnvs : TRUE}
    /\ rtVersion = NoVersion /\ rtTo = {} /\ rtGate = FALSE /\ rtReached = {} /\ rtErrs = {}
    /\ rtEdits = 0 /\ rtRuns = 0 /\ rtPushes = 0
RtInit == RtFrom("idle")

RtIds(seq) == {seq[i].id : i \in DOMAIN seq}
RtEntries(seq) == {seq[i] : i \in DOMAIN seq}
Unique(seq) == \A i, j \in DOMAIN seq : seq[i].id = seq[j].id => i = j
Named(seq) == Unique(seq) /\ "" \notin RtIds(seq)
ById(seq, id) == CHOOSE e \in RtEntries(seq) : e.id = id

---------------------------------------------------------------------------
(* config/match.go *)

Compiles(text) == text \notin RtBadText
\* A text that does not compile matches itself.
Regex(text, value) == IF Compiles(text) THEN value \in RtMatch[text] ELSE text = value

\* A token is [neg, re, text]; an identifier stands for its declared pattern.
ResolveToken(tok, named) ==
    IF ~tok.re /\ tok.text \in RtPlain \cap RtIds(named) THEN ById(named, tok.text).pattern ELSE tok.text

\* Excludes are checked first; then, with no includes, everything passes.
MatchPatterns(tokens, value, named) ==
    /\ \A t \in tokens : t.neg => ~Regex(ResolveToken(t, named), value)
    /\ (\A t \in tokens : t.neg) \/ \E t \in tokens : ~t.neg /\ Regex(ResolveToken(t, named), value)

---------------------------------------------------------------------------
(* config/target_match.go: the run's environment and when: *)

CITag(env) == IF env.sfTag # "" THEN env.sfTag ELSE env.ciTag
NormalizeEvent(raw) ==
    CASE raw \in {"web", "api", "trigger", "manual", "workflow_dispatch"} -> "manual"
      [] raw \in {"push", "individualci"} -> "push"
      [] raw \in {"schedule", "scheduled", "cron"} -> "schedule"
      [] OTHER -> raw
CIEvent(env) ==
    IF CITag(env) # "" THEN "tag" ELSE IF NormalizeEvent(env.event) # "" THEN NormalizeEvent(env.event) ELSE "push"
CIBranch(env) == IF env.branch # "" THEN env.branch ELSE env.refName

\* A condition [events, tags, branches, forges, schedules], each a set, empty
\* when it does not restrict.  The tag patterns bind only a run that has a tag.
ConditionEligibility(c, env, tag, cfg) ==
    /\ c.events = {} \/ CIEvent(env) \in c.events
    /\ c.tags = {} \/ tag = "" \/ MatchPatterns(c.tags, tag, cfg.tags)
    /\ c.branches = {} \/ MatchPatterns(c.branches, CIBranch(env), cfg.branches)
    /\ c.forges = {} \/ env.provider \in c.forges
    /\ c.schedules = {} \/ c.schedules \cap env.fired # {}
TargetEligibility(when, env, tag, cfg) ==
    when = {} \/ \E c \in when : ConditionEligibility(c, env, tag, cfg)
TargetIsUnconditional(t) ==
    \A c \in t.when : c.events = {} /\ c.tags = {} /\ c.branches = {} /\ c.forges = {}

NotificationEligibility(n, env, cfg) ==
    (n.outcomes = {} \/ env.outcome \in n.outcomes) /\ TargetEligibility(n.when, env, CITag(env), cfg)

---------------------------------------------------------------------------
(* config/sync.go: the facets a sync block turns on *)

DecodeSync(form) ==
    CASE form = "" -> {} [] form = "all" -> {"branches", "tags", "releases"} [] form = "git" -> {"branches", "tags"} [] OTHER -> {form}
SyncsReleases(repo) == "releases" \in DecodeSync(repo.sync)
ReleaseInScope(repo, tag, cfg) ==
    repo.only = {} \/ \E s \in RtEntries(cfg.tags) : s.id \in repo.only /\ Compiles(s.pattern) /\ tag \in RtMatch[s.pattern]

---------------------------------------------------------------------------
(* config/forges.go, resolve.go: the identity graph *)

ValidateIdentityGraph(cfg) ==
    /\ Named(cfg.forges) /\ \A x \in RtEntries(cfg.forges) : x.provider # "" /\ x.url # ""
    /\ Named(cfg.repos)
    /\ \A r \in RtEntries(cfg.repos) :
         /\ r.forge \in RtIds(cfg.forges) /\ r.project # ""
         /\ r.roles \subseteq {"primary", "mirror", "publish-origin"}
         /\ ~({"primary", "mirror"} \subseteq r.roles)
         /\ "primary" \in r.roles => r.default # ""
         /\ DecodeSync(r.sync) # {} => "mirror" \in r.roles
    /\ cfg.repos # <<>> => Cardinality({r \in RtEntries(cfg.repos) : "primary" \in r.roles}) = 1
    /\ Cardinality({r \in RtEntries(cfg.repos) : "publish-origin" \in r.roles}) <= 1
    /\ Named(cfg.registries) /\ \A x \in RtEntries(cfg.registries) : x.provider # "" /\ x.url # ""
    /\ RtIds(cfg.forges) \cap RtIds(cfg.registries) = {}

ValidateTargetRegistryRefs(cfg) ==
    \A t \in RtEntries(cfg.targets) :
        /\ t.registry # <<>> => Range(t.registry) \subseteq RtIds(cfg.registries) /\ t.url = "" /\ t.provider = ""
        /\ t.kind = "registry" /\ t.registry = <<>> => t.url # "" /\ t.path # ""

\* A release reaches a repository by a target or by the mirror pass, not both.
ValidateTargetRepoRefs(cfg) ==
    \A t \in RtEntries(cfg.targets) :
        /\ t.kind = "generic-package" /\ t.repo # "" => t.repo \in RtIds(cfg.repos)
        /\ t.kind = "release" => \A id \in Range(t.repos) : id \in RtIds(cfg.repos) /\ ~SyncsReleases(ById(cfg.repos, id))

ResolveRepo(cfg, id) == id \in RtIds(cfg.repos) /\ ById(cfg.repos, id).forge \in RtIds(cfg.forges)
ResolveRegistryForTarget(cfg, t) == t.registry # <<>> /\ t.registry[1] \in RtIds(cfg.registries)
MirrorRepos(cfg) == {r \in RtEntries(cfg.repos) : "mirror" \in r.roles}
ResolvePrimary(cfg) == \E r \in RtEntries(cfg.repos) : "primary" \in r.roles /\ ResolveRepo(cfg, r.id)

---------------------------------------------------------------------------
(* config/signing.go *)

LegacyProfile == "legacy"
ValidateSigningProfiles(cfg) ==
    /\ Named(cfg.profiles)
    /\ \A p \in RtEntries(cfg.profiles) :
         /\ p.class \in {"key", "oidc", "kms", "hardware"}
         /\ p.block \in {"", p.class}
         /\ p.class \in {"key", "kms"} => p.block # ""
ValidateSigningRefs(cfg) ==
    LET known == RtIds(cfg.profiles) \cup {"", LegacyProfile} IN
    /\ \A t \in RtEntries(cfg.targets) : t.profile \in known
    /\ cfg.globals.profile \in known
    /\ \A p \in RtEntries(cfg.profiles) : p.block = "kms" /\ p.provider # "" => p.provider \in cfg.globals.providers
ResolveSigningProfileForTarget(cfg, t, default) ==
    (CHOOSE id \in {t.profile, default, LegacyProfile} :
        id = IF t.profile # "" THEN t.profile ELSE IF default # "" THEN default ELSE LegacyProfile)
        \in RtIds(cfg.profiles) \cup {LegacyProfile}

---------------------------------------------------------------------------
(* config/validate.go *)

ValidateTagSources(cfg) ==
    /\ Named(cfg.tags) /\ \A s \in RtEntries(cfg.tags) : s.id \in RtPlain /\ s.pattern # "" /\ Compiles(s.pattern)
    /\ \A r \in RtEntries(cfg.repos) : SyncsReleases(r) => r.only \subseteq RtIds(cfg.tags)
ValidateBranches(cfg) ==
    \A b \in RtEntries(cfg.branches) : b.id \in RtPlain /\ b.pattern # "" /\ Compiles(b.pattern)

ValidateBranchBuilds(cfg) ==
    /\ Named(cfg.rules)
    /\ \A i \in DOMAIN cfg.rules : LET r == cfg.rules[i] IN
         /\ IF r.id = "default" THEN r.match = ""
            ELSE r.match \in RtIds(cfg.branches) /\ \A j \in DOMAIN cfg.rules : j # i => cfg.rules[j].match # r.match
         /\ r.base # <<>> /\ Range(r.base) \subseteq RtIds(cfg.tags) /\ IsInjective(r.base)
    /\ cfg.rules # <<>> => "default" \in RtIds(cfg.rules)

ValidateBuilds(cfg) ==
    /\ Named(cfg.builds)
    /\ \A b \in RtEntries(cfg.builds) :
         /\ b.kind \in {"docker", "binary", "command"}
         /\ b.kind = "binary" => b.builder # "" /\ b.from # "" /\ b.stage = ""
         /\ b.kind # "binary" => b.builder = ""
         /\ b.kind = "docker" => b.from = ""
ValidateBuildRefs(cfg) ==
    \A b \in RtEntries(cfg.builds) :
        /\ b.deps \subseteq RtIds(cfg.builds) \ {b.id}
        /\ b.stage # "" => b.stage \in RtIds(cfg.builds) /\ ById(cfg.builds, b.stage).kind = "binary"

\* Which fields a kind of target must and must not set.
IsSet(t, field) == IF field \in {"registry", "repos"} THEN t[field] # <<>> ELSE t[field] # ""
Requires(kind) ==
    CASE kind \in {"registry", "binary-archive"} -> {"build"} [] kind = "release" -> {"repos"}
      [] kind = "generic-package" -> {"repo", "archives", "version"} [] kind = "pages" -> {"provider"} [] OTHER -> {}
Forbids(kind) ==
    CASE kind = "metadata" -> {"build"} [] kind = "release" -> {"provider", "url", "build"}
      [] kind = "binary-archive" -> {"url", "path"} [] kind = "generic-package" -> {"build", "provider", "url", "tag", "path"}
      [] kind = "pages" -> {"url", "path", "registry", "repo"} [] OTHER -> {}
ValidateTarget(t) ==
    /\ \A x \in Requires(t.kind) : IsSet(t, x)
    /\ \A x \in Forbids(t.kind) : ~IsSet(t, x)
    /\ t.kind = "registry" /\ t.registry = <<>> => t.url # "" /\ t.path # ""
    /\ t.kind = "metadata" => t.registry # <<>> \/ t.repos # <<>>
    /\ t.kind = "pages" => (IsSet(t, "build") # IsSet(t, "dir")) /\ t.provider \in {"cloudflare", "github"}

\* Only a plain identifier is checked against the declared names.
ValidateWhen(when, cfg) ==
    \A c \in when :
        /\ c.schedules \subseteq cfg.globals.schedules
        /\ \A k \in c.tags : ~k.neg /\ ~k.re /\ k.text \in RtPlain => k.text \in RtIds(cfg.tags)
        /\ \A k \in c.branches : ~k.neg /\ ~k.re /\ k.text \in RtPlain => k.text \in RtIds(cfg.branches)
        /\ c.events \subseteq {"push", "tag", "release", "schedule", "manual", "pull_request", "merge_request"}
ValidateTargets(cfg) ==
    /\ Named(cfg.targets)
    /\ \A t \in RtEntries(cfg.targets) :
         /\ t.kind \in {"registry", "metadata", "release", "binary-archive", "generic-package", "pages"}
         /\ t.build # "" => t.build \in RtIds(cfg.builds)
         /\ ValidateTarget(t) /\ ValidateWhen(t.when, cfg)
ValidateNotifications(cfg) ==
    \A n \in RtEntries(cfg.notes) :
        /\ n.provider \in {"ntfy", "webhook"} /\ n.url # "" /\ ValidateWhen(n.when, cfg)
        /\ n.outcomes \subseteq {"success", "failure", "warning"}

\* The identity graph, and what refers to it, is checked when any of it is
\* declared.
DeclaresIdentity(cfg) == cfg.forges # <<>> \/ cfg.repos # <<>> \/ cfg.registries # <<>>
Validate(cfg) ==
    /\ ValidateTagSources(cfg) /\ ValidateBranchBuilds(cfg) /\ ValidateBranches(cfg)
    /\ ValidateBuilds(cfg) /\ ValidateBuildRefs(cfg) /\ ValidateTargets(cfg) /\ ValidateNotifications(cfg)
    /\ DeclaresIdentity(cfg) =>
         ValidateIdentityGraph(cfg) /\ ValidateTargetRegistryRefs(cfg) /\ ValidateTargetRepoRefs(cfg)
    /\ ValidateSigningProfiles(cfg) /\ ValidateSigningRefs(cfg)

---------------------------------------------------------------------------
(* config/normalize.go: {var:} templates are filled in after validation *)

Template == "{var:x}"
NoNestedVars(cfg) == cfg.globals.var # Template
ResolveVars(cfg) ==
    LET Fill(s) == IF s = Template /\ cfg.globals.var # "undeclared" THEN cfg.globals.var ELSE s IN
    [cfg EXCEPT !.repos = [i \in DOMAIN @ |-> [@[i] EXCEPT !.project = Fill(@)]],
                !.registries = [i \in DOMAIN @ |-> [@[i] EXCEPT !.url = Fill(@)]]]
AssertNormalized(cfg) ==
    /\ \A r \in RtEntries(cfg.repos) : r.project # Template
    /\ \A x \in RtEntries(cfg.registries) : x.url # Template
Accepted(cfg) == Validate(cfg) /\ NoNestedVars(cfg) /\ AssertNormalized(ResolveVars(cfg))

---------------------------------------------------------------------------
(* gitver *)

SourceOf(cfg, id) == {t \in rtTags : t \in RtMatch[ById(cfg.tags, id).pattern]}
TagSourceExclusive(cfg) == \A a, b \in RtIds(cfg.tags) : a # b => SourceOf(cfg, a) \cap SourceOf(cfg, b) = {}

\* The first rule whose matcher takes the branch, wherever the default stands.
SelectBranchRule(cfg, branch) ==
    LET Takes(r) == r.id # "default" /\ branch \in RtMatch[ById(cfg.branches, r.match).pattern]
        hits == SelectSeq(cfg.rules, Takes)
    IN  IF hits # <<>> THEN hits[1] ELSE ById(cfg.rules, "default")

RtNewest(set) == RtTagOrder[CHOOSE i \in DOMAIN RtTagOrder : RtTagOrder[i] \in set
                             /\ \A j \in DOMAIN RtTagOrder : RtTagOrder[j] \in set => i <= j]
\* The sources in declared order; the newest tag of the first that has any.
WalkBaseFromSearchPath(cfg, rule) ==
    LET hits == SelectSeq(rule.base, LAMBDA id : SourceOf(cfg, id) # {}) IN
    IF hits = <<>> THEN NoVersion ELSE [kind |-> "dev", tag |-> RtNewest(SourceOf(cfg, hits[1])), source |-> hits[1]]

\* A semantic CI tag is the version; otherwise the branch's rule finds a base,
\* and HEAD standing on it makes the build a release.
DetectVersion(cfg, env) ==
    LET rule == SelectBranchRule(cfg, CIBranch(env))
        base == WalkBaseFromSearchPath(cfg, rule)
    IN  CASE ~TagSourceExclusive(cfg) -> [NoVersion EXCEPT !.kind = "ambiguous"]
          [] env.ciTag \in RtSemver -> [kind |-> "release", tag |-> env.ciTag, source |-> "ci"]
          [] base # NoVersion /\ base.tag = CITag(env) -> [base EXCEPT !.kind = "release"]
          [] OTHER -> base
\* The lookups of version detection that validation must have made safe:
\* every rule's matcher, its tag sources, and a rule for the branch.
VersionErrs(cfg, env) ==
    LET open == {r \in RtEntries(cfg.rules) : r.id # "default" /\ r.match \notin RtIds(cfg.branches)} IN
    {<<"matcher", r.id>> : r \in open}
    \cup {<<"source", r.id>> : r \in {x \in RtEntries(cfg.rules) : x.base = <<>> \/ ~(Range(x.base) \subseteq RtIds(cfg.tags))}}
    \cup {<<"rule", "">> : x \in {1} \cap IF open = {} /\ "default" \notin RtIds(cfg.rules)
             /\ \A r \in RtEntries(cfg.rules) : CIBranch(env) \notin RtMatch[ById(cfg.branches, r.match).pattern] THEN {1} ELSE {}}

---------------------------------------------------------------------------
(* cli/cmd: what a run does with its configuration *)

ReleaseTargets(cfg) == {t \in RtEntries(cfg.targets) : t.kind = "release"}
ReleaseTagMatchesAnyTarget(cfg, env, tag) ==
    LET bound == {t \in ReleaseTargets(cfg) : ~TargetIsUnconditional(t)} IN
    bound = {} \/ \E t \in bound : TargetEligibility(t.when, env, tag, cfg)
TagMatchesReleasePolicy(cfg, tag) ==
    cfg.tags = <<>> \/ \E s \in RtEntries(cfg.tags) : tag \in RtMatch[s.pattern]

\* A push of a channel gets a tag of its own, "" when no channel matches.
ChannelTag(cfg, env) ==
    IF \E t \in ReleaseTargets(cfg) : t.tag # "" /\ TargetEligibility(t.when, env, CITag(env), cfg)
    THEN (CHOOSE t \in ReleaseTargets(cfg) : t.tag # "" /\ TargetEligibility(t.when, env, CITag(env), cfg)).tag
    ELSE ""
RtTag(cfg, env) == IF CITag(env) # "" THEN CITag(env) ELSE ChannelTag(cfg, env)

RtKeep == UNCHANGED <<rtCfg, rtEdits, rtRuns, rtPushes>>

\* A run of an accepted configuration; any other fails at its load.
RtLoad(env) ==
    /\ rtAt = "idle" /\ rtRuns < RtRuns
    /\ CITag(env) # "" => CITag(env) \in rtTags
    /\ Accepted(rtCfg)
    /\ rtAt' = "loaded" /\ rtEnv' = env /\ rtRuns' = rtRuns + 1
    /\ rtVersion' = NoVersion /\ rtTo' = {} /\ rtGate' = FALSE /\ rtReached' = {} /\ rtErrs' = {}
    /\ UNCHANGED <<rtCfg, rtTags, rtEdits, rtPushes>>

\* A tag outside every source ends the run; without rules the run has no version.
RtVersionStep ==
    /\ rtAt = "loaded"
    /\ IF CITag(rtEnv) # "" /\ ~TagMatchesReleasePolicy(rtCfg, CITag(rtEnv)) THEN rtAt' = "idle" /\ UNCHANGED <<rtVersion, rtErrs>>
       ELSE /\ rtAt' = "versioned"
            /\ rtErrs' = IF rtCfg.rules = <<>> THEN {} ELSE VersionErrs(rtCfg, rtEnv)
            /\ rtVersion' = IF rtCfg.rules = <<>> \/ rtErrs' # {} THEN NoVersion ELSE DetectVersion(rtCfg, rtEnv)
    /\ UNCHANGED <<rtTags, rtEnv, rtTo, rtGate, rtReached>> /\ RtKeep

RtRoute ==
    /\ rtAt = "versioned" /\ rtAt' = "routed"
    /\ LET tag == RtTag(rtCfg, rtEnv) IN
       /\ rtGate' = (tag # "" /\ ReleaseTagMatchesAnyTarget(rtCfg, rtEnv, tag))
       /\ rtTo' = {t.id : t \in {x \in RtEntries(rtCfg.targets) :
                     TargetEligibility(x.when, rtEnv, IF x.kind = "release" THEN tag ELSE CITag(rtEnv), rtCfg)}}
                  \cup {n.id : n \in {x \in RtEntries(rtCfg.notes) : NotificationEligibility(x, rtEnv, rtCfg)}}
    /\ UNCHANGED <<rtTags, rtEnv, rtVersion, rtReached, rtErrs>> /\ RtKeep

\* Every routed target looks up what it refers to; then the mirror pass.
RtResolve ==
    /\ rtAt = "routed" /\ rtAt' = "idle"
    /\ LET cfg == ResolveVars(rtCfg)
           tag == RtTag(cfg, rtEnv)
           to == {t \in RtEntries(cfg.targets) : t.id \in rtTo /\ (t.kind = "release" => rtGate)}
           repos(t) == IF t.kind = "release" THEN Range(t.repos) ELSE {t.repo}
           synced == {r \in MirrorRepos(cfg) : SyncsReleases(r)}
       IN  /\ rtErrs' = rtErrs
                \cup {<<IF t.registry = <<>> THEN "inline" ELSE "registry", t.id>> : t \in {x \in to : x.kind = "registry" /\ ~ResolveRegistryForTarget(cfg, x)}}
                \cup {<<"profile", t.id>> : t \in {x \in to : x.kind = "registry" /\ ~ResolveSigningProfileForTarget(cfg, x, cfg.globals.profile)}}
                \cup {<<"repo", t.id>> : t \in {x \in to : x.kind \in {"release", "generic-package"} /\ \E r \in repos(x) : ~ResolveRepo(cfg, r)}}
                \cup {<<"mirror", r.id>> : r \in {x \in MirrorRepos(cfg) : ~ResolveRepo(cfg, x.id)}}
                \cup {<<"primary", "">> : x \in {1} \cap IF cfg.repos = <<>> \/ ResolvePrimary(cfg) THEN {} ELSE {1}}
                \cup {<<"stage", b.id>> : b \in {x \in RtEntries(cfg.builds) : x.stage # "" /\ x.stage \notin RtIds(cfg.builds)}}
           /\ rtReached' = UNION {{<<"target", id>> : id \in Range(t.repos)} : t \in {x \in to : x.kind = "release"}}
                \cup {<<"mirror", r.id>> : r \in {x \in synced : tag # "" /\ ReleaseInScope(x, tag, cfg)}}
    /\ UNCHANGED <<rtTags, rtEnv, rtVersion, rtTo, rtGate>> /\ RtKeep

---------------------------------------------------------------------------
(* The owner *)

\* Nothing is changed that no run of the bound would see.
RtSeen == rtAt # "off" /\ (rtAt = "idle" => rtRuns < RtRuns)
RtEditable == rtAt = "idle" /\ RtSeen /\ rtEdits < RtEdits /\ rtEdits' = rtEdits + 1
    /\ UNCHANGED <<rtTags, rtAt, rtEnv, rtVersion, rtTo, rtGate, rtReached, rtErrs, rtRuns, rtPushes>>
RtSet(sec, field, v) ==
    /\ RtEditable
    /\ IF sec = "globals" THEN rtCfg' = [rtCfg EXCEPT ![sec][field] = v]
       ELSE \E i \in DOMAIN rtCfg[sec] : rtCfg' = [rtCfg EXCEPT ![sec][i][field] = v]
    /\ rtCfg' # rtCfg
RtDrop(sec) ==
    /\ RtEditable /\ sec # "globals"
    /\ \E i \in DOMAIN rtCfg[sec] : rtCfg' = [rtCfg EXCEPT ![sec] = RemoveAt(@, i)]
RtPushTag(t) ==
    /\ rtPushes < RtPushes /\ rtPushes' = rtPushes + 1 /\ RtSeen /\ t \notin rtTags /\ rtTags' = rtTags \cup {t}
    /\ UNCHANGED <<rtCfg, rtAt, rtEnv, rtVersion, rtTo, rtGate, rtReached, rtErrs, rtEdits, rtRuns>>

RtNext ==
    \/ \E env \in RtEnvs : RtLoad(env)
    \/ RtVersionStep \/ RtRoute \/ RtResolve
    \/ \E sec \in DOMAIN RtValues : RtDrop(sec) \/ \E x \in DOMAIN RtValues[sec] : \E v \in RtValues[sec][x] : RtSet(sec, x, v)
    \/ \E t \in Range(RtTagOrder) : RtPushTag(t)
RtSpec == RtInit /\ [][RtNext]_rtVars

---------------------------------------------------------------------------
(* Properties *)

\* Every variable keeps its type.
RtTypeOK ==
    /\ rtTags \subseteq Range(RtTagOrder) /\ rtAt \in {"off", "idle", "loaded", "versioned", "routed"}
    /\ rtEnv \in RtEnvs /\ rtVersion.kind \in {"none", "dev", "release", "ambiguous"} /\ rtGate \in BOOLEAN
    /\ rtVersion.tag \in rtTags \cup {""}
    /\ rtReached \subseteq {"target", "mirror"} \X RtIds(rtCfg.repos) \/ rtAt = "idle"
    /\ rtEdits \in 0 .. RtEdits /\ rtRuns \in 0 .. RtRuns /\ rtPushes \in 0 .. RtPushes

\* No lookup of a run fails on a configuration validation accepted: versions
\* find a rule, targets their registry, repository and profile, mirrors their
\* forge (config/validate.go; the lookups' own errors are called a "validation
\* bug").  Two kinds of target are accepted and not found: an inline registry,
\* url and path in place of an id (validate.go:1039), which no lookup knows, and
\* a registry or repository named by a configuration that declares no forge,
\* repository or registry, whose references validate.go:753 does not check.
AcceptedResolves ==
    [][\A e \in rtErrs' \ rtErrs :
         e[1] = "inline" \/ (e[1] \in {"registry", "repo"} /\ ~DeclaresIdentity(rtCfg))]_rtVars

\* A repository gets a release from a target or from the mirror pass, never
\* from both (config/forges.go ValidateTargetRepoRefs: both is "the old
\* double-projection").
OneReleasePath == \A r \in RtIds(rtCfg.repos) : ~({<<"target", r>>, <<"mirror", r>>} \subseteq rtReached)

\* A target all of whose conditions exclude the run's branch by a declared
\* name gets nothing from it, whatever its includes say (config/match.go:
\* excludes are checked first).
ExcludedNeverRouted ==
    \A t \in RtEntries(rtCfg.targets) : rtAt = "routed" /\ t.id \in rtTo /\ t.when # {} =>
        \E c \in t.when : \A k \in c.branches :
            k.neg /\ ~k.re /\ k.text \in RtIds(rtCfg.branches) => CIBranch(rtEnv) \notin RtMatch[ById(rtCfg.branches, k.text).pattern]

\* The base of a version is the newest tag of the first source of its branch's
\* rule that has one, a tag of no other source, however the sources or rules
\* are ordered or the tags interleave (gitver: "a search path, not a global
\* filter").
VersionFromSearchPath ==
    [][rtAt = "loaded" /\ rtAt' = "versioned" /\ rtVersion'.source \notin {"", "ci"} =>
         LET v == rtVersion'
             rule == CHOOSE r \in RtEntries(rtCfg.rules) :
                 IF r.id = "default" THEN \A q \in RtEntries(rtCfg.rules) : q.id = "default" \/ CIBranch(rtEnv) \notin RtMatch[ById(rtCfg.branches, q.match).pattern]
                 ELSE CIBranch(rtEnv) \in RtMatch[ById(rtCfg.branches, r.match).pattern]
             n == CHOOSE i \in DOMAIN rule.base : rule.base[i] = v.source
         IN  /\ v.tag \in SourceOf(rtCfg, v.source)
             /\ \A i \in 1 .. n - 1 : SourceOf(rtCfg, rule.base[i]) = {}
             /\ \A s \in RtIds(rtCfg.tags) \ {v.source} : v.tag \notin SourceOf(rtCfg, s)]_rtVars

=============================================================================
