------------------------------- MODULE Tagging ------------------------------
(***************************************************************************)
(* `stagefreight tag`: people cut version tags from their own clones and   *)
(* push them to one origin, whose pipeline writes each release's notes     *)
(* from the tags it finds.  A clone's view of the tags and of the branch   *)
(* is as old as its last fetch.                                            *)
(*                                                                         *)
(* The history is one line of commits.  A commit is "feat" (shown in the   *)
(* highlights), "empty" (left out of every list) or "gen" ([skip ci] or    *)
(* Generated-By: it builds nothing).  A version is <<major, minor, patch,  *)
(* suffix>>, suffix 0 for a prerelease and 1 for none, so that versions    *)
(* order as tuples.  A tag is its commit and the object that names it: two *)
(* annotated tags cut in two clones are never the same object.             *)
(***************************************************************************)
EXTENDS Integers, Sequences, FiniteSets, FiniteSetsExt

CONSTANTS
    TgClones,     \* the clones of the repository
    TgVersions,   \* the versions a tag may name
    TgConfigs,    \* configurations [patterns, mode, empty, push, approval, tty, line]:
                  \* line is the sequence of commits people will push
    TgRequests,   \* commands [version, bump, from, back, menu, message, yes, push, dry]
    TgMaxWalk,    \* how far resolveReleasableCommit walks
    TgRuns,       \* bound: commands run
    TgEvents      \* bound: tags pushed by hand, failing pushes, killed commands

ASSUME TgAssumption ==
    /\ TgMaxWalk \in Nat /\ {TgRuns, TgEvents} \subseteq Nat
    /\ IsFiniteSet(TgVersions) /\ TgVersions \subseteq Nat \X Nat \X Nat \X {0, 1}
    /\ \A cfg \in TgConfigs : cfg.line \in Seq({"feat", "gen", "empty"}) /\ cfg.line # <<>>
    /\ \A req \in TgRequests : req.version \in TgVersions \cup {<<>>} /\ req.back \in Nat

VARIABLES
    tgCfg,              \* the configuration
    tgMain,             \* the branch on origin
    tgOrigin,           \* origin's tags
    tgHead, tgTags,     \* each clone: how much of the branch it has, its tags
    tgAt, tgPlan,       \* each clone: where its command is, the plan it works on
    tgNotes,            \* the commits each release's notes list
    tgRuns, tgEvents
tgVars == <<tgCfg, tgMain, tgOrigin, tgHead, tgTags, tgAt, tgPlan, tgNotes, tgRuns, tgEvents>>
tgBudget == <<tgRuns, tgEvents>>

NoTag == [at |-> 0, obj |-> "none"]
TgNone == <<>>                         \* no version
NoPlan == [next |-> TgNone, at |-> 0, tip |-> 0, message |-> "", push |-> FALSE]
NoNotes == {0}

TgFrom(at) ==
    /\ tgCfg \in TgConfigs
    /\ tgMain = SubSeq(tgCfg.line, 1, 1)
    /\ tgOrigin = [v \in TgVersions |-> NoTag]
    /\ tgHead = [c \in TgClones |-> 1] /\ tgTags = [c \in TgClones |-> tgOrigin]
    /\ tgAt = [c \in TgClones |-> at] /\ tgPlan = [c \in TgClones |-> NoPlan]
    /\ tgNotes = [v \in TgVersions |-> NoNotes]
    /\ tgRuns = 0 /\ tgEvents = 0
TgInit == TgFrom("idle")

---------------------------------------------------------------------------
(* release/notes.go, release/version.go, gitstate/tags.go *)

\* Versions in descending order put the greater one first.
TgLess(v, w) == \E i \in 1 .. 4 : v[i] < w[i] /\ \A j \in 1 .. i - 1 : v[j] = w[j]
Tagged(tags) == {v \in DOMAIN tags : tags[v] # NoTag}

\* Without declared patterns, only plain versions are release tags.
ReleaseTagMatchers(patterns) == IF patterns = {} THEN {1} ELSE patterns
IsReleaseTag(v) == v[4] \in ReleaseTagMatchers(tgCfg.patterns)

IsAncestor(tag, commit) == tag.at <= commit

\* The greatest release tag among the ancestors of commit, but for the version
\* own that is being released.
PreviousReleaseTag(tags, commit, own) ==
    LET before == {v \in Tagged(tags) : IsReleaseTag(v) /\ v # own /\ IsAncestor(tags[v], commit)} IN
    IF before = {} THEN TgNone ELSE CHOOSE v \in before : \A w \in before : ~TgLess(v, w)

\* The commits after the boundary, up to and with the target.  A boundary that
\* is no tag of the clone fails the walk and gives none.
ParseCommitLog(tags, from, to) ==
    CASE from = TgNone -> 1 .. to
      [] from \in Tagged(tags) -> tags[from].at + 1 .. to
      [] OTHER -> {}
ParseCommits(tags, from, to) == {k \in ParseCommitLog(tags, from, to) : tgMain[k] # "empty"}

\* The commits whose type is visible in the glossary.
FormatHighlights(commits) == {k \in commits : tgMain[k] = "feat"}

\* A major or minor step drops the suffix, a patch keeps it.
BumpVersion(v, kind) ==
    CASE kind = "major" -> <<v[1] + 1, 0, 0, 1>>
      [] kind = "minor" -> <<v[1], v[2] + 1, 0, 1>>
      [] kind = "patch" -> <<v[1], v[2], v[3] + 1, v[4]>>

---------------------------------------------------------------------------
(* release/tag.go: BuildTagPlan *)

TipIsReleasable(k) == tgMain[k] # "gen"

\* The nearest releasable commit within the walk's bound, or else the tip.
ResolveReleasableCommitShort(tip) ==
    LET near == {k \in 1 .. tip : k > tip - 1 /\ TipIsReleasable(k)} IN
    IF near = {} THEN tip ELSE Max(near)
ResolveReleasableCommit(tip) ==
    LET near == {k \in 1 .. tip : k > tip - TgMaxWalk /\ TipIsReleasable(k)} IN
    IF near = {} THEN tip ELSE Max(near)

TagExists(c, v) == tgTags[c][v] # NoTag

TgPrevious(c, req, target) ==
    IF req.from # TgNone THEN req.from ELSE PreviousReleaseTag(tgTags[c], target, TgNone)

\* A bump needs a previous release, and one given by hand must look like one
\* (which nothing does when no pattern is declared).
CanBump(req, prev) == prev # TgNone /\ (req.from # TgNone => req.from[4] \in tgCfg.patterns)
TgNextTag(req, prev) == IF req.version # TgNone THEN req.version ELSE BumpVersion(prev, req.bump)

\* No menu without a terminal, and without a previous release at HEAD the menu
\* asks for a version only.  The menu may be left at any question.
InteractiveVersionSelect(c, req) ==
    /\ tgCfg.tty
    /\ req.bump # "none" => PreviousReleaseTag(tgTags[c], tgHead[c], TgNone) # TgNone

\* Highlights typed at the prompt, or an error when none are.
PromptForMessage == {"text", "error"}

\* What becomes of an empty message: text typed or made up, none, or an error.
TagMessages(text) ==
    LET tty == tgCfg.tty
        mode == IF tgCfg.mode # "" THEN tgCfg.mode ELSE IF tty THEN "prompt_if_missing" ELSE "auto"
    IN  CASE text -> {"text"}
          [] ~text /\ mode = "prompt_if_missing" /\ tty -> PromptForMessage
          [] ~text /\ mode = "require_manual" -> {"error"}
          [] OTHER -> CASE tgCfg.empty = "fail" -> {"error"}
                        [] tgCfg.empty = "prompt" -> IF tty THEN PromptForMessage ELSE {"error"}
                        [] tgCfg.empty = "allow_empty" -> {"text"}
                        [] OTHER -> {""}

\* The menu's answers: who asked for a push may only confirm it.
PromptApproval(req) ==
    IF ~req.yes /\ tgCfg.approval /\ tgCfg.tty
    THEN IF req.push \/ tgCfg.push THEN {"approve_push", "reject"} ELSE {"approve", "approve_push", "reject"}
    ELSE {"approve"}

---------------------------------------------------------------------------
(* cli/cmd/tag.go: runTag *)

TgOthers == UNCHANGED <<tgCfg, tgMain, tgHead, tgNotes>>
TgEnd(c) == tgAt' = [tgAt EXCEPT ![c] = "idle"] /\ tgPlan' = [tgPlan EXCEPT ![c] = NoPlan]

\* The plan, made from what the clone holds: refused, shown only, or ready to
\* be carried out.
TgRun(c, req) ==
    LET tip == Max({1, tgHead[c] - req.back})
        target == ResolveReleasableCommit(tip)
        prev == TgPrevious(c, req, target)
        next == TgNextTag(req, prev)
        text == req.message \/ FormatHighlights(ParseCommits(tgTags[c], prev, target)) # {}
        valid == /\ (req.version = TgNone => CanBump(req, prev))
                 /\ ~TagExists(c, next)
                 /\ (tgCfg.patterns # {} => next[4] \in tgCfg.patterns)
    IN  /\ tgAt[c] \notin {"create", "push", "off"}
        /\ tgRuns < TgRuns /\ tgRuns' = tgRuns + 1 /\ UNCHANGED tgEvents
        /\ req.menu => InteractiveVersionSelect(c, req)
        /\ req.version = TgNone /\ CanBump(req, prev) => next \in TgVersions
        /\ \/ ~valid /\ TgEnd(c)
           \/ valid /\ \E msg \in TagMessages(text) :
                  \/ msg = "error" /\ TgEnd(c)
                  \/ msg # "error" /\ req.dry /\ TgEnd(c)
                  \/ msg # "error" /\ ~req.dry /\ \E ok \in PromptApproval(req) :
                         \/ ok = "reject" /\ TgEnd(c)
                         \/ /\ ok # "reject"
                            /\ tgAt' = [tgAt EXCEPT ![c] = "create"]
                            /\ tgPlan' = [tgPlan EXCEPT ![c] =
                                  [next |-> next, at |-> target, tip |-> tip, message |-> msg,
                                   push |-> req.push \/ tgCfg.push \/ ok = "approve_push"]]
        /\ TgOthers /\ UNCHANGED <<tgOrigin, tgTags>>

\* A tag that is there already is kept when it names the planned commit and
\* refused otherwise; git refuses an annotated tag without a message.
CreateAnnotatedTag(c, plan) ==
    LET existing == tgTags[c][plan.next] IN
    IF existing # NoTag THEN IF existing.at = plan.at THEN existing ELSE NoTag
    ELSE IF plan.message = "" THEN NoTag ELSE [at |-> plan.at, obj |-> c]

TgCreate(c) ==
    LET plan == tgPlan[c]  tag == CreateAnnotatedTag(c, plan) IN
    /\ tgAt[c] = "create"
    /\ \/ tag = NoTag /\ TgEnd(c) /\ UNCHANGED tgTags
       \/ /\ tag # NoTag
          /\ tgTags' = [tgTags EXCEPT ![c][plan.next] = tag]
          /\ IF plan.push THEN tgAt' = [tgAt EXCEPT ![c] = "push"] /\ UNCHANGED tgPlan ELSE TgEnd(c)
    /\ TgOthers /\ UNCHANGED tgOrigin /\ UNCHANGED tgBudget

\* The push is not forced: origin takes a tag it does not have, and calls one
\* it has as the same object up to date.
TgPushTag(c, v) == tgOrigin[v] \in {NoTag, tgTags[c][v]}

TgPush(c) ==
    LET v == tgPlan[c].next IN
    /\ tgAt[c] = "push"
    /\ \/ /\ TgPushTag(c, v)
          /\ tgOrigin' = [tgOrigin EXCEPT ![v] = tgTags[c][v]]
          /\ tgAt' = [tgAt EXCEPT ![c] = "pushed"] /\ UNCHANGED <<tgPlan, tgBudget>>
       \/ ~TgPushTag(c, v) /\ TgEnd(c) /\ UNCHANGED <<tgOrigin, tgBudget>>
       \/ /\ tgEvents < TgEvents /\ tgEvents' = tgEvents + 1 /\ UNCHANGED tgRuns
          /\ TgEnd(c) /\ UNCHANGED tgOrigin      \* the remote cannot be reached, or the command is killed
    /\ TgOthers /\ UNCHANGED tgTags

---------------------------------------------------------------------------
(* The pipeline of a pushed tag: GenerateNotes *)

GenerateNotes(v) ==
    ParseCommits(tgOrigin, PreviousReleaseTag(tgOrigin, tgOrigin[v].at, v), tgOrigin[v].at)

\* Run, or run again, with the tags origin has at that time.
TgRelease(v) ==
    /\ tgOrigin[v] # NoTag /\ IsReleaseTag(v)
    /\ tgNotes' = [tgNotes EXCEPT ![v] = GenerateNotes(v)]
    /\ UNCHANGED <<tgCfg, tgMain, tgOrigin, tgHead, tgTags, tgAt, tgPlan, tgRuns, tgEvents>>

---------------------------------------------------------------------------
(* Outside: people push commits, fetch, and push lightweight tags by hand *)

TgOn == \E c \in TgClones : tgAt[c] # "off"

TgCommit ==
    /\ TgOn /\ Len(tgMain) < Len(tgCfg.line)
    /\ tgMain' = SubSeq(tgCfg.line, 1, Len(tgMain) + 1)
    /\ UNCHANGED <<tgCfg, tgOrigin, tgHead, tgTags, tgAt, tgPlan, tgNotes, tgRuns, tgEvents>>

\* A fetch brings the tags the clone lacks and changes none it has.
TgFetch(c) ==
    /\ TgOn
    /\ tgHead' = [tgHead EXCEPT ![c] = Len(tgMain)]
    /\ tgTags' = [tgTags EXCEPT ![c] = [v \in TgVersions |-> IF @[v] = NoTag THEN tgOrigin[v] ELSE @[v]]]
    /\ UNCHANGED <<tgCfg, tgMain, tgOrigin, tgAt, tgPlan, tgNotes, tgRuns, tgEvents>>

TgHand(v, k) ==
    /\ TgOn /\ tgEvents < TgEvents /\ tgEvents' = tgEvents + 1
    /\ tgOrigin[v] = NoTag
    /\ tgOrigin' = [tgOrigin EXCEPT ![v] = [at |-> k, obj |-> "light"]]
    /\ UNCHANGED <<tgCfg, tgMain, tgHead, tgTags, tgAt, tgPlan, tgNotes, tgRuns>>

TgNext ==
    \/ \E c \in TgClones : (\E req \in TgRequests : TgRun(c, req)) \/ TgCreate(c) \/ TgPush(c) \/ TgFetch(c)
    \/ \E v \in TgVersions : TgRelease(v) \/ \E k \in 1 .. Len(tgMain) : TgHand(v, k)
    \/ TgCommit

TgSpec == TgInit /\ [][TgNext]_tgVars

---------------------------------------------------------------------------
(* Properties *)

\* Every tag names a commit of the branch, no plan is for a version or a
\* commit that does not exist, and notes list real commits.
TgTypeOK ==
    LET Tags == [TgVersions -> {NoTag} \cup [at : 1 .. Len(tgMain), obj : TgClones \cup {"light"}]] IN
    /\ tgCfg \in TgConfigs /\ tgMain \in Seq({"feat", "gen", "empty"}) /\ tgOrigin \in Tags
    /\ tgHead \in [TgClones -> 1 .. Len(tgMain)] /\ tgTags \in [TgClones -> Tags]
    /\ tgAt \in [TgClones -> {"idle", "create", "push", "pushed", "off"}]
    /\ \A c \in TgClones : tgPlan[c] # NoPlan => tgPlan[c].next \in TgVersions /\ tgPlan[c].at \in 1 .. tgHead[c]
    /\ tgNotes \in [TgVersions -> SUBSET (0 .. Len(tgMain))]
    /\ tgRuns \in 0 .. TgRuns /\ tgEvents \in 0 .. TgEvents

\* CreateAnnotatedTag and PushTag: a version tag is an immutable identity.
\* Whatever two clones and hand-made tags race for, no tag of origin or of a
\* clone ever changes its commit or its object.
TagNeverMoves ==
    [][\A v \in TgVersions : /\ (tgOrigin[v] # NoTag => tgOrigin'[v] = tgOrigin[v])
                             /\ \A c \in TgClones : tgTags[c][v] # NoTag => tgTags'[c][v] = tgTags[c][v]]_tgVars

\* runTag: a command that says it pushed the tag leaves origin with that
\* version on the commit it planned, also when another clone or a hand cut the
\* same version in the meantime.
PushedIsPlanned ==
    \A c \in TgClones : tgAt[c] = "pushed" => tgOrigin[tgPlan[c].next].at = tgPlan[c].at

\* resolveReleasableCommit: a tag the command cut is on a commit that builds
\* unless nothing within the walk from the tip it was asked for does.
CutWhereItBuilds ==
    \A c \in TgClones : tgAt[c] \in {"create", "push", "pushed"} =>
        \/ tgMain[tgPlan[c].at] # "gen"
        \/ \A k \in 1 .. tgPlan[c].tip : k > tgPlan[c].tip - TgMaxWalk => tgMain[k] = "gen"

\* PreviousReleaseTag and GenerateNotes: once every release of origin has its
\* notes, in whatever order tags were pushed and pipelines ran, each listed
\* commit of a release is in the notes of one, as long as no two releases
\* share a commit.
NothingOmitted ==
    LET releases == {v \in Tagged(tgOrigin) : IsReleaseTag(v)} IN
    ((\A v \in releases : tgNotes[v] # NoNotes)
       /\ \A v, w \in releases : v # w => tgOrigin[v].at # tgOrigin[w].at)
    => \A v \in releases : \A k \in 1 .. tgOrigin[v].at :
           tgMain[k] # "empty" => \E w \in releases : k \in tgNotes[w]

\* What `stagefreight tag` leaves true of the tags: the tag that is pushed is
\* the one that was planned, on a commit that builds, its notes omit no
\* change since the previous release, and a tag once pushed never moves
\* (cli/cmd/tag.go).
TaggingKeeps ==
  /\ [](TgTypeOK /\ PushedIsPlanned /\ CutWhereItBuilds /\ NothingOmitted)
  /\ TagNeverMoves
=============================================================================
