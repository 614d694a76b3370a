----------------------------- MODULE PresetRefs ------------------------------
(***************************************************************************)
(* Preset references: a configuration whose sections name presets that are *)
(* read from the working tree or fetched from a source, with a retained    *)
(* copy in .stagefreight/preset-cache that is committed back               *)
(* (presetref/, presetfetch/, config/preset.go, config/config.go           *)
(* loadResolvedMode, cli/cmd/ci_presets.go). A job loads the configuration *)
(* one reference at a time while the source moves and fails; audition      *)
(* loads it a second time for its report, publish commits what was         *)
(* retained.                                                               *)
(***************************************************************************)
EXTENDS Integers, Sequences, FiniteSets, SequencesExt

CONSTANTS
  PrNames,      \* the presets that can be named
  PrShapes,     \* [inner, ok, ids] a preset's content may have
  PrConfigs,    \* what a repository declares, and where its jobs run
  PrMaxAge,     \* DefaultMaxFallbackAge
  PrEvents      \* bound on edits, failures and distributions

ASSUME PresetAssumption == PrMaxAge \in Nat /\ PrEvents \in Nat /\ IsFiniteSet(PrNames)

VARIABLES
  prCfg,
  prSource,     \* what the sources (for a local preset: the tree) hold
  prHead,       \* the retained copies at the head of the branch
  prBase,       \* the same at the commit the workspace has checked out
  prCopy,       \* the retained copies in the job's workspace
  prAge,        \* age of every retained copy's file
  prSeen,       \* ghost: time since the source served that copy here, or it was checked out
  prJob,        \* [kind, load, base, at, chain, ids] of the running job
  prMemo,       \* checkouts of this process
  prWrote,      \* references this process reports as refreshed
  prWhy,        \* why the last job failed, or ""
  prOdd,        \* ghost: <<name, "kind">> guessed, <<name, "write">> failed
  prPc,
  prLeft

prVars == <<prCfg, prSource, prHead, prBase, prCopy, prAge, prSeen, prJob, prMemo, prWrote, prWhy, prOdd, prPc, prLeft>>

NoName == "none"
NoCopy == [rev |-> 0, inner |-> NoName, ok |-> FALSE, ids |-> {}]
\* How a reference is written: a path, a URL, a branch or no ref, a full tag or a SHA,
\* or a bare name that is a branch or a tag at the source.
RefForms == {"path", "url", "head", "sha", "bareBranch", "bareTag"}
PrConfigShape(c) ==
  /\ c.ref \in [PrNames -> RefForms]
  /\ \A i \in DOMAIN c.sections :
       /\ c.sections[i].policy \in {"", "fail", "source", "retained", "bad"}
       /\ c.sections[i].form \in {"one", "list"}
  /\ c.space \in {"fresh", "reset", "kept"} /\ c.runFrom \in BOOLEAN
PrEvent == prLeft > 0 /\ prLeft' = prLeft - 1
PrOk == UNCHANGED prLeft
\* Ages stop counting past the bound.
Old(n) == IF n > PrMaxAge THEN n ELSE n + 1
Has(copy) == {p \in PrNames : copy[p] # NoCopy}

\* Parse and classify.
ParsedKind(form) ==
  CASE form = "path" -> "local" [] form \in {"url", "head"} -> "tracked"
    [] form = "sha" -> "pinned" [] OTHER -> "named"
\* Classify asks the source, a branch first.
Classified(form) == IF form = "bareTag" THEN "pinned" ELSE "tracked"
\* resolveKind: a bare name that cannot be classified counts as tracked.
ResolveKind(form, classifies) ==
  IF ParsedKind(form) # "named" THEN ParsedKind(form)
  ELSE IF classifies THEN Classified(form) ELSE "tracked"

\* Mutant: presets inside a preset inherit the policy.
PolicyInherited(section, depth) == IF section.form = "list" THEN "" ELSE section.policy
\* The policy of a section is that of its own reference only: lists and presets
\* inside presets are loaded without one.
PolicyOf(section, depth) == IF section.form = "list" \/ depth > 1 THEN "" ELSE section.policy

-----------------------------------------------------------------------------
(* Resolver.Resolve: what one reference gives.                             *)
(* [content, write, err]: the content used, whether it is retained, why it *)
(* failed.                                                                 *)

Serves(c) == [content |-> c, write |-> FALSE, err |-> ""]
Retains(c) == [content |-> c, write |-> TRUE, err |-> ""]
Refuses(why) == [content |-> NoCopy, write |-> FALSE, err |-> why]

\* The source did not answer.
Fallback(had, retained, age) ==
  IF ~had THEN Refuses("nothing retained") ELSE IF age > PrMaxAge THEN Refuses("too old") ELSE Serves(retained)

\* What the source served against what was retained.
Reconcile(kind, policy, had, retained, fetched) ==
  IF kind = "pinned" /\ had /\ retained # fetched
  THEN CASE policy = "source" -> Retains(fetched)
         [] policy = "retained" -> Serves(retained)
         [] OTHER -> Refuses("pin violated")
  ELSE IF had /\ retained = fetched THEN Serves(fetched) ELSE Retains(fetched)

\* Git sources are checked out once in a process.
FetchedOf(p) == IF prCfg.ref[p] # "url" /\ prMemo[p] # NoCopy THEN prMemo[p] ELSE prSource[p]
Memoized(p) == prCfg.ref[p] # "url" /\ prMemo[p] # NoCopy

\* sourceAwareLoader.load, offline: the retained copy or nothing.
LoadOffline(p, copy) == IF copy[p] # NoCopy THEN Serves(copy[p]) ELSE Refuses("offline")
LoadLocal(p, base) ==
  IF base = "tree" THEN Serves(prSource[p]) ELSE IF prCopy[p] # NoCopy THEN Serves(prCopy[p]) ELSE Refuses("missing")
Load(p, policy, answers, classifies) ==
  IF policy = "bad" THEN Refuses("policy")
  ELSE IF prCfg.ref[p] = "path" THEN LoadLocal(p, prJob.base)
  ELSE IF ~answers THEN Fallback(prCopy[p] # NoCopy, prCopy[p], prAge[p])
  ELSE Reconcile(ResolveKind(prCfg.ref[p], classifies), policy, prCopy[p] # NoCopy, prCopy[p], FetchedOf(p))

-----------------------------------------------------------------------------
(* Jobs *)

NoJob == [kind |-> "none", load |-> 0, base |-> "tree", at |-> 0, chain |-> <<>>, ids |-> {}]
\* Local paths are read from the cache directory once there is one.
LocalBase(copy) == IF Has(copy) # {} THEN "cache" ELSE "tree"
\* loadResolvedMode begins with the first section.
Begin(kind, load, copy) ==
  [kind |-> kind, load |-> load, base |-> LocalBase(copy), at |-> 1,
   chain |-> <<prCfg.sections[1].name>>, ids |-> {}]

\* A job of the pipeline: a fresh clone (every file is new), a workspace that is reset
\* (what differs is new), or a workspace nobody resets.
StartJob(kind) ==
  /\ prPc = "idle" /\ PrOk
  /\ prCopy' = IF prCfg.space = "kept" THEN prCopy ELSE prHead
  /\ prAge' = CASE prCfg.space = "fresh" -> [p \in PrNames |-> 0]
                [] prCfg.space = "reset" -> [p \in PrNames |-> IF prCopy[p] = prHead[p] THEN prAge[p] ELSE 0]
                [] OTHER -> prAge
  /\ prBase' = IF prCfg.space = "kept" THEN prBase ELSE prHead
  /\ prSeen' = [p \in PrNames |-> IF prCfg.space = "fresh" \/ prCopy'[p] # prCopy[p] THEN 0 ELSE prSeen[p]]
  /\ prJob' = Begin(kind, 1, prCopy')
  /\ prMemo' = [p \in PrNames |-> NoCopy] /\ prWrote' = {} /\ prOdd' = {} /\ prWhy' = ""
  /\ prPc' = "load"
  /\ UNCHANGED <<prCfg, prSource, prHead>>

\* A load that fails ends the job, also audition's second one (runConfigPhase).
FailLoad(why) == prPc' = "idle" /\ prWhy' = why /\ prJob' = NoJob
\* The configuration is complete: audition loads it again for its report.
EndLoad(copy) ==
  /\ UNCHANGED prWhy
  /\ IF prJob.kind = "audition" /\ prJob.load = 1
     THEN prJob' = Begin(prJob.kind, 2, copy) /\ prPc' = "load"
     ELSE IF prJob.kind = "audition" THEN prJob' = NoJob /\ prPc' = "idle"
     ELSE UNCHANGED prJob /\ prPc' = "publish"
NextSection(copy) ==
  IF prJob.at = Len(prCfg.sections) THEN EndLoad(copy)
  ELSE /\ prJob' = [prJob EXCEPT !.at = @ + 1, !.chain = <<prCfg.sections[prJob.at + 1].name>>, !.ids = {}]
       /\ UNCHANGED <<prPc, prWhy>>

\* resolvePresetsInner after a load: the content must have one section of the right
\* name; a preset inside it is next, unless it is on the way to it.
Compose(c, copy) ==
  IF ~c.ok THEN FailLoad("invalid")
  ELSE IF c.inner = NoName THEN NextSection(copy)
  ELSE IF c.inner \in Range(prJob.chain) THEN FailLoad("circular")
  ELSE prJob' = [prJob EXCEPT !.chain = Append(@, c.inner)] /\ UNCHANGED <<prPc, prWhy>>
\* resolvePresetList and resolvePresetMap: all items together, no id twice, and the
\* section's own items last.
ComposeList(c, copy) ==
  LET s == prCfg.sections[prJob.at]
      next == Len(prJob.chain) + 1
      ids == prJob.ids \cup c.ids
  IN IF ~c.ok THEN FailLoad("invalid")
     ELSE IF prJob.ids \cap c.ids # {} THEN FailLoad("duplicate")
     ELSE IF next <= Len(s.list)
     THEN prJob' = [prJob EXCEPT !.chain = Append(@, s.list[next]), !.ids = ids] /\ UNCHANGED <<prPc, prWhy>>
     ELSE IF ids \cap s.items # {} THEN FailLoad("duplicate")
     ELSE NextSection(copy)

\* One reference is resolved: the source answers or not, a bare name is classified or
\* not, the retained copy is written or (with no more than an ignored error) is not.
ResolveRef(answers, classifies, written) ==
  /\ prPc = "load"
  /\ LET s == prCfg.sections[prJob.at]
         p == Last(prJob.chain)
         r == Load(p, PolicyOf(s, Len(prJob.chain)), answers, classifies)
         copy == IF r.write /\ written THEN [prCopy EXCEPT ![p] = r.content] ELSE prCopy
     IN /\ prCfg.ref[p] = "path" \/ Memoized(p) => answers
        /\ ParsedKind(prCfg.ref[p]) # "named" => classifies
        /\ ~r.write => written
        /\ IF answers /\ classifies /\ written THEN PrOk ELSE PrEvent
        /\ prCopy' = copy
        /\ prAge' = IF r.write /\ written THEN [prAge EXCEPT ![p] = 0] ELSE prAge
        /\ prSeen' = IF answers /\ copy[p] = FetchedOf(p) THEN [prSeen EXCEPT ![p] = 0] ELSE prSeen
        /\ prMemo' = IF answers /\ prCfg.ref[p] \notin {"url", "path"} THEN [prMemo EXCEPT ![p] = FetchedOf(p)] ELSE prMemo
        /\ prWrote' = IF r.write THEN prWrote \cup {p} ELSE prWrote
        /\ prOdd' = prOdd \cup (IF classifies THEN {} ELSE {<<p, "kind">>}) \cup (IF written THEN {} ELSE {<<p, "write">>})
        /\ IF r.err # "" THEN FailLoad(r.err)
           ELSE IF s.form = "list" THEN ComposeList(r.content, copy) ELSE Compose(r.content, copy)
  /\ UNCHANGED <<prCfg, prSource, prHead, prBase>>

\* The push engine puts the changed files on the head of the branch, unless someone
\* changed one of them there.
Changed == {p \in PrNames : prCopy[p] # prBase[p]}
Conflicts == \E p \in Changed : prHead[p] \notin {prBase[p], prCopy[p]}
Lands(changed) == prHead' = [p \in PrNames |-> IF p \in changed THEN prCopy[p] ELSE prHead[p]]
EndPublish ==
  /\ prPc' = "idle" /\ prJob' = NoJob
  /\ prBase' = IF prHead' = prHead THEN prBase ELSE prHead'
  /\ prCopy' = IF prHead' = prHead THEN prCopy ELSE prHead'
  /\ prAge' = [p \in PrNames |-> IF prCopy'[p] = prCopy[p] THEN prAge[p] ELSE 0]
  /\ prSeen' = [p \in PrNames |-> IF prCopy'[p] = prCopy[p] THEN prSeen[p] ELSE 0]
  /\ UNCHANGED <<prCfg, prSource, prMemo, prWrote, prWhy, prOdd>>
\* Mutant: only copies that differ from an earlier one are committed.
RepublishDrifted(lands) ==
  /\ prPc = "publish"
  /\ IF lands THEN PrOk ELSE PrEvent
  /\ IF lands /\ (\E p \in prWrote : prHead[p] # NoCopy) /\ prCfg.runFrom /\ ~Conflicts THEN Lands(Changed) ELSE UNCHANGED prHead
  /\ EndPublish
\* republishRefreshedPresets: the cache directory is committed when this process wrote
\* to it and run_from allows it; a failed commit is a warning.
RepublishRefreshedPresets(lands) ==
  /\ prPc = "publish"
  /\ IF lands THEN PrOk ELSE PrEvent
  /\ IF lands /\ prWrote # {} /\ prCfg.runFrom /\ ~Conflicts THEN Lands(Changed) ELSE UNCHANGED prHead
  /\ EndPublish

-----------------------------------------------------------------------------
(* The sources and time *)

EditSource(p, shape) ==
  /\ PrEvent
  /\ prSource' = [prSource EXCEPT ![p] = [shape EXCEPT !.rev = prSource[p].rev + 1]]
  /\ UNCHANGED <<prCfg, prHead, prBase, prCopy, prAge, prSeen, prJob, prMemo, prWrote, prWhy, prOdd, prPc>>
\* Governance seeds what the sections reach (Governance.tla).
Distribute(p) ==
  /\ PrEvent /\ prCfg.ref[p] # "path" /\ prSource[p].ok
  /\ prHead[p] # prSource[p]
  /\ prHead' = [prHead EXCEPT ![p] = prSource[p]]
  /\ UNCHANGED <<prCfg, prSource, prBase, prCopy, prAge, prSeen, prJob, prMemo, prWrote, prWhy, prOdd, prPc>>
\* A fresh clone's files have no age.
PrTick ==
  /\ prPc = "idle" /\ PrOk /\ prCfg.space # "fresh"
  /\ prAge' = [p \in PrNames |-> Old(prAge[p])]
  /\ prSeen' = [p \in PrNames |-> Old(prSeen[p])]
  /\ <<prAge, prSeen>>' # <<prAge, prSeen>>
  /\ UNCHANGED <<prCfg, prSource, prHead, prBase, prCopy, prJob, prMemo, prWrote, prWhy, prOdd, prPc>>

First(shape) == [shape EXCEPT !.rev = 1]
PrFrom(first) ==
  /\ prSource \in [PrNames -> {First(s) : s \in {x \in PrShapes : x.ok /\ x.inner = NoName}}]
  /\ prHead = [p \in PrNames |-> NoCopy] /\ prBase = prHead /\ prCopy = prHead /\ prMemo = prHead
  /\ prAge = [p \in PrNames |-> 0] /\ prSeen = prAge
  /\ prJob = NoJob /\ prWrote = {} /\ prWhy = "" /\ prOdd = {}
  /\ prPc = first /\ prLeft = PrEvents
PrInit == prCfg \in {c \in PrConfigs : PrConfigShape(c)} /\ PrFrom("idle")

PrProgress ==
  \/ \E k \in {"audition", "publish"} : StartJob(k)
  \/ ResolveRef(TRUE, TRUE, TRUE)
  \/ RepublishRefreshedPresets(TRUE)
PrFault ==
  \/ \E a, c, w \in BOOLEAN : ~(a /\ c /\ w) /\ ResolveRef(a, c, w)
  \/ RepublishRefreshedPresets(FALSE)
PrOutside ==
  \/ \E p \in PrNames, s \in PrShapes : EditSource(p, s)
  \/ \E p \in PrNames : Distribute(p)
  \/ PrTick
PrNext == prPc # "off" /\ (PrProgress \/ PrFault \/ PrOutside)
\* Pipelines keep running, and a job that runs goes on to its end.
PrFair ==
  /\ SF_prVars(prPc # "off" /\ StartJob("publish"))
  /\ WF_prVars(prPc # "off" /\ (ResolveRef(TRUE, TRUE, TRUE) \/ RepublishRefreshedPresets(TRUE)))
PrSpec == PrInit /\ [][PrNext]_prVars /\ PrFair

-----------------------------------------------------------------------------
PrContent == [rev : Nat, inner : PrNames \cup {NoName}, ok : BOOLEAN, ids : SUBSET {1, 2}]
PrTypeOK ==
  /\ \A f \in {prSource, prHead, prBase, prCopy, prMemo} : f \in [PrNames -> PrContent]
  /\ prAge \in [PrNames -> 0..(PrMaxAge + 1)] /\ prSeen \in [PrNames -> 0..(PrMaxAge + 1)]
  /\ prPc \in {"idle", "load", "publish", "off"} /\ prWrote \subseteq PrNames
  /\ prPc = "load" => prJob.chain # <<>> /\ prJob.at \in DOMAIN prCfg.sections

\* A retained copy of a pinned reference is replaced by the pipeline only where the
\* operator wrote on_mismatch: source on that very reference (or the bare tag could not
\* be classified, which resolver.go:240 warns about). Governance's own commits aside.
OptedIn(p) == \E i \in DOMAIN prCfg.sections :
  LET s == prCfg.sections[i] IN s.form = "one" /\ s.name = p /\ s.policy = "source"
PinHolds ==
  [][ \A p \in PrNames :
        prCfg.ref[p] \in {"sha", "bareTag"} /\ <<p, "kind">> \notin prOdd' /\ prPc = "load"
          /\ prCopy[p] # NoCopy /\ prCopy'[p] # prCopy[p] => OptedIn(p) ]_prVars

\* A copy that stands in for its source was served by that source, or checked out,
\* no longer ago than the bound in this workspace: neither a fallback nor a reset that
\* leaves the file renews it (resolver.go:111-115).  The age is the file's
\* (fscache.go:44), so that where every job has a fresh clone the bound counts from
\* the clone.
FallbackBounded ==
  [][ (\E classifies, written \in BOOLEAN : ResolveRef(FALSE, classifies, written)) /\ prWhy' = "" =>
        prSeen[Last(prJob.chain)] <= PrMaxAge ]_prVars

\* What the pipeline commits is enough to load the configuration when every source is
\* away: each reference on the way has a usable copy (ci_presets.go, "recording what it
\* actually used"), unless the write of that copy failed.
Inner(p, copy) == copy[p].inner
Reach(p, copy) ==
  LET q == Inner(p, copy) IN {p} \cup (IF q = NoName THEN {} ELSE {q, Inner(q, copy)} \ {NoName})
SectionNames(s, copy) == IF s.form = "list" THEN Range(s.list) ELSE Reach(s.name, copy)
Used(copy) == UNION {SectionNames(prCfg.sections[i], copy) : i \in DOMAIN prCfg.sections}
CommittedLoadsOffline ==
  [][ prPc = "publish" /\ prPc' = "idle" /\ prHead' # prHead =>
        \A p \in Used(prHead') : <<p, "write">> \in prOdd \/ (LoadOffline(p, prHead').err = "" /\ prHead'[p].ok) ]_prVars

\* Once the sources are quiet and answer, the head of the branch carries what every
\* tracked reference names, whether or not governance ever distributes it
\* (ci_presets.go:15-23, "delays policy rather than freezing it").
AllLoad ==
  /\ \A p \in Used(prSource) : prSource[p].ok /\ prCfg.ref[p] # "path"
  /\ \A i \in DOMAIN prCfg.sections :
       LET s == prCfg.sections[i]
       IN /\ s.policy # "bad"
          /\ s.form = "one" => LET q == Inner(s.name, prSource)
                               IN q = NoName \/ (q # s.name /\ Inner(q, prSource) = NoName)
          /\ s.form = "list" =>
               /\ \A a, b \in DOMAIN s.list : a # b => prSource[s.list[a]].ids \cap prSource[s.list[b]].ids = {}
               /\ \A a \in DOMAIN s.list : prSource[s.list[a]].ids \cap s.items = {}
  /\ \A p \in Used(prSource) : prCfg.ref[p] \in {"sha", "bareTag"} => prHead[p] \in {NoCopy, prSource[p]}
Carried == \A p \in Used(prSource) : prHead[p] = prSource[p]
EventuallyCarried ==
  prPc # "off" /\ prCfg.runFrom /\ prCfg.space # "kept" => <>[](AllLoad => Carried)

\* What resolving preset references leaves true: a pinned reference keeps its
\* content, a fallback is bounded in the age the retained copy has in its
\* workspace (a fresh clone begins it anew), and what was committed loads
\* without the network (config/preset.go).
PresetsKeep ==
  /\ [](PrTypeOK)
  /\ PinHolds
  /\ FallbackBounded
  /\ CommittedLoadsOffline
=============================================================================
