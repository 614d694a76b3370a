---------------------------- MODULE UpstreamTrack ----------------------------
(***************************************************************************)
(* A fork that follows its upstream: declared pins, a tracked base image   *)
(* and an Alpine base move with upstream's releases once those have aged   *)
(* (cli/cmd/upstream_bump.go, upstream_track.go, upstream/lock.go), the    *)
(* version a commit holds is tagged (upstream_release.go), and a tag is    *)
(* shipped only when its claim is true (upstream_watch.go,                 *)
(* upstream_evidence.go). A version is a number, its major (for Alpine     *)
(* its release line, that is the suite) the tens. Times are kept as ages   *)
(* that stop counting at UtOld, the cooldown.                              *)
(***************************************************************************)
EXTENDS Integers, FiniteSets, FiniteSetsExt

CONSTANTS
  UtVersions,   \* every version there is
  UtConfigs,    \* what a project declares
  UtOld,        \* the age at which a release may be adopted
  UtEvents      \* bound on releases, failures and what people do

ASSUME UpstreamAssumption ==
  UtVersions \subseteq Nat \ {0} /\ IsFiniteSet(UtVersions) /\ UtOld \in Nat \ {0} /\ UtEvents \in Nat

VARIABLES
  utCfg,
  rel,          \* age of every release of the source, Absent before it (of a package:
                \* since a suite first carried it)
  alp,          \* age of every release of Alpine
  suites,       \* the one version of the package every suite carries, 0 none
  offered,      \* ghost: <<suite, version>> the suites ever carried
  main,         \* [pins, base, lock] at the head of the default branch
  copy,         \* the same in the run's worktree
  utPc,
  move,         \* what the run decided
  tags,         \* our tags: [ver, has, auto, state]
  signals,      \* what the watch reported last
  mixed,        \* ghost: a person edited the worktree under the run
  utLeft

utWorld == <<rel, alp, suites, offered>>
utVars == <<utCfg, utWorld, main, copy, utPc, move, tags, signals, mixed, utLeft>>

Absent == -1
Corrupt == -2
Ages == Absent..UtOld
Line(v) == v \div 10
Lines == {Line(v) : v \in UtVersions}
Newest(S) == IF S = {} THEN 0 ELSE Max(S)
UtEvent == utLeft > 0 /\ utLeft' = utLeft - 1
UtOk == UNCHANGED utLeft

\* What the source is: tags of a repository, GitHub releases and registries (dated), an
\* Alpine package, an image, or a history that is merged.
UtKinds == {"git", "github", "apk", "image", "fork"}
UtModes == {"track", "continue", "own"}
\* line: the major of track: <source>@<major>, 0 when it is the current one; age,
\* follow: whether pins and bases cool down; minor: max_update; refuse: on_mismatch.
UtConfigShape ==
  [kind : UtKinds, mode : UtModes, line : Nat, age : BOOLEAN, follow : BOOLEAN, minor : BOOLEAN,
   dry : BOOLEAN, auto : BOOLEAN, refuse : BOOLEAN, evidence : BOOLEAN, ancestry : BOOLEAN, since : Nat]
\* validateUpstream: what a claim needs, and what goes only with a claim.
ValidEvidence(c) ==
  /\ c.evidence => c.mode # "own"
  /\ c.mode = "track" => c.evidence \/ c.ancestry
ValidUpstream(c) ==
  /\ c.line # 0 \/ c.auto \/ c.follow # c.age => c.mode = "track"
  /\ c.since # 0 => c.mode # "own"
  /\ c.ancestry => c.mode = "track" /\ c.kind \in {"git", "fork"}
  /\ ValidEvidence(c)
NoSeen == [i \in {"source", "alpine"} |-> [v \in UtVersions |-> Absent]]
NoMove == [pin |-> 0, base |-> 0, after |-> {}, lock |-> NoSeen, shift |-> FALSE,
           lists |-> TRUE, digest |-> TRUE, dated |-> {}, newer |-> {}]

-----------------------------------------------------------------------------
(* The cooldown *)

\* Mutants: a corrupt or unknown time counts as aged; nothing is ever recorded.
ObserveTrusting(seen, newer) ==
  [v \in UtVersions |-> IF v \notin newer THEN Absent ELSE IF seen[v] = Absent THEN 0
                        ELSE IF seen[v] = Corrupt THEN UtOld ELSE seen[v]]
ObserveAnew(seen, newer) == [v \in UtVersions |-> IF v \in newer THEN 0 ELSE Absent]
\* First sightings of the versions that are still newer; a corrupt time is reset, and
\* what is no longer newer is forgotten.
Observe(seen, newer) ==
  [v \in UtVersions |-> IF v \notin newer THEN Absent
                        ELSE IF seen[v] \in {Absent, Corrupt} THEN 0 ELSE seen[v]]

\* The newest release old enough: by its own date where it has one, else by the lock.
PickTarget(newer, dates, seen, cool) ==
  IF ~cool THEN [target |-> Newest(newer), seen |-> seen]
  ELSE LET now == Observe(seen, newer \ DOMAIN dates)
           At(v) == IF v \in DOMAIN dates THEN dates[v] ELSE now[v]
       IN [target |-> Newest({v \in newer : At(v) >= UtOld}), seen |-> now]

\* Releases of the source as one listing answers it.
Listed(suite) ==
  IF utCfg.kind = "apk" THEN {suites[suite]} \ {0} ELSE {v \in UtVersions : rel[v] # Absent}
DatesOf(ages, S) == [v \in S |-> ages[v]]
TrackedMajor(current) == IF utCfg.line # 0 THEN utCfg.line ELSE Line(current)
Agree(pins) == pins[1] = pins[2]

\* max_update lowers the target to the newest listed version it allows; the listing
\* still holds the versions that are cooling down.
Ceiling(current, target, listed) ==
  IF utCfg.mode # "track" /\ utCfg.minor /\ target # 0 /\ Line(target) # Line(current)
  THEN Newest({v \in listed : v > current /\ Line(v) = Line(current)}) ELSE target

SuiteUnusable(pins, suite) ==
  \/ ~Agree(pins)
  \/ suites[suite] = 0
  \/ suites[suite] < pins[1]

\* Pins of the source: they move together, with no cooldown of their own when their
\* suite moves.
PinTarget(tree, seen, suite, shift) ==
  LET current == tree.pins[1]
      newer == {v \in Listed(suite) : v > current
                  /\ (utCfg.mode = "track" => Line(v) = TrackedMajor(current))}
      p == IF shift THEN [target |-> Newest(newer), seen |-> seen]
           ELSE PickTarget(newer, IF utCfg.kind = "github" THEN DatesOf(rel, newer) ELSE <<>>, seen, utCfg.age)
  IN [target |-> Ceiling(current, p.target, Listed(suite)), seen |-> p.seen,
      after |-> IF p.target = 0 THEN {} ELSE {v \in newer : v > p.target}]

-----------------------------------------------------------------------------
(* The update run *)

\* joinUpstreamPins: the lock is read and everything listed once. What is not listed
\* does not move; dates come with the images of a base, or do not. The releases a base
\* may move to: Alpine's, or those of the major of a tracked image.
JoinUpstreamPins(lists, digest) ==
  /\ utPc = "idle" /\ utCfg.kind # "fork"
  /\ IF lists /\ digest THEN UtOk ELSE UtEvent
  /\ \E dated \in {{}} \cup (IF utCfg.kind \in {"apk", "image"} THEN {UtVersions} ELSE {}) :
       move' = [NoMove EXCEPT !.lists = lists, !.digest = digest, !.dated = dated, !.lock = main.lock,
                  !.newer = IF ~lists THEN {}
                            ELSE IF utCfg.kind = "apk" THEN {v \in UtVersions : alp[v] # Absent /\ v > main.base}
                            ELSE IF utCfg.kind = "image"
                            THEN {v \in Listed(0) : Line(v) = TrackedMajor(main.base) /\ v > main.base} ELSE {}]
  /\ copy' = main
  /\ utPc' = "bases"
  /\ UNCHANGED <<utCfg, utWorld, main, tags, signals, mixed>>

\* followAlpineBases: a base on another line takes the packages' suite along.
ShiftsSuite(target) == utCfg.kind = "apk" /\ target # 0 /\ Line(target) # Line(copy.base)

\* followAlpineBases and annotateTrackedBase, one turn of the loop: the newest aged
\* release; a suite its pins cannot move to takes all its releases out of the choice.
\* A base whose digest cannot be resolved stays.
FollowBase ==
  /\ utPc = "bases" /\ UtOk
  /\ LET id == IF utCfg.kind = "apk" THEN "alpine" ELSE "source"
         ages == IF utCfg.kind = "apk" THEN alp ELSE rel
         p == PickTarget(move.newer, DatesOf(ages, move.newer \cap move.dated), move.lock[id], utCfg.follow)
         shift == ShiftsSuite(p.target)
         off == shift /\ SuiteUnusable(copy.pins, Line(p.target))
         base == IF move.digest THEN p.target ELSE 0
     IN /\ move' = IF move.newer = {} THEN move
                   ELSE IF off THEN [move EXCEPT !.lock[id] = p.seen, !.newer = {v \in @ : Line(v) # Line(p.target)}]
                   ELSE [move EXCEPT !.lock[id] = p.seen, !.newer = {}, !.base = base, !.shift = shift /\ base # 0]
        /\ utPc' = IF move.newer # {} /\ off THEN "bases" ELSE "pins"
  /\ UNCHANGED <<utCfg, utWorld, main, copy, tags, signals, mixed>>

\* upstreamPinDeps, in the suite the base moves to.
UpstreamPinDeps ==
  /\ utPc = "pins" /\ UtOk
  /\ LET suite == IF move.shift THEN Line(move.base) ELSE Line(copy.base)
         p == PinTarget(copy, move.lock["source"], suite, move.shift)
     IN move' = IF utCfg.kind = "image" \/ ~move.lists \/ ~Agree(copy.pins) THEN move
                ELSE [move EXCEPT !.pin = p.target, !.after = p.after, !.lock["source"] = p.seen]
  /\ utPc' = "planned"
  /\ UNCHANGED <<utCfg, utWorld, main, copy, tags, signals, mixed>>

\* dependency.Update writes the FROM, and all pins of the source or none: a line that
\* no longer holds the value that was read leaves the whole source alone.
ApplyUpstreamUpdates ==
  /\ utPc = "planned"
  /\ copy' = [copy EXCEPT !.base = IF move.base # 0 /\ ~utCfg.dry THEN move.base ELSE @,
                          !.pins = IF move.pin # 0 /\ ~utCfg.dry /\ @ = main.pins
                                   THEN [i \in 1..2 |-> move.pin] ELSE @]
  /\ utPc' = "applied" /\ UtOk
  /\ UNCHANGED <<utCfg, utWorld, main, move, tags, signals, mixed>>

\* A write fails: the run ends with an error and nothing of it is committed.
ApplyFails ==
  /\ utPc = "planned" /\ UtEvent
  /\ copy' = main /\ move' = NoMove /\ mixed' = FALSE
  /\ utPc' = "idle"
  /\ UNCHANGED <<utCfg, utWorld, main, tags, signals>>

\* finish: after a bump the lock keeps the versions above the target. Its write may
\* fail with a warning.
FinishLock(written) ==
  /\ utPc = "applied"
  /\ IF written THEN UtOk ELSE UtEvent
  /\ LET bumped == move.pin # 0 /\ copy.pins = [i \in 1..2 |-> move.pin]
         lock == IF bumped /\ (utCfg.age \/ utCfg.follow)
                 THEN [move.lock EXCEPT !["source"] = Observe(@, move.after)] ELSE move.lock
     IN copy' = IF written /\ ~utCfg.dry THEN [copy EXCEPT !.lock = lock] ELSE copy
  /\ utPc' = "finished"
  /\ UNCHANGED <<utCfg, utWorld, main, move, tags, signals, mixed>>

\* The commit of the run is pushed, or refused and thrown away with the workspace.
PushUpdate(lands) ==
  /\ utPc = "finished"
  /\ IF lands THEN UtOk ELSE UtEvent
  /\ main' = IF lands THEN copy ELSE main
  /\ copy' = main' /\ move' = NoMove /\ mixed' = FALSE
  /\ utPc' = "idle"
  /\ UNCHANGED <<utCfg, utWorld, tags, signals>>

-----------------------------------------------------------------------------
(* Releases *)

\* The version a commit holds: its pins, its base, or the newest release it contains.
Holds(tree) == IF utCfg.kind \in {"image", "fork"} THEN tree.base ELSE tree.pins[1]
Released == {v \in UtVersions : rel[v] # Absent}

\* autoReleaseUpstream: the version is tagged when upstream released it and we did not.
AutoReleaseUpstream ==
  /\ utPc = "idle" /\ utCfg.auto /\ utCfg.mode = "track" /\ utCfg.kind # "apk"
  /\ UtOk /\ Agree(main.pins) /\ Holds(main) \in Released
  /\ ~\E t \in tags : t.ver = Holds(main)
  /\ tags' = tags \cup {[ver |-> Holds(main), has |-> Holds(main), auto |-> TRUE, state |-> "new"]}
  /\ UNCHANGED <<utCfg, utWorld, main, copy, utPc, move, signals, mixed>>

Judged(v) == v >= utCfg.since
\* ReleaseVerdict and, in a fork, ancestryVerdict.
ReleaseVerdict(t) ==
  \/ ~Judged(t.ver)
  \/ /\ utCfg.mode = "track" => t.ver \in Released
     /\ utCfg.mode = "continue" => t.ver \notin Released
     /\ utCfg.ancestry => t.ver <= t.has
\* The evidence gate probes the image that was built.
EvidenceProves(t) == utCfg.evidence /\ utCfg.mode # "own" /\ Judged(t.ver) => t.has = t.ver

\* The pipeline of a tag (again after a refusal): watchUpstream guards, then the
\* evidence gate. A source that cannot be listed refuses the release.
WatchTag(t, listed) ==
  /\ t \in tags /\ t.state \in {"new", "refused"}
  /\ IF listed /\ t.state = "new" THEN UtOk ELSE UtEvent
  /\ LET guarding == utCfg.mode # "own"
         true == ReleaseVerdict(t) /\ EvidenceProves(t)
         ships == guarding => listed /\ (true \/ ~utCfg.refuse)
     IN /\ tags' = (tags \ {t}) \cup {[t EXCEPT !.state = IF ships THEN "shipped" ELSE "refused"]}
        /\ signals' = (IF listed THEN {} ELSE {"unreachable"})
                        \cup (IF guarding /\ listed /\ ~true /\ ~utCfg.refuse THEN {"mismatch"} ELSE {})
  /\ UNCHANGED <<utCfg, utWorld, main, copy, utPc, move, mixed>>

\* The watch of a branch pipeline: what upstream has and our tags do not, and tags
\* whose claim is false.
WatchBranch(listed) ==
  /\ utPc = "idle" /\ utCfg.mode = "track"
  /\ IF listed THEN UtOk ELSE UtEvent
  /\ LET false == {t \in tags : Judged(t.ver) /\ t.ver \notin Released}
         behind == Newest(Released) > Newest({t.ver : t \in tags})
     IN signals' = IF ~listed THEN {"unreachable"}
                   ELSE (IF behind THEN {"updates"} ELSE {}) \cup (IF false # {} /\ Released # {} THEN {"mismatch"} ELSE {})
  /\ signals' # signals
  /\ UNCHANGED <<utCfg, utWorld, main, copy, utPc, move, tags, mixed>>

-----------------------------------------------------------------------------
(* The world *)

Older(ages) == [v \in UtVersions |-> IF ages[v] >= 0 /\ ages[v] < UtOld THEN ages[v] + 1 ELSE ages[v]]
OlderLock(lock) == [i \in {"source", "alpine"} |-> Older(lock[i])]
Tick ==
  /\ rel' = Older(rel) /\ alp' = Older(alp)
  /\ main' = [main EXCEPT !.lock = OlderLock(@)]
  /\ copy' = [copy EXCEPT !.lock = OlderLock(@)]
  /\ move' = [move EXCEPT !.lock = OlderLock(@)]
  /\ <<rel, alp, main, copy, move>>' # <<rel, alp, main, copy, move>>
  /\ UtOk /\ UNCHANGED <<utCfg, suites, offered, utPc, tags, signals, mixed>>
Publish(v) ==
  /\ utCfg.kind # "apk" /\ rel[v] = Absent /\ UtEvent
  /\ rel' = [rel EXCEPT ![v] = 0]
  /\ UNCHANGED <<utCfg, alp, suites, offered, main, copy, utPc, move, tags, signals, mixed>>
PublishAlpine(v) ==
  /\ utCfg.kind = "apk" /\ alp[v] = Absent /\ UtEvent
  /\ alp' = [alp EXCEPT ![v] = 0]
  /\ UNCHANGED <<utCfg, rel, suites, offered, main, copy, utPc, move, tags, signals, mixed>>
PublishPackage(s, v) ==
  /\ utCfg.kind = "apk" /\ v > suites[s] /\ UtEvent
  /\ suites' = [suites EXCEPT ![s] = v]
  /\ offered' = offered \cup {<<s, v>>}
  /\ rel' = [rel EXCEPT ![v] = IF @ = Absent THEN 0 ELSE @]
  /\ UNCHANGED <<utCfg, alp, main, copy, utPc, move, tags, signals, mixed>>
\* People: a lock damaged in a merge, a pin edited in the worktree under the run, one
\* of two pins moved by hand, a release merged into the fork, a tag.
CorruptLock ==
  /\ utPc = "idle" /\ UtEvent
  /\ \E i \in {"source", "alpine"}, v \in UtVersions :
       main.lock[i][v] >= 0 /\ main' = [main EXCEPT !.lock[i][v] = Corrupt]
  /\ copy' = main'
  /\ UNCHANGED <<utCfg, utWorld, utPc, move, tags, signals, mixed>>
EditUnderRun ==
  /\ utPc = "planned" /\ ~mixed /\ utCfg.kind \in {"git", "apk"} /\ UtEvent
  /\ \E v \in UtVersions : v > copy.pins[2] /\ copy' = [copy EXCEPT !.pins[2] = v]
  /\ mixed' = TRUE
  /\ UNCHANGED <<utCfg, utWorld, main, utPc, move, tags, signals>>
FixPins ==
  /\ utPc = "idle" /\ ~Agree(main.pins)
  /\ main' = [main EXCEPT !.pins = [i \in 1..2 |-> main.pins[1]]]
  /\ copy' = main' /\ UtOk
  /\ UNCHANGED <<utCfg, utWorld, utPc, move, tags, signals, mixed>>
MergeUpstream ==
  /\ utCfg.kind = "fork" /\ utPc = "idle"
  /\ \E v \in Released : v > main.base /\ main' = [main EXCEPT !.base = v]
  /\ copy' = main' /\ UtOk
  /\ UNCHANGED <<utCfg, utWorld, utPc, move, tags, signals, mixed>>
HandTag(v) ==
  /\ utPc = "idle" /\ utCfg.mode # "own" /\ UtEvent
  /\ ~\E t \in tags : t.ver = v
  /\ tags' = tags \cup {[ver |-> v, has |-> Holds(main), auto |-> FALSE, state |-> "new"]}
  /\ UNCHANGED <<utCfg, utWorld, main, copy, utPc, move, signals, mixed>>

UtFrom(first, old) ==
  /\ rel = [v \in UtVersions |-> IF v = old THEN UtOld ELSE Absent]
  /\ alp = [v \in UtVersions |-> IF v = old THEN UtOld ELSE Absent]
  /\ suites = [s \in Lines |-> IF s = Line(old) THEN old ELSE 0]
  /\ offered = {<<Line(old), old>>}
  /\ main = [pins |-> [i \in 1..2 |-> old], base |-> old, lock |-> NoSeen] /\ copy = main
  /\ utPc = first /\ move = NoMove /\ tags = {} /\ signals = {} /\ mixed = FALSE
  /\ utLeft = UtEvents
UtInit == utCfg \in {c \in UtConfigs \cap UtConfigShape : ValidUpstream(c)} /\ UtFrom("idle", Min(UtVersions))

UtRun ==
  \/ JoinUpstreamPins(TRUE, TRUE) \/ FollowBase \/ UpstreamPinDeps
  \/ ApplyUpstreamUpdates \/ FinishLock(TRUE) \/ PushUpdate(TRUE)
UtFault ==
  \/ \E l, d \in BOOLEAN : ~(l /\ d) /\ JoinUpstreamPins(l, d)
  \/ ApplyFails \/ FinishLock(FALSE) \/ PushUpdate(FALSE)
UtRelease ==
  \/ AutoReleaseUpstream
  \/ \E t \in tags : WatchTag(t, TRUE)
UtWatch ==
  \/ \E t \in tags : WatchTag(t, FALSE)
  \/ \E l \in BOOLEAN : WatchBranch(l)
UtPeople ==
  \/ CorruptLock \/ EditUnderRun \/ FixPins \/ MergeUpstream
  \/ \E v \in UtVersions : HandTag(v)
UtOutside ==
  \/ \E v \in UtVersions : Publish(v) \/ PublishAlpine(v)
  \/ \E s \in Lines, v \in UtVersions : PublishPackage(s, v)
UtNext ==
  /\ utPc # "off"
  /\ UtRun \/ UtFault \/ UtRelease \/ UtWatch \/ UtPeople \/ UtOutside \/ Tick

\* Pipelines are scheduled again and again, time passes, people repair pins that
\* disagree and merge what upstream released.
UtFair ==
  /\ WF_utVars(Tick /\ utPc # "off")
  /\ WF_utVars(UtRun /\ utPc # "off")
  /\ SF_utVars(UtRelease /\ utPc # "off")
  /\ SF_utVars((FixPins \/ MergeUpstream) /\ utPc # "off")
UtSpec == UtInit /\ [][UtNext]_utVars /\ UtFair

-----------------------------------------------------------------------------
Seen == [{"source", "alpine"} -> [UtVersions -> Ages \cup {Corrupt}]]
Tree == [pins : [1..2 -> UtVersions], base : UtVersions, lock : Seen]
UtTypeOK ==
  /\ rel \in [UtVersions -> Ages] /\ alp \in [UtVersions -> Ages]
  /\ suites \in [Lines -> UtVersions \cup {0}]
  /\ main \in Tree /\ copy \in Tree
  /\ utPc \in {"idle", "bases", "pins", "planned", "applied", "finished", "off"}
  /\ move.pin \in UtVersions \cup {0} /\ move.base \in UtVersions \cup {0}
  /\ move.lock \in Seen
  /\ \A t \in tags : t.ver \in UtVersions /\ t.has \in UtVersions /\ t.state \in {"new", "shipped", "refused"}
  /\ signals \subseteq {"unreachable", "updates", "mismatch"}

\* What a run moves the default branch to has been out for the cooldown, pins and
\* bases alike (docs/config/upstream.md, "a release is adopted only once it has been
\* known for that long"). A pin may be younger in two cases: it moves with its base
\* into another suite, the base being aged (upstream_bump.go:88, "no cooldown of their
\* own"); or max_update lowers an aged release of a newer major to the newest listed
\* one it allows, whose age ceilingRetarget does not ask (dependency/filter.go:69).
\* What a person wrote into the worktree under the run is not the run's.
MovesPin == utPc = "finished" /\ main'.pins # main.pins /\ ~mixed
MovesBase == utPc = "finished" /\ main'.base # main.base
MovedWithBase == MovesBase /\ utCfg.kind = "apk" /\ Line(main'.base) # Line(main.base)
LoweredByCeiling ==
  /\ utCfg.minor /\ utCfg.mode # "track" /\ Line(main'.pins[1]) = Line(main.pins[1])
  /\ \E v \in UtVersions : rel[v] = UtOld /\ Line(v) > Line(main.pins[1])
AdoptsOnlyAged ==
  [][ /\ MovesPin /\ utCfg.age => rel[main'.pins[1]] = UtOld \/ MovedWithBase \/ LoweredByCeiling
      /\ MovesBase /\ utCfg.follow =>
           (IF utCfg.kind = "apk" THEN alp ELSE rel)[main'.base] = UtOld ]_utVars
\* Neither pins nor bases ever go back, and what is tracked stays in its major
\* (upstream_bump.go trackedMajor, upstream_track.go annotateTrackedBase).
ForwardInLine ==
  [][ /\ utPc = "finished" => main'.pins[1] >= main.pins[1] /\ main'.base >= main.base
      /\ MovesPin /\ utCfg.mode = "track" /\ utCfg.line = 0 => Line(main'.pins[1]) = Line(main.pins[1])
      /\ utPc = "finished" /\ main'.base # main.base /\ utCfg.kind = "image" /\ utCfg.line = 0
           => Line(main'.base) = Line(main.base) ]_utVars

\* The two pins of a source move together or not at all, also when a person edits one
\* of them under the run (upstream.md, "One source, one version").
PinsMoveTogether ==
  [][ utPc = "planned" /\ utPc' = "applied" => copy'.pins = copy.pins \/ Agree(copy'.pins) ]_utVars

\* The package version that is pinned is one its Alpine suite has carried: base and
\* pin move in one commit (upstream.md, "Following the Alpine release"), unless
\* max_update holds the pin back while its base goes on, or a person edits a pin under
\* the run.
PinInSuite == utCfg.kind = "apk" => <<Line(main.base), main.pins[1]>> \in offered
HeldByCeiling == utPc = "finished" /\ utCfg.minor /\ move.shift /\ move.pin = 0
SuiteCarriesPin == [][ ~HeldByCeiling /\ ~mixed /\ PinInSuite => PinInSuite' ]_utVars

\* A tag that ships claims the truth, or the mismatch is reported: in a tracking fork
\* upstream released that version and the image is proven to hold it (or, with
\* ancestry, the commit to contain it); in a continuing one upstream has not used that
\* number (watchUpstream, evidenceGate, validateUpstream).
ShipsTrueClaims ==
  [][ \A t \in tags' : t.state = "shipped" /\ t \notin tags /\ Judged(t.ver) =>
        \/ /\ utCfg.mode = "track" =>
                rel[t.ver] # Absent /\ (t.has = t.ver \/ (utCfg.ancestry /\ t.ver < t.has))
           /\ utCfg.mode = "continue" => rel[t.ver] = Absent
        \/ utCfg.mode # "own" /\ ~utCfg.refuse /\ "mismatch" \in signals' ]_utVars
\* A tag the pipeline cut names the version its commit holds, and upstream released it
\* (autoReleaseTag, with the pins moving under it).
AutoTagsHold == \A t \in tags : t.auto => t.has = t.ver /\ rel[t.ver] # Absent

\* Once upstream is quiet, a source ends up on the newest release it may adopt
\* (cooldown entries survive the runs that record them).
NewestAllowed ==
  LET cur == Holds(main)
      S == {v \in Released : v >= cur /\ (utCfg.mode = "track" /\ utCfg.kind # "fork" => Line(v) = TrackedMajor(cur))}
  IN cur = Newest(S \cup {cur})
AdoptsNewest ==
  utPc # "off" /\ utCfg.kind # "apk" /\ ~utCfg.dry /\ ~(utCfg.minor /\ utCfg.mode # "track") => <>[]NewestAllowed
\* What following an upstream leaves true: a tag cut automatically carries
\* the version it names, a suite carries the pin unless max_update holds it
\* back, only aged versions are adopted save by a pin that max_update lowers or
\* that moves suites with its base, pins move forward in their line and
\* together, and shipped claims are true (cli/cmd/upstream_bump.go).
TrackKeeps ==
  /\ [](UtTypeOK /\ AutoTagsHold)
  /\ SuiteCarriesPin
  /\ AdoptsOnlyAged
  /\ ForwardInLine
  /\ PinsMoveTogether
  /\ ShipsTrueClaims
=============================================================================
