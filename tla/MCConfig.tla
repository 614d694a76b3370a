------------------------------ MODULE MCConfig ------------------------------
(* Where pins come from, for TLC: the versions of an upstream and preset   *)
(* references.  They share no state, so every behaviour is about one of    *)
(* them while the others stay as they start.                               *)
EXTENDS UpstreamTrack, PresetRefs

VARIABLE part      \* the component this behaviour is about

-----------------------------------------------------------------------------
(* UpstreamTrack *)
\* A plain project and the ways its upstream section may differ from it.
UtPlain == [kind |-> "git", mode |-> "own", line |-> 0, age |-> TRUE, follow |-> TRUE, minor |-> FALSE,
          dry |-> FALSE, auto |-> FALSE, refuse |-> TRUE, evidence |-> FALSE, ancestry |-> FALSE, since |-> 0]
Tracking == [UtPlain EXCEPT !.mode = "track", !.auto = TRUE, !.evidence = TRUE]
MCUtConfigs ==
  {UtPlain, Tracking, [UtPlain EXCEPT !.minor = TRUE, !.age = FALSE, !.follow = FALSE],
   [UtPlain EXCEPT !.dry = TRUE], [Tracking EXCEPT !.line = 2],
   [Tracking EXCEPT !.kind = "fork", !.evidence = FALSE, !.ancestry = TRUE],
   [Tracking EXCEPT !.kind = "image", !.refuse = FALSE],
   [UtPlain EXCEPT !.mode = "continue", !.since = 11], [UtPlain EXCEPT !.kind = "apk"],
   [UtPlain EXCEPT !.minor = TRUE], [UtPlain EXCEPT !.kind = "apk", !.minor = TRUE]}

-----------------------------------------------------------------------------
(* PresetRefs *)
Shape(inner, ok, ids) == [rev |-> 0, inner |-> inner, ok |-> ok, ids |-> ids]
\* Contents: plain, one that names the other preset, one that does not validate.
MCPrShapes == {Shape(NoName, TRUE, {1}), Shape("a", TRUE, {2}), Shape("b", TRUE, {1}), Shape(NoName, FALSE, {})}
One(name, policy) == [name |-> name, policy |-> policy, form |-> "one", list |-> <<>>, items |-> {}]
ListOf(names, items) == [name |-> names[1], policy |-> "", form |-> "list", list |-> names, items |-> items]
Repo(a, b, sections, space) ==
  [ref |-> [p \in {"a", "b"} |-> IF p = "a" THEN a ELSE b], sections |-> sections, space |-> space, runFrom |-> TRUE]
MCPrConfigs ==
  {Repo("head", "bareTag", <<One("a", "")>>, "fresh"),
   Repo("bareTag", "sha", <<One("a", "source"), One("b", "retained")>>, "reset"),
   Repo("url", "bareBranch", <<ListOf(<<"a", "b">>, {})>>, "fresh"),
   Repo("head", "sha", <<One("a", "")>>, "kept"),
   [Repo("head", "head", <<One("a", "bad")>>, "kept") EXCEPT !.runFrom = FALSE],
   [Repo("head", "head", <<One("a", "")>>, "reset") EXCEPT !.runFrom = FALSE],
   Repo("path", "path", <<One("a", ""), One("b", "")>>, "fresh")}

-----------------------------------------------------------------------------
TrackIdle == utCfg = UtPlain /\ UtFrom("off", Min(UtVersions))
PresetsIdle ==
    /\ prCfg = (CHOOSE c \in PrConfigs : TRUE)
    /\ prSource = [p \in PrNames |-> First(CHOOSE s \in PrShapes : s.ok /\ s.inner = NoName)]
    /\ PrFrom("off")

ConfigInit ==
    \/ part = "track" /\ UtInit /\ PresetsIdle
    \/ part = "presets" /\ PrInit /\ TrackIdle

ConfigNext ==
    \/ part = "track" /\ UtNext /\ UNCHANGED <<part, prVars>>
    \/ part = "presets" /\ PrNext /\ UNCHANGED <<part, utVars>>

configVars == <<part, utVars, prVars>>

ConfigSpec ==
    /\ ConfigInit /\ [][ConfigNext]_configVars
    /\ UtFair
    /\ PrFair
=============================================================================
