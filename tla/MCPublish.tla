------------------------------ MODULE MCPublish -----------------------------
(* What is published by name, for TLC: the tags this project cuts (its two *)
(* clones are interchangeable), packages and pages.  They share no state,  *)
(* so every behaviour is about one of them while the others stay as they   *)
(* start.                                                                  *)
EXTENDS Tagging, Distribute, TLC

VARIABLE part      \* the component this behaviour is about

-----------------------------------------------------------------------------
(* Tagging *)
TgRc == <<1, 0, 0, 0>>
TgOne == <<1, 0, 0, 1>>
TgPatch == <<1, 0, 1, 1>>
TgVersionsMC == {TgRc, TgOne, TgPatch}

\* Plain releases on a terminal, prereleases too in a CI shell, and a CI shell
\* without declared patterns.
TgConfigsMC ==
    {[patterns |-> {1}, mode |-> "", empty |-> "fail", push |-> FALSE, approval |-> TRUE, tty |-> TRUE,
      line |-> <<"feat", "gen", "feat">>],
     [patterns |-> {0, 1}, mode |-> "auto", empty |-> "allow_empty", push |-> TRUE, approval |-> FALSE, tty |-> FALSE,
      line |-> <<"feat", "empty", "gen">>],
     [patterns |-> {}, mode |-> "", empty |-> "", push |-> TRUE, approval |-> FALSE, tty |-> FALSE,
      line |-> <<"gen", "feat", "gen">>]}

TgBase == [version |-> TgNone, bump |-> "none", from |-> TgNone, back |-> 0, menu |-> FALSE,
           message |-> FALSE, yes |-> FALSE, push |-> FALSE, dry |-> FALSE]
TgRequestsMC ==
    {[TgBase EXCEPT !.version = TgOne, !.push = TRUE, !.message = TRUE],
     [TgBase EXCEPT !.version = TgRc, !.yes = TRUE],
     [TgBase EXCEPT !.version = TgPatch, !.dry = TRUE],
     [TgBase EXCEPT !.bump = "patch", !.menu = TRUE],
     [TgBase EXCEPT !.bump = "patch", !.from = TgOne, !.back = 1, !.yes = TRUE, !.push = TRUE]}

-----------------------------------------------------------------------------
(* Distribute *)
DsFilesMC == <<"amd", "arm", "web">>
DsSetOfMC == [amd |-> "cli", arm |-> "cli", web |-> "site"]
\* Three pages; no two of them fit one upload together with the third.
DsPagesMC == <<"a.js", "index", "logo">>
DsWeightMC == [p \in {"a.js", "index", "logo"} |-> IF p = "a.js" THEN 3 ELSE 2]

Dist(forge, set, keep, pages, from, exclude, owned) ==
    [forge |-> forge, set |-> set, keep |-> keep, pages |-> pages, from |-> from, exclude |-> exclude, owned |-> owned]
DsConfigsMC ==
    {Dist("gitlab", "cli", k, "none", "build", {}, FALSE) : k \in {0, 1}}
    \cup {Dist("gitlab", "cli", 1, "cloudflare", "dir", {}, FALSE),
          Dist("github", "cli", 0, "none", "dir", {}, FALSE),
          Dist("gitlab", "nope", 0, "github", "dir", {}, FALSE),
          Dist("gitlab", "none", 0, "github", "build", {}, FALSE),
          Dist("gitlab", "none", 0, "cloudflare", "build", {"logo"}, FALSE),
          Dist("gitlab", "none", 0, "cloudflare", "build", {}, FALSE),
          Dist("gitlab", "none", 0, "cloudflare", "dir", {"a.js", "index", "logo"}, FALSE),
          Dist("gitlab", "none", 0, "cloudflare", "dir", {}, TRUE)}

-----------------------------------------------------------------------------
TaggingIdle == tgCfg = (CHOOSE c \in TgConfigs : TRUE) /\ TgFrom("off")
DistributeIdle == dsCfg = (CHOOSE c \in DsConfigs : TRUE) /\ DsFrom("off")

PublishInit ==
    \/ part = "tagging" /\ TgInit /\ DistributeIdle
    \/ part = "distribute" /\ DsInit /\ TaggingIdle

PublishNext ==
    \/ part = "tagging" /\ TgNext /\ UNCHANGED <<part, dsVars>>
    \/ part = "distribute" /\ DsNext /\ UNCHANGED <<part, tgVars>>

publishVars == <<part, tgVars, dsVars>>

PublishSpec == PublishInit /\ [][PublishNext]_publishVars

\* TgClones are interchangeable.
PublishSymmetry == Permutations(TgClones)
=============================================================================
