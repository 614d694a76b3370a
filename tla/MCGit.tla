-------------------------------- MODULE MCGit -------------------------------
(* What writes commits and branches, for TLC: the commit backends and the  *)
(* push engine, whose replay loop of a detached push gives up after three  *)
(* more commits by others.  They share no state, so every behaviour is     *)
(* about one of them while the others stay as they start.                  *)
EXTENDS CommitBackend, PushEngine, TLC

CONSTANTS pa, pb   \* two files, for PushEngine

VARIABLE part      \* the component this behaviour is about

-----------------------------------------------------------------------------
(* CommitBackend *)
\* Two files below d, one beside it, and the planted .gitignore.
CbFilesMC == {"a", "x", "y", "ign"}
CbNamesMC == {"a", "x", "d"}
CbBelowMC == [n \in CbNamesMC |-> IF n = "d" THEN {"x", "y"} ELSE {n}]

\* Everything there, nothing but a, only the directory.
Tree(S) == [f \in CbFilesMC |-> IF f \in S THEN 1 ELSE 0]
CbStartsMC == {Tree({"a", "x", "y"}), Tree({"a"}), Tree({"x"})}

Ty(k, a) == [key |-> k, alias |-> a]
Cf(types, default, backend, ci, provider, managed, ignored) ==
    [types |-> types, default |-> default, backend |-> backend, ci |-> ci,
     provider |-> provider, managed |-> managed, ignored |-> ignored]

Plainly == {Ty("docs", ""), Ty("chore", "")}
Aliased == {Ty("docs", ""), Ty("doc", "docs")}
Chained == {Ty("docs", ""), Ty("doc", "docs"), Ty("d", "doc")}

\* On a desk, in CI with each kind of forge; forge asked for and missing.
CbConfigsMC ==
    {Cf(Plainly, "", "git", FALSE, "none", TRUE, {"y"}),
     Cf(Aliased, "doc", "git", FALSE, "none", FALSE, {}),
     Cf(Chained, "d", "git", FALSE, "none", FALSE, {"y"}),
     Cf(Plainly, "", "forge", FALSE, "none", FALSE, {})}
    \cup {Cf(Plainly, "docs", "git", TRUE, p, FALSE, {"y"}) : p \in {"gitlab", "github", "gitea", "azure"}}

Rq(mode, names, slash, push, type, prefix) ==
    [mode |-> mode, names |-> names, slash |-> slash, push |-> push, type |-> type, prefix |-> prefix]

CbRequestsMC ==
    {Rq("scoped", {"d"}, s, FALSE, "docs", "") : s \in {{}, {"d"}}}
    \cup {Rq("scoped", {"a"}, {}, TRUE, "docs", "")}
    \cup {Rq("scoped", {"a", "x"}, {}, FALSE, "", "docs"), Rq("explicit", {"d"}, {}, FALSE, "doc", "")}
    \cup {Rq("all", {}, {}, p, "", "") : p \in BOOLEAN}
    \cup {Rq("staged", {}, {}, p, "", "note") : p \in BOOLEAN}
    \cup {Rq("explicit", {"a", "d"}, {}, TRUE, "docs", "")}

-----------------------------------------------------------------------------
(* PushEngine *)
\* Any file is as good as another: no property tells them apart.
GitSymmetry == Permutations(Paths)
MCMaxOthers == [d \in BOOLEAN |-> IF d THEN 3 ELSE 2]

-----------------------------------------------------------------------------
CommitIdle ==
    /\ cbCfg = (CHOOSE c \in CbConfigs : TRUE) /\ cbHead = (CHOOSE t \in CbStarts : TRUE)
    /\ CbFrom("off")
PushIdle ==
    /\ detached = FALSE /\ upstream = FALSE /\ remote = NoRef
    /\ protected = FALSE /\ midop = FALSE /\ PeInit

GitInit ==
    \/ part = "commit" /\ CbInit /\ PushIdle
    \/ part = "push" /\ PeInit /\ CommitIdle /\ (midop => upstream /\ ~protected)

GitNext ==
    \/ part = "commit" /\ CbNext /\ UNCHANGED <<part, peVars>>
    \/ part = "push" /\ PeNext /\ UNCHANGED <<part, cbVars>>

gitVars == <<part, cbVars, peVars>>

GitSpec == GitInit /\ [][GitNext]_gitVars
=============================================================================
