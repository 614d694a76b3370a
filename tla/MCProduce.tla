------------------------------ MODULE MCProduce -----------------------------
(* What makes and judges artifacts, for TLC: builds, scans, lint,          *)
(* dependency discovery and updates, narration into files, and the         *)
(* schedules of the forge that start runs.  They share no state, so every  *)
(* behaviour is about one of them while the others stay as they start.     *)
EXTENDS BuildRun, SecurityScan, LintEngine, DependencyUpdate, Freshness, Scribe, Schedules

VARIABLE part      \* the component this behaviour is about

-----------------------------------------------------------------------------
(* BuildRun *)
\* Graphs on their own; then the contributors with one graph.
BdBase == [active |-> {"binary", "image", "crucible"}, edges |-> {<<"b", "a">>, <<"s", "a">>, <<"b", "s">>},
         from |-> "a", mode |-> "push", retain |-> TRUE, daemon |-> FALSE, dry |-> FALSE,
         sign |-> "enforce", attest |-> TRUE, archive |-> TRUE, clash |-> FALSE, signer |-> "resolves", shared |-> FALSE]
MCBdConfigs ==
       {[BdBase EXCEPT !.active = {"binary"}, !.edges = e, !.archive = FALSE] : e \in SUBSET Graph}
  \cup {[BdBase EXCEPT !.mode = m, !.sign = s, !.active = BdBase.active \ a] :
          m \in {"push", "transport"}, s \in {"soft", "enforce"}, a \in {{}, {"image"}, {"crucible"}}}
  \cup {[BdBase EXCEPT !.mode = "local", !.daemon = TRUE, !.sign = s, !.retain = FALSE] : s \in {"off", "enforce"}}
  \cup {[BdBase EXCEPT !.mode = "local"], [BdBase EXCEPT !.clash = TRUE], [BdBase EXCEPT !.from = "c"],
        [BdBase EXCEPT !.dry = TRUE], [BdBase EXCEPT !.shared = TRUE], [BdBase EXCEPT !.active = {"image"}, !.from = "", !.attest = FALSE]}
  \cup {[BdBase EXCEPT !.active = {"image"}, !.from = "", !.signer = s] : s \in {"skips", "refuses"}}
MCBdInit == bdCfg \in MCBdConfigs /\ BdFrom("start")

-----------------------------------------------------------------------------
(* SecurityScan *)
V(i, p, s, f) == [id |-> i, pkg |-> p, sev |-> s, fix |-> f]
Reports == {
  [trivy |-> {V("x", "p", 3, TRUE), V("y", "q", 4, TRUE)}, grype |-> {V("x", "p", 4, FALSE)}],
  [trivy |-> {V("x", "p", 3, FALSE)}, grype |-> {V("x", "p", 3, TRUE), V("x", "q", 2, TRUE), V("y", "p", 1, FALSE)}],
  [trivy |-> {}, grype |-> {V("y", "p", 3, TRUE), V("x", "p", 0, TRUE)}] }
Base == [says |-> CHOOSE r \in Reports : TRUE, on |-> {"trivy", "grype"}, failOn |-> 3, unreachable |-> TRUE,
         unfixed |-> TRUE, except |-> {}, silent |-> {}, strict |-> FALSE, sbom |-> TRUE, pinned |-> FALSE,
         signs |-> FALSE, ci |-> TRUE]
MCScConfigs ==
  {[Base EXCEPT !.says = r, !.failOn = f, !.except = e, !.silent = s, !.strict = t] :
     r \in Reports, f \in {0, 2, 3}, e \in {{}, {<<"x", "p", TRUE>>}, {<<"x", "any", FALSE>>}},
     s \in {{}, {"y"}}, t \in BOOLEAN}
  \cup {[Base EXCEPT !.says = r, !.unfixed = FALSE, !.unreachable = FALSE, !.silent = {"x", "y"},
                     !.sbom = b, !.pinned = ~b, !.ci = b, !.on = o] :
          r \in Reports, b \in BOOLEAN, o \in {{"trivy"}, {"grype"}}}
  \cup {[Base EXCEPT !.strict = TRUE, !.signs = TRUE]}
MCScInit == scCfg \in MCScConfigs /\ ScFrom("idle")

-----------------------------------------------------------------------------
(* LintEngine *)
MCLintInit ==
  /\ LintInit
  /\ <<liCfg.slots, liCfg.full, liCfg.baseline, liCfg.fix, liCfg.vendored, liCfg.ttl>> \in
       {<<1, TRUE, FALSE, FALSE, {}, 0>>, <<1, TRUE, FALSE, TRUE, {"g"}, 0>>, <<2, FALSE, TRUE, FALSE, {}, -1>>}
  /\ liCfg.base = [f \in LiFiles |-> IF liCfg.full \/ f = "g" THEN 0 ELSE NoData]

-----------------------------------------------------------------------------
(* DependencyUpdate *)
MCLatest == {[d \in Deps |-> 1], [d \in Deps |-> 3], [[d \in Deps |-> 2] EXCEPT !["img"] = 1],
             [[d \in Deps |-> 2] EXCEPT !["dir"] = 0]}
MCDuInit ==
  /\ LET cfgs == [latest : MCLatest, fixed : {0, 2, 3}, minor : BOOLEAN, security : {FALSE}, dry : BOOLEAN,
         pulls : BOOLEAN, raises : BOOLEAN, needs : BOOLEAN, oneLine : {FALSE}, wild : BOOLEAN,
         held : {FALSE}, tagged : {TRUE}, commit : {TRUE}] IN
     duCfg \in {c \in cfgs : c.dry => ~c.pulls /\ ~c.raises /\ ~c.needs}
         \cup {[c EXCEPT !.security = TRUE, !.held = TRUE, !.commit = FALSE] :
                 c \in {d \in cfgs : ~d.dry /\ d.wild /\ d.minor}}
         \cup {[c EXCEPT !.oneLine = TRUE, !.tagged = FALSE] : c \in {d \in cfgs : ~d.dry /\ d.wild /\ ~d.minor}}
  /\ DuFrom("start")

-----------------------------------------------------------------------------
(* Freshness *)
\* A release, one before it, and the same for an image of another variant.
Rel(a, b, c) == <<a, b, c, 1, 0>>
Rc(a, b, c) == <<a, b, c, 0, 0>>
Variant(a, b, c) == <<a, b, c, 1, 1>>
Fr(kind, op, max) ==
  [kind |-> kind, op |-> op, base |-> Rel(1, 0, 0), locked |-> TRUE, start |-> {Rel(1, 0, 0)},
   registry |-> {Rel(1, 0, 0), Rel(1, 0, 1), Rel(1, 1, 0)}
                  \cup (IF kind = "image" THEN {Variant(1, 0, 1)} ELSE {Rel(2, 0, 0)})
                  \cup (IF kind \in {"exact", "wild"} THEN {} ELSE {Rc(1, 0, 2)}),
   newGo |-> {}, wait |-> [major |-> 2, minor |-> 2, patch |-> 1], max |-> max, security |-> FALSE,
   until |-> 0, torn |-> FALSE]
\* Every kind, a ceiling, exact and tilde pins, an accepted risk under a security policy, a
\* module that needs a newer Go, no lock, no cooldown, and a line with and without its lock.
MCFrConfigs ==
       {Fr(k, "^", "major") : k \in {"cargo", "npm", "gomod", "wild", "exact", "image", "suite"}}
  \cup {Fr(k, "^", "patch") : k \in {"cargo", "gomod"}}
  \cup {[Fr("cargo", "=", "major") EXCEPT !.registry = {Rel(1, 0, 0), Rel(1, 0, 1)}]}
  \cup {[Fr("npm", "~", "minor") EXCEPT !.until = 2, !.security = TRUE],
        [Fr("gomod", "^", "minor") EXCEPT !.newGo = {Rel(1, 1, 0)}],
        [Fr("npm", "^", "patch") EXCEPT !.locked = FALSE, !.wait = [major |-> 0, minor |-> 0, patch |-> 0]]}
  \cup {[Fr("wild", "^", "major") EXCEPT !.locked = t, !.torn = t] : t \in BOOLEAN}

-----------------------------------------------------------------------------
(* Scribe *)
Sten(kind, refs) == [kind |-> kind, refs |-> refs]
DocFile(file, form, refs) == [file |-> file, form |-> form, refs |-> refs]
Docs(stencils, files, notes, origin, runFrom) ==
  [stencils |-> stencils, files |-> files, notes |-> notes, origin |-> origin, runFrom |-> runFrom, backend |-> "git"]
\* An index of a badge, a text over ledger rows and a fact; a body with an unknown token.
Plain == Docs([a |-> Sten("badge", {"value"}), t |-> Sten("text", {"changelog", "a"})],
              <<DocFile("r", "items", {"t"}), DocFile("s", "body", {"rows", "postmortem", "t"})>>, <<"summary">>, TRUE, TRUE)
\* Generated text in notifications, through another stencil; texts chained in a file.
Voice == Docs([l |-> Sten("llm", {"summary"}), n |-> Sten("text", {"l", "t"}), t |-> Sten("text", {"value"}), b |-> Sten("badge", {"value"})],
              <<DocFile("r", "items", {"b", "t"})>>, <<"n", "l">>, TRUE, TRUE)
\* Refused: a cycle of two, a file that embeds generated text at one remove.
Loop == Docs([t |-> Sten("text", {"n"}), n |-> Sten("text", {"t", "rows"})], <<DocFile("r", "items", {"t"})>>, <<"summary">>, TRUE, TRUE)
Tainted == Docs([l |-> Sten("llm", {"rows"}), n |-> Sten("text", {"l"}), t |-> Sten("text", {"n"})],
                <<DocFile("r", "items", {"t"})>>, <<"n">>, TRUE, TRUE)
\* No origin for badges, and the commit in a file.
Bare == Docs([a |-> Sten("badge", {"value"}), t |-> Sten("text", {"sha"})], <<DocFile("r", "items", {"a"})>>, <<"postmortem">>, FALSE, FALSE)
Shown == Docs([t |-> Sten("text", {"sha", "rows"})], <<DocFile("r", "items", {"t"})>>, <<"summary">>, TRUE, TRUE)
Forged == [Plain EXCEPT !.backend = "forge"]
\* A generated text and a cycle that shipped stencils embed, accepted.
Shadow == Docs([changelog |-> Sten("llm", {"rows"}), failures |-> Sten("text", {"postmortem"}), t |-> Sten("text", {"summary", "failures"})],
               <<DocFile("r", "items", {"t"})>>, <<"changelog">>, TRUE, TRUE)
MCSbConfigs == {Plain, Voice, Loop, Tainted, Bare, Shown, Forged, Shadow}
MCSbIds == {"a", "b", "l", "n", "t", "summary", "artifacts", "changelog", "postmortem", "failures", "vulns"}

-----------------------------------------------------------------------------
(* Schedules *)
SdIdsMC == <<"daily", "sync", "weekly">>
SdHashMC == [daily |-> "c1", sync |-> "c2", weekly |-> "c2"]
Decl(d, s, w) ==
    [daily |-> [cron |-> d, build |-> "changes"], sync |-> [cron |-> s, build |-> "changes"],
     weekly |-> [cron |-> w, build |-> "always"]]
\* Nothing declared, one schedule, three on two crons by H,
\* and a configuration that does not load.
SdDeclsMC == {Decl("none", "none", "none"), Decl("c1", "none", "none"),
              Decl("H", "c1", "H"), Decl("bad", "H", "none")}
\* One run is retried or started again, the other is not.
SdRunsMC == [p1 |-> 2, p2 |-> 1]

-----------------------------------------------------------------------------
BuildIdle == bdCfg = BdBase /\ BdFrom("off")
SecurityIdle == scCfg = Base /\ ScFrom("off")
LintIdle ==
    /\ liCfg = (CHOOSE c \in LiConfigs : TRUE) /\ content = [f \in LiFiles |-> CHOOSE c \in LiContent : TRUE]
    /\ LintFrom("off")
DepsIdle ==
    /\ duCfg = [latest |-> [d \in Deps |-> 1], fixed |-> 0, minor |-> FALSE, security |-> FALSE, dry |-> FALSE, pulls |-> FALSE,
               raises |-> FALSE, needs |-> FALSE, oneLine |-> FALSE, wild |-> FALSE, held |-> FALSE, tagged |-> TRUE,
               commit |-> TRUE]
    /\ disk = [n \in Names |-> 1] /\ sha = FALSE
    /\ DuFrom("off")
FreshnessIdle == frCfg = Fr("cargo", "^", "major") /\ FrFrom("off")
ScribeIdle ==
    /\ sbHead = [sha |-> 1, gen |-> FALSE, cfg |-> Plain, files |-> [f \in SbFiles |-> [marked |-> TRUE, text |-> {}]],
              badges |-> [b \in SbBadges |-> 0], last |-> 1, of |-> NoOrigin]
    /\ SbFrom("off")
SchedulesIdle == sdDecl = (CHOOSE d \in SdDecls : TRUE) /\ SdFrom("off")

ProduceInit ==
    \/ part = "build" /\ MCBdInit /\ SecurityIdle /\ LintIdle /\ DepsIdle /\ FreshnessIdle /\ ScribeIdle /\ SchedulesIdle
    \/ part = "security" /\ MCScInit /\ BuildIdle /\ LintIdle /\ DepsIdle /\ FreshnessIdle /\ ScribeIdle /\ SchedulesIdle
    \/ part = "lint" /\ MCLintInit /\ BuildIdle /\ SecurityIdle /\ DepsIdle /\ FreshnessIdle /\ ScribeIdle /\ SchedulesIdle
    \/ part = "deps" /\ MCDuInit /\ BuildIdle /\ SecurityIdle /\ LintIdle /\ FreshnessIdle /\ ScribeIdle /\ SchedulesIdle
    \/ part = "freshness" /\ FrInit /\ BuildIdle /\ SecurityIdle /\ LintIdle /\ DepsIdle /\ ScribeIdle /\ SchedulesIdle
    \/ part = "scribe" /\ SbInit /\ BuildIdle /\ SecurityIdle /\ LintIdle /\ DepsIdle /\ FreshnessIdle /\ SchedulesIdle
    \/ part = "schedules" /\ SdInit /\ BuildIdle /\ SecurityIdle /\ LintIdle /\ DepsIdle /\ FreshnessIdle /\ ScribeIdle

ProduceNext ==
    \/ part = "build" /\ BdNext /\ UNCHANGED <<part, scVars, lintVars, duVars, frVars, sbVars, sdVars>>
    \/ part = "security" /\ ScNext /\ UNCHANGED <<part, bdVars, lintVars, duVars, frVars, sbVars, sdVars>>
    \/ part = "lint" /\ LintNext /\ UNCHANGED <<part, bdVars, scVars, duVars, frVars, sbVars, sdVars>>
    \/ part = "deps" /\ DuNext /\ UNCHANGED <<part, bdVars, scVars, lintVars, frVars, sbVars, sdVars>>
    \/ part = "freshness" /\ FrNext /\ UNCHANGED <<part, bdVars, scVars, lintVars, duVars, sbVars, sdVars>>
    \/ part = "scribe" /\ SbNext /\ UNCHANGED <<part, bdVars, scVars, lintVars, duVars, frVars, sdVars>>
    \/ part = "schedules" /\ SdNext /\ UNCHANGED <<part, bdVars, scVars, lintVars, duVars, frVars, sbVars>>

produceVars == <<part, bdVars, scVars, lintVars, duVars, frVars, sbVars, sdVars>>

ProduceSpec == ProduceInit /\ [][ProduceNext]_produceVars

\* Dependencies: what an update leaves true (dependency/update.go), and what discovery, the
\* cooldown and the policy let it adopt (supplychain/discovery, dependency/filter.go).
UpdatesHold == UpdateKeeps /\ FreshnessKeeps
=============================================================================
