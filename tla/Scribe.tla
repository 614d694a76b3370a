------------------------------- MODULE Scribe --------------------------------
(***************************************************************************)
(* Generated documentation: stencils rendered into marked regions of files *)
(* and into badges, committed back to the branch, and into notifications   *)
(* (scribe/, stencil/, config/stencil.go, config/llm.go, cli/cmd/badges.go,*)
(* scribeRunner, dispatchNotifications). A text is the set of its atoms:   *)
(* <<"fact", name, value>>, <<"ai", stencil, n>>, <<"link", badge, 0>> and  *)
(* <<"raw", name, 0>>, a token left as it was written.                     *)
(***************************************************************************)
EXTENDS Integers, Sequences, FiniteSets, TLC

CONSTANTS
  SbConfigs,    \* the configurations the repository may declare
  SbIds,        \* stencil names, the shipped ones included
  SbFiles,      \* the marked regions of files
  SbBadges,     \* badge images that may lie in the store
  SbEvents,     \* bound on pushes, triggers, changes of facts and faults
  SbShas        \* commits are told apart modulo this number

\* Facts: the commit, ledger rows, a value only the pipeline can resolve.
SbFacts == {"sha", "rows", "value"}
ASSUME ScribeAssumption == SbEvents \in Nat /\ SbShas \in Nat \ {0} /\ IsFiniteSet(SbIds) /\ SbIds \cap SbFacts = {}

VARIABLES
  sbHead,       \* [sha, gen, cfg, files, badges, last, of] the branch: its last push by a
                \* person, and what a generated commit was made from
  sbFact,       \* facts, 0 where one cannot be resolved
  sbDue,        \* the push a pipeline is owed: [sha, cfg, files, badges], or none
  sbRun,        \* the job's workspace, and where it is in the files
  sbShip,       \* the last commit shipped
  sbMemo,       \* generated texts of this process
  sbSent,       \* what the notifications of this process said
  sbPc,
  sbLeft

sbVars == <<sbHead, sbFact, sbDue, sbRun, sbShip, sbMemo, sbSent, sbPc, sbLeft>>

Unsaid == {<<"unsaid", "", 0>>}
Fact(f, facts) == IF facts[f] = 0 THEN {} ELSE {<<"fact", f, facts[f]>>}
Raw(token) == {<<"raw", token, 0>>}
NoWork == [sha |-> 0, at |-> 0, wrote |-> FALSE]
SbEvent == sbLeft > 0 /\ sbLeft' = sbLeft - 1

-----------------------------------------------------------------------------
(* Stencils *)

\* ShippedStencil.
Shipped ==
  [summary |-> [kind |-> "text", refs |-> {"sha", "artifacts", "changelog"}],
   postmortem |-> [kind |-> "text", refs |-> {"sha", "failures", "vulns"}],
   failures |-> [kind |-> "ci", refs |-> {"rows"}], vulns |-> [kind |-> "ci", refs |-> {"rows"}],
   artifacts |-> [kind |-> "ci", refs |-> {"rows"}], changelog |-> [kind |-> "ci", refs |-> {"rows"}]]
Declared(c) == DOMAIN c.stencils
Known(c) == Declared(c) \cup (DOMAIN Shipped \cap SbIds)
Def(c, id) == IF id \in Declared(c) THEN c.stencils[id] ELSE Shipped[id]

\* What a stencil gives when those in v are being rendered: a fact, an embedded
\* stencil, or the token as written (a cycle, an unknown name).
Render(c, facts, said) ==
  LET text[v \in SUBSET SbIds, id \in SbIds] ==
        LET def == Def(c, id)
            token(t) == IF t \in SbFacts THEN Fact(t, facts)
                        ELSE IF t \notin Known(c) \/ t \in v THEN Raw(t)
                        ELSE text[v \cup {t}, t]
        IN CASE def.kind = "badge" -> IF c.origin THEN {<<"link", id, 0>>} ELSE {}
             [] def.kind = "llm" -> said[id]
             [] OTHER -> UNION {token(t) : t \in def.refs}
  IN text

\* Stencils an embedding reaches, prompts included.
Embeds(c, ids) ==
  LET reach[n \in Nat] == IF n = 0 THEN ids \cap Known(c)
                          ELSE UNION {prev \cup (UNION {Def(c, i).refs : i \in prev} \cap Known(c)) : prev \in {reach[n - 1]}}
  IN reach[Cardinality(SbIds)]

\* Mutant: only stencils that embed a generated one directly count.
TaintedDirectly(c) == {i \in Declared(c) : c.stencils[i].kind = "llm"}
\* LLMTaintedStencils: declared stencils that reach a generated one through declared ones.
LLMTaintedStencils(c) ==
  LET tainted[n \in Nat] == IF n = 0 THEN {i \in Declared(c) : c.stencils[i].kind = "llm"}
                            ELSE LET prev == tainted[n - 1]
                                 IN prev \cup {i \in Declared(c) : c.stencils[i].refs \cap prev # {}}
  IN tainted[Cardinality(SbIds)]

\* findStencilCycle, over declared stencils.
FindStencilCycle(c) ==
  LET reach[n \in Nat] == IF n = 0 THEN [i \in Declared(c) |-> c.stencils[i].refs \cap Declared(c)]
                          ELSE LET prev == reach[n - 1]
                               IN [i \in Declared(c) |-> prev[i] \cup UNION {prev[j] : j \in prev[i]}]
  IN \E i \in Declared(c) : i \in reach[Cardinality(SbIds)][i]

\* Validate, the parts about stencils and files.
SbValid(c) ==
  /\ ~FindStencilCycle(c)
  /\ \A i \in Declared(c) : c.stencils[i].kind # "text" \/ c.stencils[i].refs # {}
  /\ \A k \in DOMAIN c.files :
       /\ c.files[k].form = "items" => c.files[k].refs \subseteq Declared(c)
       /\ c.files[k].refs \cap LLMTaintedStencils(c) = {}
AcceptedConfigs == {c \in SbConfigs : SbValid(c)}
SbAccepted(c) == c \in AcceptedConfigs

-----------------------------------------------------------------------------
(* The branch and its pipelines *)

NextSha == (sbHead.sha % SbShas) + 1
\* The rendered workflow: a generated commit starts none on push.
Starts(gen, source) == ~(gen /\ source = "push")
\* A pipeline for a head; a newer push's takes the place of one that has not started.
Owed(head, source) == IF Starts(head.gen, source) THEN {head} ELSE sbDue

Push ==
  /\ SbEvent
  /\ \E cfg \in SbConfigs, files \in {sbHead.files} \cup {[sbHead.files EXCEPT ![f].marked = ~@] : f \in SbFiles} :
       sbHead' = [sbHead EXCEPT !.sha = NextSha, !.gen = FALSE, !.cfg = cfg, !.files = files, !.last = NextSha]
  /\ sbDue' = Owed(sbHead', "push")
  /\ UNCHANGED <<sbFact, sbRun, sbShip, sbMemo, sbSent, sbPc>>
\* A person runs the pipeline of the head.
Trigger ==
  /\ SbEvent /\ sbDue = {} /\ sbDue' = Owed(sbHead, "web")
  /\ UNCHANGED <<sbHead, sbFact, sbRun, sbShip, sbMemo, sbSent, sbPc>>
\* A new pipeline has other rows and values.
World ==
  /\ SbEvent /\ sbPc = "idle"
  /\ \E f \in SbFacts \ {"sha"}, v \in 0..2 : v # sbFact[f] /\ sbFact' = [sbFact EXCEPT ![f] = v]
  /\ UNCHANGED <<sbHead, sbDue, sbRun, sbShip, sbMemo, sbSent, sbPc>>

\* The job's checkout and configuration; a rejected configuration ends it.
Checkout ==
  /\ sbPc = "idle"
  /\ \E head \in sbDue :
       /\ sbFact' = [sbFact EXCEPT !["sha"] = head.sha]
       /\ \/ SbAccepted(head.cfg) /\ sbPc' = "scribe" /\ sbRun' = head @@ [at |-> 1, wrote |-> FALSE, orig |-> head.files]
          \/ ~SbAccepted(head.cfg) /\ sbPc' = "idle" /\ sbRun' = NoWork
  /\ sbDue' = {} /\ sbMemo' = [i \in SbIds |-> Unsaid] /\ sbSent' = {}
  /\ UNCHANGED <<sbHead, sbShip, sbLeft>>

\* scribeRunner's early returns: the head moved. What the publish job ships before
\* it asks the same question. (The commit it would take for its own is one with a
\* trailer that nothing writes.)
ScribeRunner ==
  /\ sbPc = "scribe"
  /\ \/ sbRun.sha # sbHead.sha /\ sbPc' = "narrate" /\ UNCHANGED sbShip
     \/ sbRun.sha = sbHead.sha /\ sbPc' = "badges" /\ sbShip' = sbRun.last
  /\ UNCHANGED <<sbHead, sbFact, sbDue, sbRun, sbMemo, sbSent, sbLeft>>

\* A badge's image: 0 none, 3 "n/a". An unresolved value keeps the image there is.
BadgeImage(had, value) == IF value # 0 THEN value ELSE IF had # 0 THEN had ELSE 3
BadgeItems(c) == {i \in Declared(c) : c.stencils[i].kind = "badge"}
\* pruneOrphanBadges: in the directories written to, what no stencil declares goes.
PruneOrphanBadges(c, badges) == [b \in SbBadges |-> IF b \in BadgeItems(c) THEN badges[b] ELSE 0]

\* generateConfigBadgesImpl; an error stops the job.
Badges ==
  /\ sbPc = "badges"
  /\ LET items == BadgeItems(sbRun.cfg)
         drawn == [b \in SbBadges |-> IF b \in items THEN BadgeImage(sbRun.badges[b], sbFact["value"])
                                      ELSE sbRun.badges[b]]
         kept == IF items = {} THEN drawn ELSE PruneOrphanBadges(sbRun.cfg, drawn)
     IN \/ /\ sbPc' = "files" /\ UNCHANGED sbLeft
           /\ sbRun' = [sbRun EXCEPT !.badges = kept, !.wrote = @ \/ kept # sbRun.badges]
        \/ items # {} /\ SbEvent /\ sbPc' = "narrate" /\ UNCHANGED sbRun
  /\ UNCHANGED <<sbHead, sbFact, sbDue, sbShip, sbMemo, sbSent>>

\* What the backends say, where this process has not asked yet; nothing on an error.
Said(c, ids, memo) ==
  LET asked == {i \in Embeds(c, ids) : memo[i] = Unsaid /\ Def(c, i).kind = "llm"}
  IN {[i \in SbIds |-> IF i \notin asked THEN memo[i] ELSE IF n[i] = 0 THEN {} ELSE {<<"ai", i, n[i]>>}] :
        n \in [asked -> 0..2]}
\* llmMemo.
Remember(said) == said

\* renderRegion: declared stencils and facts; a body keeps other tokens.
RenderRegion(c, refs, said) ==
  UNION {IF t \in Declared(c) THEN Render(c, sbFact, said)[{t}, t]
         ELSE IF t \in SbFacts THEN Fact(t, sbFact) ELSE Raw(t) : t \in refs}
\* referencesBadge, without a publish origin.
NoImage(c) == ~c.origin /\ \E k \in DOMAIN c.files : c.files[k].refs \cap BadgeItems(c) # {}

\* ReplaceBetween, when something was composed.
ReplaceBetween(old, new) == IF old.marked /\ new # {} THEN [old EXCEPT !.text = new] ELSE old

\* processFile, one file after the other; an error stops the job.
ProcessFile ==
  /\ sbPc = "files" /\ sbRun.at <= Len(sbRun.cfg.files) /\ ~NoImage(sbRun.cfg)
  /\ LET file == sbRun.cfg.files[sbRun.at]
     IN \E said \in Said(sbRun.cfg, file.refs, sbMemo) :
          LET new == ReplaceBetween(sbRun.files[file.file], RenderRegion(sbRun.cfg, file.refs, said))
          IN /\ sbMemo' = Remember(said)
             /\ \/ /\ UNCHANGED <<sbPc, sbLeft>>
                   /\ sbRun' = [sbRun EXCEPT !.files[file.file] = new, !.at = @ + 1,
                                             !.wrote = @ \/ new # sbRun.files[file.file]]
                \/ SbEvent /\ sbPc' = "narrate" /\ UNCHANGED sbRun
  /\ UNCHANGED <<sbHead, sbFact, sbDue, sbShip, sbSent>>
FilesDone ==
  /\ sbPc = "files" /\ (NoImage(sbRun.cfg) \/ sbRun.at > Len(sbRun.cfg.files))
  /\ sbPc' = IF NoImage(sbRun.cfg) THEN "narrate" ELSE "commit"
  /\ UNCHANGED <<sbHead, sbFact, sbDue, sbRun, sbShip, sbMemo, sbSent, sbLeft>>

\* A commit through git holds what changed, and is replayed onto a branch that moved
\* elsewhere; one through the forge puts the files it names onto whatever head there is.
Commits(run) == run.cfg.runFrom /\ (run.wrote \/ run.cfg.backend = "forge")
SbLands(run) == run.cfg.backend = "forge" \/ run.sha = sbHead.sha \/ sbHead.files = run.orig
\* autoCommitViaPlanner, from where run_from allows it. Failure is a warning.
AutoCommit ==
  /\ sbPc = "commit" /\ sbPc' = "narrate"
  /\ \/ /\ Commits(sbRun) /\ SbLands(sbRun)
        /\ sbHead' = [sbHead EXCEPT !.sha = NextSha, !.gen = TRUE, !.files = sbRun.files, !.badges = sbRun.badges,
                                    !.of = [sha |-> sbRun.sha, cfg |-> sbRun.cfg, rows |-> sbFact["rows"], value |-> sbFact["value"]]]
        /\ sbDue' = Owed(sbHead', "push")
        /\ UNCHANGED sbLeft
     \/ ~(Commits(sbRun) /\ SbLands(sbRun)) /\ UNCHANGED <<sbHead, sbDue, sbLeft>>
     \/ Commits(sbRun) /\ SbEvent /\ UNCHANGED <<sbHead, sbDue>>
  /\ UNCHANGED <<sbFact, sbRun, sbShip, sbMemo, sbSent>>

\* dispatchNotifications, in a process of its own: the body written, or the shipped
\* summary or post-mortem.
Narrate ==
  /\ sbPc = "narrate" /\ sbPc' = "notify"
  /\ sbRun' = [sbRun EXCEPT !.at = 1] /\ sbMemo' = [i \in SbIds |-> Unsaid] /\ sbSent' = {}
  /\ UNCHANGED <<sbHead, sbFact, sbDue, sbShip, sbLeft>>
Notify ==
  /\ sbPc = "notify" /\ sbRun.at <= Len(sbRun.cfg.notes)
  /\ LET body == sbRun.cfg.notes[sbRun.at]
     IN \E said \in Said(sbRun.cfg, {body}, sbMemo) :
          /\ sbSent' = sbSent \cup Render(sbRun.cfg, sbFact, said)[{body}, body]
          /\ sbMemo' = Remember(said)
  /\ sbRun' = [sbRun EXCEPT !.at = @ + 1]
  /\ UNCHANGED <<sbHead, sbFact, sbDue, sbShip, sbPc, sbLeft>>
Over ==
  /\ sbPc = "notify" /\ sbRun.at > Len(sbRun.cfg.notes) /\ sbPc' = "idle" /\ sbRun' = NoWork
  /\ UNCHANGED <<sbHead, sbFact, sbDue, sbShip, sbMemo, sbSent, sbLeft>>

SbJob == Checkout \/ ScribeRunner \/ Badges \/ ProcessFile \/ FilesDone \/ AutoCommit \/ Narrate \/ Notify \/ Over
SbNext == Push \/ Trigger \/ World \/ SbJob

NoOrigin == [sha |-> 0, cfg |-> CHOOSE c \in SbConfigs : TRUE, rows |-> 0, value |-> 0]
SbFrom(start) ==
  /\ \E cfg \in SbConfigs :
       sbHead = [sha |-> 1, gen |-> FALSE, cfg |-> cfg, files |-> [f \in SbFiles |-> [marked |-> TRUE, text |-> {}]],
                 badges |-> [b \in SbBadges |-> 0], last |-> 1, of |-> NoOrigin]
  /\ sbDue = (IF start = "idle" THEN {sbHead} ELSE {})
  /\ sbFact = [f \in SbFacts |-> 1]
  /\ sbRun = NoWork /\ sbShip = 0 /\ sbMemo = [i \in SbIds |-> Unsaid] /\ sbSent = {}
  /\ sbPc = start /\ sbLeft = SbEvents
SbInit == SbFrom("idle")
SbSpec == SbInit /\ [][SbNext]_sbVars /\ WF_sbVars(SbJob)

-----------------------------------------------------------------------------
(* Properties *)

SbAtoms == {"fact", "ai", "link", "raw"}
SbText(text) == \A a \in text : a[1] \in SbAtoms
\* Texts are atoms, images are values or "n/a", and a job works on an accepted configuration.
SbTypeOK ==
  /\ \A f \in SbFiles : SbText(sbHead.files[f].text)
  /\ sbHead.sha \in 1..SbShas /\ sbHead.badges \in [SbBadges -> 0..3]
  /\ sbPc \in {"idle", "scribe", "badges", "files", "commit", "narrate", "notify", "off"}
  /\ sbPc \notin {"idle", "off"} => SbAccepted(sbRun.cfg)
  /\ Cardinality(sbDue) <= 1 /\ SbText(sbSent) /\ sbLeft \in 0..SbEvents

\* Declared stencils that a shipped one embeds, most of them because they took the name of
\* one it embeds: validation does not follow what renderStencilBody falls back to.
ThroughShipped(c) == Declared(c) \cap Embeds(c, Known(c) \ Declared(c))
\* What a commit adds to a file.
Added(f) == IF sbHead'.gen THEN sbHead'.files[f].text \ sbHead.files[f].text ELSE {}

\* What a language model wrote is sent, never committed, whatever declared stencils embed
\* it; through a shipped stencil it does get into a file (Validate, LLMTaintedStencils,
\* renderStencilBody).
AINeverCommitted ==
  [][\A f \in SbFiles : \A a \in Added(f) : a[1] = "ai" => a[2] \in ThroughShipped(sbHead'.of.cfg)]_sbVars

\* A token that names a declared stencil is rendered wherever it stands: the cycles that
\* would leave one as written are refused with the configuration, but for those that go
\* through a shipped stencil.
NoTokenLeft ==
  sbHead.gen =>
    \A f \in SbFiles : \A a \in sbHead.files[f].text :
      a[1] = "raw" => a[2] \notin Declared(sbHead.of.cfg) \ ThroughShipped(sbHead.of.cfg)

\* Every place in one process that embeds a generated text has the same one.
OneVoice == \A a, b \in sbSent : a[1] = "ai" /\ b[1] = "ai" /\ a[2] = b[2] => a = b

\* A badge that had an image keeps one as long as a stencil declares it, and a value
\* that cannot be resolved here does not take the place of one that was.
BadgesKept ==
  [][\A b \in SbBadges :
       (sbHead.badges[b] # 0 /\ b \in BadgeItems(sbHead'.of.cfg) /\ sbHead'.of.sha = sbHead.sha)
          => /\ sbHead'.badges[b] # 0
             /\ sbHead.badges[b] # 3 => sbHead'.badges[b] # 3]_sbVars

\* A job at a generated commit, with the facts it was made from, writes nothing,
\* unless a region shows the commit itself.
SettlesAtOnce ==
  (sbPc = "commit" /\ sbRun.gen /\ sbRun.of.cfg = sbRun.cfg /\ sbRun.of.rows = sbFact["rows"] /\ sbRun.of.value = sbFact["value"]
     /\ \A k \in DOMAIN sbRun.cfg.files :
          "sha" \notin sbRun.cfg.files[k].refs \cup UNION {Def(sbRun.cfg, i).refs : i \in Embeds(sbRun.cfg, sbRun.cfg.files[k].refs)})
    => ~sbRun.wrote

\* What narration into files leaves true: through declared stencils no generated
\* text is committed and no token of a declared stencil stays unresolved (through
\* shipped ones both happen), one run speaks with one voice, a second run over the
\* same facts changes nothing, and badges in use are kept (scribe/scribe.go).
ScribeKeeps ==
  /\ [](SbTypeOK /\ NoTokenLeft /\ OneVoice /\ SettlesAtOnce)
  /\ AINeverCommitted /\ BadgesKept
=============================================================================
