------------------------------ MODULE Governance ------------------------------
(***************************************************************************)
(* governance reconcile: a control repository's profiles are planned for   *)
(* every repository of its catalog, each file read first, and then each    *)
(* repository gets its changed files as one commit                         *)
(* (cli/cmd/governance_reconcile.go, governance/). The owners of the       *)
(* satellites and of the control repository commit meanwhile.              *)
(***************************************************************************)
EXTENDS Naturals, Sequences, FiniteSets, SequencesExt, Functions, FiniteSetsExt

CONSTANTS
  GvRepos,     \* satellite repositories
  GvVersions,  \* versions of the control repository
  GvRuns,      \* reconciles
  GvEvents     \* read and commit failures, and commits of the satellites' owners

ASSUME GovernanceAssumption ==
  /\ IsFiniteSet(GvRepos) /\ GvRepos # {}
  /\ GvVersions \in Nat \ {0} /\ GvRuns \in Nat \ {0} /\ GvEvents \in Nat

VARIABLES
  gvCfg,       \* the catalog, and the versions whose rendered configuration does not load
  gvPc,
  gvVer,       \* version at the head of the control repository
  sat,         \* what each satellite holds under each path
  gvSrc,       \* version the run has loaded
  gvApply,     \* --apply, not --dry-run
  gvAt,        \* catalog entry being planned, plan being committed
  readable,    \* its default branch was found
  gvWant,      \* content wanted under each of its paths
  gvFile,      \* position in the entry's files
  plans,       \* plans made: [entry, files]
  results,     \* outcome of each plan
  gvVerdict,   \* "none", "ok", "error", "plan-error"
  gvRuns, gvEvents,
  unread,      \* ghost: entries whose branch, or a file to compare, could not be read in this run
  unmerged,    \* ghost: those whose variables could not be read or parsed
  raced        \* ghost: those committed to by their owner since their planning began

gvRun == <<gvSrc, gvApply, gvAt, readable, gvWant, gvFile, plans, results, gvVerdict>>
gvGhosts == <<unread, unmerged, raced>>
gvVars == <<gvCfg, gvPc, gvVer, sat, gvRun, gvRuns, gvEvents, gvGhosts>>

GvPaths == {"config", "ci", "preset", "extra", "asset"}
Presets == {"preset", "extra"}
GvNames == {"g", "s", "o"}

\* A file: the profile and version it was rendered from, and of a configuration its
\* variables and the presets it refers to. An owner's own text is of no profile.
NoFile == [ver |-> <<"none", 0>>, vars |-> <<>>, needs |-> {}]
Entries == [repo : GvRepos, prof : {"p", "q"}, over : BOOLEAN, asset : BOOLEAN]
GvConfigs == [catalog : UNION {[1..n -> Entries] : n \in 1..3}, bad : SUBSET (1..GvVersions)]

GvFail == gvEvents < GvEvents /\ gvEvents' = gvEvents + 1
GvOk == UNCHANGED gvEvents

GvFrom(label) ==
  /\ gvPc = label /\ gvVer = 1
  /\ sat = [r \in GvRepos |-> [p \in GvPaths |-> NoFile]]
  /\ gvSrc = 0 /\ gvApply = FALSE /\ gvAt = 0 /\ readable = FALSE /\ gvWant = <<>> /\ gvFile = 0
  /\ plans = <<>> /\ results = <<>> /\ gvVerdict = "none" /\ gvRuns = 0 /\ gvEvents = 0
  /\ unread = {} /\ unmerged = {} /\ raced = {}

GvInit == gvCfg \in GvConfigs /\ GvFrom("idle")

Entry == gvCfg.catalog[gvAt]

-----------------------------------------------------------------------------
(* The others *)

ControlCommit ==
  /\ gvVer < GvVersions /\ gvVer' = gvVer + 1
  /\ UNCHANGED <<gvCfg, gvPc, sat, gvRun, gvRuns, gvEvents, gvGhosts>>

\* An owner gives a variable a value of the repository's own, leaves the configuration in a
\* state that does not parse, or rewrites the pipeline.
OwnerCommit(r) ==
  /\ GvFail /\ raced' = raced \cup {r}
  /\ \/ LET c == sat[r]["config"] IN
        sat' = [sat EXCEPT ![r]["config"] =
                  [c EXCEPT !.ver = <<"own", 0>>, !.vars = [n \in DOMAIN c.vars \cup {"s"} |-> IF n = "s" THEN 9 ELSE c.vars[n]]]]
     \/ sat' = [sat EXCEPT ![r]["config"].ver = <<"torn", 0>>]
     \/ sat' = [sat EXCEPT ![r]["ci"] = [NoFile EXCEPT !.ver = <<"own", 0>>]]
  /\ UNCHANGED <<gvCfg, gvPc, gvVer, gvRun, gvRuns, unread, unmerged>>

-----------------------------------------------------------------------------
(* What an entry is to hold *)

\* Version 2 starts to govern s and stops governing o; an override replaces the whole key.
GovVars(e, v) ==
  CASE e.over -> [n \in {"o"} |-> v]
    [] v = 1  -> [n \in {"g", "o"} |-> v]
    [] OTHER  -> [n \in {"g", "s"} |-> v]

\* The presets the sealed configuration refers to: an override names one of its own.
collectPresetPaths(e) == IF e.over THEN {"preset", "extra"} ELSE {"preset"}

loadPresetCache(e) == {"preset"} \cup (IF e.over THEN {"extra"} ELSE {})

\* Files are planned in this order.
FilesOf(e) ==
  <<"config", "ci", "preset">> \o (IF e.over THEN <<"extra">> ELSE <<>>) \o (IF e.asset THEN <<"asset">> ELSE <<>>)

\* Governance wins; what it does not name stays as the satellite has it.
mergeSatelliteVarsLosing(gov, own) == gov
mergeSatelliteVars(gov, own) ==
  [n \in DOMAIN gov \cup DOMAIN own |-> IF n \in DOMAIN gov THEN gov[n] ELSE own[n]]

RenderSealedConfig(e, v, vars) ==
  [ver |-> <<e.prof, v>>, vars |-> vars, needs |-> collectPresetPaths(e)]

Want(e, v, vars) ==
  [p \in ToSet(FilesOf(e)) |->
     IF p = "config" THEN RenderSealedConfig(e, v, vars) ELSE [NoFile EXCEPT !.ver = <<e.prof, v>>]]

\* The sealed configuration is loaded from exactly the files that would be sent.
loadSatelliteConfig(e, v) == collectPresetPaths(e) \subseteq loadPresetCache(e) /\ v \notin gvCfg.bad

-----------------------------------------------------------------------------
(* Planning *)

executeGovernanceReconcile ==
  /\ gvPc \in {"idle", "end"} /\ gvRuns < GvRuns
  /\ gvRuns' = gvRuns + 1 /\ gvApply' \in BOOLEAN /\ gvPc' = "load"
  /\ gvSrc' = 0 /\ gvAt' = 0 /\ plans' = <<>> /\ results' = <<>> /\ gvVerdict' = "none"
  /\ unread' = {} /\ unmerged' = {} /\ raced' = {}
  /\ UNCHANGED <<gvCfg, gvVer, sat, readable, gvWant, gvFile>> /\ GvOk

PlanError == gvPc' = "end" /\ gvVerdict' = "plan-error"

\* The profiles are read from a checkout of the head, or of the pipeline's commit.
LoadGovernance ==
  /\ gvPc = "load"
  /\ \/ GvOk /\ gvSrc' = gvVer /\ gvAt' = 1 /\ gvPc' = "branch" /\ UNCHANGED gvVerdict
     \/ GvFail /\ PlanError /\ UNCHANGED <<gvSrc, gvAt>>
  /\ UNCHANGED <<gvCfg, gvVer, sat, gvApply, readable, gvWant, gvFile, plans, results, gvRuns, gvGhosts>>

\* A repository without a branch is planned all the same, and none of its files is readable.
PlanBranch ==
  /\ gvPc = "branch" /\ gvPc' = "vars" /\ raced' = raced \ {Entry.repo}
  /\ \/ GvOk /\ readable' = TRUE /\ UNCHANGED unread
     \/ GvFail /\ readable' = FALSE /\ unread' = unread \cup {gvAt}
  /\ UNCHANGED <<gvCfg, gvVer, sat, gvSrc, gvApply, gvAt, gvWant, gvFile, plans, results, gvVerdict, gvRuns, unmerged>>

\* The satellite's variables are read; a read that fails, of which no record is kept, and a
\* configuration that does not parse both count as no configuration there.
PlanVars ==
  /\ gvPc = "vars" /\ gvPc' = "seal"
  /\ LET gov == GovVars(Entry, gvSrc)
         own == sat[Entry.repo]["config"]
         parses == own.ver # <<"torn", 0>>
     IN \/ GvOk /\ readable /\ parses /\ gvWant' = Want(Entry, gvSrc, mergeSatelliteVars(gov, own.vars)) /\ UNCHANGED unmerged
        \/ GvOk /\ ~readable /\ gvWant' = Want(Entry, gvSrc, gov) /\ UNCHANGED unmerged
        \/ /\ readable /\ (IF parses THEN GvFail ELSE GvOk) /\ gvWant' = Want(Entry, gvSrc, gov)
           /\ unmerged' = unmerged \cup {Entry.repo}
  /\ UNCHANGED <<gvCfg, gvVer, sat, gvSrc, gvApply, gvAt, readable, gvFile, plans, results, gvVerdict, gvRuns, unread, raced>>

\* A preset that does not resolve, a configuration that does not load, a pipeline that does
\* not render or an asset that cannot be fetched ends the run before any commit.
PlanSeal ==
  /\ gvPc = "seal"
  /\ \/ /\ GvOk /\ loadSatelliteConfig(Entry, gvSrc)
        /\ gvPc' = "file" /\ gvFile' = 1 /\ plans' = Append(plans, [entry |-> Entry, files |-> <<>>])
        /\ UNCHANGED gvVerdict
     \/ GvOk /\ ~loadSatelliteConfig(Entry, gvSrc) /\ PlanError /\ UNCHANGED <<gvFile, plans>>
     \/ GvFail /\ PlanError /\ UNCHANGED <<gvFile, plans>>
  /\ UNCHANGED <<gvCfg, gvVer, sat, gvSrc, gvApply, gvAt, readable, gvWant, results, gvRuns, gvGhosts>>

\* One file against what is there.
Compare(path) ==
  CASE sat[Entry.repo][path] = NoFile       -> "create"
    [] sat[Entry.repo][path] = gvWant[path] -> "unchanged"
    [] OTHER                                -> "replace"

planFile ==
  /\ gvPc = "file" /\ gvFile <= Len(FilesOf(Entry))
  /\ LET path == FilesOf(Entry)[gvFile]
         Planned(action) ==
           plans' = [plans EXCEPT ![gvAt].files = Append(@, [path |-> path, action |-> action, content |-> gvWant[path]])]
     IN \/ GvOk /\ Planned(IF readable THEN Compare(path) ELSE "unreadable") /\ UNCHANGED unread
        \/ GvFail /\ readable /\ Planned("unreadable") /\ unread' = unread \cup {gvAt}
  /\ gvFile' = gvFile + 1
  /\ UNCHANGED <<gvCfg, gvPc, gvVer, sat, gvSrc, gvApply, gvAt, readable, gvWant, results, gvVerdict, gvRuns, unmerged, raced>>

\* Every entry is planned before the first commit; a dry run ends here.
NextEntry ==
  /\ gvPc = "file" /\ gvFile > Len(FilesOf(Entry)) /\ GvOk
  /\ IF gvAt < Len(gvCfg.catalog)
     THEN gvPc' = "branch" /\ gvAt' = gvAt + 1 /\ UNCHANGED gvVerdict
     ELSE IF gvApply THEN gvPc' = "commit" /\ gvAt' = 1 /\ UNCHANGED gvVerdict
     ELSE gvPc' = "end" /\ gvVerdict' = "ok" /\ UNCHANGED gvAt
  /\ UNCHANGED <<gvCfg, gvVer, sat, gvSrc, gvApply, readable, gvWant, gvFile, plans, results, gvRuns, gvGhosts>>

-----------------------------------------------------------------------------
(* Committing *)

Acts(plan) == {f.action : f \in ToSet(plan.files)}
HasChanges(plan) == Acts(plan) # {"unchanged"}

Written(plan) ==
  LET changed == {f \in ToSet(plan.files) : f.action # "unchanged"} IN
  [p \in GvPaths |-> IF \E f \in changed : f.path = p
                     THEN (CHOOSE f \in changed : f.path = p).content
                     ELSE sat[plan.entry.repo][p]]

CommitFiles(plan) == sat' = [sat EXCEPT ![plan.entry.repo] = Written(plan)]

commitRepo ==
  /\ gvPc = "commit" /\ gvAt <= Len(plans) /\ gvAt' = gvAt + 1
  /\ LET plan == plans[gvAt]
         Result(status) == results' = Append(results, status)
     IN \/ GvOk /\ ~HasChanges(plan) /\ Result("skipped-identical") /\ UNCHANGED sat
        \/ GvOk /\ "unreadable" \in Acts(plan) /\ Result("error") /\ UNCHANGED sat
        \/ /\ HasChanges(plan) /\ "unreadable" \notin Acts(plan)
           /\ \/ GvOk /\ CommitFiles(plan) /\ Result("committed")
              \/ GvFail /\ Result("error") /\ UNCHANGED sat
              \/ GvFail /\ CommitFiles(plan) /\ Result("error")     \* the answer is lost
  /\ UNCHANGED <<gvCfg, gvPc, gvVer, gvSrc, gvApply, readable, gvWant, gvFile, plans, gvVerdict, gvRuns, gvGhosts>>

\* An error in one repository stops none of the others, and fails the run.
VerdictOf(s) == IF "error" \in ToSet(s) THEN "error" ELSE "ok"
CommitDistribution ==
  /\ gvPc = "commit" /\ gvAt > Len(plans) /\ GvOk
  /\ gvPc' = "end" /\ gvVerdict' = VerdictOf(results)
  /\ UNCHANGED <<gvCfg, gvVer, sat, gvSrc, gvApply, gvAt, readable, gvWant, gvFile, plans, results, gvRuns, gvGhosts>>

\* What the view shows of a repository: the outcome of its last plan.
Shown(r) ==
  LET of == {i \in 1..Len(results) : plans[i].entry.repo = r} IN
  IF of = {} THEN "none" ELSE results[Max(of)]

-----------------------------------------------------------------------------
GvStep ==
  \/ LoadGovernance \/ PlanBranch \/ PlanVars \/ PlanSeal \/ planFile \/ NextEntry
  \/ commitRepo \/ CommitDistribution
GvNext ==
  \/ GvStep \/ executeGovernanceReconcile \/ ControlCommit
  \/ \E r \in GvRepos : OwnerCommit(r)

GvSpec == GvInit /\ [][GvNext]_gvVars /\ WF_gvVars(GvStep)

-----------------------------------------------------------------------------
(* Properties *)

\* The ledger of a run and the satellites have their types: a plan for each entry met, an
\* outcome for each plan committed, every content one that an owner or a profile wrote.
GvTypeOK ==
  /\ gvPc \in {"idle", "load", "branch", "vars", "seal", "file", "commit", "end", "off"}
  /\ gvVer \in 1..GvVersions /\ gvSrc \in 0..gvVer
  /\ \A r \in GvRepos, p \in GvPaths :
       /\ sat[r][p].ver[1] \in {"none", "own", "torn", "p", "q"} /\ sat[r][p].ver[2] <= gvVer
       /\ DOMAIN sat[r][p].vars \subseteq GvNames
  /\ Len(plans) <= Len(gvCfg.catalog) /\ Len(results) <= Len(plans)
  /\ \A i \in 1..Len(plans) : i # gvAt => Len(plans[i].files) = Len(FilesOf(plans[i].entry))
  /\ \A s \in ToSet(results) : s \in {"committed", "skipped-identical", "error"}
  /\ gvVerdict \in {"none", "ok", "error", "plan-error"}
  /\ gvRuns \in 0..GvRuns /\ gvEvents \in 0..GvEvents

Once(r) == Cardinality({i \in DOMAIN gvCfg.catalog : gvCfg.catalog[i].repo = r}) = 1

\* Nothing is written to a repository whose branch, or one of whose files, could not be read
\* to compare it, and nothing before every entry of the catalog has been planned ("not
\* committing without knowing what is there"). The read of its variables, which comes
\* first, is not one of these: when that one fails the repository is written all the same.
UnreadIsNeverWritten ==
  [][commitRepo /\ sat' # sat =>
       /\ gvAt \notin unread
       /\ Len(plans) = Len(gvCfg.catalog) /\ gvApply]_gvVars

\* A commit leaves the satellite whole: every governed file is of the same version of the
\* same profile, and the configuration finds each preset it refers to, unless the owner
\* committed meanwhile or another entry names the repository.
CommittedIsWhole ==
  [][commitRepo /\ results'[gvAt] = "committed" =>
       LET e == plans[gvAt].entry IN
       e.repo \notin raced /\ Once(e.repo) =>
         /\ \A p \in ToSet(FilesOf(e)) : sat'[e.repo][p].ver = <<e.prof, gvSrc>>
         /\ \A q \in sat'[e.repo]["config"].needs : sat'[e.repo][q].ver = <<e.prof, gvSrc>>]_gvVars

\* A variable that governance does not name keeps the satellite's value through a
\* reconcile, and one it names has governance's, unless the owner committed meanwhile. A
\* variable of the satellite's own is lost only by a reconcile whose read of the variables
\* failed, or found a configuration that does not parse.
OwnVariablesKept ==
  [][commitRepo /\ sat' # sat =>
       LET e == plans[gvAt].entry
           gov == GovVars(e, gvSrc)
           old == sat[e.repo]["config"].vars
           new == sat'[e.repo]["config"].vars
       IN /\ \A n \in DOMAIN gov : e.repo \notin raced => n \in DOMAIN new /\ new[n] = gov[n]
          /\ e.repo \notin raced \cup unmerged /\ Once(e.repo) =>
               \A n \in DOMAIN old \ DOMAIN gov : n \in DOMAIN new /\ new[n] = old[n]]_gvVars

\* A reconcile that is over has brought every repository to the version it loaded, or it
\* fails and shows that repository as failed; a failure elsewhere makes no difference.
GovernedOrReported ==
  gvPc = "end" /\ gvApply /\ gvVerdict # "plan-error" =>
    \A i \in DOMAIN gvCfg.catalog :
      LET e == gvCfg.catalog[i] IN
      e.repo \notin raced /\ Once(e.repo) =>
        \/ \A p \in ToSet(FilesOf(e)) : sat[e.repo][p].ver = <<e.prof, gvSrc>>
        \/ gvVerdict = "error" /\ Shown(e.repo) = "error"

\* A reconcile of what is already governed commits nothing: every commit of a repository
\* that nobody else touched changes it.
NoEmptyCommit ==
  [][commitRepo /\ results'[gvAt] = "committed" =>
       LET e == plans[gvAt].entry IN e.repo \notin raced /\ Once(e.repo) => sat' # sat]_gvVars

\* What a governance pass leaves true of the satellites: each is governed or
\* reported, one with a file that could not be compared is not written, a
\* commit is whole, the satellite's own variables are kept by every pass that
\* could read them, and no commit is empty (governance package).
GovernanceKeeps ==
  /\ [](GvTypeOK /\ GovernedOrReported)
  /\ UnreadIsNeverWritten
  /\ CommittedIsWhole
  /\ OwnVariablesKept
  /\ NoEmptyCommit
=============================================================================
