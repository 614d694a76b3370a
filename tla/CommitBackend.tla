--------------------------- MODULE CommitBackend ---------------------------
(***************************************************************************)
(* `stagefreight commit`: a request is planned (its type, what it names,   *)
(* how it stages), then carried out in the local repository (git backend)  *)
(* or through the forge's API (forge backend), while somebody edits the    *)
(* worktree and other people push to the branch.                           *)
(*                                                                         *)
(* A file's content is a number: 0 is no file, CbEmpty what an             *)
(* intent-to-add entry holds.  A hook counts for what it stages: what it   *)
(* does to the worktree, and the guard against it, are WorktreeGuard's;    *)
(* the push of a local commit is PushEngine's.                             *)
(***************************************************************************)
EXTENDS Naturals, FiniteSets

CONSTANTS
    CbFiles,     \* the repository's files
    CbPlanted,   \* .stagefreight/.gitignore, one of them
    CbNames,     \* what a request can name: files and directories
    CbBelow,     \* the files a name stands for
    CbStarts,    \* the trees a checkout begins with
    CbMax,       \* contents are 1 .. CbMax
    CbConfigs,   \* [types, default, backend, ci, provider, managed, ignored]
    CbRequests,  \* [mode, names, slash (names written d/), push, type, prefix]
    CbRuns,      \* bound on the commands run
    CbEdits,     \* bound on what the person at the worktree does
    CbPushes     \* bound on other people's pushes

ASSUME CbNamesAssumption == CbPlanted \in CbFiles /\ CbBelow \in [CbNames -> SUBSET CbFiles]
ASSUME CbBoundsAssumption == {CbMax, CbRuns, CbEdits, CbPushes} \subseteq Nat

VARIABLES
    cbCfg,                               \* the repository's configuration
    cbHead, cbIndex, cbDisk, cbMarked,   \* HEAD's tree, index, worktree, intent-to-add
    cbRemote, cbSha,                     \* the branch on the forge: its tree, its head
    cbAt, cbReq, cbType,                 \* the command: where it is, request, commit type
    cbSaw,                               \* the worktree as the command staged or read it
    cbUnseen,                            \* staged files its check did not see
    cbChanges,                           \* forge backend: path -> content to write, 0 deletes
    cbExpect, cbVerb, cbTree,            \* head it expects, files found there, tree it built
    cbOut,                               \* how the last command ended
    cbRan, cbEdited, cbPushed

cbWork == <<cbHead, cbIndex, cbDisk, cbMarked>>
cbApi == <<cbChanges, cbExpect, cbVerb, cbTree>>
cbBranch == <<cbRemote, cbSha>>
cbVars == <<cbCfg, cbWork, cbBranch, cbAt, cbReq, cbType, cbSaw, cbUnseen, cbApi, cbOut, cbRan, cbEdited, cbPushed>>

CbEmpty == CbMax + 1
CbTrees == [CbFiles -> 0 .. CbEmpty]
CbUnknown == "?"    \* no such type
NoRequest == [mode |-> "none", names |-> {}, slash |-> {}, push |-> FALSE, type |-> "", prefix |-> ""]
NoChanges == [p \in {} |-> 0]
IsFile(n) == n \in CbFiles

---------------------------------------------------------------------------
(* Types: a table of [key, alias]; validation admits aliases of one hop.   *)

CbTypesValid(t) ==
    \A x \in t : /\ \A y \in t : x.key = y.key => x = y
                 /\ x.alias # "" => \E y \in t : y.key = x.alias
                 /\ \A y \in t : y.key = x.alias => y.alias = ""

\* The key an alias stands for; the key itself; unknown otherwise.
TypeResolve(t, key) ==
    IF \E x \in t : x.key = key
    THEN LET x == CHOOSE x \in t : x.key = key IN IF x.alias = "" THEN x.key ELSE x.alias
    ELSE CbUnknown

\* A message prefix counts only when it names a type; otherwise it is prose.
ParseConventionalPrefix(t, prefix) == IF TypeResolve(t, prefix) = CbUnknown THEN "" ELSE prefix

\* The type of the commit: the flag, the prefix, the configured default, chore.
PlanType(r) ==
    LET given == IF r.type # "" THEN r.type ELSE ParseConventionalPrefix(cbCfg.types, r.prefix)
    IN TypeResolve(cbCfg.types, IF given # "" THEN given ELSE IF cbCfg.default # "" THEN cbCfg.default ELSE "chore")

---------------------------------------------------------------------------
(* Paths and status.                                                       *)

OnDisk(n) == \E f \in CbBelow[n] : cbDisk[f] # 0
KnownToGit(n) == \E f \in CbBelow[n] : cbIndex[f] # 0 \/ cbHead[f] # 0

\* A named path is on disk or known to git; a typo is neither.
ExpandPath(r) == \A n \in r.names : OnDisk(n) \/ KnownToGit(n)

\* go-git marks a file that is no index entry as untracked on both sides, so
\* the staged deletion of a file that is still there is no staged change.
Untracked(f) == cbIndex[f] = 0 /\ cbDisk[f] # 0 /\ f \notin cbCfg.ignored
StagedFiles == {f \in CbFiles : cbIndex[f] # cbHead[f] /\ ~Untracked(f)}
Dirty(f) == cbIndex[f] # cbHead[f] \/ (cbDisk[f] # cbIndex[f] /\ (cbIndex[f] # 0 \/ f \notin cbCfg.ignored))
Gone(f) == (cbHead[f] # 0 /\ cbIndex[f] = 0 /\ ~Untracked(f)) \/ (cbIndex[f] # 0 /\ cbDisk[f] = 0)

\* Adding a file stages what is on disk, its absence included; a directory
\* is walked past the untracked files it ignores.
AddPath(ix, n) ==
    [f \in CbFiles |-> IF f \in CbBelow[n] /\ (IsFile(n) \/ ix[f] # 0 \/ f \notin cbCfg.ignored)
                       THEN cbDisk[f] ELSE ix[f]]

\* A deleted directory is no index entry: its children are.
StageDeletedChildren(ix, n) == [f \in CbFiles |-> IF f \in CbBelow[n] THEN cbDisk[f] ELSE ix[f]]

\* Plants the namespace's .gitignore where StageFreight manages the repository.
EnsureGitignore == cbCfg.managed /\ cbDisk[CbPlanted] # 1
PlantOn(t) == IF EnsureGitignore THEN [t EXCEPT ![CbPlanted] = 1] ELSE t

StageNames(ix) ==
    [f \in CbFiles |->
        IF \E n \in cbReq.names : f \in CbBelow[n]
        THEN LET n == CHOOSE n \in cbReq.names : f \in CbBelow[n]
             IN (IF OnDisk(n) \/ IsFile(n) THEN AddPath(ix, n) ELSE StageDeletedChildren(ix, n))[f]
        ELSE ix[f]]

---------------------------------------------------------------------------
(* The command.                                                            *)

End(out) ==
    /\ cbAt' = "idle" /\ cbOut' = out
    /\ cbChanges' = NoChanges /\ cbExpect' = 0 /\ cbVerb' = {} /\ cbTree' = cbRemote

ShouldUseForge(r) == r.push /\ (cbCfg.backend = "forge" \/ cbCfg.ci)

\* The forge when it is wanted and found; git when the wish was only CI's.
ChooseBackend(r) ==
    IF ~ShouldUseForge(r) THEN "stage"
    ELSE IF cbCfg.provider # "none" THEN "collect"
    ELSE IF cbCfg.backend = "forge" THEN "fail" ELSE "stage"

\* Plan: refuse an unknown type or path, then choose the backend.  A name that
\* is on disk loses its trailing slash (Glob finds it), one that is gone keeps it.
Begin(r) ==
    /\ cbAt = "idle" /\ cbRan < CbRuns
    /\ cbRan' = cbRan + 1 /\ cbType' = PlanType(r) /\ cbSaw' = cbDisk /\ cbUnseen' = {}
    /\ cbReq' = [r EXCEPT !.slash = {n \in @ : ~OnDisk(n)}]
    /\ IF PlanType(r) = CbUnknown \/ ~ExpandPath(r)
       THEN End("refused")
       ELSE cbAt' = ChooseBackend(r) /\ cbOut' = "none" /\ UNCHANGED cbApi
    /\ UNCHANGED <<cbCfg, cbWork, cbBranch, cbEdited, cbPushed>>

\* A forge backend was asked for and no forge was found.
NoForge ==
    /\ cbAt = "fail" /\ End("refused")
    /\ UNCHANGED <<cbCfg, cbWork, cbBranch, cbReq, cbType, cbSaw, cbUnseen, cbRan, cbEdited, cbPushed>>

\* An entry's mark goes with the entry.
MarksLeft(ix) == {f \in cbMarked : ix[f] # 0}

Stage ==
    /\ cbAt = "stage"
    /\ cbAt' = "settle" /\ cbDisk' = PlantOn(cbDisk) /\ cbSaw' = cbDisk
    /\ cbIndex' = CASE cbReq.mode \in {"explicit", "scoped"} -> StageNames(PlantOn(cbIndex))
                    [] cbReq.mode = "all" ->
                         [f \in CbFiles |-> IF PlantOn(cbIndex)[f] # 0 \/ f \notin cbCfg.ignored
                                            THEN PlantOn(cbDisk)[f] ELSE 0]
                    [] OTHER -> PlantOn(cbIndex)
    /\ cbMarked' = MarksLeft(cbIndex')
    /\ UNCHANGED <<cbCfg, cbHead, cbBranch, cbReq, cbType, cbUnseen, cbApi, cbOut, cbRan, cbEdited, cbPushed>>

\* The marks this commit staged are cleared; any other refuses it.
Settled ==
    IF cbReq.mode = "all" THEN cbMarked
    ELSE {f \in cbMarked : \E n \in cbReq.names : f \in CbBelow[n]}
SettleIntentToAdd ==
    /\ cbAt = "settle"
    /\ cbMarked' = cbMarked \ Settled
    /\ IF cbMarked' # {} THEN End("refused") ELSE cbAt' = "check" /\ UNCHANGED <<cbOut, cbApi>>
    /\ UNCHANGED <<cbCfg, cbHead, cbIndex, cbDisk, cbBranch, cbReq, cbType, cbSaw, cbUnseen, cbRan, cbEdited, cbPushed>>

\* Every named path on disk is staged or tracked, in itself or below itself.
AssertDeclaredPathsStaged ==
    \A n \in cbReq.names : OnDisk(n) => \E f \in CbBelow[n] : cbIndex[f] # 0 \/ f \in StagedFiles

\* What is staged was named.  A name that kept its slash covers nothing.
AssertNoUndeclaredStagedNot == TRUE
AssertNoUndeclaredStaged ==
    \A f \in StagedFiles \ {CbPlanted} : \E n \in cbReq.names : f \in CbBelow[n] /\ n \notin cbReq.slash

\* Check what is staged; with nothing staged there is nothing to commit.
CheckStaged ==
    /\ cbAt = "check"
    /\ cbUnseen' = {f \in CbFiles : cbIndex[f] # cbHead[f]} \ StagedFiles
    /\ IF \/ cbReq.mode \in {"explicit", "scoped"} /\ ~AssertDeclaredPathsStaged
          \/ cbReq.mode = "scoped" /\ ~AssertNoUndeclaredStaged
       THEN End("refused")
       ELSE IF StagedFiles = {} THEN End("noop")
       ELSE cbAt' = "hooks" /\ UNCHANGED <<cbOut, cbApi>>
    /\ UNCHANGED <<cbCfg, cbWork, cbBranch, cbReq, cbType, cbSaw, cbRan, cbEdited, cbPushed>>

\* After the pre-commit and commit-msg hooks, wt.Commit takes the index as they
\* left it and refuses to commit no change.
CommitIndex ==
    /\ cbAt = "hooks"
    /\ IF cbIndex = cbHead THEN End("error") /\ UNCHANGED cbHead
                         ELSE End("committed") /\ cbHead' = cbIndex
    /\ UNCHANGED <<cbCfg, cbIndex, cbDisk, cbMarked, cbBranch, cbReq, cbType, cbSaw, cbUnseen, cbRan, cbEdited, cbPushed>>

\* A hook's refusal ends the command; what was staged stays staged.
HookRefuses ==
    /\ cbAt = "hooks" /\ End("refused")
    /\ UNCHANGED <<cbCfg, cbWork, cbBranch, cbReq, cbType, cbSaw, cbUnseen, cbRan, cbEdited, cbPushed>>

---------------------------------------------------------------------------
(* The forge backend.  It has no case for the scoped mode.                 *)

\* A name that is gone is deleted as one path, a directory too.
Collected ==
    LET below(n) == IF ~OnDisk(n) THEN {<<n, 0>>}
                    ELSE IF IsFile(n) THEN {<<n, cbDisk[n]>>}
                    ELSE {<<f, IF Gone(f) THEN 0 ELSE cbDisk[f]>> : f \in {f \in CbBelow[n] : Dirty(f)}}
        all(S) == {<<f, IF Gone(f) THEN 0 ELSE cbDisk[f]>> : f \in S}
    IN CASE cbReq.mode = "explicit" -> UNION {below(n) : n \in cbReq.names}
         [] cbReq.mode = "all" -> all({f \in CbFiles : Dirty(f)})
         [] cbReq.mode = "staged" -> all(StagedFiles \cup {f \in CbFiles : Untracked(f)})
         [] OTHER -> {}

Collect ==
    /\ cbAt = "collect" /\ cbSaw' = cbDisk
    /\ IF Collected = {} THEN End("noop")
       ELSE /\ cbChanges' = [p \in {c[1] : c \in Collected} |-> (CHOOSE c \in Collected : c[1] = p)[2]]
            /\ cbAt' = "head" /\ UNCHANGED <<cbOut, cbExpect, cbVerb, cbTree>>
    /\ UNCHANGED <<cbCfg, cbWork, cbBranch, cbReq, cbType, cbUnseen, cbRan, cbEdited, cbPushed>>

BranchHeadSHA ==
    /\ cbAt = "head" /\ cbExpect' = cbSha /\ cbAt' = "preflight"
    /\ UNCHANGED <<cbCfg, cbWork, cbBranch, cbReq, cbType, cbSaw, cbUnseen, cbChanges, cbVerb, cbTree, cbOut, cbRan, cbEdited, cbPushed>>

\* Deleting what is no file there is refused by every forge.
Applies(t) == \A p \in DOMAIN cbChanges : cbChanges[p] = 0 => p \in CbFiles /\ t[p] # 0
Apply(t) == [f \in CbFiles |-> IF f \in DOMAIN cbChanges THEN cbChanges[f] ELSE t[f]]
Present(t) == {p \in DOMAIN cbChanges : p \in CbFiles /\ t[p] # 0}

\* GitHub and Gitea read the ref, compare it, and build tree and commit on it.
OnRef ==
    IF cbSha # cbExpect THEN End("moved")
    ELSE IF ~Applies(cbRemote) THEN End("error")
    ELSE cbTree' = Apply(cbRemote) /\ cbAt' = "post" /\ UNCHANGED <<cbOut, cbChanges, cbExpect, cbVerb>>
GithubCommitFiles == cbCfg.provider = "github" /\ OnRef
GiteaCommitFiles == cbCfg.provider = "gitea" /\ OnRef

\* GitLab compares the head before anything else; Azure DevOps leaves the
\* comparison to the push.
GitlabCommitFiles ==
    /\ cbCfg.provider = "gitlab"
    /\ IF cbSha # cbExpect THEN End("moved") ELSE cbAt' = "probe" /\ UNCHANGED <<cbOut, cbApi>>
AzureCommitFiles == cbCfg.provider = "azure" /\ cbAt' = "probe" /\ UNCHANGED <<cbOut, cbApi>>

CommitFiles ==
    /\ cbAt = "preflight"
    /\ GithubCommitFiles \/ GiteaCommitFiles \/ GitlabCommitFiles \/ AzureCommitFiles
    /\ UNCHANGED <<cbCfg, cbWork, cbBranch, cbReq, cbType, cbSaw, cbUnseen, cbRan, cbEdited, cbPushed>>

\* GitLab and Azure ask, on the branch as it is by now, which files exist.
FileExists ==
    /\ cbAt = "probe" /\ cbVerb' = Present(cbRemote) /\ cbAt' = "post"
    /\ UNCHANGED <<cbCfg, cbWork, cbBranch, cbReq, cbType, cbSaw, cbUnseen, cbChanges, cbExpect, cbTree, cbOut, cbRan, cbEdited, cbPushed>>

\* The forge takes the commit: GitLab on whatever head it has, when every
\* create, update and delete fits; the others only on the expected head.
GitlabTakes == Applies(cbRemote) /\ {p \in cbVerb : cbChanges[p] # 0} = {p \in Present(cbRemote) : cbChanges[p] # 0}
AzureTakes == cbSha = cbExpect /\ Applies(cbRemote)
Takes ==
    CASE cbCfg.provider = "gitlab" -> GitlabTakes
      [] cbCfg.provider = "azure" -> AzureTakes
      [] OTHER -> cbSha = cbExpect

\* The answer to a commit that was taken may be lost.
Post ==
    /\ cbAt = "post"
    /\ IF Takes
       THEN /\ cbRemote' = IF cbCfg.provider \in {"github", "gitea"} THEN cbTree ELSE Apply(cbRemote)
            /\ cbSha' = cbSha + 1
            /\ \E out \in {"committed", "error"} :
                 cbAt' = "idle" /\ cbOut' = out /\ cbChanges' = NoChanges /\ cbExpect' = 0 /\ cbVerb' = {} /\ cbTree' = cbRemote'
       ELSE End(IF cbCfg.provider = "gitlab" THEN "error" ELSE "moved") /\ UNCHANGED cbBranch
    /\ UNCHANGED <<cbCfg, cbWork, cbReq, cbType, cbSaw, cbUnseen, cbRan, cbEdited, cbPushed>>

---------------------------------------------------------------------------
(* Everybody else.                                                         *)

\* Somebody edits or deletes a file.
Edit(f, v) ==
    /\ cbEdited < CbEdits /\ f # CbPlanted /\ v # cbDisk[f]
    /\ cbDisk' = [cbDisk EXCEPT ![f] = v] /\ cbEdited' = cbEdited + 1
    /\ UNCHANGED <<cbCfg, cbHead, cbIndex, cbMarked, cbBranch, cbAt, cbReq, cbType, cbSaw, cbUnseen, cbApi, cbOut, cbRan, cbPushed>>

\* Somebody stages one between commands, a hook or somebody beside it does
\* while a commit's hooks run.
GitAdd(f, marked) ==
    /\ cbAt \in {"idle", "hooks"} /\ cbEdited < CbEdits /\ f \notin cbCfg.ignored
    /\ IF marked THEN Untracked(f) ELSE cbDisk[f] # cbIndex[f]
    /\ cbIndex' = [cbIndex EXCEPT ![f] = IF marked THEN CbEmpty ELSE cbDisk[f]]
    /\ cbMarked' = IF marked THEN cbMarked \cup {f} ELSE cbMarked \ {f}
    /\ cbUnseen' = IF cbAt = "hooks" THEN cbUnseen \cup {f} ELSE cbUnseen
    /\ cbEdited' = cbEdited + 1
    /\ UNCHANGED <<cbCfg, cbHead, cbDisk, cbBranch, cbAt, cbReq, cbType, cbSaw, cbApi, cbOut, cbRan, cbPushed>>

CbOthersPush(f, v) ==
    /\ cbPushed < CbPushes /\ cbAt \in {"head", "preflight", "probe", "post"} /\ v # cbRemote[f]
    /\ cbRemote' = [cbRemote EXCEPT ![f] = v] /\ cbSha' = cbSha + 1 /\ cbPushed' = cbPushed + 1
    /\ UNCHANGED <<cbCfg, cbWork, cbAt, cbReq, cbType, cbSaw, cbUnseen, cbApi, cbOut, cbRan, cbEdited>>

\* A checkout of a branch with some files, in which somebody has worked.
CbFrom(at) ==
    /\ \E t \in CbStarts :
         cbHead = t /\ cbIndex = t /\ cbDisk = t /\ cbRemote = t /\ cbTree = t /\ cbSaw = t
    /\ cbMarked = {} /\ cbUnseen = {} /\ cbSha = 1 /\ cbAt = at /\ cbReq = NoRequest /\ cbType = ""
    /\ cbChanges = NoChanges /\ cbExpect = 0 /\ cbVerb = {} /\ cbOut = "none"
    /\ cbRan = 0 /\ cbEdited = 0 /\ cbPushed = 0

CbInit == cbCfg \in {c \in CbConfigs : CbTypesValid(c.types)} /\ CbFrom("idle")

CbCommand ==
    \/ NoForge \/ Stage \/ SettleIntentToAdd \/ CheckStaged \/ CommitIndex \/ HookRefuses
    \/ Collect \/ BranchHeadSHA \/ CommitFiles \/ FileExists \/ Post

CbNext ==
    \/ \E r \in CbRequests : Begin(r)
    \/ CbCommand
    \/ \E f \in CbFiles : \E v \in 0 .. CbMax : Edit(f, v) \/ CbOthersPush(f, v)
    \/ \E f \in CbFiles, marked \in BOOLEAN : GitAdd(f, marked)

CbSpec == CbInit /\ [][CbNext]_cbVars

---------------------------------------------------------------------------
(* Properties.                                                             *)

CbTypeOK ==
    /\ {cbHead, cbIndex, cbDisk, cbRemote, cbTree, cbSaw} \subseteq CbTrees
    /\ cbMarked \subseteq {f \in CbFiles : cbIndex[f] # 0}
    /\ cbAt \in {"off", "idle", "fail", "stage", "settle", "check", "hooks", "collect", "head", "preflight", "probe", "post"}
    /\ \E r \in CbRequests \cup {NoRequest} : cbReq = [r EXCEPT !.slash = r.slash \cap cbReq.slash]
    /\ cbUnseen \subseteq CbFiles
    /\ DOMAIN cbChanges \subseteq CbFiles \cup CbNames
    /\ cbExpect \in 0 .. cbSha /\ cbVerb \subseteq CbFiles
    /\ cbOut \in {"none", "refused", "noop", "committed", "moved", "error"}
    /\ cbRan \in 0 .. CbRuns /\ cbEdited \in 0 .. CbEdits /\ cbPushed \in 0 .. CbPushes

\* A commit bounded to the paths it names changes nothing else, whatever was
\* left in the index before it or by a command that was refused, and no command
\* that was refused moves HEAD (commit/git.go assertNoUndeclaredStaged).  Except,
\* file by file, what the check did not see: what is staged between it and the
\* commit, while the hooks run (git.go:130, :182), and the staged deletion of a
\* file still in the worktree, which status calls untracked (gitstate/status.go:29).
ScopedBounded ==
    [][cbHead' # cbHead =>
         /\ cbOut' = "committed"
         /\ cbReq.mode = "scoped" =>
              \A f \in CbFiles \ (cbUnseen \cup {CbPlanted}) :
                  cbHead'[f] # cbHead[f] => \E n \in cbReq.names : f \in CbBelow[n]]_cbVars

\* When a local commit that names paths succeeds, HEAD holds what the worktree
\* held of them when they were staged: new files, changes, deletions and deleted
\* directories; of a directory only what is ignored may be missing, and a
\* directory with files contributes something, now or before - again except,
\* file by file, what its check did not see (commit/git.go
\* stageDeletedChildren, assertDeclaredPathsStaged).
DeclaredLands ==
    [][(cbAt = "check" \/ cbAt = "hooks") /\ cbOut' \in {"committed", "noop"} /\ cbReq.mode \in {"explicit", "scoped"} =>
         \A n \in cbReq.names :
             /\ \A f \in CbBelow[n] \ cbUnseen' : cbHead'[f] = cbSaw[f] \/ (~IsFile(n) /\ f \in cbCfg.ignored)
             /\ (\E f \in CbBelow[n] : cbSaw[f] # 0 /\ cbDisk[f] # 0) =>
                    \E f \in CbBelow[n] : cbHead'[f] # 0 \/ cbHead[f] # 0 \/ f \in cbUnseen']_cbVars

\* When a commit through a forge that names paths succeeds, the branch holds
\* there what the worktree held of every named path in which it differed from
\* HEAD, except what is ignored in a named directory; and it finds nothing to
\* commit only if nothing named differs.  A command that bounds itself to its
\* paths and pushes through a forge is not such a commit: it finds nothing,
\* whatever it names (commit/forge.go:38, against cli/cmd/commit.go:41).
DeclaredPosted ==
    [][/\ cbAt = "post" /\ cbOut' = "committed" /\ cbReq.mode = "explicit" =>
            \A n \in cbReq.names : \A f \in CbBelow[n] :
                cbSaw[f] # cbHead[f] /\ (IsFile(n) \/ f \notin cbCfg.ignored) => cbRemote'[f] = cbSaw[f]
       /\ cbAt = "collect" /\ cbOut' = "noop" /\ cbReq.mode # "scoped" =>
            \A n \in cbReq.names : \A f \in CbBelow[n] :
                cbDisk[f] = cbHead[f] \/ f \in cbCfg.ignored]_cbVars

\* No commit holds the empty file an intent-to-add entry stands for, unless the
\* entry was made while its hooks ran (commit/git.go settleIntentToAdd).
NoEmptyFile ==
    [][\A f \in CbFiles \ cbUnseen : cbHead'[f] = CbEmpty => cbHead[f] = CbEmpty]_cbVars

\* What other people pushed while the command talked to the forge survives
\* it: a file the commit does not list on every forge, and, where the forge
\* compares heads itself, every file (forge CommitFiles).
OthersKept ==
    [][cbAt = "post" /\ cbAt' = "idle" /\ cbRemote' # cbRemote =>
         /\ \A f \in CbFiles \ DOMAIN cbChanges : cbRemote'[f] = cbRemote[f]
         /\ cbCfg.provider # "gitlab" => cbSha = cbExpect]_cbVars

\* A commit's type is a declared type that stands for itself
\* (commit/type_registry.go Resolve, config/validate.go).
TypeCanonical ==
    cbType \notin {"", CbUnknown} => \E x \in cbCfg.types : x.key = cbType /\ x.alias = ""

\* What a commit does to the trees, locally or through a forge: what it names
\* lands, and locally a bounded commit holds nothing else; no intent-to-add file
\* is committed empty, its type is a declared one, and others' work on the branch
\* survives it - as far as the check saw the index (cbUnseen), and but for a
\* bounded commit through a forge, which makes none.
CommitKeeps ==
    /\ [](CbTypeOK /\ TypeCanonical)
    /\ NoEmptyFile
    /\ DeclaredLands
    /\ DeclaredPosted
    /\ ScopedBounded
    /\ OthersKept
=============================================================================
