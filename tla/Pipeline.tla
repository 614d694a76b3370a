------------------------------ MODULE Pipeline ------------------------------
(***************************************************************************)
(* One CI pipeline: the five jobs render/planner.go plans, the forge that  *)
(* schedules them and carries their artifacts, and the phase runners of    *)
(* cli/cmd/ci_phases.go that act on the run ledger they find in their      *)
(* workspace.  Jobs run on fresh workspaces, one after another; what a     *)
(* phase recorded reaches a later one only as files of an artifact.        *)
(* A job may be killed at any step, a state write may fail, and the forge  *)
(* may be asked to retry a job.  Audition models how the contract comes    *)
(* about; here it is any contract.                                         *)
(***************************************************************************)
EXTENDS CIStateOps, Naturals, FiniteSets

CONSTANTS
  Forge,        \* "gitlab", or "actions" for the GitHub/Gitea/Forgejo family
  Modes,        \* lifecycle modes considered: "image", "reconcile"
  Builds,       \* what builds: makes: an "image", "nothing" for this ref, "none" declared
  Required,     \* choices of which of "security" and "release" are not allow_failure
  MaxMishaps,   \* bound on failing state writes and on jobs retried, together
  None          \* no contract, no artifact, no image

ASSUME PipelineAssumption ==
  /\ Forge \in {"gitlab", "actions"}
  /\ Modes \subseteq {"image", "reconcile"}
  /\ Builds \subseteq {"image", "nothing", "none"}
  /\ Required \subseteq SUBSET {"security", "release"}
  /\ MaxMishaps \in Nat
  /\ {"audition", "build", "security", "review", "publish", "release", "reconcile"} \subseteq Subsystems
  /\ None \notin {"audition", "perform", "review", "publish", "narrate"}
  /\ None \notin [blocking : BOOLEAN, replaced : BOOLEAN, skipped : BOOLEAN]

VARIABLES
  cfg,        \* configuration and context of the run
  status,     \* job -> created, running, success, failed, killed, skipped
  art,        \* job -> the workspace files it uploaded, or None
  job,        \* the running job, or None
  pc,         \* its next step; "ok" and "fail" when the process has exited
  ws,         \* its workspace: pipeline.json, fragments, content store
  cancelled,  \* a newer commit cancelled the pipeline
  faults,     \* jobs in which a state write failed
  retries,    \* jobs retried so far
  verdict,    \* history: the contract the latest audition derived, or None
  built,      \* history: number of images built, which are numbered from 1
  scanned,    \* history: images whose scan passed
  shipped,    \* history: images promoted to a registry
  converged,  \* history: a reconcile changed live systems
  narration   \* the status narrate announced, or None

vars == <<cfg, status, art, job, pc, ws, cancelled, faults, retries,
          verdict, built, scanned, shipped, converged, narration>>
history == <<verdict, built, scanned, shipped, converged, narration>>
forge == <<cfg, status, art, job, cancelled, retries>>

Jobs == {"audition", "perform", "review", "publish", "narrate"}
Mishaps == Cardinality(faults) + retries

-----------------------------------------------------------------------------
(* The plan: who needs whom, who may fail, what is uploaded.                *)
(* perform names no needs and so follows the whole audition stage.          *)
Needs == [audition |-> {}, perform |-> {"audition"}, review |-> {"perform"},
          publish |-> {"perform", "review"}, narrate |-> {"perform", "review", "publish"}]
AllowFailure == Jobs \ {"perform"}

(* Mutant: narrate is scheduled like any other job.                         *)
WhenAlwaysNone == {}

WhenAlways == {"narrate"}

(* audition and perform upload .stagefreight/, review and publish only      *)
(* fragments (and scan reports); narrate nothing.                           *)
Upload(j, w) ==
  CASE j \in {"audition", "perform"} -> w
    [] j \in {"review", "publish"}   -> [file |-> NoFile, shards |-> w.shards, image |-> None]
    [] OTHER                         -> None

EmptyWorkspace == [file |-> NoFile, shards |-> NoSubsystems, image |-> None]

(* Where the files of an artifact land in the next workspace.  The Actions  *)
(* family strips the paths' common ancestor on upload and puts the rest     *)
(* under .stagefreight/: publish's single path loses subsystems/ that way,  *)
(* and ReadState does not find what it holds.                               *)
Landed(j) ==
  IF Forge = "actions" /\ j = "publish" THEN EmptyWorkspace ELSE art[j]

Producers(j) == {n \in Needs[j] : art[n] # None}

(* Artifacts are unpacked over one another, in any order: of each file the  *)
(* last one unpacked stays.                                                 *)
Orders(P) == {o \in [P -> 1..Cardinality(P)] : \A m, n \in P : o[m] = o[n] => m = n}
Last(o, P) == CHOOSE n \in P : \A m \in P : o[m] <= o[n]
Unpacked(P, o) ==
  LET WithFile  == {n \in P : Landed(n).file # NoFile}
      WithImage == {n \in P : Landed(n).image # None}
      WithShard(s) == {n \in P : Landed(n).shards[s] # Absent}
  IN  [file   |-> IF WithFile = {} THEN NoFile ELSE Landed(Last(o, WithFile)).file,
       shards |-> [s \in Subsystems |->
                     IF WithShard(s) = {} THEN Absent ELSE Landed(Last(o, WithShard(s))).shards[s]],
       image  |-> IF WithImage = {} THEN None ELSE Landed(Last(o, WithImage)).image]
Downloads(j) == {Unpacked(Producers(j), o) : o \in Orders(Producers(j))}

-----------------------------------------------------------------------------
(* Records.  Facts matter here only for publish ("tags").                   *)
Life(outcome, allowFailure, skipped) ==
  [outcome |-> outcome, attempted |-> TRUE, allowFailure |-> allowFailure,
   skipped |-> skipped, blocking |-> FALSE, replaced |-> FALSE]
NotAttempted(outcome) ==
  [outcome |-> outcome, attempted |-> FALSE, allowFailure |-> FALSE,
   skipped |-> FALSE, blocking |-> FALSE, replaced |-> FALSE]
ContractLife(c) ==
  [outcome |-> IF c.blocking THEN "failed" ELSE "success", attempted |-> TRUE,
   allowFailure |-> c.replaced, skipped |-> c.skipped,
   blocking |-> c.blocking, replaced |-> c.replaced]

Contracts == {c \in [blocking : BOOLEAN, replaced : BOOLEAN, skipped : BOOLEAN] :
                c.skipped => ~c.blocking}

Visible == ReadState(ws.file, ws.shards)
GetSubsystem(s) == Visible.subs[s]
Reads(s, outcomes) == GetSubsystem(s) # Absent /\ GetSubsystem(s).life.outcome \in outcomes

With(state, s, life) ==
  [subs |-> [state.subs EXCEPT ![s] = upsertSubsystem(@, [life |-> life, results |-> {}])],
   doc  |-> state.doc]
WithFact(state, s, fact) ==
  [subs |-> [state.subs EXCEPT ![s] =
               IF @ = Absent THEN [life |-> NotAttempted(""), results |-> {fact}]
                             ELSE [life |-> @.life, results |-> @.results \cup {fact}]],
   doc  |-> state.doc]
WithDoc(state, produced) == [subs |-> state.subs, doc |-> produced]

(* UpdateState: pipeline.json, then the fragments; a failing write ends it  *)
(* where it is and is only logged.                                          *)
Written(state, T) ==
  [file |-> state,
   shards |-> [s \in Subsystems |-> IF s \in T THEN state.subs[s] ELSE ws.shards[s]],
   image |-> ws.image]
UpdateState(state) ==
  \/ ws' = Written(state, shardsToWrite(state)) /\ UNCHANGED faults
  \/ /\ job \notin faults /\ Mishaps < MaxMishaps
     /\ faults' = faults \cup {job}
     /\ \/ UNCHANGED ws
        \/ \E T \in SUBSET shardsToWrite(state) :
             T # shardsToWrite(state) /\ ws' = Written(state, T)

PipelineStatus(state) ==
  LET Attempted == {s \in Subsystems : state.subs[s] # Absent /\ state.subs[s].life.attempted}
      Failed == {s \in Attempted : state.subs[s].life.outcome \in {"failed", "cancelled"}}
      Warned == {s \in Attempted : state.subs[s].life.outcome = "warning"}
  IN  CASE Attempted = {}                                    -> "unknown"
        [] \E s \in Failed : ~state.subs[s].life.allowFailure -> "failing"
        [] Failed \cup Warned # {}                            -> "warning"
        [] OTHER                                              -> "passing"

-----------------------------------------------------------------------------
(* The forge. *)
Done(j) == status[j] \in {"success", "failed", "killed", "skipped"}
Passed(j) == status[j] = "success" \/ (status[j] \in {"failed", "killed"} /\ j \in AllowFailure)
Ready(j) == ~cancelled /\ job = None /\ status[j] = "created" /\ \A n \in Needs[j] : Done(n)
Runs(j) == j \in WhenAlways \/ \A n \in Needs[j] : Passed(n)

(* What a run never reads is left at one value.  An unreleased ref is a     *)
(* tag that git.tags does not declare; without an image scanning is on.     *)
Configs ==
  [mode : Modes \cap {"image"}, ref : {"default"}, builds : Builds, scan : {TRUE}, required : Required]
    \cup [mode : Modes \cap {"image"}, ref : {"default"}, builds : Builds \cap {"image"},
          scan : {FALSE}, required : Required]
    \cup [mode : Modes \cap {"image"}, ref : {"unreleased"}, builds : {"none"},
          scan : {TRUE}, required : Required]
    \cup [mode : Modes \cap {"reconcile"}, ref : {"default", "other"}, builds : {"none"},
          scan : {FALSE}, required : {{}}]

Init ==
  /\ cfg \in Configs
  /\ status = [j \in Jobs |-> "created"]
  /\ art = [j \in Jobs |-> None]
  /\ job = None /\ pc = "none" /\ ws = EmptyWorkspace
  /\ cancelled = FALSE
  /\ faults = {} /\ retries = 0
  /\ verdict = None
  /\ built = 0 /\ scanned = {} /\ shipped = {}
  /\ converged = FALSE
  /\ narration = None

StartJob(j) ==
  /\ Ready(j) /\ Runs(j)
  /\ status' = [status EXCEPT ![j] = "running"]
  /\ job' = j /\ pc' = "start"
  /\ ws' \in Downloads(j)
  /\ UNCHANGED <<cfg, art, cancelled, faults, retries, history>>

SkipJob(j) ==
  /\ Ready(j) /\ ~Runs(j)
  /\ status' = [status EXCEPT ![j] = "skipped"]
  /\ UNCHANGED <<cfg, art, job, pc, ws, cancelled, faults, retries, history>>

EndJob(result, uploaded) ==
  /\ job # None
  /\ status' = [status EXCEPT ![job] = result]
  /\ art' = [art EXCEPT ![job] = IF uploaded THEN Upload(job, ws) ELSE None]
  /\ job' = None /\ pc' = "none" /\ ws' = EmptyWorkspace
  /\ UNCHANGED <<cfg, cancelled, faults, retries, history>>

(* Every artifact is uploaded whatever the exit code. *)
FinishJob ==
  \/ pc = "ok" /\ EndJob("success", TRUE)
  \/ pc = "fail" /\ EndJob("failed", TRUE)

(* The process dies (the runner still uploads), or the runner does.  A      *)
(* process that has written its last record is taken to exit as it said.   *)
KillJob == pc \notin {"ok", "fail"} /\ \E uploaded \in BOOLEAN : EndJob("killed", uploaded)

(* A newer commit: auto-cancel. *)
CancelPipeline ==
  /\ ~cancelled /\ \E j \in Jobs : ~Done(j)
  /\ cancelled' = TRUE
  /\ job' = None /\ pc' = "none" /\ ws' = EmptyWorkspace
  /\ UNCHANGED <<cfg, status, art, faults, retries, history>>

(* Someone retries a finished job: a new job that has uploaded nothing yet. *)
(* Jobs skipped because of it are put back, finished ones are not.          *)
RetryJob(j) ==
  /\ Mishaps < MaxMishaps /\ ~cancelled /\ job = None
  /\ status[j] \in {"success", "failed", "killed"}
  /\ retries' = retries + 1
  /\ status' = [k \in Jobs |-> IF k = j \/ status[k] = "skipped" THEN "created" ELSE status[k]]
  /\ art' = [art EXCEPT ![j] = None]
  /\ UNCHANGED <<cfg, job, pc, ws, cancelled, faults, history>>

-----------------------------------------------------------------------------
(* The phase runners.  At(j, step) is where the running process is.         *)
At(j, step) == job = j /\ pc = step
Goto(step) == pc' = step

(* assertAuditionRan *)
NoLedger == ws.file = NoFile

(* auditionPhaseRunner: the CI-freshness check may end it before anything   *)
(* is recorded; executorPreflight then creates the ledger.                  *)
AuditionPreflight ==
  /\ At("audition", "start")
  /\ \/ Goto("fail") /\ UNCHANGED <<ws, faults>>
     \/ Goto("contract") /\ UpdateState(Visible)
  /\ UNCHANGED <<forge, history>>

AuditionContract ==
  /\ At("audition", "contract")
  /\ \E c \in Contracts :
       /\ verdict' = c
       /\ UpdateState(With(Visible, "audition", ContractLife(c)))
  /\ Goto("ok") \/ Goto("fail")
  /\ UNCHANGED <<forge, built, scanned, shipped, converged, narration>>

(* performPhaseRunner: reconcile modes act on accepted state and never read *)
(* the contract; image modes go through performGate.                        *)
Contract == GetSubsystem("audition")
SaysSkip == Contract # Absent /\ ~Contract.life.blocking /\ Contract.life.skipped

(* Mutant: only an explicit refusal stops the build.                        *)
performGateOpen ==
  IF Contract # Absent /\ Contract.life.blocking
  THEN IF Contract.life.replaced THEN "defer" ELSE "refuse"
  ELSE "build"

performGate ==
  IF Contract = Absent THEN "refuse"
  ELSE IF ~Contract.life.blocking THEN "build"
  ELSE IF Contract.life.replaced THEN "defer" ELSE "refuse"

PerformStart ==
  /\ At("perform", "start")
  /\ \/ NoLedger /\ Goto("fail") /\ UNCHANGED <<ws, faults>>
     \/ /\ ~NoLedger /\ cfg.mode = "reconcile"
        /\ Goto(IF cfg.ref = "default" THEN "reconcile" ELSE "ok")   \* acceptedState
        /\ UNCHANGED <<ws, faults>>
     \/ /\ ~NoLedger /\ cfg.mode = "image" /\ SaysSkip
        /\ UpdateState(With(Visible, "build", Life("skipped", FALSE, TRUE)))
        /\ Goto("ok")
     \/ /\ ~NoLedger /\ cfg.mode = "image" /\ ~SaysSkip
        /\ Goto(IF performGate = "refuse" THEN "fail"
                ELSE IF performGate = "defer" \/ cfg.ref = "unreleased" THEN "ok" ELSE "premark")
        /\ UNCHANGED <<ws, faults>>
  /\ UNCHANGED <<forge, history>>

(* reconcileRunner: nothing configured, or an unhealthy substrate, ends it; *)
(* otherwise the backends act on live systems.  runPrimaryReconcile and     *)
(* runAnsibleConverge record what happened, but a lifecycle that errors     *)
(* returns before it is recorded, only the gitops mode is recorded at all,  *)
(* and the exit code also covers what is not recorded (the governance       *)
(* preview, advisory plays).                                                *)
Reconcile ==
  /\ At("perform", "reconcile")
  /\ \/ (Goto("ok") \/ Goto("fail")) /\ UNCHANGED converged
     \/ converged' = TRUE /\ (Goto("reconciled") \/ Goto("ok") \/ Goto("fail"))
  /\ UNCHANGED <<forge, ws, faults, verdict, built, scanned, shipped, narration>>

recordReconcileState ==
  /\ At("perform", "reconciled")
  /\ \E outcome \in {"success", "failed"} :
       UpdateState(With(Visible, "reconcile", Life(outcome, FALSE, FALSE)))
  /\ Goto("ok") \/ Goto("fail")
  /\ UNCHANGED <<forge, history>>

(* buildRunner: mark failed, build, record what the manifests show.         *)
BuildPremark ==
  /\ At("perform", "premark")
  /\ UpdateState(With(Visible, "build", Life("failed", FALSE, FALSE)))
  /\ Goto("build")
  /\ UNCHANGED <<forge, history>>

(* domains.Run retains an image in the content store, or has none to make;  *)
(* either way it may fail, or leave manifests that cannot be read.          *)
Build ==
  /\ At("perform", "build")
  /\ \/ /\ cfg.builds = "image"
        /\ built' = built + 1
        /\ ws' = [file |-> ws.file, shards |-> ws.shards, image |-> built + 1]
        /\ Goto("image") \/ Goto("unreadable") \/ Goto("broken")
     \/ cfg.builds # "image" /\ Goto(cfg.builds) /\ UNCHANGED <<ws, built>>
     \/ cfg.builds # "none" /\ (Goto("unreadable") \/ Goto("broken")) /\ UNCHANGED <<ws, built>>
  /\ UNCHANGED <<forge, faults, verdict, scanned, shipped, converged, narration>>

RecordBuild ==
  /\ job = "perform"
  /\ \/ /\ pc = "image"
        /\ UpdateState(WithDoc(With(Visible, "build", Life("success", FALSE, FALSE)), TRUE))
        /\ Goto("ok")
     \/ /\ pc = "nothing"
        /\ UpdateState(WithDoc(With(Visible, "build", Life("success", FALSE, FALSE)), FALSE))
        /\ Goto("ok")
     \/ /\ pc = "none"
        /\ UpdateState(WithDoc(With(Visible, "build", Life("not_applicable", FALSE, FALSE)), FALSE))
        /\ Goto("ok")
     \/ /\ pc \in {"broken", "unreadable"}               \* unreadable manifests: no error
        /\ UpdateState(With(Visible, "build", Life("failed", FALSE, FALSE)))
        /\ Goto(IF pc = "broken" THEN "fail" ELSE "ok")
  /\ UNCHANGED <<forge, history>>

(* reviewPhaseRunner and securityRunner's skips. *)
Security(outcome, skipped) == Life(outcome, "security" \notin cfg.required, skipped)
NothingToReview ==
  \/ GetSubsystem("build") = Absent /\ Contract # Absent /\ Contract.life.blocking
  \/ Reads("build", {"not_applicable"})
  \/ Reads("build", {"success"}) /\ ~Visible.doc

ReviewStart ==
  /\ At("review", "start")
  /\ \/ NoLedger /\ Goto("fail") /\ UNCHANGED <<ws, faults>>
     \/ /\ ~NoLedger /\ cfg.mode = "reconcile"
        /\ UpdateState(With(Visible, "review", NotAttempted("not_applicable")))
        /\ Goto("ok")
     \/ /\ ~NoLedger /\ cfg.mode = "image" /\ SaysSkip
        /\ UpdateState(With(Visible, "security", Life("skipped", FALSE, TRUE)))
        /\ Goto("ok")
     \/ /\ ~NoLedger /\ cfg.mode = "image" /\ ~SaysSkip
        /\ IF cfg.ref = "unreleased" \/ ~cfg.scan
           THEN UpdateState(With(Visible, "security", Security("not_applicable", FALSE))) /\ Goto("ok")
           ELSE IF NothingToReview
           THEN UpdateState(With(Visible, "security", Security("not_applicable", TRUE))) /\ Goto("ok")
           ELSE UpdateState(With(Visible, "security", Security("failed", FALSE)))
                /\ (Goto("scan") \/ Goto("fail"))          \* unhealthy substrate: recorded, fails
  /\ UNCHANGED <<forge, history>>

Scan ==
  /\ At("review", "scan")
  /\ \/ ws.image # None /\ scanned' = scanned \cup {ws.image} /\ Goto("scanned")
     \/ UNCHANGED scanned /\ Goto("refused")
  /\ UNCHANGED <<forge, ws, faults, verdict, built, shipped, converged, narration>>

RecordSecurity ==
  /\ job = "review" /\ pc \in {"scanned", "refused"}
  /\ UpdateState(With(Visible, "security",
                     Security(IF pc = "scanned" THEN "success" ELSE "failed", FALSE)))
  /\ Goto(IF pc = "scanned" THEN "ok" ELSE "fail")
  /\ UNCHANGED <<forge, history>>

(* Mutant: a denylist of outcomes.                                          *)
AuthorizedUnlessFailed == \A s \in {"build", "security"} : ~Reads(s, {"failed"})

(* publishPhaseRunner: authorizePhase, the freshness gate, promotion, its   *)
(* facts and its record, the release, then the tail every mode runs.        *)
Authorized ==
  \A s \in {"build", "security"} :
    Reads(s, {"success", "warning", "skipped", "not_applicable"})

PublishStart ==
  /\ At("publish", "start")
  /\ Goto(IF NoLedger \/ (cfg.mode = "image" /\ ~Authorized) THEN "fail"
          ELSE IF cfg.mode = "reconcile" THEN "tail" ELSE "promote")
  /\ UNCHANGED <<forge, ws, faults, history>>

(* Not the branch head any more, or nothing to promote; every tag failed;   *)
(* or the image is in a registry, with or without an error for another tag. *)
Promote ==
  /\ At("publish", "promote")
  /\ \/ Goto("release") /\ UNCHANGED shipped
     \/ ws.image # None /\ Goto("unpublished") /\ UNCHANGED shipped
     \/ /\ ws.image # None
        /\ shipped' = shipped \cup {ws.image}
        /\ Goto("tagged") \/ Goto("partly tagged")
  /\ UNCHANGED <<forge, ws, faults, verdict, built, scanned, converged, narration>>

RecordTags ==
  /\ job = "publish" /\ pc \in {"tagged", "partly tagged"}
  /\ UpdateState(WithFact(Visible, "publish", "tags"))
  /\ Goto(IF pc = "tagged" THEN "published" ELSE "unpublished")
  /\ UNCHANGED <<forge, history>>

RecordPublish ==
  /\ job = "publish" /\ pc \in {"published", "unpublished"}
  /\ UpdateState(With(Visible, "publish",
                     Life(IF pc = "published" THEN "success" ELSE "failed", FALSE, FALSE)))
  /\ Goto(IF pc = "published" THEN "release" ELSE "fail")
  /\ UNCHANGED <<forge, history>>

(* releaseRunner: an unhealthy substrate ends it unrecorded, seven reasons  *)
(* make it a recorded skip, otherwise it marks failed before it starts.     *)
Release(outcome, skipped) == Life(outcome, "release" \notin cfg.required, skipped)
ReleaseStart ==
  /\ At("publish", "release")
  /\ \/ Goto("fail") /\ UNCHANGED <<ws, faults>>
     \/ Goto("tail") /\ UNCHANGED <<ws, faults>>            \* scheduledSkip
     \/ /\ \E outcome \in {"skipped", "not_applicable"} :
             UpdateState(With(Visible, "release", Release(outcome, TRUE)))
        /\ Goto("tail")
     \/ /\ UpdateState(With(Visible, "release", Release("failed", FALSE)))
        /\ Goto("releasing")
  /\ UNCHANGED <<forge, history>>

RunReleaseCreate ==
  /\ At("publish", "releasing")
  /\ \/ UpdateState(With(Visible, "release", Release("success", FALSE))) /\ Goto("tail")
     \/ UpdateState(With(Visible, "release", Release("failed", FALSE))) /\ Goto("fail")
  /\ UNCHANGED <<forge, history>>

(* Packages, pages, governance, scribe and mirrors: may fail the job.       *)
PublishTail ==
  /\ At("publish", "tail")
  /\ Goto("ok") \/ Goto("fail")
  /\ UNCHANGED <<forge, ws, faults, history>>

(* runNarrate: facts, then a failure for each required upstream that left   *)
(* no record, then the announcement of what the ledger now says.            *)
NarrateStart ==
  /\ At("narrate", "start")
  /\ \/ NoLedger /\ Goto("fail") /\ UNCHANGED <<ws, faults>>
     \/ ~NoLedger /\ Goto("evidence") /\ UpdateState(Visible)
  /\ UNCHANGED <<forge, history>>

Missing(s) == s \in {"build", "security"} /\ GetSubsystem(s) = Absent
assertRequiredEvidence ==
  /\ At("narrate", "evidence")
  /\ IF cfg.mode = "reconcile" THEN UNCHANGED <<ws, faults>>
     ELSE UpdateState([subs |-> [s \in Subsystems |->
                                   IF Missing(s)
                                   THEN [life |-> Life("failed", FALSE, FALSE), results |-> {}]
                                   ELSE GetSubsystem(s)],
                       doc |-> Visible.doc])
  /\ Goto("announce")
  /\ UNCHANGED <<forge, history>>

Announce ==
  /\ At("narrate", "announce")
  /\ narration' = PipelineStatus(Visible)
  /\ Goto("ok")
  /\ UNCHANGED <<forge, ws, faults, verdict, built, scanned, shipped, converged>>

Phases ==
  \/ AuditionPreflight \/ AuditionContract
  \/ PerformStart \/ Reconcile \/ recordReconcileState \/ BuildPremark \/ Build \/ RecordBuild
  \/ ReviewStart \/ Scan \/ RecordSecurity
  \/ PublishStart \/ Promote \/ RecordTags \/ RecordPublish
  \/ ReleaseStart \/ RunReleaseCreate \/ PublishTail
  \/ NarrateStart \/ assertRequiredEvidence \/ Announce

Scheduler == FinishJob \/ \E j \in Jobs : StartJob(j) \/ SkipJob(j)

Next ==
  \/ Phases
  \/ Scheduler
  \/ KillJob
  \/ CancelPipeline
  \/ \E j \in Jobs : RetryJob(j)

(* Runners execute their jobs and the forge schedules what is ready; the    *)
(* two are never enabled together.                                          *)
Spec == Init /\ [][Next]_vars /\ WF_vars(Phases \/ Scheduler)

-----------------------------------------------------------------------------
Lives == [outcome : {"", "success", "failed", "skipped", "not_applicable"},
          attempted : BOOLEAN, allowFailure : BOOLEAN, skipped : BOOLEAN,
          blocking : BOOLEAN, replaced : BOOLEAN]
Entries == [life : Lives, results : SUBSET {"tags"}] \cup {Absent}

(* What stands for a missing record, file or announcement is none.          *)
ASSUME EncodingAssumption ==
  /\ ZeroDoc \in BOOLEAN
  /\ None \notin {"unknown", "passing", "warning", "failing"}
  /\ Absent \notin [life : Lives, results : SUBSET {"tags"}]
  /\ NoFile \notin [subs : [Subsystems -> Entries], doc : BOOLEAN]

IsWorkspace(w) ==
  /\ \/ w.file = NoFile
     \/ w.file.doc \in BOOLEAN /\ \A s \in Subsystems : w.file.subs[s] \in Entries
  /\ \A s \in Subsystems : w.shards[s] \in Entries
  /\ w.image \in (1..built) \cup {None}

(* The type invariant: the outcomes the phase runners record are among      *)
(* those the gates and PipelineStatus tell apart, images are built before   *)
(* they are carried, scanned or shipped, and the running job is one the     *)
(* forge started.                                                           *)
TypeOK ==
  /\ status \in [Jobs -> {"created", "running", "success", "failed", "killed", "skipped"}]
  /\ job \in Jobs \cup {None}
  /\ IsWorkspace(ws) /\ \A j \in Jobs : art[j] = None \/ IsWorkspace(art[j])
  /\ faults \subseteq Jobs /\ retries \in 0..MaxMishaps
  /\ verdict \in Contracts \cup {None}
  /\ scanned \subseteq 1..built /\ shipped \subseteq 1..built
  /\ narration \in {"unknown", "passing", "warning", "failing", None}
  /\ job # None => status[job] = "running"

(* What publish promotes is what review scanned, when scanning is on: not a *)
(* job dying, nor a failed write of either record, lets an image ship that  *)
(* no scan has passed ("the bytes perform built and review verified are     *)
(* promoted", ci_phases.go).                                                *)
UnscannedNeverShips == cfg.scan => shipped \subseteq scanned

(* Perform builds only under the contract that the latest audition derived, *)
(* and only when it does not block; a missing contract is not consent.      *)
BlockedNeverBuilt ==
  [][built' > built => verdict # None /\ ~verdict.blocking]_vars

(* A badge that says "passing" is never shown for an image run whose build  *)
(* or review did not succeed, whether they recorded that, were killed or    *)
(* could not write, as long as narrate itself can write.                    *)
NarrateHonest ==
  cfg.mode = "image" /\ narration = "passing" /\ "narrate" \notin faults =>
    status.perform = "success" /\ status.review = "success"

(* What a job uploaded as failed is not narrated as passing: the artifacts  *)
(* carry every fragment to narrate ("for narrate to report what did and did *)
(* not ship", planner.go).                                                  *)
Tells(j, s) ==
  /\ art[j] # None
  /\ art[j].shards[s] # Absent
  /\ art[j].shards[s].life.outcome = "failed"
  /\ ~art[j].shards[s].life.allowFailure
FailuresNarrated ==
  narration = "passing" => \A j \in Needs.narrate, s \in Subsystems : ~Tells(j, s)

(* "the union is order-independent" (planner.go): whatever the order the    *)
(* artifacts are unpacked in, a job starts on the same files.               *)
UnionOrderIndependent == \A j \in Jobs : Ready(j) => Cardinality(Downloads(j)) = 1

(* Unless it is cancelled, every pipeline comes to rest in a state in which *)
(* narrate has run, whatever was killed, skipped or retried before.         *)
AlwaysNarrated ==
  <>[](cancelled \/ status.narrate \in {"success", "failed", "killed"})

(* What the phases keep, whatever is killed and whichever write is lost:    *)
(* the gates, the artifacts and narrate together, for jobs that run once.   *)
(* A job retried after the ones that used its artifacts finished leaves     *)
(* those as they are, so a retried pipeline keeps only its types.           *)
PipelineSafe ==
  /\ TypeOK
  /\ retries = 0 => /\ UnscannedNeverShips
                    /\ NarrateHonest
                    /\ FailuresNarrated
                    /\ UnionOrderIndependent
=============================================================================
