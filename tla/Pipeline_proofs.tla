-------------------------- MODULE Pipeline_proofs ---------------------------
(***************************************************************************)
(* Proofs about Pipeline, for every forge, mode and set of subsystems, any *)
(* number of lost state writes and any number of retried jobs: what        *)
(* perform builds, it builds under the latest audition's contract          *)
(* (BuildsUnderContract); and when no job is retried, an image that was    *)
(* not scanned never ships, the badge says what the jobs' ends bear out,   *)
(* and the ledger a job starts with is the same for every download order   *)
(* (PipelineKeeps).  LedgerInv is the invariant behind the second; TLC     *)
(* checks it on the instance of Pipeline.cfg, and there for other forges.  *)
(***************************************************************************)
EXTENDS Pipeline, FiniteSetTheorems, FunctionTheorems, TLAPS

(* A record of the audition says what the contract v says, or is missing.   *)
Agrees(e, v) == e = Absent \/ (v # None /\ e.life.blocking = v.blocking)

(* So does every file of a workspace that can hold the record.              *)
Carries(w, v) ==
  /\ w.file # NoFile => Agrees(w.file.subs["audition"], v)
  /\ Agrees(w.shards["audition"], v)

(* Nothing in the workspace speaks for the audition yet.                    *)
Blank(w) ==
  /\ w.file # NoFile => w.file.subs["audition"] = Absent
  /\ w.shards["audition"] = Absent

(* The control state: as much of the types as the argument needs.           *)
ControlOK ==
  /\ cfg.builds \in {"image", "nothing", "none"}
  /\ DOMAIN status = Jobs
  /\ DOMAIN art = Jobs
  /\ job \in Jobs \cup {None}
  /\ job # None => status[job] = "running"
  /\ built \in Nat

(* The audition's artifact is gone as soon as another audition may run, and *)
(* what is there agrees with the verdict.                                   *)
ArtifactAgrees ==
  /\ status["audition"] \in {"created", "running", "skipped"} => art["audition"] = None
  /\ art["audition"] # None => Carries(art["audition"], verdict)

(* So does the workspace of the two jobs that write or read the contract.   *)
WorkspaceAgrees ==
  /\ job \in {"audition", "perform"} => Carries(ws, verdict)
  /\ job = "audition" /\ pc \in {"start", "contract"} => Blank(ws)

(* Past performGate, the verdict is known and lets perform build.           *)
GatePassed ==
  job = "perform" /\ pc \in {"premark", "build"} => verdict # None /\ ~verdict.blocking

IInv == ControlOK /\ ArtifactAgrees /\ WorkspaceAgrees /\ GatePassed

-----------------------------------------------------------------------------
(* What a phase reads as the contract is what the files carry.              *)
LEMMA ReadAgrees ==
  ASSUME NEW w, NEW v, Carries(w, v)
  PROVE  Agrees(ReadState(w.file, w.shards).subs["audition"], v)
<1>0. "audition" \in Subsystems
  BY PipelineAssumption
<1>1. CASE w.file = NoFile
  BY <1>0, <1>1 DEF ReadState, ZeroState, NoSubsystems, Agrees
<1>2. CASE w.file # NoFile
  BY <1>0, <1>2 DEF ReadState, overlaySubsystemShards, upsertSubsystem, Carries, Agrees
<1> QED BY <1>1, <1>2

(* A blank workspace has no contract.                                       *)
LEMMA ReadBlank ==
  ASSUME NEW w, Blank(w)
  PROVE  ReadState(w.file, w.shards).subs["audition"] = Absent
<1>0. "audition" \in Subsystems
  BY PipelineAssumption
<1>1. CASE w.file = NoFile
  BY <1>0, <1>1 DEF ReadState, ZeroState, NoSubsystems
<1>2. CASE w.file # NoFile
  BY <1>0, <1>2 DEF ReadState, overlaySubsystemShards, Blank
<1> QED BY <1>1, <1>2

(* ReadState knows every subsystem.                                         *)
LEMMA VisibleDomain == DOMAIN Visible.subs = Subsystems
BY DEF Visible, ReadState, ZeroState, NoSubsystems, overlaySubsystemShards

(* Recording another subsystem leaves the audition's record alone.          *)
LEMMA WithOther ==
  ASSUME NEW s \in Subsystems, s # "audition", NEW life
  PROVE  With(Visible, s, life).subs["audition"] = Visible.subs["audition"]
BY VisibleDomain, PipelineAssumption DEF With

(* Writing a State leaves a workspace that carries the record of that State *)
(* or the one it carried, wherever the write stopped.                       *)
LEMMA UpdateCarries ==
  ASSUME NEW v, NEW state, UpdateState(state), Agrees(state.subs["audition"], v),
         Carries(ws, v) \/ Blank(ws)
  PROVE  Carries(ws', v)
<1>0. "audition" \in Subsystems
  BY PipelineAssumption
<1>1. Carries(ws, v)
  BY DEF Carries, Blank, Agrees
<1>2. ASSUME NEW T, ws' = Written(state, T)
      PROVE  Carries(ws', v)
  <2>1. ws'.file = state
    BY <1>2 DEF Written
  <2>2. ws'.shards["audition"] \in {state.subs["audition"], ws.shards["audition"]}
    BY <1>0, <1>2 DEF Written
  <2> QED BY <1>1, <2>1, <2>2 DEF Carries
<1> QED BY <1>1, <1>2 DEF UpdateState

(* ... and a blank one blank, if the State has no record either.            *)
LEMMA UpdateBlank ==
  ASSUME NEW state, UpdateState(state), state.subs["audition"] = Absent, Blank(ws)
  PROVE  Blank(ws')
<1>0. "audition" \in Subsystems
  BY PipelineAssumption
<1>1. ASSUME NEW T, ws' = Written(state, T)
      PROVE  Blank(ws')
  <2>1. ws'.file = state
    BY <1>1 DEF Written
  <2>2. ws'.shards["audition"] \in {state.subs["audition"], ws.shards["audition"]}
    BY <1>0, <1>1 DEF Written
  <2> QED BY <2>1, <2>2 DEF Blank
<1> QED BY <1>1 DEF UpdateState

(* The audition starts on an empty workspace.                               *)
LEMMA AuditionDownloads ==
  ASSUME NEW w \in Downloads("audition")
  PROVE  Blank(w)
<1>1. Producers("audition") = {}
  BY DEF Producers, Needs
<1>2. PICK o \in Orders({}) : w = Unpacked({}, o)
  BY <1>1 DEF Downloads
<1>3. w.file = NoFile /\ w.shards["audition"] = Absent
  BY <1>2, PipelineAssumption DEF Unpacked
<1> QED BY <1>3 DEF Blank

(* Perform starts on the audition's artifact, as it was uploaded.           *)
LEMMA PerformDownloads ==
  ASSUME NEW v, NEW w \in Downloads("perform"),
         art["audition"] # None => Carries(art["audition"], v)
  PROVE  Carries(w, v)
<1> DEFINE P == Producers("perform")
<1>1. P \subseteq {"audition"} /\ ("audition" \in P => art["audition"] # None)
  BY DEF Producers, Needs
<1>2. PICK o \in Orders(P) : w = Unpacked(P, o)
  BY DEF Downloads
<1>3. Landed("audition") = art["audition"]
  BY DEF Landed
<1>4. ASSUME NEW Q \in SUBSET P, Q # {}
      PROVE  Last(o, Q) = "audition" /\ "audition" \in P
  <2>1. Q = {"audition"} /\ P = {"audition"}
    BY <1>1, <1>4
  <2>2. Cardinality(P) = 1
    BY <2>1, FS_Singleton
  <2>3. o["audition"] \in Int
    BY <1>2, <2>1, <2>2 DEF Orders
  <2>4. \A n \in Q : \A m \in Q : o[m] <= o[n]
    BY <2>1, <2>3
  <2>5. Last(o, Q) \in Q
    BY <1>4, <2>4 DEF Last
  <2> QED BY <2>1, <2>5
<1>5. w.file # NoFile => Agrees(w.file.subs["audition"], v)
  <2> DEFINE Q == {n \in P : Landed(n).file # NoFile}
  <2>1. CASE Q = {}
    BY <1>2, <2>1 DEF Unpacked
  <2>2. CASE Q # {}
    <3>1. w.file = Landed(Last(o, Q)).file
      BY <1>2, <2>2 DEF Unpacked
    <3>2. Last(o, Q) = "audition" /\ art["audition"] # None
      BY <1>1, <1>4, <2>2
    <3> QED BY <1>3, <3>1, <3>2 DEF Carries
  <2> QED BY <2>1, <2>2
<1>6. Agrees(w.shards["audition"], v)
  <2> DEFINE Q == {n \in P : Landed(n).shards["audition"] # Absent}
  <2>0. "audition" \in Subsystems
    BY PipelineAssumption
  <2>1. CASE Q = {}
    BY <1>2, <2>0, <2>1 DEF Unpacked, Agrees
  <2>2. CASE Q # {}
    <3>1. w.shards["audition"] = Landed(Last(o, Q)).shards["audition"]
      BY <1>2, <2>0, <2>2 DEF Unpacked
    <3>2. Last(o, Q) = "audition" /\ art["audition"] # None
      BY <1>1, <1>4, <2>2
    <3> QED BY <1>3, <3>1, <3>2 DEF Carries
  <2> QED BY <2>1, <2>2
<1> QED BY <1>5, <1>6 DEF Carries

-----------------------------------------------------------------------------
(* Before the first job nothing is on disk, uploaded or decided.            *)
LEMMA InitInv == Init => IInv
<1> SUFFICES ASSUME Init PROVE IInv
  OBVIOUS
<1>1. None \notin Jobs
  BY PipelineAssumption DEF Jobs
<1>2. cfg.builds \in {"image", "nothing", "none"}
  BY PipelineAssumption DEF Init, Configs
<1> QED BY <1>1, <1>2 DEF Init, IInv, ControlOK, ArtifactAgrees, WorkspaceAgrees, GatePassed, Jobs

(* The forge schedules, and people cancel and retry, without disturbing it: *)
(* a retried audition takes its artifact away before its verdict changes.   *)
LEMMA ForgeStep ==
  ASSUME IInv, Scheduler \/ KillJob \/ CancelPipeline \/ \E j \in Jobs : RetryJob(j)
  PROVE  IInv'
<1>0. None \notin Jobs /\ {"audition", "perform"} \subseteq Jobs
  BY PipelineAssumption DEF Jobs
<1> USE DEF history
<1>1. ASSUME NEW j \in Jobs, StartJob(j) PROVE IInv'
  <2>1. ControlOK'
    BY <1>0, <1>1 DEF StartJob, IInv, ControlOK
  <2>2. ArtifactAgrees'
    BY <1>0, <1>1 DEF StartJob, Ready, IInv, ControlOK, ArtifactAgrees
  <2>3. j = "audition" => Blank(ws')
    BY <1>1, AuditionDownloads DEF StartJob
  <2>4. j = "perform" => Carries(ws', verdict')
    BY <1>1, PerformDownloads DEF StartJob, IInv, ArtifactAgrees
  <2>5. WorkspaceAgrees'
    BY <1>1, <2>3, <2>4 DEF StartJob, WorkspaceAgrees, Blank, Carries, Agrees
  <2>6. GatePassed'
    BY <1>1 DEF StartJob, GatePassed
  <2> QED BY <2>1, <2>2, <2>5, <2>6 DEF IInv
<1>2. ASSUME NEW j \in Jobs, SkipJob(j) PROVE IInv'
  <2>1. ControlOK' /\ WorkspaceAgrees' /\ GatePassed'
    BY <1>2 DEF SkipJob, Ready, IInv, ControlOK, WorkspaceAgrees, GatePassed
  <2>2. ArtifactAgrees'
    BY <1>0, <1>2 DEF SkipJob, Ready, IInv, ControlOK, ArtifactAgrees
  <2> QED BY <2>1, <2>2 DEF IInv
<1>3. ASSUME NEW result \in {"success", "failed", "killed"}, NEW uploaded \in BOOLEAN,
             EndJob(result, uploaded)
      PROVE  IInv'
  <2>1. job' = None
    BY <1>3 DEF EndJob
  <2>2. ControlOK' /\ WorkspaceAgrees' /\ GatePassed'
    BY <1>0, <1>3, <2>1 DEF EndJob, IInv, ControlOK, WorkspaceAgrees, GatePassed
  <2>3. CASE job = "audition"
    <3>1. art'["audition"] \in {ws, None} /\ status'["audition"] = result
      BY <1>0, <1>3, <2>3 DEF EndJob, Upload, IInv, ControlOK
    <3>2. verdict' = verdict
      BY <1>3 DEF EndJob
    <3> QED BY <2>2, <2>3, <3>1, <3>2 DEF IInv, ArtifactAgrees, WorkspaceAgrees
  <2>4. CASE job # "audition"
    <3>1. art'["audition"] = art["audition"] /\ status'["audition"] = status["audition"]
      BY <1>0, <1>3, <2>4 DEF EndJob, IInv, ControlOK
    <3>2. verdict' = verdict
      BY <1>3 DEF EndJob
    <3> QED BY <2>2, <3>1, <3>2 DEF IInv, ArtifactAgrees
  <2> QED BY <2>3, <2>4
<1>4. CASE CancelPipeline
  BY <1>0, <1>4 DEF CancelPipeline, IInv, ControlOK, ArtifactAgrees, WorkspaceAgrees, GatePassed
<1>5. ASSUME NEW j \in Jobs, RetryJob(j) PROVE IInv'
  <2>1. ControlOK' /\ WorkspaceAgrees' /\ GatePassed'
    BY <1>0, <1>5 DEF RetryJob, IInv, ControlOK, WorkspaceAgrees, GatePassed
  <2>2. status'["audition"] = IF j = "audition" \/ status["audition"] = "skipped"
                              THEN "created" ELSE status["audition"]
    BY <1>0, <1>5 DEF RetryJob
  <2>3. art'["audition"] = IF j = "audition" THEN None ELSE art["audition"]
    BY <1>0, <1>5 DEF RetryJob, IInv, ControlOK
  <2>4. verdict' = verdict
    BY <1>5 DEF RetryJob
  <2> QED BY <2>1, <2>2, <2>3, <2>4 DEF IInv, ArtifactAgrees
<1> QED BY <1>1, <1>2, <1>3, <1>4, <1>5 DEF Scheduler, FinishJob, KillJob

(* Steps of the jobs that neither write nor read the contract.              *)
LEMMA LaterStep ==
  ASSUME IInv, job \in {"review", "publish", "narrate"},
         UNCHANGED <<forge, verdict, built>>
  PROVE  IInv'
BY DEF forge, IInv, ControlOK, ArtifactAgrees, WorkspaceAgrees, GatePassed

(* A step of the audition or of perform that writes a State, which agrees   *)
(* with the verdict; what it says about pc is checked by its user.          *)
LEMMA WriteStep ==
  ASSUME IInv, job \in {"audition", "perform"}, NEW state, UpdateState(state),
         Agrees(state.subs["audition"], verdict'),
         Carries(ws, verdict') \/ Blank(ws),
         UNCHANGED <<forge, built>>,
         job = "perform" => verdict' = verdict
  PROVE  ControlOK' /\ ArtifactAgrees' /\ Carries(ws', verdict')
<1>0. None \notin {"audition", "perform"}
  BY PipelineAssumption
<1>1. Carries(ws', verdict')
  BY UpdateCarries
<1>2. ControlOK'
  BY DEF forge, IInv, ControlOK
<1>3. ArtifactAgrees'
  <2>1. CASE job = "audition"
    <3>1. status["audition"] = "running"
      BY <1>0, <2>1 DEF IInv, ControlOK
    <3> QED BY <2>1, <3>1 DEF forge, IInv, ArtifactAgrees
  <2>2. CASE job = "perform"
    BY <2>2 DEF forge, IInv, ArtifactAgrees
  <2> QED BY <2>1, <2>2
<1> QED BY <1>1, <1>2, <1>3

(* A step of the running audition: both of its writes record the contract  *)
(* that becomes the verdict.                                               *)
LEMMA AuditionStep ==
  ASSUME IInv, AuditionPreflight \/ AuditionContract
  PROVE  IInv'
<1>0. None \notin Jobs
  BY PipelineAssumption DEF Jobs
<1>1. CASE AuditionPreflight
  <2>1. job = "audition" /\ pc = "start" /\ UNCHANGED <<forge, history>>
    BY <1>1 DEF AuditionPreflight, At
  <2>2. Blank(ws) /\ Carries(ws, verdict)
    BY <2>1 DEF IInv, WorkspaceAgrees
  <2>3. GatePassed'
    BY <1>0, <2>1 DEF GatePassed, forge
  <2>4. CASE UNCHANGED ws /\ pc' = "fail"
    BY <2>1, <2>2, <2>3, <2>4 DEF forge, history, IInv, ControlOK, ArtifactAgrees, WorkspaceAgrees
  <2>5. CASE UpdateState(Visible)
    <3>1. Visible.subs["audition"] = Absent
      BY <2>2, ReadBlank DEF Visible
    <3>2. ControlOK' /\ ArtifactAgrees' /\ Carries(ws', verdict')
      BY <2>1, <2>2, <2>5, <3>1, WriteStep DEF Agrees, history
    <3>3. Blank(ws')
      BY <2>2, <2>5, <3>1, UpdateBlank
    <3> QED BY <2>3, <3>2, <3>3 DEF IInv, WorkspaceAgrees
  <2> QED BY <1>1, <2>4, <2>5 DEF AuditionPreflight, Goto
<1>2. CASE AuditionContract
  <2>1. /\ job = "audition" /\ pc = "contract" /\ pc' \in {"ok", "fail"}
        /\ UNCHANGED <<forge, built>>
    BY <1>2 DEF AuditionContract, At, Goto
  <2>2. Blank(ws)
    BY <2>1 DEF IInv, WorkspaceAgrees
  <2>3. PICK c \in Contracts :
          verdict' = c /\ UpdateState(With(Visible, "audition", ContractLife(c)))
    BY <1>2 DEF AuditionContract
  <2>4. Agrees(With(Visible, "audition", ContractLife(c)).subs["audition"], verdict')
    <3>1. c # None
      BY PipelineAssumption DEF Contracts
    <3>2. "audition" \in Subsystems
      BY PipelineAssumption
    <3>3. Visible.subs["audition"] = Absent
      BY <2>2, ReadBlank DEF Visible
    <3>4. With(Visible, "audition", ContractLife(c)).subs["audition"]
            = [life |-> ContractLife(c), results |-> {}]
      BY <3>2, <3>3, VisibleDomain DEF With, upsertSubsystem
    <3> QED BY <2>3, <3>1, <3>4 DEF Agrees, ContractLife
  <2>5. ControlOK' /\ ArtifactAgrees' /\ Carries(ws', verdict')
    BY <2>1, <2>2, <2>3, <2>4, WriteStep
  <2>6. GatePassed' /\ WorkspaceAgrees'
    BY <1>0, <2>1, <2>5 DEF GatePassed, WorkspaceAgrees, forge
  <2> QED BY <2>5, <2>6 DEF IInv
<1> QED BY <1>1, <1>2

(* A step of the running perform: it builds only after reading a record    *)
(* that lets it, which is the verdict's.                                   *)
LEMMA PerformStep ==
  ASSUME IInv,
         \/ PerformStart \/ Reconcile \/ recordReconcileState
         \/ BuildPremark \/ Build \/ RecordBuild
  PROVE  IInv'
<1>0. "build" \in Subsystems /\ "reconcile" \in Subsystems
  BY PipelineAssumption
<1>1. job = "perform" /\ UNCHANGED <<forge, verdict>>
  BY DEF PerformStart, Reconcile, recordReconcileState, BuildPremark, Build, RecordBuild, At,
         history
<1>2. Carries(ws, verdict) /\ Agrees(Visible.subs["audition"], verdict)
  BY <1>1, ReadAgrees DEF IInv, WorkspaceAgrees, Visible
<1>3. ASSUME UNCHANGED built, NEW state, UpdateState(state),
             state.subs["audition"] = Visible.subs["audition"]
      PROVE  ControlOK' /\ ArtifactAgrees' /\ WorkspaceAgrees'
  <2>1. ControlOK' /\ ArtifactAgrees' /\ Carries(ws', verdict')
    BY <1>1, <1>2, <1>3, WriteStep
  <2> QED BY <1>1, <2>1 DEF forge, WorkspaceAgrees
<1>4. ASSUME UNCHANGED <<ws, built>>
      PROVE  ControlOK' /\ ArtifactAgrees' /\ WorkspaceAgrees'
  BY <1>1, <1>4 DEF forge, IInv, ControlOK, ArtifactAgrees, WorkspaceAgrees
<1>5. CASE PerformStart
  <2>1. ControlOK' /\ ArtifactAgrees' /\ WorkspaceAgrees'
    BY <1>0, <1>3, <1>4, <1>5, WithOther DEF PerformStart, history
  <2>2. pc' = "premark" => performGate = "build"
    BY <1>5 DEF PerformStart, Goto, performGate
  <2>3. performGate = "build" => Contract # Absent /\ ~Contract.life.blocking
    BY DEF performGate
  <2>4. pc' # "build"
    BY <1>5 DEF PerformStart, Goto, performGate
  <2>5. GatePassed'
    BY <1>1, <1>2, <2>2, <2>3, <2>4 DEF GatePassed, Contract, GetSubsystem, Agrees
  <2> QED BY <2>1, <2>5 DEF IInv
<1>6. CASE Reconcile
  <2>1. ControlOK' /\ ArtifactAgrees' /\ WorkspaceAgrees'
    BY <1>4, <1>6 DEF Reconcile
  <2>2. GatePassed'
    BY <1>6 DEF Reconcile, Goto, GatePassed
  <2> QED BY <2>1, <2>2 DEF IInv
<1>7. CASE recordReconcileState
  <2>1. ControlOK' /\ ArtifactAgrees' /\ WorkspaceAgrees'
    BY <1>0, <1>3, <1>7, WithOther DEF recordReconcileState, history
  <2>2. GatePassed'
    BY <1>7 DEF recordReconcileState, Goto, GatePassed
  <2> QED BY <2>1, <2>2 DEF IInv
<1>8. CASE BuildPremark
  <2>1. ControlOK' /\ ArtifactAgrees' /\ WorkspaceAgrees'
    BY <1>0, <1>3, <1>8, WithOther DEF BuildPremark, history
  <2>2. GatePassed'
    BY <1>1, <1>8 DEF BuildPremark, At, IInv, GatePassed
  <2> QED BY <2>1, <2>2 DEF IInv
<1>9. CASE Build
  <2>1. ControlOK' /\ ArtifactAgrees'
    BY <1>1, <1>9 DEF Build, forge, IInv, ControlOK, ArtifactAgrees
  <2>2. WorkspaceAgrees'
    BY <1>1, <1>2, <1>9 DEF Build, forge, WorkspaceAgrees, Carries
  <2>3. pc' \notin {"premark", "build"}
    BY <1>9 DEF Build, Goto, IInv, ControlOK
  <2> QED BY <2>1, <2>2, <2>3 DEF IInv, GatePassed
<1>10. CASE RecordBuild
  <2>1. PICK life, d :
          \/ UpdateState(With(Visible, "build", life))
          \/ UpdateState(WithDoc(With(Visible, "build", life), d))
    BY <1>10 DEF RecordBuild
  <2>2. UNCHANGED built
    BY <1>10 DEF RecordBuild, history
  <2>3. ControlOK' /\ ArtifactAgrees' /\ WorkspaceAgrees'
    BY <1>0, <1>3, <2>1, <2>2, WithOther DEF WithDoc
  <2>4. GatePassed'
    BY <1>10 DEF RecordBuild, Goto, GatePassed
  <2> QED BY <2>3, <2>4 DEF IInv
<1> QED BY <1>5, <1>6, <1>7, <1>8, <1>9, <1>10

(* In every reachable state the audition's record, wherever it is, says    *)
(* what the latest verdict says, and a job that builds does so under it.   *)
THEOREM Invariance == Spec => []IInv
<1>1. IInv /\ [Next]_vars => IInv'
  <2> SUFFICES ASSUME IInv, [Next]_vars PROVE IInv'
    OBVIOUS
  <2>1. CASE AuditionPreflight \/ AuditionContract
    BY <2>1, AuditionStep
  <2>2. CASE PerformStart \/ Reconcile \/ recordReconcileState \/ BuildPremark \/ Build \/ RecordBuild
    BY <2>2, PerformStep
  <2>3. CASE ReviewStart \/ Scan \/ RecordSecurity
    BY <2>3, LaterStep DEF ReviewStart, Scan, RecordSecurity, At, history
  <2>4. CASE \/ PublishStart \/ Promote \/ RecordTags \/ RecordPublish
             \/ ReleaseStart \/ RunReleaseCreate \/ PublishTail
    BY <2>4, LaterStep DEF PublishStart, Promote, RecordTags, RecordPublish, ReleaseStart,
       RunReleaseCreate, PublishTail, At, history
  <2>5. CASE NarrateStart \/ assertRequiredEvidence \/ Announce
    BY <2>5, LaterStep DEF NarrateStart, assertRequiredEvidence, Announce, At, history
  <2>6. CASE Scheduler \/ KillJob \/ CancelPipeline \/ \E j \in Jobs : RetryJob(j)
    BY <2>6, ForgeStep
  <2>7. CASE UNCHANGED vars
    BY <2>7 DEF vars, IInv, ControlOK, ArtifactAgrees, WorkspaceAgrees, GatePassed
  <2> QED BY <2>1, <2>2, <2>3, <2>4, <2>5, <2>6, <2>7 DEF Next, Phases
<1> QED BY InitInv, <1>1, PTL DEF Spec

(* Only Build makes an image. *)
LEMMA BuiltByBuild ==
  ASSUME IInv, [Next]_vars, built' > built
  PROVE  Build
<1>1. built' # built
  BY DEF IInv, ControlOK
<1> QED
  BY <1>1
  DEF Next, Phases, Scheduler, FinishJob, KillJob, EndJob, StartJob, SkipJob, CancelPipeline,
      RetryJob, AuditionPreflight, AuditionContract, PerformStart, Reconcile,
      recordReconcileState, BuildPremark, RecordBuild, ReviewStart, Scan, RecordSecurity,
      PublishStart, Promote, RecordTags, RecordPublish, ReleaseStart, RunReleaseCreate,
      PublishTail, NarrateStart, assertRequiredEvidence, Announce, history, vars

(* Whatever is killed, cancelled or retried, and wherever a write of the    *)
(* ledger stops, perform builds only under a contract, the one that the     *)
(* latest audition derived, and only when it does not block.                *)
THEOREM BuildsUnderContract == Spec => BlockedNeverBuilt
<1>1. IInv /\ [Next]_vars => [built' > built => verdict # None /\ ~verdict.blocking]_vars
  <2> SUFFICES ASSUME IInv, [Next]_vars, built' > built
               PROVE  verdict # None /\ ~verdict.blocking
    OBVIOUS
  <2>1. job = "perform" /\ pc = "build"
    BY BuiltByBuild DEF Build, At
  <2> QED BY <2>1 DEF IInv, GatePassed
<1> QED BY Invariance, <1>1, PTL DEF Spec, BlockedNeverBuilt

-----------------------------------------------------------------------------
(* The second half: what the jobs leave to one another in a pipeline in     *)
(* which nothing is retried.  The types of a workspace; only the publish    *)
(* record carries facts.                                                    *)
Records ==
  [life : {l \in Lives : l.outcome = "failed" => l.attempted}, results : SUBSET {"tags"}] \cup {Absent}
Fragments ==
  {f \in [Subsystems -> Records] : \A s \in Subsystems \ {"publish"} : f[s] # Absent => f[s].results = {}}
States == [subs : Fragments, doc : BOOLEAN]
Workspaces(n) == [file : States \cup {NoFile}, shards : Fragments, image : (1..n) \cup {None}]

(* The types of the variables, which also a retried pipeline keeps.         *)
Typed ==
  /\ cfg.mode \in {"image", "reconcile"}
  /\ status \in [Jobs -> {"created", "running", "success", "failed", "killed", "skipped"}]
  /\ DOMAIN art = Jobs
  /\ job \in Jobs \cup {None} /\ (job # None => status[job] = "running")
  /\ ws \in Workspaces(built) /\ \A j \in Jobs : art[j] # None => art[j] \in Workspaces(built)
  /\ faults \subseteq Jobs /\ retries \in Nat /\ Mishaps <= MaxMishaps
  /\ verdict \in Contracts \cup {None}
  /\ built \in Nat /\ scanned \subseteq 1..built /\ shipped \subseteq 1..built
  /\ narration \in {"unknown", "passing", "warning", "failing", None}

(* The record whose lifecycle a reader of the workspace is told.            *)
Told(w, s) ==
  IF w.file = NoFile THEN Absent ELSE IF w.shards[s] = Absent THEN w.file.subs[s] ELSE w.shards[s]
Fails(e) == e # Absent /\ e.life.outcome = "failed"
Succeeds(e) == e # Absent /\ e.life.outcome # "failed"

(* What a job left to the later ones, and who records what.                 *)
Left(j) == IF art[j] = None THEN EmptyWorkspace ELSE art[j]
ByPerform == {"audition", "build", "reconcile"}
ByReview == {"security", "review"}

(* Nothing is recorded outside S, and nothing at all without pipeline.json. *)
Holds(w, S) ==
  /\ \A s \in Subsystems \ S : w.shards[s] = Absent /\ (w.file # NoFile => w.file.subs[s] = Absent)
  /\ w.file = NoFile => \A s \in Subsystems : w.shards[s] = Absent

(* A contract that lets perform build.                                      *)
Open(c) == c # Absent /\ ~c.life.blocking /\ ~c.life.skipped

(* An image is there only of a build under an open contract, and a build    *)
(* recorded as anything but failed is one that made it.                     *)
ImageTrue(w) ==
  w.image # None =>
    /\ cfg.ref # "unreleased" /\ Open(Told(w, "audition"))
    /\ Succeeds(Told(w, "build")) => Told(w, "build").life.outcome = "success" /\ w.file.doc
Accounted(image) == cfg.scan => image \in scanned \cup {None}

(* The order of the jobs.                                                   *)
InOrder ==
  /\ \A k \in Jobs : status[k] # "created" => \A n \in Needs[k] : Done(n)
  /\ \A k \in Jobs : art[k] # None => Done(k)
  /\ narration # None => status["narrate"] # "created"

AuditionLeft ==
  Holds(Left("audition"), {"audition"}) /\ Left("audition").image = None
PerformLeft ==
  /\ Holds(Left("perform"), ByPerform) /\ ImageTrue(Left("perform"))
  /\ Succeeds(Told(Left("perform"), "build")) => status["perform"] = "success"
ReviewLeft ==
  /\ Left("review").file = NoFile /\ Left("review").image = None
  /\ \A s \in ByPerform : Left("review").shards[s] \in {Absent, Told(Left("perform"), s)}
  /\ \A s \in Subsystems \ (ByPerform \cup ByReview) : Left("review").shards[s] = Absent
  /\ Left("perform").file = NoFile => \A s \in ByReview : Left("review").shards[s] = Absent
  /\ Succeeds(Left("review").shards["security"]) =>
       status["review"] = "success" /\ Accounted(Left("perform").image)
PublishLeft ==
  /\ Left("publish").file = NoFile /\ Left("publish").image = None
  /\ \A s \in ByPerform : Left("publish").shards[s] \in {Absent, Told(Left("perform"), s)}
  /\ \A s \in ByReview : Left("publish").shards[s] \in {Absent, Left("review").shards[s]}
Uploaded == AuditionLeft /\ PerformLeft /\ ReviewLeft /\ PublishLeft

(* A job after perform works on perform's ledger and image.                 *)
Inherits ==
  /\ Left("perform").file = NoFile => ws.file = NoFile
  /\ ws.file = NoFile => pc \in {"start", "fail"}
  /\ \A s \in ByPerform : Told(ws, s) = Told(Left("perform"), s)
  /\ ws.image = Left("perform").image

AuditionRuns == job = "audition" => Holds(ws, {"audition"}) /\ ws.image = None
PerformRuns ==
  job = "perform" =>
    /\ Holds(ws, ByPerform) /\ ImageTrue(ws)
    /\ pc \in {"start", "premark", "build", "nothing", "none"} => ws.image = None
    /\ pc \in {"premark", "build", "image", "unreadable", "broken", "nothing", "none"} =>
         cfg.ref # "unreleased" /\ Open(Told(ws, "audition"))
    /\ Succeeds(Told(ws, "build")) => pc = "ok"
ReviewRuns ==
  job = "review" =>
    /\ Inherits /\ Holds(ws, ByPerform \cup ByReview)
    /\ pc = "start" => ImageTrue(ws)
    /\ pc = "scanned" => ws.image \in scanned
    /\ Succeeds(Told(ws, "security")) => pc = "ok" /\ Accounted(ws.image)
PublishRuns ==
  job = "publish" =>
    /\ Inherits /\ Holds(ws, Subsystems)
    /\ \A s \in ByReview : Told(ws, s) = Left("review").shards[s]
    /\ pc = "promote" => Accounted(ws.image)
NarrateRuns ==
  job = "narrate" =>
    /\ ws.file = NoFile => pc \in {"start", "fail"}
    /\ ws.file # NoFile =>
         /\ Succeeds(Told(ws, "build")) => status["perform"] = "success"
         /\ Succeeds(Told(ws, "security")) => status["review"] = "success"
         /\ Forge = "gitlab" =>
              \A j \in Needs["narrate"], s \in Subsystems : Tells(j, s) => Fails(Told(ws, s))
         /\ pc = "announce" /\ cfg.mode = "image" /\ "narrate" \notin faults =>
              Told(ws, "build") # Absent /\ Told(ws, "security") # Absent
Running == AuditionRuns /\ PerformRuns /\ ReviewRuns /\ PublishRuns /\ NarrateRuns

Kept == UnscannedNeverShips /\ NarrateHonest /\ (Forge = "gitlab" => FailuresNarrated)
LedgerInv == Typed /\ (retries = 0 => InOrder /\ Uploaded /\ Running /\ Kept)

-----------------------------------------------------------------------------
(* The names of the phases are subsystems, and all different from None.     *)
LEMMA Names ==
  /\ {"audition", "build", "security", "review", "publish", "release", "reconcile"} \subseteq Subsystems
  /\ None \notin Jobs /\ ByPerform \subseteq Subsystems /\ ByReview \subseteq Subsystems
BY PipelineAssumption DEF Jobs, ByPerform, ByReview

(* A State is not a missing file, a record is not a missing one.            *)
LEMMA StateIsFile == NoFile \notin States
<1>1. Records \subseteq Entries
  BY DEF Records, Entries
<1> QED BY <1>1, EncodingAssumption DEF States, Fragments

(* A subsystem record is never the mark of a missing one.                  *)
LEMMA RecordIsThere ==
  ASSUME NEW l \in Lives, l.outcome = "failed" => l.attempted, NEW r \in SUBSET {"tags"}
  PROVE  [life |-> l, results |-> r] \in Records \ {Absent}
<1>1. l \in {k \in Lives : k.outcome = "failed" => k.attempted}
  OBVIOUS
<1>2. [life |-> l, results |-> r] \in [life : Lives, results : SUBSET {"tags"}]
  OBVIOUS
<1>3. [life |-> l, results |-> r] # Absent
  BY <1>2, EncodingAssumption
<1> QED BY <1>1, <1>3 DEF Records

(* A fresh clone is a workspace, with nothing recorded.                    *)
LEMMA EmptyTyped ==
  /\ NoSubsystems \in Fragments /\ ZeroState \in States
  /\ \A n : EmptyWorkspace \in Workspaces(n)
<1>1. NoSubsystems \in Fragments
  BY DEF NoSubsystems, Fragments, Records
<1> QED BY <1>1, EncodingAssumption DEF ZeroState, States, EmptyWorkspace, Workspaces

(* What readers of a workspace see is what they are told, but for facts.    *)
LEMMA VisibleTold ==
  ASSUME NEW n, ws \in Workspaces(n)
  PROVE  /\ Visible \in States
         /\ ws.file # NoFile => Visible.doc = ws.file.doc
         /\ \A s \in Subsystems :
              /\ Visible.subs[s] = Absent <=> Told(ws, s) = Absent
              /\ Told(ws, s) # Absent => Visible.subs[s].life = Told(ws, s).life
              /\ s # "publish" => Visible.subs[s] = Told(ws, s)
<1>1. CASE ws.file = NoFile
  <2>1. Visible = ZeroState
    BY <1>1 DEF Visible, ReadState
  <2>2. \A s \in Subsystems : Visible.subs[s] = Absent /\ Told(ws, s) = Absent
    BY <1>1, <2>1 DEF ZeroState, NoSubsystems, Told
  <2> QED BY <1>1, <2>1, <2>2, EmptyTyped
<1>2. CASE ws.file # NoFile
  <2> DEFINE f == ws.file.subs
             h == ws.shards
             v == overlaySubsystemShards(f, h)
  <2>1. f \in Fragments /\ h \in Fragments /\ ws.file.doc \in BOOLEAN
    BY <1>2 DEF Workspaces, States
  <2>2. Visible = [subs |-> v, doc |-> ws.file.doc]
    BY <1>2 DEF Visible, ReadState
  <2>3. ASSUME NEW s \in Subsystems
        PROVE  /\ v[s] \in Records
               /\ v[s] = Absent <=> Told(ws, s) = Absent
               /\ Told(ws, s) # Absent => v[s].life = Told(ws, s).life
               /\ s # "publish" => v[s] = Told(ws, s) /\ (v[s] # Absent => v[s].results = {})
    <3>1. v[s] = IF h[s] = Absent THEN f[s] ELSE upsertSubsystem(f[s], h[s])
      BY <2>3 DEF overlaySubsystemShards
    <3>2. Told(ws, s) = IF h[s] = Absent THEN f[s] ELSE h[s]
      BY <1>2 DEF Told
    <3>3. f[s] \in Records /\ h[s] \in Records
      BY <2>1 DEF Fragments
    <3>4. s # "publish" => (f[s] # Absent => f[s].results = {}) /\ (h[s] # Absent => h[s].results = {})
      BY <2>1 DEF Fragments
    <3>5. CASE h[s] = Absent
      BY <3>1, <3>2, <3>3, <3>4, <3>5
    <3>6. CASE h[s] # Absent
      <4>1. v[s] = upsertSubsystem(f[s], h[s]) /\ Told(ws, s) = h[s]
        BY <3>1, <3>2, <3>6
      <4>2. CASE f[s] # Absent /\ h[s].results = {}
        <5>1. v[s] = [life |-> h[s].life, results |-> f[s].results]
          BY <4>1, <4>2 DEF upsertSubsystem
        <5>2. v[s] \in Records \ {Absent} /\ v[s].life = h[s].life /\ v[s].results = f[s].results
          BY <3>3, <3>6, <4>2, <5>1, EncodingAssumption DEF Records
        <5>3. s # "publish" => v[s] = h[s]
          BY <3>3, <3>4, <3>6, <4>2, <5>1 DEF Records
        <5> QED BY <3>4, <3>6, <4>1, <4>2, <5>2, <5>3
      <4>3. CASE ~(f[s] # Absent /\ h[s].results = {})
        BY <3>3, <3>4, <3>6, <4>1, <4>3 DEF upsertSubsystem
      <4> QED BY <4>2, <4>3
    <3> QED BY <3>5, <3>6
  <2>4. v \in Fragments
    <3>1. v = [s \in Subsystems |-> v[s]]
      BY DEF overlaySubsystemShards
    <3> HIDE DEF v
    <3> QED BY <2>3, <3>1 DEF Fragments
  <2>5. Visible \in States
    BY <2>1, <2>2, <2>4 DEF States
  <2> HIDE DEF v
  <2> QED BY <2>2, <2>3, <2>5
<1> QED BY <1>1, <1>2

(* Recording under s changes that record and no other.                      *)
LEMMA WithIs ==
  ASSUME NEW state \in States, NEW s \in Subsystems, NEW l \in Lives, l.outcome = "failed" => l.attempted
  PROVE  LET after == With(state, s, l)
         IN  /\ after \in States /\ after.doc = state.doc
             /\ after.subs[s] # Absent /\ after.subs[s].life = l
             /\ \A k \in Subsystems \ {s} : after.subs[k] = state.subs[k]
<1> DEFINE after == With(state, s, l)
           e == upsertSubsystem(state.subs[s], [life |-> l, results |-> {}])
<1>1. state.subs \in Fragments /\ state.doc \in BOOLEAN
  BY DEF States
<1>2. after = [subs |-> [state.subs EXCEPT ![s] = e], doc |-> state.doc]
  BY DEF With
<1>3. state.subs[s] \in Records /\ (s # "publish" /\ state.subs[s] # Absent => state.subs[s].results = {})
  BY <1>1 DEF Fragments
<1>4. PICK r \in SUBSET {"tags"} : e = [life |-> l, results |-> r] /\ (s # "publish" => r = {})
  <2>1. CASE state.subs[s] # Absent
    BY <1>3, <2>1 DEF upsertSubsystem, Records
  <2>2. CASE state.subs[s] = Absent
    BY <2>2 DEF upsertSubsystem
  <2> QED BY <2>1, <2>2
<1>5. e \in Records /\ e # Absent /\ e.life = l /\ (s # "publish" => e.results = {})
  BY <1>4, RecordIsThere
<1> HIDE DEF e
<1>6. [state.subs EXCEPT ![s] = e] \in Fragments
  BY <1>1, <1>5 DEF Fragments
<1>7. [state.subs EXCEPT ![s] = e][s] = e
      /\ \A k \in Subsystems \ {s} : [state.subs EXCEPT ![s] = e][k] = state.subs[k]
  BY <1>1 DEF Fragments
<1>8. after \in States
  BY <1>1, <1>2, <1>6 DEF States
<1> HIDE DEF after
<1>9. after.subs = [state.subs EXCEPT ![s] = e] /\ after.doc = state.doc
  BY <1>2
<1>10. after.subs[s] = e /\ \A k \in Subsystems \ {s} : after.subs[k] = state.subs[k]
  BY <1>7, <1>9
<1>11. after.subs[s] # Absent /\ after.subs[s].life = l
  BY <1>5, <1>10
<1>12. /\ after \in States /\ after.doc = state.doc
       /\ after.subs[s] # Absent /\ after.subs[s].life = l
       /\ \A k \in Subsystems \ {s} : after.subs[k] = state.subs[k]
  BY <1>8, <1>9, <1>10, <1>11
<1> QED BY <1>12 DEF after

(* A fact of publish, likewise.                                             *)
LEMMA WithFactIs ==
  ASSUME NEW state \in States
  PROVE  LET after == WithFact(state, "publish", "tags")
         IN  /\ after \in States
             /\ \A k \in Subsystems \ {"publish"} : after.subs[k] = state.subs[k]
<1> DEFINE s == "publish"
           after == WithFact(state, s, "tags")
           e == IF state.subs[s] = Absent THEN [life |-> NotAttempted(""), results |-> {"tags"}]
                ELSE [life |-> state.subs[s].life, results |-> state.subs[s].results \cup {"tags"}]
<1>0. s \in Subsystems
  BY Names
<1>1. state.subs \in Fragments /\ state.doc \in BOOLEAN
  BY DEF States
<1>2. after = [subs |-> [state.subs EXCEPT ![s] = e], doc |-> state.doc]
  BY <1>0, <1>1 DEF WithFact, Fragments
<1>3. state.subs[s] \in Records
  BY <1>0, <1>1 DEF Fragments
<1>4. e \in Records
  <2>1. NotAttempted("") \in Lives /\ NotAttempted("").outcome # "failed"
    BY DEF NotAttempted, Lives
  <2>2. CASE state.subs[s] = Absent
    <3>1. [life |-> NotAttempted(""), results |-> {"tags"}] \in Records
      BY <2>1, RecordIsThere
    <3> QED BY <2>2, <3>1
  <2>3. CASE state.subs[s] # Absent
    BY <1>3, <2>3 DEF Records
  <2> QED BY <2>2, <2>3
<1> HIDE DEF e
<1>6. [state.subs EXCEPT ![s] = e] \in Fragments
  BY <1>1, <1>4 DEF Fragments
<1>7. \A k \in Subsystems \ {s} : [state.subs EXCEPT ![s] = e][k] = state.subs[k]
  BY <1>1 DEF Fragments
<1>8. after \in States
  BY <1>1, <1>2, <1>6 DEF States
<1> HIDE DEF after
<1>9. after.subs = [state.subs EXCEPT ![s] = e]
  BY <1>2
<1>10. \A k \in Subsystems \ {s} : after.subs[k] = state.subs[k]
  BY <1>7, <1>9
<1> QED BY <1>8, <1>10 DEF after

(* What a write of the ledger may do, wherever it stops.                    *)
LEMMA UpdateIs ==
  ASSUME NEW n, ws \in Workspaces(n), NEW state \in States, UpdateState(state)
  PROVE  /\ ws' \in Workspaces(n) /\ ws'.image = ws.image
         /\ ws' = ws \/ ws'.file = state
         /\ \A s \in Subsystems : ws'.shards[s] \in {ws.shards[s], state.subs[s]}
         /\ job \notin faults' =>
              ws'.file = state /\ \A s \in Subsystems : state.subs[s] # Absent => ws'.shards[s] = state.subs[s]
<1> DEFINE h(T) == [s \in Subsystems |-> IF s \in T THEN state.subs[s] ELSE ws.shards[s]]
<1>1. ws.shards \in Fragments /\ ws.image \in (1..n) \cup {None}
  BY DEF Workspaces
<1>2. state.subs \in Fragments
  BY DEF States
<1>3. ASSUME NEW T, ws' = Written(state, T)
      PROVE  /\ ws' \in Workspaces(n) /\ ws'.image = ws.image /\ ws'.file = state
             /\ \A s \in Subsystems : ws'.shards[s] = IF s \in T THEN state.subs[s] ELSE ws.shards[s]
  <2>1. ws' = [file |-> state, shards |-> h(T), image |-> ws.image]
    BY <1>3 DEF Written
  <2>2. \A s \in Subsystems : h(T)[s] = IF s \in T THEN state.subs[s] ELSE ws.shards[s]
    OBVIOUS
  <2>3. \A s \in Subsystems : h(T)[s] \in Records /\ (s # "publish" => (h(T)[s] # Absent => h(T)[s].results = {}))
    BY <1>1, <1>2, <2>2 DEF Fragments
  <2>4. h(T) = [s \in Subsystems |-> h(T)[s]]
    OBVIOUS
  <2> HIDE DEF h
  <2>5. h(T) \in Fragments
    BY <2>3, <2>4 DEF Fragments
  <2> QED BY <1>1, <2>1, <2>2, <2>5 DEF Workspaces
<1>4. CASE ws' = Written(state, shardsToWrite(state))
  BY <1>3, <1>4 DEF shardsToWrite
<1>5. CASE job \in faults' /\ ws' = ws
  BY <1>5
<1>6. ASSUME NEW T, job \in faults', ws' = Written(state, T)
      PROVE  /\ ws' \in Workspaces(n) /\ ws'.image = ws.image
             /\ ws'.file = state /\ \A s \in Subsystems : ws'.shards[s] \in {ws.shards[s], state.subs[s]}
  BY <1>3, <1>6
<1> QED BY <1>4, <1>5, <1>6 DEF UpdateState

(* There are finitely many jobs, so the failed writes can be counted.      *)
LEMMA JobsFinite == IsFiniteSet(Jobs)
<1>1. IsFiniteSet({"audition"})
  BY FS_Singleton
<1>2. IsFiniteSet({"audition"} \cup {"perform"})
  BY <1>1, FS_AddElement
<1>3. IsFiniteSet({"audition"} \cup {"perform"} \cup {"review"})
  BY <1>2, FS_AddElement
<1>4. IsFiniteSet({"audition"} \cup {"perform"} \cup {"review"} \cup {"publish"})
  BY <1>3, FS_AddElement
<1>5. IsFiniteSet({"audition"} \cup {"perform"} \cup {"review"} \cup {"publish"} \cup {"narrate"})
  BY <1>4, FS_AddElement
<1>6. Jobs = {"audition"} \cup {"perform"} \cup {"review"} \cup {"publish"} \cup {"narrate"}
  BY DEF Jobs
<1> QED BY <1>5, <1>6

(* The faults it may leave are bounded.                                     *)
LEMMA UpdateFaults ==
  ASSUME Typed, job # None, retries' = retries, NEW state, UpdateState(state)
  PROVE  faults \subseteq faults' /\ faults' \subseteq Jobs /\ Mishaps' <= MaxMishaps
<1>1. CASE faults' = faults
  BY <1>1 DEF Typed, Mishaps
<1>2. CASE job \notin faults /\ Mishaps < MaxMishaps /\ faults' = faults \cup {job}
  <2>1. IsFiniteSet(Jobs)
    BY JobsFinite
  <2>2. IsFiniteSet(faults)
    BY <2>1, FS_Subset DEF Typed
  <2>3. Cardinality(faults') = Cardinality(faults) + 1 /\ Cardinality(faults) \in Nat
    BY <1>2, <2>2, FS_AddElement, FS_CardinalityType
  <2>4. retries \in Nat /\ MaxMishaps \in Nat
    BY PipelineAssumption DEF Typed
  <2>5. Mishaps' <= MaxMishaps
    BY <1>2, <2>3, <2>4 DEF Mishaps
  <2>6. faults' \subseteq Jobs
    BY <1>2 DEF Typed
  <2> QED BY <1>2, <2>5, <2>6
<1> QED BY <1>1, <1>2 DEF UpdateState

(* So every reader is told the record written or the one before.            *)
LEMMA UpdateTold ==
  ASSUME NEW n, ws \in Workspaces(n), NEW state \in States, UpdateState(state),
         ws.file = NoFile => \A s \in Subsystems : ws.shards[s] = Absent
  PROVE  /\ \A s \in Subsystems : Told(ws', s) \in {Told(ws, s), state.subs[s]}
         /\ ws'.file = NoFile => ws.file = NoFile
         /\ ws'.file = NoFile => \A s \in Subsystems : ws'.shards[s] = Absent
         /\ \A S : Holds(ws, S) /\ (\A s \in Subsystems \ S : state.subs[s] = Absent) => Holds(ws', S)
         /\ job \notin faults' => \A s \in Subsystems : state.subs[s] # Absent => Told(ws', s) = state.subs[s]
<1>1. state # NoFile
  BY StateIsFile
<1>2. /\ ws' = ws \/ ws'.file = state
      /\ \A s \in Subsystems : ws'.shards[s] \in {ws.shards[s], state.subs[s]}
      /\ job \notin faults' =>
           ws'.file = state /\ \A s \in Subsystems : state.subs[s] # Absent => ws'.shards[s] = state.subs[s]
  BY UpdateIs
<1>3. \A s \in Subsystems : Told(ws', s) \in {Told(ws, s), state.subs[s]}
  BY <1>1, <1>2 DEF Told
<1>4. (ws'.file = NoFile => ws' = ws) /\ (ws'.file = NoFile => ws.file = NoFile)
  BY <1>1, <1>2
<1>5. ASSUME NEW S, Holds(ws, S), \A s \in Subsystems \ S : state.subs[s] = Absent
      PROVE  Holds(ws', S)
  <2>1. CASE ws' = ws
    BY <1>5, <2>1 DEF Holds
  <2>2. CASE ws'.file = state
    BY <1>1, <1>2, <1>5, <2>2 DEF Holds
  <2> QED BY <1>2, <2>1, <2>2
<1>6. job \notin faults' => \A s \in Subsystems : state.subs[s] # Absent => Told(ws', s) = state.subs[s]
  BY <1>1, <1>2 DEF Told
<1> QED BY <1>3, <1>4, <1>5, <1>6

-----------------------------------------------------------------------------
(* What a job starts on.  Of the artifacts it needs, some come last.        *)
LEMMA NeedsFew ==
  ASSUME NEW j \in Jobs
  PROVE  Needs[j] \subseteq {"audition"} \/ Needs[j] \subseteq {"perform", "review", "publish"}
BY DEF Needs, Jobs

(* The last file among some tarballs' is a file of one of them.            *)
LEMMA LastIsOne ==
  ASSUME NEW j \in Jobs, NEW o \in Orders(Producers(j)), NEW Q \in SUBSET Producers(j), Q # {}
  PROVE  Last(o, Q) \in Q
<1> DEFINE P == Producers(j)
<1>1. P \subseteq {"audition"} \/ P \subseteq {"perform", "review", "publish"}
  BY NeedsFew DEF Producers
<1>2. IsFiniteSet(P)
  BY JobsFinite, FS_Subset, <1>1 DEF Jobs
<1>3. Cardinality(P) \in Nat
  BY <1>2, FS_CardinalityType
<1> HIDE DEF P
<1>4. \A n \in P : o[n] \in Int
  BY <1>3 DEF Orders, P
<1>5. \E n \in Q : \A m \in Q : o[m] <= o[n]
  <2>1. CASE P \subseteq {"audition"}
    <3>1. Q = {"audition"} /\ o["audition"] \in Int
      BY <1>4, <2>1 DEF P
    <3> QED BY <3>1
  <2>2. CASE P \subseteq {"perform", "review", "publish"}
    <3>1. Q \subseteq {"perform", "review", "publish"} /\ \A n \in Q : o[n] \in Int
      BY <1>4, <2>2 DEF P
    <3> DEFINE a == "perform"
               b == "review"
               c == "publish"
    <3>2. CASE a \in Q /\ (b \in Q => o[b] <= o[a]) /\ (c \in Q => o[c] <= o[a])
      BY <3>1, <3>2
    <3>3. CASE b \in Q /\ (a \in Q => o[a] <= o[b]) /\ (c \in Q => o[c] <= o[b])
      BY <3>1, <3>3
    <3>4. CASE c \in Q /\ (a \in Q => o[a] <= o[c]) /\ (b \in Q => o[b] <= o[c])
      BY <3>1, <3>4
    <3>5. /\ a \in Q \/ b \in Q \/ c \in Q
          /\ (a \in Q => o[a] \in Int) /\ (b \in Q => o[b] \in Int) /\ (c \in Q => o[c] \in Int)
      BY <3>1
    <3> HIDE DEF a, b, c
    <3> QED BY <3>2, <3>3, <3>4, <3>5
  <2> QED BY <1>1, <2>1, <2>2
<1> QED BY <1>5 DEF Last

(* Any file found in the workspace is one of an artifact, and there is one  *)
(* if an artifact has it.                                                   *)
LEMMA UnpackedIs ==
  ASSUME NEW j \in Jobs, NEW o \in Orders(Producers(j))
  PROVE  LET w == Unpacked(Producers(j), o)
         IN  /\ w.file # NoFile => \E m \in Producers(j) : w.file = Landed(m).file
             /\ \A m \in Producers(j) : Landed(m).file # NoFile => w.file # NoFile
             /\ w.image # None => \E m \in Producers(j) : w.image = Landed(m).image
             /\ \A m \in Producers(j) : Landed(m).image # None => w.image # None
             /\ \A s \in Subsystems :
                  /\ w.shards[s] # Absent => \E m \in Producers(j) : w.shards[s] = Landed(m).shards[s]
                  /\ \A m \in Producers(j) : Landed(m).shards[s] # Absent => w.shards[s] # Absent
             /\ w = [file |-> w.file, shards |-> w.shards, image |-> w.image]
             /\ w.shards = [s \in Subsystems |-> w.shards[s]]
<1> DEFINE P == Producers(j)
           F == {n \in P : Landed(n).file # NoFile}
           G == {n \in P : Landed(n).image # None}
           H(s) == {n \in P : Landed(n).shards[s] # Absent}
           f == IF F = {} THEN NoFile ELSE Landed(Last(o, F)).file
           g == IF G = {} THEN None ELSE Landed(Last(o, G)).image
           h == [s \in Subsystems |-> IF H(s) = {} THEN Absent ELSE Landed(Last(o, H(s))).shards[s]]
           w == Unpacked(P, o)
<1>1. w = [file |-> f, shards |-> h, image |-> g]
  BY DEF Unpacked
<1>2. \A Q \in SUBSET P : Q # {} => Last(o, Q) \in Q
  BY LastIsOne
<1>3. /\ f # NoFile => \E m \in P : f = Landed(m).file
      /\ \A m \in P : Landed(m).file # NoFile => f # NoFile
  <2>1. F \in SUBSET P
    OBVIOUS
  <2> QED BY <1>2, <2>1
<1>4. /\ g # None => \E m \in P : g = Landed(m).image
      /\ \A m \in P : Landed(m).image # None => g # None
  <2>1. G \in SUBSET P
    OBVIOUS
  <2> QED BY <1>2, <2>1
<1>5. ASSUME NEW s \in Subsystems
      PROVE  /\ h[s] # Absent => \E m \in P : h[s] = Landed(m).shards[s]
             /\ \A m \in P : Landed(m).shards[s] # Absent => h[s] # Absent
  <2>1. H(s) \in SUBSET P
    OBVIOUS
  <2>2. h[s] = IF H(s) = {} THEN Absent ELSE Landed(Last(o, H(s))).shards[s]
    OBVIOUS
  <2>3. H(s) # {} => Last(o, H(s)) \in H(s)
    BY <1>2, <2>1
  <2> HIDE DEF h
  <2> QED BY <2>2, <2>3
<1>6. h = [s \in Subsystems |-> h[s]]
  OBVIOUS
<1> HIDE DEF f, g, h, P
<1>7. w.file = f /\ w.shards = h /\ w.image = g
  BY <1>1
<1>8. w = [file |-> w.file, shards |-> w.shards, image |-> w.image]
  BY <1>1, <1>7
<1> HIDE DEF w
<1>9. /\ w.file # NoFile => \E m \in P : w.file = Landed(m).file
      /\ \A m \in P : Landed(m).file # NoFile => w.file # NoFile
      /\ w.image # None => \E m \in P : w.image = Landed(m).image
      /\ \A m \in P : Landed(m).image # None => w.image # None
      /\ \A s \in Subsystems :
           /\ w.shards[s] # Absent => \E m \in P : w.shards[s] = Landed(m).shards[s]
           /\ \A m \in P : Landed(m).shards[s] # Absent => w.shards[s] # Absent
      /\ w = [file |-> w.file, shards |-> w.shards, image |-> w.image]
      /\ w.shards = [s \in Subsystems |-> w.shards[s]]
  BY <1>3, <1>4, <1>5, <1>6, <1>7, <1>8
<1> QED BY <1>9, Zenon DEF w, P

(* What a job left that is not there any more adds nothing, and neither do  *)
(* the fragments of publish under the Actions family.                       *)
LEMMA FetchedIs ==
  ASSUME NEW j \in Jobs, NEW w \in Downloads(j)
  PROVE  /\ w.file # NoFile => \E m \in Needs[j] : w.file = Left(m).file
         /\ \A m \in Needs[j] \ {"publish"} : Left(m).file # NoFile => w.file # NoFile
         /\ w.image # None => \E m \in Needs[j] : w.image = Left(m).image
         /\ \A m \in Needs[j] \ {"publish"} : Left(m).image # None => w.image # None
         /\ \A s \in Subsystems :
              /\ w.shards[s] # Absent => \E m \in Needs[j] : w.shards[s] = Left(m).shards[s]
              /\ \A m \in Needs[j] : m # "publish" \/ Forge = "gitlab" =>
                   (Left(m).shards[s] # Absent => w.shards[s] # Absent)
         /\ w = [file |-> w.file, shards |-> w.shards, image |-> w.image]
         /\ w.shards = [s \in Subsystems |-> w.shards[s]]
<1> DEFINE P == Producers(j)
<1>1. PICK o \in Orders(P) : w = Unpacked(P, o)
  BY DEF Downloads
<1>2. /\ w.file # NoFile => \E m \in P : w.file = Landed(m).file
      /\ \A m \in P : Landed(m).file # NoFile => w.file # NoFile
      /\ w.image # None => \E m \in P : w.image = Landed(m).image
      /\ \A m \in P : Landed(m).image # None => w.image # None
      /\ \A s \in Subsystems :
           /\ w.shards[s] # Absent => \E m \in P : w.shards[s] = Landed(m).shards[s]
           /\ \A m \in P : Landed(m).shards[s] # Absent => w.shards[s] # Absent
      /\ w = [file |-> w.file, shards |-> w.shards, image |-> w.image]
      /\ w.shards = [s \in Subsystems |-> w.shards[s]]
  BY <1>1, UnpackedIs, Zenon
<1>3. /\ EmptyWorkspace.file = NoFile /\ EmptyWorkspace.image = None
      /\ \A s \in Subsystems : EmptyWorkspace.shards[s] = Absent
  BY DEF EmptyWorkspace, NoSubsystems
<1>4. \A m \in P : m \in Needs[j] /\ Landed(m) \in {Left(m), EmptyWorkspace}
  BY DEF Producers, Landed, Left
<1>5. \A m \in Needs[j] : m # "publish" \/ Forge = "gitlab" =>
        \/ m \in P /\ Landed(m) = Left(m)
        \/ Left(m) = EmptyWorkspace
  BY DEF Producers, Landed, Left
<1> HIDE DEF P
<1>6. /\ w.file # NoFile => \E m \in Needs[j] : w.file = Left(m).file
      /\ \A m \in Needs[j] \ {"publish"} : Left(m).file # NoFile => w.file # NoFile
  BY <1>2, <1>3, <1>4, <1>5
<1>7. /\ w.image # None => \E m \in Needs[j] : w.image = Left(m).image
      /\ \A m \in Needs[j] \ {"publish"} : Left(m).image # None => w.image # None
  BY <1>2, <1>3, <1>4, <1>5
<1>8. ASSUME NEW s \in Subsystems
      PROVE  /\ w.shards[s] # Absent => \E m \in Needs[j] : w.shards[s] = Left(m).shards[s]
             /\ \A m \in Needs[j] : m # "publish" \/ Forge = "gitlab" =>
                  (Left(m).shards[s] # Absent => w.shards[s] # Absent)
  <2>1. /\ w.shards[s] # Absent => \E m \in P : w.shards[s] = Landed(m).shards[s]
        /\ \A m \in P : Landed(m).shards[s] # Absent => w.shards[s] # Absent
    BY <1>2
  <2>2. EmptyWorkspace.shards[s] = Absent
    BY <1>3
  <2> QED BY <1>4, <1>5, <2>1, <2>2
<1> QED BY <1>2, <1>6, <1>7, <1>8, Zenon

(* What a job left to the later ones is a workspace.                       *)
LEMMA LeftTyped ==
  ASSUME Typed, NEW j \in Jobs
  PROVE  Left(j) \in Workspaces(built)
BY EmptyTyped DEF Typed, Left

(* So is what a job starts with, whatever the download order.              *)
LEMMA FetchedTyped ==
  ASSUME Typed, NEW j \in Jobs, NEW w \in Downloads(j)
  PROVE  w \in Workspaces(built)
<1>1. \A m \in Needs[j] : Left(m) \in Workspaces(built)
  BY LeftTyped DEF Needs, Jobs
<1>2. \A m \in Needs[j] : /\ Left(m).file \in States \cup {NoFile} /\ Left(m).shards \in Fragments
                          /\ Left(m).image \in (1..built) \cup {None}
  BY <1>1 DEF Workspaces
<1>3. w.file \in States \cup {NoFile} /\ w.image \in (1..built) \cup {None}
  <2>1. w.file # NoFile => \E m \in Needs[j] : w.file = Left(m).file
    BY FetchedIs
  <2>2. w.image # None => \E m \in Needs[j] : w.image = Left(m).image
    BY FetchedIs
  <2> QED BY <1>2, <2>1, <2>2
<1>4. w.shards \in Fragments
  <2>1. ASSUME NEW s \in Subsystems
        PROVE  w.shards[s] \in Records /\ (s # "publish" => (w.shards[s] # Absent => w.shards[s].results = {}))
    <3>1. CASE w.shards[s] = Absent
      BY <3>1 DEF Records
    <3>2. CASE w.shards[s] # Absent
      <4>1. PICK m \in Needs[j] : w.shards[s] = Left(m).shards[s]
        BY <3>2, FetchedIs
      <4> QED BY <1>2, <4>1 DEF Fragments
    <3> QED BY <3>1, <3>2
  <2>2. w.shards = [s \in Subsystems |-> w.shards[s]]
    BY FetchedIs
  <2> QED BY <2>1, <2>2 DEF Fragments
<1>5. w = [file |-> w.file, shards |-> w.shards, image |-> w.image]
  BY FetchedIs
<1> QED BY <1>3, <1>4, <1>5 DEF Workspaces

(* The artifacts agree on what they share.                                  *)
LEMMA LeftAgree ==
  ASSUME Typed, Uploaded, NEW s \in Subsystems,
         NEW m \in {"perform", "review", "publish"}, NEW n \in {"perform", "review", "publish"},
         Left(m).shards[s] # Absent, Left(n).shards[s] # Absent
  PROVE  Left(m).shards[s] = Left(n).shards[s]
<1> DEFINE p == Left("perform")
           r == Left("review")
           q == Left("publish")
<1>1. CASE s \in ByPerform
  <2>1. p.shards[s] # Absent => p.shards[s] = Told(p, s)
    BY DEF Uploaded, PerformLeft, Holds, Told
  <2>2. r.shards[s] \in {Absent, Told(p, s)} /\ q.shards[s] \in {Absent, Told(p, s)}
    BY <1>1 DEF Uploaded, ReviewLeft, PublishLeft
  <2> HIDE DEF p, r, q
  <2> QED BY <2>1, <2>2 DEF p, r, q
<1>2. CASE s \in ByReview
  <2>1. p.shards[s] = Absent /\ q.shards[s] \in {Absent, r.shards[s]}
    BY <1>2 DEF Uploaded, PerformLeft, PublishLeft, Holds, ByPerform, ByReview
  <2> QED BY <2>1
<1>3. CASE s \notin ByPerform \cup ByReview
  <2>1. p.shards[s] = Absent /\ r.shards[s] = Absent
    BY <1>3 DEF Uploaded, PerformLeft, ReviewLeft, Holds
  <2> QED BY <2>1
<1> QED BY <1>1, <1>2, <1>3

(* What each job finds, then.                                               *)
LEMMA FetchedByPerform ==
  ASSUME NEW w \in Downloads("perform")
  PROVE  /\ w.file = Left("audition").file /\ w.image = Left("audition").image
         /\ \A s \in Subsystems : w.shards[s] = Left("audition").shards[s]
<1> DEFINE j == "perform"
           a == "audition"
<1>1. Needs[j] = {a} /\ j \in Jobs /\ a # "publish"
  BY DEF Needs, Jobs
<1>2. w \in Downloads(j)
  OBVIOUS
<1> HIDE DEF j
<1>3. /\ w.file # NoFile => \E m \in Needs[j] : w.file = Left(m).file
      /\ \A m \in Needs[j] \ {"publish"} : Left(m).file # NoFile => w.file # NoFile
  BY <1>1, <1>2, FetchedIs
<1>4. /\ w.image # None => \E m \in Needs[j] : w.image = Left(m).image
      /\ \A m \in Needs[j] \ {"publish"} : Left(m).image # None => w.image # None
  BY <1>1, <1>2, FetchedIs
<1>5. \A s \in Subsystems :
        /\ w.shards[s] # Absent => \E m \in Needs[j] : w.shards[s] = Left(m).shards[s]
        /\ \A m \in Needs[j] : m # "publish" \/ Forge = "gitlab" =>
             (Left(m).shards[s] # Absent => w.shards[s] # Absent)
  BY <1>1, <1>2, FetchedIs
<1> QED BY <1>1, <1>3, <1>4, <1>5

(* review starts with perform's ledger and image.                          *)
LEMMA FetchedByReview ==
  ASSUME NEW w \in Downloads("review")
  PROVE  /\ w.file = Left("perform").file /\ w.image = Left("perform").image
         /\ \A s \in Subsystems : w.shards[s] = Left("perform").shards[s]
<1> DEFINE j == "review"
           a == "perform"
<1>1. Needs[j] = {a} /\ j \in Jobs /\ a # "publish"
  BY DEF Needs, Jobs
<1>2. w \in Downloads(j)
  OBVIOUS
<1> HIDE DEF j
<1>3. /\ w.file # NoFile => \E m \in Needs[j] : w.file = Left(m).file
      /\ \A m \in Needs[j] \ {"publish"} : Left(m).file # NoFile => w.file # NoFile
  BY <1>1, <1>2, FetchedIs
<1>4. /\ w.image # None => \E m \in Needs[j] : w.image = Left(m).image
      /\ \A m \in Needs[j] \ {"publish"} : Left(m).image # None => w.image # None
  BY <1>1, <1>2, FetchedIs
<1>5. \A s \in Subsystems :
        /\ w.shards[s] # Absent => \E m \in Needs[j] : w.shards[s] = Left(m).shards[s]
        /\ \A m \in Needs[j] : m # "publish" \/ Forge = "gitlab" =>
             (Left(m).shards[s] # Absent => w.shards[s] # Absent)
  BY <1>1, <1>2, FetchedIs
<1> QED BY <1>1, <1>3, <1>4, <1>5

(* publish and narrate start with perform's ledger and review's records;   *)
(* narrate also with publish's, unless the forge lost them.                *)
LEMMA FetchedLater ==
  ASSUME Typed, Uploaded, NEW j \in {"publish", "narrate"}, NEW w \in Downloads(j)
  PROVE  /\ w.file = Left("perform").file /\ w.image = Left("perform").image
         /\ \A s \in Subsystems, m \in Needs[j] :
              (m # "publish" \/ Forge = "gitlab") /\ Left(m).shards[s] # Absent =>
                w.shards[s] = Left(m).shards[s]
         /\ \A s \in Subsystems : w.shards[s] # Absent => \E m \in Needs[j] : w.shards[s] = Left(m).shards[s]
<1>1. /\ {"perform", "review"} \subseteq Needs[j] /\ Needs[j] \subseteq {"perform", "review", "publish"}
      /\ j \in Jobs
  BY DEF Needs, Jobs
<1>2. \A m \in Needs[j] \ {"perform"} : Left(m).file = NoFile /\ Left(m).image = None
  BY <1>1 DEF Uploaded, ReviewLeft, PublishLeft
<1>3. w.file = Left("perform").file
  <2>1. /\ w.file # NoFile => \E m \in Needs[j] : w.file = Left(m).file
        /\ \A m \in Needs[j] \ {"publish"} : Left(m).file # NoFile => w.file # NoFile
    BY <1>1, FetchedIs
  <2> QED BY <1>1, <1>2, <2>1
<1>4. w.image = Left("perform").image
  <2>1. /\ w.image # None => \E m \in Needs[j] : w.image = Left(m).image
        /\ \A m \in Needs[j] \ {"publish"} : Left(m).image # None => w.image # None
    BY <1>1, FetchedIs
  <2> QED BY <1>1, <1>2, <2>1
<1>5. ASSUME NEW s \in Subsystems, NEW m \in Needs[j],
             m # "publish" \/ Forge = "gitlab", Left(m).shards[s] # Absent
      PROVE  w.shards[s] = Left(m).shards[s]
  <2>1. w.shards[s] # Absent
    BY <1>1, <1>5, FetchedIs
  <2>2. PICK n \in Needs[j] : w.shards[s] = Left(n).shards[s]
    BY <1>1, <2>1, FetchedIs
  <2> QED BY <1>1, <1>5, <2>1, <2>2, LeftAgree
<1>6. \A s \in Subsystems : w.shards[s] # Absent => \E m \in Needs[j] : w.shards[s] = Left(m).shards[s]
  BY <1>1, FetchedIs
<1> QED BY <1>3, <1>4, <1>5, <1>6

(* Whatever the order they are unpacked in, the artifacts make one          *)
(* workspace.                                                               *)
LEMMA OrdersExist ==
  ASSUME NEW P, IsFiniteSet(P)
  PROVE  Orders(P) # {}
<1>1. ExistsBijection(P, 1..Cardinality(P))
  BY FS_CardinalityType, Fun_ExistsBijSymmetric
<1>2. PICK o \in Bijection(P, 1..Cardinality(P)) : TRUE
  BY <1>1 DEF ExistsBijection
<1>3. o \in [P -> 1..Cardinality(P)] /\ \A m, n \in P : o[m] = o[n] => m = n
  BY <1>2 DEF Bijection, Injection, IsInjective
<1> QED BY <1>3 DEF Orders

(* Every download order gives a job the same ledger: the later tarballs    *)
(* only add records that the earlier ones do not contradict.               *)
LEMMA OneDownload ==
  ASSUME Typed, Uploaded, NEW j \in Jobs
  PROVE  Cardinality(Downloads(j)) = 1
<1> DEFINE P == Producers(j)
<1>1. \A m \in P : m \in Needs[j] /\ Landed(m) \in {Left(m), EmptyWorkspace}
  BY DEF Producers, Landed, Left
<1>2. P \subseteq {"audition"} \/ P \subseteq {"perform", "review", "publish"}
  BY NeedsFew DEF Producers
<1>3. /\ EmptyWorkspace.file = NoFile /\ EmptyWorkspace.image = None
      /\ \A s \in Subsystems : EmptyWorkspace.shards[s] = Absent
  BY DEF EmptyWorkspace, NoSubsystems
<1>4. IsFiniteSet(P)
  BY JobsFinite, FS_Subset, <1>2 DEF Jobs
<1> HIDE DEF P
<1>5. \A m, n \in P : Landed(m).file # NoFile /\ Landed(n).file # NoFile => Landed(m).file = Landed(n).file
  <2>1. CASE P \subseteq {"audition"}
    BY <2>1
  <2>2. CASE P \subseteq {"perform", "review", "publish"}
    <3>1. Left("review").file = NoFile /\ Left("publish").file = NoFile
      BY DEF Uploaded, ReviewLeft, PublishLeft
    <3>2. \A m \in P : Landed(m).file # NoFile => m = "perform"
      BY <1>1, <1>3, <2>2, <3>1
    <3> QED BY <3>2
  <2> QED BY <1>2, <2>1, <2>2
<1>6. \A m, n \in P : Landed(m).image # None /\ Landed(n).image # None => Landed(m).image = Landed(n).image
  <2>1. CASE P \subseteq {"audition"}
    BY <2>1
  <2>2. CASE P \subseteq {"perform", "review", "publish"}
    <3>1. Left("review").image = None /\ Left("publish").image = None
      BY DEF Uploaded, ReviewLeft, PublishLeft
    <3>2. \A m \in P : Landed(m).image # None => m = "perform"
      BY <1>1, <1>3, <2>2, <3>1
    <3> QED BY <3>2
  <2> QED BY <1>2, <2>1, <2>2
<1>7. \A s \in Subsystems : \A m, n \in P :
        Landed(m).shards[s] # Absent /\ Landed(n).shards[s] # Absent => Landed(m).shards[s] = Landed(n).shards[s]
  <2>1. CASE P \subseteq {"audition"}
    BY <2>1
  <2>2. CASE P \subseteq {"perform", "review", "publish"}
    <3>1. \A s \in Subsystems : \A m, n \in {"perform", "review", "publish"} :
            Left(m).shards[s] # Absent /\ Left(n).shards[s] # Absent => Left(m).shards[s] = Left(n).shards[s]
      BY LeftAgree
    <3>2. \A s \in Subsystems : \A m \in P : Landed(m).shards[s] # Absent => Landed(m).shards[s] = Left(m).shards[s]
      BY <1>1, <1>3
    <3> QED BY <2>2, <3>1, <3>2
  <2> QED BY <1>2, <2>1, <2>2
<1>8. ASSUME NEW o1 \in Orders(P), NEW o2 \in Orders(P)
      PROVE  Unpacked(P, o1) = Unpacked(P, o2)
  <2> DEFINE v == Unpacked(P, o1)
             w == Unpacked(P, o2)
  <2>1. /\ v.file # NoFile => \E m \in P : v.file = Landed(m).file
        /\ \A m \in P : Landed(m).file # NoFile => v.file # NoFile
        /\ v.image # None => \E m \in P : v.image = Landed(m).image
        /\ \A m \in P : Landed(m).image # None => v.image # None
        /\ \A s \in Subsystems :
             /\ v.shards[s] # Absent => \E m \in P : v.shards[s] = Landed(m).shards[s]
             /\ \A m \in P : Landed(m).shards[s] # Absent => v.shards[s] # Absent
        /\ v = [file |-> v.file, shards |-> v.shards, image |-> v.image]
        /\ v.shards = [s \in Subsystems |-> v.shards[s]]
    BY UnpackedIs, Zenon DEF P
  <2>2. /\ w.file # NoFile => \E m \in P : w.file = Landed(m).file
        /\ \A m \in P : Landed(m).file # NoFile => w.file # NoFile
        /\ w.image # None => \E m \in P : w.image = Landed(m).image
        /\ \A m \in P : Landed(m).image # None => w.image # None
        /\ \A s \in Subsystems :
             /\ w.shards[s] # Absent => \E m \in P : w.shards[s] = Landed(m).shards[s]
             /\ \A m \in P : Landed(m).shards[s] # Absent => w.shards[s] # Absent
        /\ w = [file |-> w.file, shards |-> w.shards, image |-> w.image]
        /\ w.shards = [s \in Subsystems |-> w.shards[s]]
    BY UnpackedIs, Zenon DEF P
  <2> HIDE DEF v, w
  <2>3. v.file = w.file
    BY <1>5, <2>1, <2>2
  <2>4. v.image = w.image
    BY <1>6, <2>1, <2>2
  <2>5. ASSUME NEW s \in Subsystems
        PROVE  v.shards[s] = w.shards[s]
    <3>1. /\ v.shards[s] # Absent => \E m \in P : v.shards[s] = Landed(m).shards[s]
          /\ \A m \in P : Landed(m).shards[s] # Absent => v.shards[s] # Absent
      BY <2>1
    <3>2. /\ w.shards[s] # Absent => \E m \in P : w.shards[s] = Landed(m).shards[s]
          /\ \A m \in P : Landed(m).shards[s] # Absent => w.shards[s] # Absent
      BY <2>2
    <3>3. \A m, n \in P : Landed(m).shards[s] # Absent /\ Landed(n).shards[s] # Absent
                           => Landed(m).shards[s] = Landed(n).shards[s]
      BY <1>7
    <3> QED BY <3>1, <3>2, <3>3
  <2>6. v.shards = w.shards
    BY <2>1, <2>2, <2>5
  <2> QED BY <2>1, <2>2, <2>3, <2>4, <2>6 DEF v, w
<1>9. PICK o \in Orders(P) : TRUE
  BY <1>4, OrdersExist
<1>10. Downloads(j) = {Unpacked(P, o)}
  BY <1>8, <1>9 DEF Downloads, P
<1> QED BY <1>10, FS_Singleton

-----------------------------------------------------------------------------

(* The invariant holds when the pipeline is created.                       *)
LEMMA LedgerInit == Init => LedgerInv
<1> SUFFICES ASSUME Init PROVE LedgerInv
  OBVIOUS
<1>1. cfg.mode \in {"image", "reconcile"}
  BY PipelineAssumption DEF Init, Configs
<1>2. Mishaps = 0 /\ MaxMishaps \in Nat
  BY FS_EmptySet, PipelineAssumption DEF Init, Mishaps
<1>3. Typed
  <2>1. 0 <= MaxMishaps
    BY <1>2
  <2> QED BY <1>1, <1>2, <2>1, EmptyTyped, Names DEF Init, Typed
<1>4. \A j \in Jobs : Left(j) = EmptyWorkspace
  BY DEF Init, Left
<1>5. /\ EmptyWorkspace.file = NoFile /\ EmptyWorkspace.image = None
      /\ \A s \in Subsystems : EmptyWorkspace.shards[s] = Absent
      /\ \A s \in Subsystems : Told(EmptyWorkspace, s) = Absent
  BY DEF EmptyWorkspace, NoSubsystems, Told
<1>6. Uploaded
  <2>1. \A S : Holds(EmptyWorkspace, S)
    BY <1>5 DEF Holds
  <2>2. ImageTrue(EmptyWorkspace)
    BY <1>5 DEF ImageTrue
  <2>3. {"audition", "perform", "review", "publish"} \subseteq Jobs
    BY DEF Jobs
  <2>4. {"build", "security"} \subseteq Subsystems
    BY Names
  <2> QED BY <1>4, <1>5, <2>1, <2>2, <2>3, <2>4, Names
     DEF Uploaded, AuditionLeft, PerformLeft, ReviewLeft, PublishLeft, Succeeds
<1>7. InOrder
  BY DEF Init, InOrder, Jobs
<1>8. Running
  BY Names DEF Init, Running, AuditionRuns, PerformRuns, ReviewRuns, PublishRuns, NarrateRuns, Jobs
<1>9. Kept
  <2>1. narration # "passing"
    BY EncodingAssumption DEF Init
  <2> QED BY <2>1 DEF Init, Kept, UnscannedNeverShips, NarrateHonest, FailuresNarrated
<1> QED BY <1>3, <1>6, <1>7, <1>8, <1>9 DEF LedgerInv

-----------------------------------------------------------------------------
(* A step of the running job, which leaves the forge's own state alone.     *)
Steps == /\ job # None /\ UNCHANGED forge
         /\ built' \in Nat /\ built <= built'
         /\ ws' \in Workspaces(built')
         /\ faults \subseteq faults' /\ faults' \subseteq Jobs /\ Mishaps' <= MaxMishaps

(* A workspace stays one when more images exist.                           *)
LEMMA WorkspacesGrow ==
  ASSUME NEW m \in Nat, NEW n \in Nat, m <= n
  PROVE  Workspaces(m) \subseteq Workspaces(n)
<1>1. 1..m \subseteq 1..n
  OBVIOUS
<1> QED BY <1>1 DEF Workspaces

(* It keeps the types, if what it decides has one.                          *)
LEMMA StepTyped ==
  ASSUME Typed, Steps, verdict' \in Contracts \cup {None},
         scanned' \subseteq 1..built', shipped' \subseteq 1..built',
         narration' \in {"unknown", "passing", "warning", "failing", None}
  PROVE  Typed'
<1>1. UNCHANGED <<cfg, status, art, job, cancelled, retries>>
  BY DEF Steps, forge
<1>2. ASSUME NEW j \in Jobs, art[j] # None
      PROVE  art[j] \in Workspaces(built')
  <2>1. art[j] \in Workspaces(built) /\ built \in Nat /\ built' \in Nat /\ built <= built'
    BY <1>2 DEF Typed, Steps
  <2> QED BY <2>1, WorkspacesGrow
<1> QED BY <1>1, <1>2 DEF Typed, Steps

(* Nothing that finished jobs left changes, and images only become scanned. *)
LEMMA StepUploaded ==
  ASSUME Typed, Uploaded, Steps, scanned \subseteq scanned'
  PROVE  Uploaded' /\ \A j \in Jobs : Left(j)' = Left(j)
<1>1. UNCHANGED <<cfg, status, art>>
  BY DEF Steps, forge
<1>2. \A j \in Jobs : Left(j)' = Left(j)
  BY <1>1 DEF Left
<1>3. {"audition", "perform", "review", "publish"} \subseteq Jobs
  BY DEF Jobs
<1>4. AuditionLeft'
  BY <1>2, <1>3 DEF AuditionLeft, Uploaded
<1>5. PerformLeft'
  BY <1>1, <1>2, <1>3 DEF PerformLeft, Uploaded, ImageTrue
<1>6. ReviewLeft'
  BY <1>1, <1>2, <1>3 DEF ReviewLeft, Uploaded, Accounted
<1>7. PublishLeft'
  BY <1>2, <1>3 DEF PublishLeft, Uploaded
<1> QED BY <1>2, <1>4, <1>5, <1>6, <1>7 DEF Uploaded

(* A step of a running job keeps the order of the jobs.                    *)
LEMMA StepInOrder ==
  ASSUME Typed, InOrder, Steps, narration' = narration \/ job = "narrate"
  PROVE  InOrder'
<1>1. UNCHANGED <<status, art, job>>
  BY DEF Steps, forge
<1>2. job = "narrate" => status["narrate"] = "running"
  BY Names DEF Typed, Jobs
<1> QED BY <1>1, <1>2 DEF InOrder, Done

(* A step of a job that ships, announces and scans nothing keeps what has  *)
(* been kept.                                                              *)
LEMMA StepKept ==
  ASSUME Typed, Kept, Steps, narration' = narration,
         scanned \subseteq scanned',
         cfg.scan => shipped' \subseteq shipped \cup scanned
  PROVE  Kept'
<1>1. UNCHANGED <<cfg, status, art, job>>
  BY DEF Steps, forge
<1>2. UnscannedNeverShips'
  BY <1>1 DEF Kept, UnscannedNeverShips
<1>3. NarrateHonest'
  BY <1>1 DEF Kept, NarrateHonest, Steps
<1>4. Forge = "gitlab" => FailuresNarrated'
  BY <1>1 DEF Kept, FailuresNarrated, Tells
<1> QED BY <1>2, <1>3, <1>4 DEF Kept

(* The other jobs do not run.                                               *)
LEMMA AuditionAlone == ASSUME Steps, job = "audition", AuditionRuns' PROVE Running'
BY DEF Steps, forge, Running, PerformRuns, ReviewRuns, PublishRuns, NarrateRuns

(* While perform takes a step, the other jobs' claims say nothing.         *)
LEMMA PerformAlone == ASSUME Steps, job = "perform", PerformRuns' PROVE Running'
BY DEF Steps, forge, Running, AuditionRuns, ReviewRuns, PublishRuns, NarrateRuns

(* The same for review.                                                    *)
LEMMA ReviewAlone == ASSUME Steps, job = "review", ReviewRuns' PROVE Running'
BY DEF Steps, forge, Running, AuditionRuns, PerformRuns, PublishRuns, NarrateRuns

(* The same for publish.                                                   *)
LEMMA PublishAlone == ASSUME Steps, job = "publish", PublishRuns' PROVE Running'
BY DEF Steps, forge, Running, AuditionRuns, PerformRuns, ReviewRuns, NarrateRuns

(* The same for narrate.                                                   *)
LEMMA NarrateAlone == ASSUME Steps, job = "narrate", NarrateRuns' PROVE Running'
BY DEF Steps, forge, Running, AuditionRuns, PerformRuns, ReviewRuns, PublishRuns

(* A write of the ledger is such a step.                                    *)
LEMMA UpdateSteps ==
  ASSUME Typed, job # None, UNCHANGED <<forge, built>>, NEW state \in States, UpdateState(state)
  PROVE  Steps
<1>1. retries' = retries /\ built' = built /\ built \in Nat
  BY DEF forge, Typed
<1>2. faults \subseteq faults' /\ faults' \subseteq Jobs /\ Mishaps' <= MaxMishaps
  BY <1>1, UpdateFaults
<1>3. ws' \in Workspaces(built)
  BY UpdateIs DEF Typed
<1> QED BY <1>1, <1>2, <1>3 DEF Steps

(* A step that only moves on changes no record.                            *)
LEMMA IdleSteps ==
  ASSUME Typed, job # None, UNCHANGED <<forge, built, ws, faults>>
  PROVE  Steps
<1>1. Mishaps' = Mishaps
  BY DEF Mishaps, forge
<1> QED BY <1>1 DEF Steps, forge, Typed

(* Together.                                                                *)
LEMMA StepLedger ==
  ASSUME LedgerInv, Steps, verdict' \in Contracts \cup {None},
         scanned \subseteq scanned', scanned' \subseteq 1..built', shipped' \subseteq 1..built',
         narration' \in {"unknown", "passing", "warning", "failing", None},
         narration' = narration \/ job = "narrate",
         retries = 0 => Running' /\ Kept'
  PROVE  LedgerInv'
<1>1. Typed'
  BY StepTyped DEF LedgerInv
<1>2. retries' = retries
  BY DEF Steps, forge
<1>3. retries = 0 => InOrder' /\ Uploaded'
  BY StepInOrder, StepUploaded DEF LedgerInv
<1> QED BY <1>1, <1>2, <1>3 DEF LedgerInv

(* ... and when nothing is shipped, scanned, built, decided or announced.   *)
LEMMA StepQuiet ==
  ASSUME LedgerInv, Steps, UNCHANGED <<verdict, built, scanned, shipped, narration>>, retries = 0 => Running'
  PROVE  LedgerInv'
<1>1. /\ verdict' \in Contracts \cup {None} /\ scanned' \subseteq 1..built' /\ shipped' \subseteq 1..built'
      /\ narration' \in {"unknown", "passing", "warning", "failing", None}
  BY DEF LedgerInv, Typed
<1>2. retries = 0 => Kept'
  BY StepKept DEF LedgerInv
<1> QED BY <1>1, <1>2, StepLedger

(* The states that record life l under s, next to what is Visible.          *)
Adds(state, s, l) ==
  /\ state \in States /\ s \in Subsystems
  /\ state.subs[s] # Absent /\ state.subs[s].life = l
  /\ \A k \in Subsystems \ {s} : state.subs[k] = Visible.subs[k]

(* Recording a subsystem fills only its own places.                        *)
LEMMA WithAdds ==
  ASSUME NEW n, ws \in Workspaces(n), NEW s \in Subsystems, NEW l \in Lives, l.outcome = "failed" => l.attempted
  PROVE  /\ Adds(With(Visible, s, l), s, l) /\ With(Visible, s, l).doc = Visible.doc
         /\ \A d \in BOOLEAN : Adds(WithDoc(With(Visible, s, l), d), s, l)
                               /\ WithDoc(With(Visible, s, l), d).doc = d
<1> DEFINE w == With(Visible, s, l)
<1>1. Visible \in States
  BY VisibleTold
<1>2. /\ w \in States /\ w.doc = Visible.doc
      /\ w.subs[s] # Absent /\ w.subs[s].life = l
      /\ \A k \in Subsystems \ {s} : w.subs[k] = Visible.subs[k]
  BY <1>1, WithIs, Zenon
<1> HIDE DEF w
<1>3. \A d \in BOOLEAN : WithDoc(w, d) \in States /\ WithDoc(w, d).subs = w.subs /\ WithDoc(w, d).doc = d
  BY <1>2 DEF WithDoc, States
<1>4. Adds(w, s, l) /\ \A d \in BOOLEAN : Adds(WithDoc(w, d), s, l)
  BY <1>2, <1>3 DEF Adds
<1> QED BY <1>2, <1>3, <1>4 DEF w

(* What a reader is told after a write: the new record if the write        *)
(* arrived, and the old one otherwise; the other subsystems' are as they   *)
(* were.                                                                   *)
LEMMA RecordedIs ==
  ASSUME NEW n, ws \in Workspaces(n), NEW s, NEW l, NEW state, Adds(state, s, l), UpdateState(state),
         ws.file = NoFile => \A k \in Subsystems : ws.shards[k] = Absent
  PROVE  /\ \A k \in Subsystems \ {s, "publish"} : Told(ws', k) = Told(ws, k)
         /\ Told(ws', s) = Told(ws, s) \/ (Told(ws', s) # Absent /\ Told(ws', s).life = l)
         /\ \A S : Holds(ws, S) /\ s \in S => Holds(ws', S)
         /\ ws'.image = ws.image
         /\ ws' = ws \/ ws'.file = state
         /\ ws'.file = NoFile => ws.file = NoFile
<1>1. /\ \A k \in Subsystems : Told(ws', k) \in {Told(ws, k), state.subs[k]}
      /\ ws'.file = NoFile => ws.file = NoFile
      /\ \A S : Holds(ws, S) /\ (\A k \in Subsystems \ S : state.subs[k] = Absent) => Holds(ws', S)
  BY UpdateTold DEF Adds
<1>2. ws'.image = ws.image /\ (ws' = ws \/ ws'.file = state)
  BY UpdateIs DEF Adds
<1>3. \A k \in Subsystems \ {s, "publish"} : state.subs[k] = Told(ws, k)
  BY VisibleTold DEF Adds
<1>4. ASSUME NEW S, Holds(ws, S), s \in S
      PROVE  Holds(ws', S)
  <2>1. \A k \in Subsystems \ S : Told(ws, k) = Absent
    BY <1>4 DEF Holds, Told
  <2>2. \A k \in Subsystems \ S : state.subs[k] = Absent
    BY <1>4, <2>1, VisibleTold DEF Adds
  <2> QED BY <1>1, <1>4, <2>2
<1>5. \A k \in Subsystems \ {s, "publish"} : Told(ws', k) = Told(ws, k)
  BY <1>1, <1>3
<1>6. Told(ws', s) = Told(ws, s) \/ (Told(ws', s) # Absent /\ Told(ws', s).life = l)
  BY <1>1 DEF Adds
<1> QED BY <1>1, <1>2, <1>4, <1>5, <1>6

(* The outcome a record speaks of is the one it was written with.          *)
LEMMA LifeIs ==
  /\ \A outcome \in {"success", "failed", "skipped", "not_applicable"}, a \in BOOLEAN, k \in BOOLEAN :
       /\ Life(outcome, a, k) \in Lives /\ Life(outcome, a, k).attempted
       /\ Life(outcome, a, k).outcome = outcome
  /\ \A c \in Contracts :
       /\ ContractLife(c) \in Lives /\ ContractLife(c).attempted
  /\ NotAttempted("not_applicable") \in Lives /\ NotAttempted("not_applicable").outcome = "not_applicable"
BY DEF Life, ContractLife, NotAttempted, Lives, Contracts

-----------------------------------------------------------------------------

(* The audition's steps keep the ledger invariant.                         *)
LEMMA AuditionLedger ==
  ASSUME LedgerInv, AuditionPreflight \/ AuditionContract
  PROVE  LedgerInv'
<1>1. job = "audition" /\ job # None /\ UNCHANGED <<forge, built, scanned, shipped, narration>>
  BY Names DEF AuditionPreflight, AuditionContract, At, history, Jobs
<1>2. Typed /\ ws \in Workspaces(built)
  BY DEF LedgerInv, Typed
<1>3. Visible \in States
  BY <1>2, VisibleTold
<1>4. retries = 0 => Holds(ws, {"audition"}) /\ ws.image = None
  BY <1>1 DEF LedgerInv, Running, AuditionRuns
<1>5. ASSUME UNCHANGED verdict, UNCHANGED <<ws, faults>>
      PROVE  LedgerInv'
  <2>1. Steps
    BY <1>1, <1>2, <1>5, IdleSteps
  <2>2. retries = 0 => AuditionRuns'
    BY <1>4, <1>5 DEF AuditionRuns
  <2> QED BY <1>1, <1>5, <2>1, <2>2, AuditionAlone, StepQuiet
<1>6. ASSUME NEW state \in States, UpdateState(state),
             \A s \in Subsystems \ {"audition"} : state.subs[s] = Visible.subs[s]
      PROVE  Steps /\ (retries = 0 => Running')
  <2>1. Steps
    BY <1>1, <1>2, <1>6, UpdateSteps
  <2>2. ASSUME retries = 0 PROVE AuditionRuns'
    <3>1. \A s \in Subsystems \ {"audition"} : Told(ws, s) = Absent
      BY <1>4, <2>2 DEF Holds, Told
    <3>2. \A s \in Subsystems \ {"audition"} : state.subs[s] = Absent
      BY <1>2, <1>6, <3>1, VisibleTold
    <3>3. ws.file = NoFile => \A s \in Subsystems : ws.shards[s] = Absent
      BY <1>4, <2>2 DEF Holds
    <3>4. Holds(ws', {"audition"})
      BY <1>2, <1>4, <1>6, <2>2, <3>2, <3>3, UpdateTold
    <3>5. ws'.image = ws.image
      BY <1>2, <1>6, UpdateIs
    <3> QED BY <1>4, <2>2, <3>4, <3>5 DEF AuditionRuns
  <2> QED BY <1>1, <2>1, <2>2, AuditionAlone
<1>7. CASE AuditionPreflight
  <2>1. UNCHANGED verdict /\ (UNCHANGED <<ws, faults>> \/ UpdateState(Visible))
    BY <1>7 DEF AuditionPreflight, history
  <2>2. CASE UpdateState(Visible)
    BY <1>1, <1>3, <1>6, <2>1, <2>2, StepQuiet
  <2> QED BY <1>5, <2>1, <2>2
<1>8. CASE AuditionContract
  <2>1. PICK c \in Contracts : verdict' = c /\ UpdateState(With(Visible, "audition", ContractLife(c)))
    BY <1>8 DEF AuditionContract
  <2>2. ContractLife(c) \in Lives /\ ContractLife(c).attempted
    BY LifeIs
  <2>3. "audition" \in Subsystems
    BY Names
  <2>4. Adds(With(Visible, "audition", ContractLife(c)), "audition", ContractLife(c))
    BY <1>2, <2>2, <2>3, WithAdds
  <2>5. Steps /\ (retries = 0 => Running')
    BY <1>6, <2>1, <2>4 DEF Adds
  <2>6. /\ scanned' \subseteq 1..built' /\ shipped' \subseteq 1..built'
        /\ narration' \in {"unknown", "passing", "warning", "failing", None}
    BY <1>1, <1>2 DEF Typed
  <2>7. retries = 0 => Kept'
    BY <1>1, <1>2, <2>5, StepKept DEF LedgerInv
  <2> QED BY <1>1, <2>1, <2>5, <2>6, <2>7, StepLedger
<1> QED BY <1>7, <1>8

(* What perform leaves alone of an image keeps its account true.            *)
LEMMA ImageKept ==
  ASSUME ImageTrue(ws), UNCHANGED cfg, ws'.image = ws.image,
         Told(ws', "audition") = Told(ws, "audition"), Told(ws', "build") = Told(ws, "build"),
         ws.file # NoFile => ws'.file.doc = ws.file.doc
  PROVE  ImageTrue(ws)'
<1>1. CASE ws.image = None
  BY <1>1 DEF ImageTrue
<1>2. CASE ws.image # None
  <2>1. ws.file # NoFile
    BY <1>2 DEF ImageTrue, Open, Told
  <2> QED BY <1>2, <2>1 DEF ImageTrue
<1> QED BY <1>1, <1>2

(* perform's steps keep it: an image appears only under an open contract,  *)
(* and success is recorded only by the write that ends the build.          *)
LEMMA PerformLedger ==
  ASSUME LedgerInv,
         \/ PerformStart \/ Reconcile \/ recordReconcileState
         \/ BuildPremark \/ Build \/ RecordBuild
  PROVE  LedgerInv'
<1>1. job = "perform" /\ job # None /\ UNCHANGED <<forge, verdict, scanned, shipped, narration>>
  BY Names DEF PerformStart, Reconcile, recordReconcileState, BuildPremark, Build, RecordBuild, At,
         history, Jobs
<1>2. Typed /\ ws \in Workspaces(built) /\ UNCHANGED cfg
  BY <1>1 DEF LedgerInv, Typed, forge
<1> DEFINE Here == /\ Holds(ws, ByPerform) /\ ImageTrue(ws)
                   /\ pc \in {"start", "premark", "build", "nothing", "none"} => ws.image = None
                   /\ pc \in {"premark", "build", "image", "unreadable", "broken", "nothing", "none"} =>
                        cfg.ref # "unreleased" /\ Open(Told(ws, "audition"))
                   /\ Succeeds(Told(ws, "build")) => pc = "ok"
<1>3. retries = 0 => Here
  BY <1>1 DEF LedgerInv, Running, PerformRuns
<1>4. PerformRuns' <=> Here'
  BY <1>1 DEF PerformRuns, forge
<1>5. {"audition", "build", "reconcile"} \subseteq Subsystems /\ {"audition", "build", "reconcile"} \subseteq ByPerform
  BY Names DEF ByPerform
<1>6. Visible.subs["audition"] = Told(ws, "audition") /\ Visible.subs["build"] = Told(ws, "build")
      /\ (ws.file # NoFile => Visible.doc = ws.file.doc)
  BY <1>2, <1>5, VisibleTold
\* Nothing is written.
<1>7. ASSUME UNCHANGED <<ws, faults, built>>, retries = 0 => Here'
      PROVE  LedgerInv'
  <2>1. Steps
    BY <1>1, <1>2, <1>7, IdleSteps
  <2> QED BY <1>1, <1>4, <1>7, <2>1, PerformAlone, StepQuiet
<1>8. ASSUME UNCHANGED ws, retries = 0, pc # "ok",
             pc' \in {"start", "premark", "build", "nothing", "none"} => ws.image = None,
             pc' \in {"premark", "build", "image", "unreadable", "broken", "nothing", "none"} =>
               cfg.ref # "unreleased" /\ Open(Told(ws, "audition"))
      PROVE  Here'
  BY <1>2, <1>3, <1>8 DEF ImageTrue
\* One record is.
<1>9. ASSUME NEW s, NEW l, NEW state, Adds(state, s, l), UpdateState(state), UNCHANGED built,
             retries = 0 => Here'
      PROVE  LedgerInv'
  <2>1. Steps
    BY <1>1, <1>2, <1>9, UpdateSteps DEF Adds
  <2> QED BY <1>1, <1>4, <1>9, <2>1, PerformAlone, StepQuiet
<1>10. ASSUME NEW s \in ByPerform, NEW l, NEW state, Adds(state, s, l), UpdateState(state), retries = 0
       PROVE  /\ \A k \in ByPerform \ {s} : Told(ws', k) = Told(ws, k)
              /\ Told(ws', s) = Told(ws, s) \/ (Told(ws', s) # Absent /\ Told(ws', s).life = l)
              /\ Holds(ws', ByPerform) /\ ws'.image = ws.image
              /\ ws' = ws \/ ws'.file = state
              /\ ws'.file = NoFile => ws.file = NoFile
  <2>1. ws.file = NoFile => \A k \in Subsystems : ws.shards[k] = Absent
    BY <1>3, <1>10 DEF Holds
  <2>2. ByPerform \subseteq Subsystems \ {"publish"}
    BY Names DEF ByPerform
  <2>3. Holds(ws, ByPerform)
    BY <1>3, <1>10
  <2> HIDE DEF Here
  <2>4. /\ \A k \in Subsystems \ {s, "publish"} : Told(ws', k) = Told(ws, k)
        /\ Told(ws', s) = Told(ws, s) \/ (Told(ws', s) # Absent /\ Told(ws', s).life = l)
        /\ \A S : Holds(ws, S) /\ s \in S => Holds(ws', S)
        /\ ws'.image = ws.image
        /\ ws' = ws \/ ws'.file = state
        /\ ws'.file = NoFile => ws.file = NoFile
    BY <1>2, <1>10, <2>1, RecordedIs
  <2> QED BY <2>2, <2>3, <2>4
<1>11. CASE PerformStart
  <2>0. pc = "start" /\ UNCHANGED built
    BY <1>11 DEF PerformStart, At, history
  <2>1. CASE UNCHANGED <<ws, faults>> /\ pc' \in {"fail", "reconcile", "ok"}
    <3>1. retries = 0 => Here'
      BY <1>8, <2>0, <2>1
    <3> QED BY <1>7, <2>0, <2>1, <3>1
  <2>2. CASE UpdateState(With(Visible, "build", Life("skipped", FALSE, TRUE))) /\ pc' = "ok"
    <3> DEFINE l == Life("skipped", FALSE, TRUE)
               state == With(Visible, "build", l)
    <3>1. l \in Lives /\ l.outcome = "skipped"
      BY LifeIs
    <3>2. Adds(state, "build", l)
      BY <1>2, <1>5, <3>1, WithAdds
    <3>3. retries = 0 => Here'
      <4> SUFFICES ASSUME retries = 0 PROVE Here'
        OBVIOUS
      <4>1. Holds(ws', ByPerform) /\ ws'.image = ws.image
        BY <1>5, <1>10, <2>2, <3>2
      <4>2. ws.image = None
        BY <1>3, <2>0
      <4> QED BY <2>2, <4>1, <4>2 DEF ImageTrue
    <3> QED BY <1>9, <2>0, <2>2, <3>2, <3>3
  <2>3. CASE /\ UNCHANGED <<ws, faults>> /\ ~NoLedger /\ ~SaysSkip /\ performGate = "build"
             /\ cfg.ref # "unreleased" /\ pc' = "premark"
    <3>1. Open(Told(ws, "audition"))
      BY <1>6, <2>3 DEF SaysSkip, performGate, Contract, GetSubsystem, Open
    <3>2. retries = 0 => Here'
      BY <1>3, <1>8, <2>0, <2>3, <3>1
    <3> QED BY <1>7, <2>0, <2>3, <3>2
  <2> HIDE DEF Here
  <2> QED BY <1>11, <2>1, <2>2, <2>3 DEF PerformStart, Goto, performGate
<1>12. CASE Reconcile
  <2>1. pc = "reconcile" /\ pc' \in {"ok", "fail", "reconciled"} /\ UNCHANGED <<ws, faults, built>>
    BY <1>12 DEF Reconcile, At, Goto
  <2>2. retries = 0 => Here'
    BY <1>8, <2>1
  <2> QED BY <1>7, <2>1, <2>2
<1>13. CASE recordReconcileState
  <2>1. PICK outcome \in {"success", "failed"} : UpdateState(With(Visible, "reconcile", Life(outcome, FALSE, FALSE)))
    BY <1>13 DEF recordReconcileState
  <2>2. pc = "reconciled" /\ pc' \in {"ok", "fail"} /\ UNCHANGED built
    BY <1>13 DEF recordReconcileState, At, Goto, history
  <2> DEFINE l == Life(outcome, FALSE, FALSE)
             state == With(Visible, "reconcile", l)
  <2>3. l \in Lives /\ l.attempted
    BY LifeIs
  <2>4. Adds(state, "reconcile", l) /\ state.doc = Visible.doc
    BY <1>2, <1>5, <2>3, WithAdds
  <2> HIDE DEF state, l
  <2>5. ASSUME retries = 0 PROVE Here'
    <3>1. /\ Told(ws', "audition") = Told(ws, "audition") /\ Told(ws', "build") = Told(ws, "build")
          /\ Holds(ws', ByPerform) /\ ws'.image = ws.image
          /\ ws' = ws \/ ws'.file = state
      BY <1>5, <1>10, <2>1, <2>4, <2>5 DEF state, l
    <3>2. ws.file # NoFile => ws'.file.doc = ws.file.doc
      BY <1>6, <2>4, <3>1
    <3>3. ImageTrue(ws)'
      BY <1>2, <1>3, <2>5, <3>1, <3>2, ImageKept
    <3>4. ~Succeeds(Told(ws', "build"))
      BY <1>3, <2>2, <2>5, <3>1
    <3> QED BY <2>2, <3>1, <3>3, <3>4
  <2> HIDE DEF Here
  <2> QED BY <1>9, <2>1, <2>2, <2>4, <2>5 DEF state, l
<1>14. CASE BuildPremark
  <2> DEFINE l == Life("failed", FALSE, FALSE)
             state == With(Visible, "build", l)
  <2>1. UpdateState(state)
    BY <1>14 DEF BuildPremark
  <2>2. pc = "premark" /\ pc' = "build" /\ UNCHANGED built
    BY <1>14 DEF BuildPremark, At, Goto, history
  <2>3. l \in Lives /\ l.attempted /\ l.outcome = "failed"
    BY LifeIs
  <2>4. Adds(state, "build", l)
    BY <1>2, <1>5, <2>3, WithAdds
  <2> HIDE DEF state, l
  <2>5. ASSUME retries = 0 PROVE Here'
    <3>1. /\ Told(ws', "audition") = Told(ws, "audition")
          /\ Told(ws', "build") = Told(ws, "build") \/ Told(ws', "build").life = l
          /\ Holds(ws', ByPerform) /\ ws'.image = ws.image
      BY <1>5, <1>10, <2>1, <2>4, <2>5
    <3>2. ws.image = None /\ ~Succeeds(Told(ws, "build")) /\ cfg.ref # "unreleased" /\ Open(Told(ws, "audition"))
      BY <1>3, <2>2, <2>5
    <3>3. ~Succeeds(Told(ws', "build"))
      BY <2>3, <3>1, <3>2 DEF Succeeds
    <3>4. ImageTrue(ws)'
      BY <3>1, <3>2 DEF ImageTrue
    <3> QED BY <1>2, <2>2, <3>1, <3>2, <3>3, <3>4
  <2> HIDE DEF Here
  <2> QED BY <1>9, <2>1, <2>2, <2>4, <2>5
<1>15. CASE Build
  <2>0. pc = "build" /\ faults' = faults
    BY <1>15 DEF Build, At
  <2>1. CASE UNCHANGED <<ws, built>>
    <3>1. retries = 0 => Here'
      BY <1>3, <1>8, <2>0, <2>1
    <3> QED BY <1>7, <2>0, <2>1, <3>1
  <2>2. CASE /\ built' = built + 1 /\ ws' = [file |-> ws.file, shards |-> ws.shards, image |-> built + 1]
             /\ pc' \in {"image", "unreadable", "broken"}
    <3>1. built \in Nat /\ built' \in Nat /\ built <= built'
      BY <1>2, <2>2 DEF Typed
    <3>2. ws' \in Workspaces(built')
      <4>1. built + 1 \in 1..built'
        BY <2>2, <3>1
      <4> QED BY <1>2, <2>2, <4>1 DEF Workspaces
    <3>3. Steps
      <4>1. Mishaps' = Mishaps
        BY <1>1, <2>0 DEF Mishaps, forge
      <4> QED BY <1>1, <1>2, <2>0, <3>1, <3>2, <4>1 DEF Steps, Typed
    <3>4. ASSUME retries = 0 PROVE Here'
      <4>1. ws'.file = ws.file /\ ws'.shards = ws.shards
        BY <2>2
      <4>2. Told(ws', "audition") = Told(ws, "audition") /\ Told(ws', "build") = Told(ws, "build")
        BY <4>1 DEF Told
      <4>3. ~Succeeds(Told(ws, "build")) /\ cfg.ref # "unreleased" /\ Open(Told(ws, "audition")) /\ Holds(ws, ByPerform)
        BY <1>3, <2>0, <3>4
      <4>4. Holds(ws', ByPerform)
        BY <4>1, <4>3 DEF Holds
      <4>5. ImageTrue(ws)'
        BY <1>2, <4>2, <4>3 DEF ImageTrue
      <4> QED BY <1>2, <2>2, <4>2, <4>3, <4>4, <4>5
    <3> HIDE DEF Here
    <3>5. /\ verdict' \in Contracts \cup {None} /\ scanned' \subseteq 1..built' /\ shipped' \subseteq 1..built'
          /\ narration' \in {"unknown", "passing", "warning", "failing", None}
      BY <1>1, <1>2, <3>1 DEF Typed
    <3>6. retries = 0 => Kept' /\ Running'
      BY <1>1, <1>2, <1>4, <3>3, <3>4, StepKept, PerformAlone DEF LedgerInv
    <3> QED BY <1>1, <3>3, <3>5, <3>6, StepLedger
  <2> HIDE DEF Here
  <2> QED BY <1>15, <2>1, <2>2 DEF Build, Goto
<1>16. CASE RecordBuild
  <2>0. UNCHANGED built
    BY <1>16 DEF RecordBuild, history
  <2>1. PICK outcome \in {"success", "failed", "not_applicable"}, d \in BOOLEAN :
          /\ \/ UpdateState(WithDoc(With(Visible, "build", Life(outcome, FALSE, FALSE)), d))
             \/ outcome = "failed" /\ UpdateState(With(Visible, "build", Life(outcome, FALSE, FALSE)))
          /\ pc \in {"image", "nothing", "none", "broken", "unreadable"}
          /\ pc' = "ok" \/ (pc' = "fail" /\ outcome = "failed")
          /\ outcome = "failed" \/ pc \in {"nothing", "none"} \/ (outcome = "success" /\ d)
    BY <1>16 DEF RecordBuild, Goto
  <2> DEFINE l == Life(outcome, FALSE, FALSE)
  <2>2. l \in Lives /\ l.attempted /\ l.outcome = outcome
    BY LifeIs
  <2>3. PICK state : /\ Adds(state, "build", l) /\ UpdateState(state)
                     /\ outcome = "failed" \/ state.doc = d
    BY <1>2, <1>5, <2>1, <2>2, WithAdds
  <2> HIDE DEF l
  <2>4. ASSUME retries = 0 PROVE Here'
    <3>1. /\ Told(ws', "audition") = Told(ws, "audition")
          /\ Told(ws', "build") = Told(ws, "build") \/ (Told(ws', "build") # Absent /\ Told(ws', "build").life = l)
          /\ Holds(ws', ByPerform) /\ ws'.image = ws.image
          /\ ws' = ws \/ ws'.file = state
      BY <1>5, <1>10, <2>3, <2>4
    <3>2. ~Succeeds(Told(ws, "build")) /\ cfg.ref # "unreleased" /\ Open(Told(ws, "audition"))
      BY <1>3, <2>1, <2>4
    <3>3. Succeeds(Told(ws', "build")) =>
            /\ Told(ws', "build").life.outcome = outcome /\ outcome # "failed"
            /\ ws'.file.doc = d
      BY <2>2, <2>3, <3>1, <3>2 DEF Succeeds
    <3>4. pc \in {"nothing", "none"} => ws'.image = None
      BY <1>3, <2>4, <3>1
    <3>5. ImageTrue(ws)'
      BY <1>2, <2>1, <3>1, <3>2, <3>3, <3>4 DEF ImageTrue
    <3>6. Succeeds(Told(ws', "build")) => pc' = "ok"
      BY <2>1, <3>3
    <3> QED BY <2>1, <3>1, <3>5, <3>6
  <2> HIDE DEF Here
  <2> QED BY <1>9, <2>0, <2>3, <2>4
<1> HIDE DEF Here
<1> QED BY <1>11, <1>12, <1>13, <1>14, <1>15, <1>16

(* review's steps keep it: security is recorded as passed only after the   *)
(* image at hand was scanned.                                              *)
LEMMA ReviewLedger ==
  ASSUME LedgerInv, ReviewStart \/ Scan \/ RecordSecurity
  PROVE  LedgerInv'
<1> DEFINE p == Left("perform")
           Here == /\ Inherits /\ Holds(ws, ByPerform \cup ByReview)
                   /\ pc = "start" => ImageTrue(ws)
                   /\ pc = "scanned" => ws.image \in scanned
                   /\ Succeeds(Told(ws, "security")) => pc = "ok" /\ Accounted(ws.image)
<1>1. job = "review" /\ job # None /\ UNCHANGED <<forge, verdict, built, shipped, narration>>
  BY Names DEF ReviewStart, Scan, RecordSecurity, At, history, Jobs
<1>2. Typed /\ ws \in Workspaces(built) /\ UNCHANGED cfg /\ "perform" \in Jobs
  BY <1>1 DEF LedgerInv, Typed, forge, Jobs
<1>3. retries = 0 => Here
  BY <1>1 DEF LedgerInv, Running, ReviewRuns
<1>4. ReviewRuns' <=> Here'
  BY <1>1 DEF ReviewRuns, forge
<1>5. {"audition", "build", "security", "review"} \subseteq Subsystems \ {"publish"}
      /\ {"audition", "build"} \subseteq ByPerform /\ {"security", "review"} = ByReview
  BY Names DEF ByPerform, ByReview
<1>6. /\ Visible.subs["audition"] = Told(ws, "audition") /\ Visible.subs["build"] = Told(ws, "build")
      /\ ws.file # NoFile => Visible.doc = ws.file.doc
  BY <1>2, <1>5, VisibleTold
<1>7. p' = p
  BY <1>1 DEF forge, Left
<1> HIDE DEF p
\* Nothing is written.
<1>8. ASSUME UNCHANGED <<ws, faults>>, scanned \subseteq scanned', scanned' \subseteq 1..built,
             retries = 0 => Here'
      PROVE  LedgerInv'
  <2>1. Steps
    BY <1>1, <1>2, <1>8, IdleSteps
  <2>2. /\ verdict' \in Contracts \cup {None} /\ scanned' \subseteq 1..built' /\ shipped' \subseteq 1..built'
        /\ narration' \in {"unknown", "passing", "warning", "failing", None}
    BY <1>1, <1>2, <1>8 DEF Typed
  <2> HIDE DEF Here
  <2>3. retries = 0 => Kept' /\ Running'
    BY <1>1, <1>2, <1>4, <1>8, <2>1, StepKept, ReviewAlone DEF LedgerInv
  <2> QED BY <1>1, <1>8, <2>1, <2>2, <2>3, StepLedger
<1>9. ASSUME UNCHANGED ws, retries = 0, pc # "ok", pc' # "start", pc' # "scanned",
             ws.file = NoFile => pc' = "fail"
      PROVE  Here'
  BY <1>3, <1>7, <1>9 DEF Inherits, p
\* One record is.
<1>10. ASSUME NEW s \in ByReview, NEW l, NEW state, Adds(state, s, l), UpdateState(state),
              UNCHANGED scanned, retries = 0 => pc # "fail", ~NoLedger, pc # "ok",
              pc' \notin {"start", "scanned"},
              s = "security" /\ l.outcome # "failed" /\ retries = 0 => pc' = "ok" /\ Accounted(ws.image)
       PROVE  LedgerInv'
  <2>1. Steps
    BY <1>1, <1>2, <1>10, UpdateSteps DEF Adds
  <2>2. ASSUME retries = 0 PROVE Here'
    <3>1. ws.file # NoFile
      BY <1>10 DEF NoLedger
    <3>2. /\ \A k \in Subsystems \ {s, "publish"} : Told(ws', k) = Told(ws, k)
          /\ Told(ws', s) = Told(ws, s) \/ (Told(ws', s) # Absent /\ Told(ws', s).life = l)
          /\ \A S : Holds(ws, S) /\ s \in S => Holds(ws', S)
          /\ ws'.image = ws.image
          /\ ws' = ws \/ ws'.file = state
          /\ ws'.file = NoFile => ws.file = NoFile
      BY <1>2, <1>10, <3>1, RecordedIs
    <3>3. Holds(ws', ByPerform \cup ByReview)
      BY <1>3, <2>2, <3>2
    <3>4. ByPerform \subseteq Subsystems \ {s, "publish"}
      BY <1>10, Names DEF ByPerform, ByReview
    <3>5. Inherits'
      BY <1>3, <1>7, <2>2, <3>1, <3>2, <3>4 DEF Inherits, p
    <3>6. ~Succeeds(Told(ws, "security"))
      BY <1>3, <1>10, <2>2
    <3>7. Succeeds(Told(ws', "security")) => s = "security" /\ l.outcome # "failed"
      BY <1>5, <3>2, <3>6 DEF Succeeds
    <3>8. Accounted(ws.image) => Accounted(ws.image)'
      BY <1>2, <1>10, <3>2 DEF Accounted
    <3> QED BY <1>10, <2>2, <3>3, <3>5, <3>7, <3>8
  <2> HIDE DEF Here
  <2> QED BY <1>1, <1>4, <1>10, <2>1, <2>2, ReviewAlone, StepQuiet
<1>11. CASE ReviewStart
  <2>0. pc = "start" /\ UNCHANGED scanned
    BY <1>11 DEF ReviewStart, At, history
  <2>1. CASE NoLedger /\ pc' = "fail" /\ UNCHANGED <<ws, faults>>
    <3>1. retries = 0 => Here'
      BY <1>9, <2>0, <2>1
    <3>2. scanned' \subseteq 1..built
      BY <1>2, <2>0 DEF Typed
    <3> QED BY <1>8, <2>0, <2>1, <3>1, <3>2
  <2>2. CASE /\ ~NoLedger /\ UpdateState(With(Visible, "review", NotAttempted("not_applicable"))) /\ pc' = "ok"
    <3> DEFINE l == NotAttempted("not_applicable")
    <3>1. l \in Lives /\ l.outcome = "not_applicable"
      BY LifeIs
    <3>2. Adds(With(Visible, "review", l), "review", l)
      BY <1>2, <1>5, <3>1, WithAdds
    <3> QED BY <1>5, <1>10, <2>0, <2>2, <3>2
  <2>3. ASSUME ~NoLedger, NEW outcome \in {"success", "failed", "skipped", "not_applicable"},
               NEW a \in BOOLEAN, NEW k \in BOOLEAN,
               UpdateState(With(Visible, "security", Life(outcome, a, k))),
               pc' \in {"ok", "scan", "fail"},
               outcome # "failed" /\ retries = 0 => pc' = "ok" /\ Accounted(ws.image)
        PROVE  LedgerInv'
    <3> DEFINE l == Life(outcome, a, k)
    <3>1. l \in Lives /\ l.attempted /\ l.outcome = outcome
      BY LifeIs
    <3>2. Adds(With(Visible, "security", l), "security", l)
      BY <1>2, <1>5, <3>1, WithAdds
    <3> HIDE DEF l
    <3> QED BY <1>5, <1>10, <2>0, <2>3, <3>1, <3>2 DEF l
  <2>4. CASE ~NoLedger /\ SaysSkip /\ UpdateState(With(Visible, "security", Life("skipped", FALSE, TRUE))) /\ pc' = "ok"
    <3>1. retries = 0 => Accounted(ws.image)
      BY <1>3, <1>6, <2>0, <2>4 DEF SaysSkip, Contract, GetSubsystem, ImageTrue, Open, Accounted
    <3> QED BY <2>3, <2>4, <3>1
  <2> DEFINE a == "security" \notin cfg.required
  <2>5. a \in BOOLEAN
    OBVIOUS
  <2>6. CASE /\ ~NoLedger /\ (cfg.ref = "unreleased" \/ ~cfg.scan)
             /\ UpdateState(With(Visible, "security", Security("not_applicable", FALSE))) /\ pc' = "ok"
    <3>1. retries = 0 => Accounted(ws.image)
      BY <1>3, <2>0, <2>6 DEF ImageTrue, Accounted
    <3> QED BY <2>3, <2>5, <2>6, <3>1 DEF Security
  <2>7. CASE /\ ~NoLedger /\ NothingToReview
             /\ UpdateState(With(Visible, "security", Security("not_applicable", TRUE))) /\ pc' = "ok"
    <3>1. retries = 0 => Accounted(ws.image)
      <4>1. ASSUME retries = 0 PROVE ws.image = None
        <5>1. ws.file # NoFile
          BY <2>7 DEF NoLedger
        <5>2. ImageTrue(ws)
          BY <1>3, <2>0, <4>1
        <5>3. CASE GetSubsystem("build") = Absent /\ Contract # Absent /\ Contract.life.blocking
          BY <1>6, <5>2, <5>3 DEF ImageTrue, Open, Contract, GetSubsystem
        <5>4. CASE Reads("build", {"not_applicable"})
          BY <1>6, <5>2, <5>4 DEF ImageTrue, Reads, GetSubsystem, Succeeds
        <5>5. CASE Reads("build", {"success"}) /\ ~Visible.doc
          BY <1>6, <5>1, <5>2, <5>5 DEF ImageTrue, Reads, GetSubsystem, Succeeds
        <5> QED BY <2>7, <5>3, <5>4, <5>5 DEF NothingToReview
      <4> QED BY <4>1 DEF Accounted
    <3> QED BY <2>3, <2>5, <2>7, <3>1 DEF Security
  <2>8. CASE /\ ~NoLedger /\ UpdateState(With(Visible, "security", Security("failed", FALSE))) /\ pc' \in {"scan", "fail"}
    BY <2>3, <2>5, <2>8 DEF Security
  <2> HIDE DEF Here
  <2> QED BY <1>11, <2>1, <2>2, <2>4, <2>6, <2>7, <2>8 DEF ReviewStart, Goto
<1>12. CASE Scan
  <2>1. pc = "scan" /\ UNCHANGED <<ws, faults>>
    BY <1>12 DEF Scan, At
  <2>2. scanned \subseteq scanned' /\ scanned' \subseteq 1..built
    BY <1>2, <1>12 DEF Scan, Typed, Workspaces
  <2>3. \/ pc' = "scanned" /\ ws.image \in scanned'
        \/ pc' = "refused"
    BY <1>12 DEF Scan, Goto
  <2>4. ASSUME retries = 0 PROVE Here'
    <3>1. ws.file # NoFile
      BY <1>3, <2>1, <2>4 DEF Inherits
    <3>2. ~Succeeds(Told(ws, "security"))
      BY <1>3, <2>1, <2>4
    <3>3. Inherits'
      BY <1>3, <1>7, <2>1, <2>4, <3>1 DEF Inherits, p
    <3> QED BY <1>3, <2>1, <2>3, <2>4, <3>2, <3>3
  <2> QED BY <1>8, <2>1, <2>2, <2>4
<1>13. CASE RecordSecurity
  <2> DEFINE outcome == IF pc = "scanned" THEN "success" ELSE "failed"
             a == "security" \notin cfg.required
             l == Life(outcome, a, FALSE)
  <2>1. /\ pc \in {"scanned", "refused"} /\ UNCHANGED scanned
        /\ UpdateState(With(Visible, "security", l))
        /\ pc' = IF pc = "scanned" THEN "ok" ELSE "fail"
    BY <1>13 DEF RecordSecurity, Security, Goto, history
  <2>2. a \in BOOLEAN
    OBVIOUS
  <2>3. l \in Lives /\ l.attempted /\ l.outcome = outcome
    BY <2>2, LifeIs
  <2>4. Adds(With(Visible, "security", l), "security", l)
    BY <1>2, <1>5, <2>3, WithAdds
  <2>5. retries = 0 => (pc = "scanned" => Accounted(ws.image))
    BY <1>3 DEF Accounted
  <2>6. CASE ~NoLedger
    <3>1. l.outcome # "failed" => pc = "scanned"
      BY <2>3
    <3> HIDE DEF l, a, outcome
    <3> QED BY <1>5, <1>10, <2>1, <2>4, <2>5, <2>6, <3>1
  <2>7. CASE NoLedger
    \* Only a retried pipeline could be here.
    <3>1. retries # 0
      BY <1>3, <2>1, <2>7 DEF Inherits, NoLedger
    <3>2. Steps
      BY <1>1, <1>2, <2>1, <2>4, UpdateSteps DEF Adds
    <3> QED BY <1>1, <2>1, <3>1, <3>2, StepQuiet
  <2> QED BY <2>6, <2>7
<1> HIDE DEF Here
<1> QED BY <1>11, <1>12, <1>13

(* publish's steps keep it: what ships is perform's image, and promotion   *)
(* waits for a security record that vouches for it.                        *)
LEMMA PublishLedger ==
  ASSUME LedgerInv,
         \/ PublishStart \/ Promote \/ RecordTags \/ RecordPublish
         \/ ReleaseStart \/ RunReleaseCreate \/ PublishTail
  PROVE  LedgerInv'
<1> DEFINE p == Left("perform")
           r == Left("review")
           Here == /\ Inherits /\ Holds(ws, Subsystems)
                   /\ \A s \in ByReview : Told(ws, s) = r.shards[s]
                   /\ pc = "promote" => Accounted(ws.image)
<1>1. job = "publish" /\ job # None /\ UNCHANGED <<forge, verdict, built, scanned, narration>>
  BY Names DEF PublishStart, Promote, RecordTags, RecordPublish, ReleaseStart, RunReleaseCreate,
         PublishTail, At, history, Jobs
<1>2. Typed /\ ws \in Workspaces(built) /\ UNCHANGED cfg /\ {"perform", "review"} \subseteq Jobs
  BY <1>1 DEF LedgerInv, Typed, forge, Jobs
<1>3. retries = 0 => Here
  BY <1>1 DEF LedgerInv, Running, PublishRuns
<1>4. PublishRuns' <=> Here'
  BY <1>1 DEF PublishRuns, forge
<1>5. /\ "security" \in Subsystems \ {"publish"} /\ "security" \in ByReview
      /\ {"publish", "release"} \subseteq Subsystems \ (ByPerform \cup ByReview)
      /\ ByPerform \cup ByReview \subseteq Subsystems \ {"publish"}
  BY Names DEF ByPerform, ByReview
<1>6. p' = p /\ r' = r
  BY <1>1 DEF forge, Left
<1>7. Visible \in States /\ \A k \in ByPerform \cup ByReview : Visible.subs[k] = Told(ws, k)
  BY <1>2, <1>5, VisibleTold
<1> HIDE DEF p, r
\* Nothing is written.
<1>8. ASSUME UNCHANGED <<ws, faults>>, shipped' \subseteq 1..built, retries = 0 => Here',
             retries = 0 /\ cfg.scan => shipped' \subseteq shipped \cup scanned
      PROVE  LedgerInv'
  <2>1. Steps
    BY <1>1, <1>2, <1>8, IdleSteps
  <2>2. /\ verdict' \in Contracts \cup {None} /\ scanned' \subseteq 1..built' /\ shipped' \subseteq 1..built'
        /\ narration' \in {"unknown", "passing", "warning", "failing", None}
    BY <1>1, <1>2, <1>8 DEF Typed
  <2> HIDE DEF Here
  <2>3. retries = 0 => Kept' /\ Running'
    BY <1>1, <1>2, <1>4, <1>8, <2>1, StepKept, PublishAlone DEF LedgerInv
  <2> QED BY <1>1, <1>8, <2>1, <2>2, <2>3, StepLedger
<1>9. ASSUME UNCHANGED ws, retries = 0, pc' = "promote" => Accounted(ws.image),
             ws.file = NoFile => pc' = "fail"
      PROVE  Here'
  <2>1. Inherits'
    BY <1>3, <1>6, <1>9 DEF Inherits, p
  <2>2. \A s \in ByReview : Told(ws', s) = r'.shards[s]
    BY <1>3, <1>6, <1>9
  <2>3. Holds(ws', Subsystems)
    BY <1>3, <1>9
  <2>4. pc' = "promote" => Accounted(ws.image)'
    BY <1>1, <1>2, <1>9 DEF Accounted
  <2> QED BY <2>1, <2>2, <2>3, <2>4
\* A record of publish itself, or of the release, is.
<1>10. ASSUME NEW state \in States, UpdateState(state), UNCHANGED shipped,
              pc' # "promote", pc \notin {"start", "fail"},
              \A k \in ByPerform \cup ByReview : state.subs[k] = Visible.subs[k]
       PROVE  LedgerInv'
  <2>1. Steps
    BY <1>1, <1>2, <1>10, UpdateSteps
  <2>2. ASSUME retries = 0 PROVE Here'
    <3>1. ws.file # NoFile
      BY <1>3, <1>10, <2>2 DEF Inherits
    <3>2. /\ \A k \in Subsystems : Told(ws', k) \in {Told(ws, k), state.subs[k]}
          /\ ws'.file = NoFile => ws.file = NoFile
          /\ \A S : Holds(ws, S) /\ (\A k \in Subsystems \ S : state.subs[k] = Absent) => Holds(ws', S)
      BY <1>2, <1>10, <3>1, UpdateTold
    <3>3. Holds(ws', Subsystems)
      BY <1>3, <2>2, <3>2
    <3>4. \A k \in ByPerform \cup ByReview : Told(ws', k) = Told(ws, k)
      BY <1>5, <1>7, <1>10, <3>2
    <3>5. ws'.image = ws.image
      BY <1>2, <1>10, UpdateIs
    <3>6. Inherits'
      BY <1>3, <1>6, <2>2, <3>1, <3>2, <3>4, <3>5 DEF Inherits, p
    <3>7. \A s \in ByReview : Told(ws', s) = r'.shards[s]
      BY <1>3, <1>6, <2>2, <3>4
    <3> QED BY <1>10, <3>3, <3>6, <3>7
  <2> HIDE DEF Here
  <2> QED BY <1>1, <1>4, <1>10, <2>1, <2>2, PublishAlone, StepQuiet
<1>11. ASSUME NEW s \in {"publish", "release"}, NEW outcome \in {"success", "failed", "skipped", "not_applicable"},
              NEW a \in BOOLEAN, NEW k \in BOOLEAN,
              UpdateState(With(Visible, s, Life(outcome, a, k))), UNCHANGED shipped,
              pc' # "promote", pc \notin {"start", "fail"}
       PROVE  LedgerInv'
  <2> DEFINE l == Life(outcome, a, k)
  <2>1. l \in Lives /\ l.attempted
    BY LifeIs
  <2>2. Adds(With(Visible, s, l), s, l)
    BY <1>2, <1>5, <2>1, WithAdds
  <2>3. With(Visible, s, l) \in States /\ \A x \in ByPerform \cup ByReview : With(Visible, s, l).subs[x] = Visible.subs[x]
    BY <1>5, <2>2 DEF Adds
  <2> QED BY <1>10, <1>11, <2>3
<1> DEFINE b == "release" \notin cfg.required
<1>12. b \in BOOLEAN
  OBVIOUS
<1>13. shipped \subseteq 1..built
  BY <1>2 DEF Typed
<1>14. CASE PublishStart
  <2>1. /\ pc = "start" /\ UNCHANGED <<ws, faults, shipped>>
        /\ pc' \in {"fail", "tail", "promote"}
        /\ pc' = "promote" => ~NoLedger /\ Authorized
        /\ NoLedger => pc' = "fail"
    BY <1>2, <1>14 DEF PublishStart, At, Goto, history, Typed
  <2>2. ASSUME retries = 0, pc' = "promote" PROVE Accounted(ws.image)
    <3>1. Told(ws, "security") # Absent
          /\ Told(ws, "security").life.outcome \in {"success", "warning", "skipped", "not_applicable"}
      BY <1>5, <1>7, <2>1, <2>2 DEF Authorized, Reads, GetSubsystem
    <3>2. Succeeds(r.shards["security"])
      BY <1>3, <1>5, <2>2, <3>1 DEF Succeeds
    <3>3. Accounted(p.image) /\ ws.image = p.image
      BY <1>3, <2>2, <3>2 DEF LedgerInv, Uploaded, ReviewLeft, Inherits, p, r
    <3> QED BY <3>3
  <2>3. retries = 0 => Here'
    BY <1>9, <2>1, <2>2 DEF NoLedger
  <2> HIDE DEF Here
  <2> QED BY <1>8, <1>13, <2>1, <2>3
<1>15. CASE Promote
  <2>1. /\ pc = "promote" /\ UNCHANGED <<ws, faults>>
        /\ pc' \in {"release", "unpublished", "tagged", "partly tagged"}
        /\ shipped' = shipped \/ (ws.image # None /\ shipped' = shipped \cup {ws.image})
    BY <1>15 DEF Promote, At, Goto
  <2>2. shipped' \subseteq 1..built
    BY <1>2, <1>13, <2>1 DEF Workspaces
  <2>3. retries = 0 /\ cfg.scan => shipped' \subseteq shipped \cup scanned
    BY <1>3, <2>1 DEF Accounted
  <2>4. retries = 0 => Here'
    BY <1>3, <1>9, <2>1 DEF Inherits
  <2> HIDE DEF Here
  <2> QED BY <1>8, <2>1, <2>2, <2>3, <2>4
<1>16. CASE RecordTags
  <2>1. /\ pc \in {"tagged", "partly tagged"} /\ pc' # "promote" /\ UNCHANGED shipped
        /\ UpdateState(WithFact(Visible, "publish", "tags"))
    BY <1>16 DEF RecordTags, Goto, history
  <2> DEFINE state == WithFact(Visible, "publish", "tags")
  <2>2. state \in States /\ \A k \in Subsystems \ {"publish"} : state.subs[k] = Visible.subs[k]
    BY <1>7, WithFactIs, Zenon
  <2> HIDE DEF state
  <2>3. \A k \in ByPerform \cup ByReview : state.subs[k] = Visible.subs[k]
    BY <1>5, <2>2
  <2> QED BY <1>10, <2>1, <2>2, <2>3 DEF state
<1>17. CASE RecordPublish
  <2> DEFINE outcome == IF pc = "published" THEN "success" ELSE "failed"
  <2>1. /\ pc \in {"published", "unpublished"} /\ pc' # "promote" /\ UNCHANGED shipped
        /\ UpdateState(With(Visible, "publish", Life(outcome, FALSE, FALSE)))
    BY <1>17 DEF RecordPublish, Goto, history
  <2>2. outcome \in {"success", "failed", "skipped", "not_applicable"}
    OBVIOUS
  <2> HIDE DEF outcome
  <2> QED BY <1>11, <2>1, <2>2
<1>18. CASE ReleaseStart \/ RunReleaseCreate
  <2>1. UNCHANGED shipped /\ pc \in {"release", "releasing"} /\ pc' \in {"fail", "tail", "releasing"}
    BY <1>18 DEF ReleaseStart, RunReleaseCreate, At, Goto, history
  <2>2. \/ UNCHANGED <<ws, faults>>
        \/ \E outcome \in {"success", "failed", "skipped", "not_applicable"}, k \in BOOLEAN :
             UpdateState(With(Visible, "release", Life(outcome, b, k)))
    BY <1>18 DEF ReleaseStart, RunReleaseCreate, Release
  <2>3. CASE UNCHANGED <<ws, faults>>
    <3>1. retries = 0 => ws.file # NoFile
      BY <1>3, <2>1 DEF Inherits
    <3>2. retries = 0 => Here'
      BY <1>9, <2>1, <2>3, <3>1
    <3> HIDE DEF Here
    <3> QED BY <1>8, <1>13, <2>1, <2>3, <3>2
  <2> HIDE DEF b
  <2>4. CASE \E outcome \in {"success", "failed", "skipped", "not_applicable"}, k \in BOOLEAN :
               UpdateState(With(Visible, "release", Life(outcome, b, k)))
    BY <1>11, <1>12, <2>1, <2>4
  <2> QED BY <2>2, <2>3, <2>4
<1>19. CASE PublishTail
  <2>1. pc = "tail" /\ pc' \in {"ok", "fail"} /\ UNCHANGED <<ws, faults, shipped>>
    BY <1>19 DEF PublishTail, At, Goto, history
  <2>2. retries = 0 => ws.file # NoFile
    BY <1>3, <2>1 DEF Inherits
  <2>3. retries = 0 => Here'
    BY <1>9, <2>1, <2>2
  <2> HIDE DEF Here
  <2> QED BY <1>8, <1>13, <2>1, <2>3
<1> HIDE DEF Here
<1> QED BY <1>14, <1>15, <1>16, <1>17, <1>18, <1>19

(* A status narrate announces as passing knows of no failure.               *)
LEMMA StatusIs ==
  ASSUME NEW state \in States
  PROVE  /\ PipelineStatus(state) \in {"unknown", "passing", "warning", "failing"}
         /\ PipelineStatus(state) = "passing" => \A s \in Subsystems : ~Fails(state.subs[s])
<1> DEFINE A == {s \in Subsystems : state.subs[s] # Absent /\ state.subs[s].life.attempted}
           F == {s \in A : state.subs[s].life.outcome \in {"failed", "cancelled"}}
           W == {s \in A : state.subs[s].life.outcome = "warning"}
           v == CASE A = {}                                           -> "unknown"
                  [] \E s \in F : ~state.subs[s].life.allowFailure -> "failing"
                  [] F \cup W # {}                                    -> "warning"
                  [] OTHER                                            -> "passing"
<1>1. PipelineStatus(state) = v
  BY DEF PipelineStatus
<1>2. \A s \in Subsystems : Fails(state.subs[s]) => s \in F
  <2>1. \A s \in Subsystems : state.subs[s] \in Records
    BY DEF States, Fragments
  <2>2. \A s \in Subsystems : Fails(state.subs[s]) => state.subs[s].life.attempted
    BY <2>1 DEF Fails, Records
  <2> QED BY <2>2 DEF Fails
<1>3. F \subseteq A
  OBVIOUS
<1> HIDE DEF A, F, W
<1>4. v \in {"unknown", "passing", "warning", "failing"}
  OBVIOUS
<1>5. v = "passing" => F = {}
  <2>1. CASE \E s \in F : ~state.subs[s].life.allowFailure
    BY <1>3, <2>1
  <2>2. CASE ~\E s \in F : ~state.subs[s].life.allowFailure
    BY <1>3, <2>2
  <2> QED BY <2>1, <2>2
<1> HIDE DEF v
<1> QED BY <1>1, <1>2, <1>4, <1>5

(* narrate's steps keep it: the badge is computed from records that the    *)
(* finished jobs' ends bear out.                                           *)
LEMMA NarrateLedger ==
  ASSUME LedgerInv, NarrateStart \/ assertRequiredEvidence \/ Announce
  PROVE  LedgerInv'
<1> DEFINE Sure == /\ Succeeds(Told(ws, "build")) => status["perform"] = "success"
                   /\ Succeeds(Told(ws, "security")) => status["review"] = "success"
                   /\ Forge = "gitlab" =>
                        \A j \in Needs["narrate"], s \in Subsystems : Tells(j, s) => Fails(Told(ws, s))
           Here == /\ ws.file = NoFile => pc \in {"start", "fail"}
                   /\ ws.file # NoFile =>
                        /\ Sure
                        /\ pc = "announce" /\ cfg.mode = "image" /\ "narrate" \notin faults =>
                             Told(ws, "build") # Absent /\ Told(ws, "security") # Absent
<1>1. job = "narrate" /\ job # None /\ UNCHANGED <<forge, verdict, built, scanned, shipped>>
  BY Names DEF NarrateStart, assertRequiredEvidence, Announce, At, history, Jobs
<1>2. Typed /\ ws \in Workspaces(built) /\ UNCHANGED <<cfg, status, art>>
  BY <1>1 DEF LedgerInv, Typed, forge
<1>3. retries = 0 => Here
  <2>1. retries = 0 => NarrateRuns
    BY DEF LedgerInv, Running
  <2> QED BY <1>1, <2>1 DEF NarrateRuns
<1>4. Here' => NarrateRuns'
  BY DEF NarrateRuns
<1>5. {"build", "security"} \subseteq Subsystems \ {"publish"}
  BY Names
<1>6. /\ Visible \in States
      /\ ws.file # NoFile => Visible.doc = ws.file.doc
      /\ \A s \in Subsystems :
           /\ Visible.subs[s] = Absent <=> Told(ws, s) = Absent
           /\ Told(ws, s) # Absent => Visible.subs[s].life = Told(ws, s).life
           /\ s # "publish" => Visible.subs[s] = Told(ws, s)
  BY <1>2, VisibleTold
<1>7. \A j, s : Tells(j, s)' = Tells(j, s)
  BY <1>2 DEF Tells
\* A write that neither forgets a failure nor claims a success.
<1>8. ASSUME NEW state \in States, UpdateState(state), UNCHANGED narration,
             ~NoLedger, pc' \in {"evidence", "announce"},
             \A s \in Subsystems : Fails(Told(ws, s)) => Fails(state.subs[s]),
             \A s \in {"build", "security"} : Succeeds(state.subs[s]) => Succeeds(Told(ws, s)),
             pc' = "announce" /\ cfg.mode = "image" => \A s \in {"build", "security"} : state.subs[s] # Absent
      PROVE  LedgerInv'
  <2>1. Steps
    BY <1>1, <1>2, <1>8, UpdateSteps
  <2>2. ASSUME retries = 0 PROVE Here'
    <3>1. ws.file # NoFile
      BY <1>8 DEF NoLedger
    <3>2. /\ \A s \in Subsystems : Told(ws', s) \in {Told(ws, s), state.subs[s]}
          /\ ws'.file = NoFile => ws.file = NoFile
          /\ job \notin faults' => \A s \in Subsystems : state.subs[s] # Absent => Told(ws', s) = state.subs[s]
      BY <1>2, <1>8, <3>1, UpdateTold
    <3>3. Sure
      BY <1>3, <2>2, <3>1
    <3>4. \A s \in Subsystems : Fails(Told(ws, s)) => Fails(Told(ws', s))
      BY <1>8, <3>2
    <3>5. \A s \in {"build", "security"} : Succeeds(Told(ws', s)) => Succeeds(Told(ws, s))
      BY <1>5, <1>8, <3>2
    <3>6. Sure'
      BY <1>2, <1>7, <3>3, <3>4, <3>5
    <3>7. pc' = "announce" /\ cfg.mode = "image" /\ "narrate" \notin faults' =>
            Told(ws', "build") # Absent /\ Told(ws', "security") # Absent
      BY <1>1, <1>5, <1>8, <3>2
    <3> HIDE DEF Sure
    <3> QED BY <1>2, <3>1, <3>2, <3>6, <3>7
  <2> HIDE DEF Here
  <2> QED BY <1>1, <1>4, <1>8, <2>1, <2>2, NarrateAlone, StepQuiet
<1>9. ASSUME UNCHANGED <<ws, faults>>, retries = 0 => Here', retries = 0 => Kept',
             narration' \in {"unknown", "passing", "warning", "failing", None}
      PROVE  LedgerInv'
  <2>1. Steps
    BY <1>1, <1>2, <1>9, IdleSteps
  <2>2. /\ verdict' \in Contracts \cup {None} /\ scanned' \subseteq 1..built' /\ shipped' \subseteq 1..built'
    BY <1>1, <1>2 DEF Typed
  <2> HIDE DEF Here
  <2> QED BY <1>1, <1>4, <1>9, <2>1, <2>2, NarrateAlone, StepLedger
<1>10. ASSUME UNCHANGED <<ws, faults, narration>>, retries = 0 => Here'
       PROVE  LedgerInv'
  <2>1. Steps
    BY <1>1, <1>2, <1>10, IdleSteps
  <2> HIDE DEF Here
  <2> QED BY <1>1, <1>4, <1>10, <2>1, NarrateAlone, StepQuiet
<1>11. CASE NarrateStart
  <2>1. CASE NoLedger /\ pc' = "fail" /\ UNCHANGED <<ws, faults>>
    <3>1. UNCHANGED narration
      BY <1>11 DEF NarrateStart, history
    <3>2. retries = 0 => Here'
      BY <2>1 DEF NoLedger
    <3> QED BY <1>10, <2>1, <3>1, <3>2
  <2>2. CASE ~NoLedger /\ pc' = "evidence" /\ UpdateState(Visible)
    <3>1. UNCHANGED narration
      BY <1>11 DEF NarrateStart, history
    <3>2. \A s \in Subsystems : Fails(Told(ws, s)) => Fails(Visible.subs[s])
      BY <1>6 DEF Fails
    <3>3. \A s \in {"build", "security"} : Succeeds(Visible.subs[s]) => Succeeds(Told(ws, s))
      BY <1>5, <1>6
    <3> QED BY <1>6, <1>8, <2>2, <3>1, <3>2, <3>3
  <2> HIDE DEF Here
  <2> QED BY <1>11, <2>1, <2>2 DEF NarrateStart, Goto
<1>12. CASE assertRequiredEvidence
  <2>0. pc = "evidence" /\ pc' = "announce" /\ UNCHANGED narration
    BY <1>12 DEF assertRequiredEvidence, At, Goto, history
  <2>1. CASE cfg.mode = "reconcile" /\ UNCHANGED <<ws, faults>>
    <3>1. retries = 0 => Here'
      BY <1>2, <1>3, <1>7, <2>0, <2>1
    <3> HIDE DEF Here
    <3> QED BY <1>10, <2>0, <2>1, <3>1
  <2> DEFINE failed == [life |-> Life("failed", FALSE, FALSE), results |-> {}]
             subs == [s \in Subsystems |-> IF Missing(s) THEN failed ELSE GetSubsystem(s)]
             state == [subs |-> subs, doc |-> Visible.doc]
  <2>2. CASE UpdateState(state)
    <3>1. failed \in Records /\ failed # Absent /\ Fails(failed) /\ failed.results = {}
      <4>1. Life("failed", FALSE, FALSE) \in Lives /\ Life("failed", FALSE, FALSE).outcome = "failed"
            /\ Life("failed", FALSE, FALSE).attempted
        BY LifeIs
      <4> QED BY <4>1, RecordIsThere DEF Fails
    <3> HIDE DEF failed
    <3>2. \A s \in Subsystems : subs[s] = IF Missing(s) THEN failed ELSE Visible.subs[s]
      BY DEF GetSubsystem
    <3>3. \A s \in Subsystems : Missing(s) => s \in {"build", "security"} /\ Told(ws, s) = Absent
      BY <1>6 DEF Missing, GetSubsystem
    <3>4. \A s \in {"build", "security"} : Told(ws, s) = Absent => Missing(s)
      BY <1>5, <1>6 DEF Missing, GetSubsystem
    <3>5. subs \in Fragments
      <4>1. \A s \in Subsystems : subs[s] \in Records /\ (s # "publish" => (subs[s] # Absent => subs[s].results = {}))
        BY <1>6, <3>1, <3>2 DEF States, Fragments
      <4>2. subs = [s \in Subsystems |-> subs[s]]
        OBVIOUS
      <4> HIDE DEF subs
      <4> QED BY <4>1, <4>2 DEF Fragments
    <3> HIDE DEF subs
    <3>6. state \in States /\ state.subs = subs
      BY <1>6, <3>5 DEF States
    <3> HIDE DEF state
    <3>7. \A s \in Subsystems : Fails(Told(ws, s)) => Fails(state.subs[s])
      BY <1>6, <3>2, <3>3, <3>6 DEF Fails
    <3>8. \A s \in {"build", "security"} : Succeeds(state.subs[s]) => Succeeds(Told(ws, s))
      BY <1>5, <1>6, <3>1, <3>2, <3>6 DEF Fails, Succeeds
    <3>9. \A s \in {"build", "security"} : state.subs[s] # Absent
      BY <1>5, <1>6, <3>1, <3>2, <3>4, <3>6
    <3>10. CASE ~NoLedger
      BY <1>8, <2>0, <2>2, <3>6, <3>7, <3>8, <3>9, <3>10
    <3>11. CASE NoLedger
      <4>1. retries # 0
        BY <1>3, <2>0, <3>11 DEF NoLedger
      <4>2. Steps
        BY <1>1, <1>2, <2>2, <3>6, UpdateSteps
      <4> QED BY <1>1, <2>0, <4>1, <4>2, StepQuiet
    <3> QED BY <3>10, <3>11
  <2> HIDE DEF Here
  <2> QED BY <1>12, <2>1, <2>2 DEF assertRequiredEvidence
<1>13. CASE Announce
  <2>1. /\ pc = "announce" /\ pc' = "ok" /\ UNCHANGED <<ws, faults>>
        /\ narration' = PipelineStatus(Visible)
    BY <1>13 DEF Announce, At, Goto
  <2>2. /\ narration' \in {"unknown", "passing", "warning", "failing"}
        /\ narration' = "passing" => \A s \in Subsystems : ~Fails(Visible.subs[s])
    BY <1>6, <2>1, StatusIs
  <2>3. narration' = "passing" => \A s \in Subsystems : ~Fails(Told(ws, s))
    BY <1>6, <2>2 DEF Fails
  <2>4. ASSUME retries = 0
        PROVE  Here' /\ Kept'
    <3>1. ws.file # NoFile /\ Sure
      BY <1>3, <2>1, <2>4
    <3>2. Here'
      BY <1>2, <1>7, <2>1, <3>1
    <3>3. UnscannedNeverShips'
      BY <1>1, <1>2, <2>4 DEF LedgerInv, Kept, UnscannedNeverShips
    <3>4. NarrateHonest'
      <4>1. ASSUME cfg.mode = "image", narration' = "passing", "narrate" \notin faults
            PROVE  status["perform"] = "success" /\ status["review"] = "success"
        <5>1. Told(ws, "build") # Absent /\ Told(ws, "security") # Absent
          BY <1>3, <2>1, <2>4, <3>1, <4>1
        <5>2. Succeeds(Told(ws, "build")) /\ Succeeds(Told(ws, "security"))
          BY <1>5, <2>3, <4>1, <5>1 DEF Fails, Succeeds
        <5> QED BY <3>1, <5>2
      <4> QED BY <1>2, <2>1, <4>1 DEF NarrateHonest
    <3>5. Forge = "gitlab" => FailuresNarrated'
      BY <1>7, <2>3, <3>1 DEF FailuresNarrated
    <3> QED BY <3>2, <3>3, <3>4, <3>5 DEF Kept
  <2> HIDE DEF Here
  <2> QED BY <1>9, <2>1, <2>2, <2>4
<1> HIDE DEF Here
<1> QED BY <1>11, <1>12, <1>13

-----------------------------------------------------------------------------
(* The forge.  What a job uploads when it ends is what it leaves.           *)
LEMMA EndTyped ==
  ASSUME Typed, NEW result \in {"success", "failed", "killed"}, NEW uploaded \in BOOLEAN, EndJob(result, uploaded)
  PROVE  /\ Typed' /\ job \in Jobs /\ status[job] = "running" /\ job' = None
         /\ \A j \in Jobs \ {job} : Left(j)' = Left(j)
         /\ \A j \in Jobs : status'[j] = IF j = job THEN result ELSE status[j]
         /\ \A j \in Jobs : j # job => art'[j] = art[j]
         /\ \A j \in Jobs : j = job => Left(j)' \in {Upload(j, ws), EmptyWorkspace}
<1>1. /\ job \in Jobs /\ status[job] = "running" /\ job' = None
      /\ UNCHANGED <<cfg, cancelled, faults, retries, verdict, built, scanned, shipped, converged, narration>>
  BY DEF EndJob, Typed, history
<1>2. \A j \in Jobs : status'[j] = IF j = job THEN result ELSE status[j]
  BY DEF EndJob, Typed
<1>3. /\ DOMAIN art' = Jobs /\ \A j \in Jobs : j # job => art'[j] = art[j]
      /\ art'[job] = IF uploaded THEN Upload(job, ws) ELSE None
  BY <1>1 DEF EndJob, Typed
<1>4. Upload(job, ws) \in Workspaces(built) \cup {None}
  <2>1. ws \in Workspaces(built)
    BY DEF Typed
  <2>2. [file |-> NoFile, shards |-> ws.shards, image |-> None] \in Workspaces(built)
    BY <2>1 DEF Workspaces
  <2> QED BY <2>1, <2>2 DEF Upload
<1>5. Typed'
  <2>1. status' \in [Jobs -> {"created", "running", "success", "failed", "killed", "skipped"}]
    BY DEF EndJob, Typed
  <2>2. ws' \in Workspaces(built)
    BY EmptyTyped DEF EndJob
  <2>3. \A j \in Jobs : art'[j] # None => art'[j] \in Workspaces(built)
    BY <1>3, <1>4 DEF Typed
  <2>4. Mishaps' = Mishaps
    BY <1>1 DEF Mishaps
  <2>5. job' \in Jobs \cup {None} /\ (job' # None => status'[job'] = "running")
    BY <1>1
  <2> QED BY <1>1, <1>3, <2>1, <2>2, <2>3, <2>4, <2>5 DEF Typed
<1>6. \A j \in Jobs \ {job} : Left(j)' = Left(j)
  BY <1>3 DEF Left
<1>7. ASSUME NEW j \in Jobs, j = job
      PROVE  Left(j)' \in {Upload(j, ws), EmptyWorkspace}
  BY <1>3, <1>7 DEF Left
<1> QED BY <1>1, <1>2, <1>3, <1>5, <1>6, <1>7

(* When a job ends, what it uploads is what the later jobs may rely on.    *)
LEMMA EndUploaded ==
  ASSUME LedgerInv, retries = 0, NEW result \in {"success", "failed", "killed"}, NEW uploaded \in BOOLEAN,
         EndJob(result, uploaded), pc = "ok" => result = "success"
  PROVE  Uploaded'
<1>1. /\ job \in Jobs /\ status[job] = "running"
      /\ \A j \in Jobs \ {job} : Left(j)' = Left(j)
      /\ \A j \in Jobs : status'[j] = IF j = job THEN result ELSE status[j]
      /\ \A j \in Jobs : j # job => art'[j] = art[j]
      /\ \A j \in Jobs : j = job => Left(j)' \in {Upload(j, ws), EmptyWorkspace}
  BY EndTyped DEF LedgerInv
<1>2. UNCHANGED <<cfg, scanned>>
  BY DEF EndJob, history
<1>3. {"audition", "perform", "review", "publish"} \subseteq Jobs
  BY DEF Jobs
<1>4. /\ EmptyWorkspace.file = NoFile /\ EmptyWorkspace.image = None
      /\ \A s \in Subsystems : EmptyWorkspace.shards[s] = Absent
      /\ \A s \in Subsystems : Told(EmptyWorkspace, s) = Absent
  BY DEF EmptyWorkspace, NoSubsystems, Told
<1>5. \A S : Holds(EmptyWorkspace, S)
  BY <1>4 DEF Holds
<1>6. Uploaded /\ Running /\ InOrder /\ Typed
  BY DEF LedgerInv
<1>7. {"audition", "build", "security"} \subseteq Subsystems
      /\ ByPerform \subseteq Subsystems /\ ByReview \subseteq Subsystems
  BY Names
\* Jobs that ended before others started: later ones left nothing yet.
<1>8. ASSUME NEW j \in Jobs, NEW k \in Jobs, j \in Needs[k], j = job
      PROVE  status[k] = "created" /\ Left(k) = EmptyWorkspace
  <2>1. status[k] = "created"
    BY <1>1, <1>6, <1>8 DEF InOrder, Done
  <2>2. art[k] = None
    BY <1>6, <2>1 DEF InOrder, Done
  <2> QED BY <2>1, <2>2 DEF Left
<1>9. CASE job = "audition"
  <2>1. Left("audition")' \in {ws, EmptyWorkspace}
    BY <1>1, <1>3, <1>9 DEF Upload
  <2>2. AuditionLeft'
    BY <1>4, <1>5, <1>6, <1>9, <2>1 DEF Running, AuditionRuns, AuditionLeft
  <2>3. /\ \A j \in {"perform", "review", "publish"} : Left(j)' = Left(j)
        /\ \A j \in {"perform", "review", "publish"} : status'[j] = status[j]
    BY <1>1, <1>3, <1>9
  <2>4. PerformLeft' /\ ReviewLeft' /\ PublishLeft'
    BY <1>2, <1>6, <2>3 DEF Uploaded, PerformLeft, ReviewLeft, PublishLeft, ImageTrue, Accounted
  <2> QED BY <2>2, <2>4 DEF Uploaded
<1>10. CASE job = "perform"
  <2>1. Left("perform")' \in {ws, EmptyWorkspace} /\ status'["perform"] = result
    BY <1>1, <1>3, <1>10 DEF Upload
  <2>2. /\ Left("audition")' = Left("audition")
        /\ \A j \in {"review", "publish"} : Left(j)' = Left(j) /\ status'[j] = status[j]
    BY <1>1, <1>3, <1>10
  <2>3. Left("review") = EmptyWorkspace /\ Left("publish") = EmptyWorkspace
    BY <1>3, <1>8, <1>10 DEF Needs
  <2>4. PerformLeft'
    <3>1. Holds(ws, ByPerform) /\ ImageTrue(ws) /\ (Succeeds(Told(ws, "build")) => pc = "ok")
      BY <1>6, <1>10 DEF Running, PerformRuns
    <3>2. CASE Left("perform")' = EmptyWorkspace
      BY <1>4, <1>5, <1>7, <3>2 DEF PerformLeft, ImageTrue, Succeeds
    <3>3. CASE Left("perform")' = ws
      BY <1>2, <2>1, <3>1, <3>3 DEF PerformLeft, ImageTrue
    <3> QED BY <2>1, <3>2, <3>3
  <2>5. AuditionLeft'
    BY <1>6, <2>2 DEF Uploaded, AuditionLeft
  <2>6. ReviewLeft'
    BY <1>4, <1>7, <2>2, <2>3 DEF ReviewLeft, Succeeds
  <2>7. PublishLeft'
    BY <1>4, <1>7, <2>2, <2>3 DEF PublishLeft
  <2> QED BY <2>4, <2>5, <2>6, <2>7 DEF Uploaded
<1>11. CASE job = "review"
  <2> DEFINE p == Left("perform")
             r == Left("review")
             u == [file |-> NoFile, shards |-> ws.shards, image |-> None]
  <2>1. r' \in {u, EmptyWorkspace} /\ status'["review"] = result
    BY <1>1, <1>3, <1>11 DEF Upload
  <2>2. /\ Left("audition")' = Left("audition") /\ p' = p /\ Left("publish")' = Left("publish")
        /\ \A j \in {"perform", "publish"} : status'[j] = status[j]
    BY <1>1, <1>3, <1>11
  <2>3. Left("publish") = EmptyWorkspace
    BY <1>3, <1>8, <1>11 DEF Needs
  <2>4. AuditionLeft' /\ PerformLeft'
    BY <1>2, <1>6, <2>2 DEF Uploaded, AuditionLeft, PerformLeft, ImageTrue
  <2>5. PublishLeft'
    BY <1>4, <1>7, <2>2, <2>3 DEF PublishLeft
  <2>6. ReviewLeft'
    <3>1. /\ Inherits /\ Holds(ws, ByPerform \cup ByReview)
          /\ Succeeds(Told(ws, "security")) => pc = "ok" /\ Accounted(ws.image)
      BY <1>6, <1>11 DEF Running, ReviewRuns
    <3>2. /\ \A s \in ByPerform : Told(ws, s) = Told(p, s)
          /\ ws.image = p.image /\ (p.file = NoFile => ws.file = NoFile)
      BY <3>1 DEF Inherits
    <3>3. \A s \in Subsystems : ws.shards[s] \in {Absent, Told(ws, s)}
      BY <3>1 DEF Holds, Told
    <3>4. CASE r' = EmptyWorkspace
      BY <1>4, <1>7, <3>4 DEF ReviewLeft, Succeeds
    <3>5. CASE r' = u
      <4> HIDE DEF p, r
      <4>1. u.file = NoFile /\ u.image = None /\ u.shards = ws.shards
        OBVIOUS
      <4> HIDE DEF u
      <4>2. \A s \in ByPerform : r'.shards[s] \in {Absent, Told(p, s)}
        BY <1>7, <3>2, <3>3, <3>5, <4>1
      <4>3. \A s \in Subsystems \ (ByPerform \cup ByReview) : r'.shards[s] = Absent
        BY <3>1, <3>5, <4>1 DEF Holds
      <4>4. p.file = NoFile => \A s \in ByReview : r'.shards[s] = Absent
        BY <1>7, <3>1, <3>2, <3>5, <4>1 DEF Holds
      <4>5. Succeeds(r'.shards["security"]) => result = "success" /\ Accounted(p.image)
        <5>1. Succeeds(r'.shards["security"]) => Succeeds(Told(ws, "security"))
          BY <1>7, <3>3, <3>5, <4>1 DEF Succeeds
        <5> QED BY <3>1, <3>2, <5>1
      <4>6. r'.file = NoFile /\ r'.image = None
        BY <3>5, <4>1
      <4>7. Accounted(p.image) => Accounted(p.image)'
        BY <1>2, <2>2 DEF Accounted
      <4> QED BY <2>1, <2>2, <4>2, <4>3, <4>4, <4>5, <4>6, <4>7 DEF ReviewLeft, p, r
    <3> QED BY <2>1, <3>4, <3>5
  <2> QED BY <2>4, <2>5, <2>6 DEF Uploaded
<1>12. CASE job = "publish"
  <2> DEFINE p == Left("perform")
             r == Left("review")
             q == Left("publish")
             u == [file |-> NoFile, shards |-> ws.shards, image |-> None]
  <2>1. q' \in {u, EmptyWorkspace}
    BY <1>1, <1>3, <1>12 DEF Upload
  <2>2. /\ Left("audition")' = Left("audition") /\ p' = p /\ r' = r
        /\ \A j \in {"perform", "review"} : status'[j] = status[j]
    BY <1>1, <1>3, <1>12
  <2>3. AuditionLeft' /\ PerformLeft' /\ ReviewLeft'
    BY <1>2, <1>6, <2>2 DEF Uploaded, AuditionLeft, PerformLeft, ReviewLeft, ImageTrue, Accounted
  <2>4. PublishLeft'
    <3>1. Inherits /\ Holds(ws, Subsystems) /\ \A s \in ByReview : Told(ws, s) = r.shards[s]
      BY <1>6, <1>12 DEF Running, PublishRuns
    <3>2. \A s \in ByPerform : Told(ws, s) = Told(p, s)
      BY <3>1 DEF Inherits
    <3>3. \A s \in Subsystems : ws.shards[s] \in {Absent, Told(ws, s)}
      BY <3>1 DEF Holds, Told
    <3>4. CASE q' = EmptyWorkspace
      BY <1>4, <1>7, <3>4 DEF PublishLeft
    <3>5. CASE q' = u
      <4> HIDE DEF p, r, q
      <4>1. u.file = NoFile /\ u.image = None /\ u.shards = ws.shards
        OBVIOUS
      <4> HIDE DEF u
      <4>2. \A s \in ByPerform : q'.shards[s] \in {Absent, Told(p, s)}
        BY <1>7, <3>2, <3>3, <3>5, <4>1
      <4>3. \A s \in ByReview : q'.shards[s] \in {Absent, r.shards[s]}
        BY <1>7, <3>1, <3>3, <3>5, <4>1
      <4>4. q'.file = NoFile /\ q'.image = None
        BY <3>5, <4>1
      <4> QED BY <2>2, <4>2, <4>3, <4>4 DEF PublishLeft, p, r, q
    <3> QED BY <2>1, <3>4, <3>5
  <2> QED BY <2>3, <2>4 DEF Uploaded
<1>13. CASE job = "narrate"
  <2>1. /\ \A j \in {"audition", "perform", "review", "publish"} : Left(j)' = Left(j)
        /\ \A j \in {"audition", "perform", "review", "publish"} : status'[j] = status[j]
    BY <1>1, <1>3, <1>13
  <2> QED BY <1>2, <1>6, <2>1
     DEF Uploaded, AuditionLeft, PerformLeft, ReviewLeft, PublishLeft, ImageTrue, Accounted
<1> QED BY <1>1, <1>9, <1>10, <1>11, <1>12, <1>13 DEF Jobs

(* Once narrate has announced, the jobs it needs are over.                  *)
LEMMA AnnouncedLast ==
  ASSUME Typed, InOrder, narration = "passing", NEW j \in Needs["narrate"]
  PROVE  j \in Jobs /\ Done(j)
<1>1. narration # None /\ "narrate" \in Jobs
  BY EncodingAssumption DEF Jobs
<1>2. status["narrate"] # "created"
  BY <1>1 DEF InOrder
<1> QED BY <1>1, <1>2 DEF InOrder, Needs, Jobs

(* So a job that ends, by itself or killed, keeps the ledger invariant.    *)
LEMMA EndLedger ==
  ASSUME LedgerInv, NEW result \in {"success", "failed", "killed"}, NEW uploaded \in BOOLEAN,
         EndJob(result, uploaded), pc = "ok" => result = "success"
  PROVE  LedgerInv'
<1>1. /\ Typed' /\ job \in Jobs /\ status[job] = "running" /\ job' = None
      /\ \A j \in Jobs : status'[j] = IF j = job THEN result ELSE status[j]
      /\ \A j \in Jobs : j # job => art'[j] = art[j]
  BY EndTyped DEF LedgerInv
<1>2. UNCHANGED <<cfg, faults, retries, narration, scanned, shipped>>
  BY DEF EndJob, history
<1>3. ASSUME retries = 0 PROVE InOrder' /\ Uploaded' /\ Running' /\ Kept'
  <2>0. Typed /\ InOrder /\ Uploaded /\ Running /\ Kept
    BY <1>3 DEF LedgerInv
  <2>1. Uploaded'
    BY <1>3, EndUploaded
  <2>2. Running'
    BY <1>1, Names DEF Running, AuditionRuns, PerformRuns, ReviewRuns, PublishRuns, NarrateRuns, Jobs
  <2>3. \A j \in Jobs : Done(j) => j # job /\ Done(j)'
    BY <1>1 DEF Done
  <2>4. InOrder'
    <3>1. \A k \in Jobs : Needs[k] \subseteq Jobs
      BY DEF Needs, Jobs
    <3>2. \A k \in Jobs : status'[k] # "created" => \A n \in Needs[k] : Done(n)'
      BY <1>1, <2>0, <2>3, <3>1 DEF InOrder
    <3>3. \A k \in Jobs : art'[k] # None => Done(k)'
      <4>1. \A k \in Jobs : k = job => Done(k)'
        BY <1>1 DEF Done
      <4> QED BY <1>1, <2>0, <2>3, <4>1 DEF InOrder
    <3>4. narration' # None => status'["narrate"] # "created"
      BY <1>1, <1>2, <2>0 DEF InOrder, Jobs
    <3> QED BY <3>2, <3>3, <3>4 DEF InOrder
  <2>5. ASSUME narration = "passing", NEW j \in Needs["narrate"]
        PROVE  status'[j] = status[j] /\ art'[j] = art[j]
    BY <1>1, <2>0, <2>3, <2>5, AnnouncedLast
  <2>6. UnscannedNeverShips'
    BY <1>2, <2>0 DEF Kept, UnscannedNeverShips
  <2>7. NarrateHonest'
    <3>1. {"perform", "review"} \subseteq Needs["narrate"]
      BY DEF Needs
    <3> QED BY <1>2, <2>0, <2>5, <3>1 DEF Kept, NarrateHonest
  <2>8. Forge = "gitlab" => FailuresNarrated'
    BY <1>2, <2>0, <2>5 DEF Kept, FailuresNarrated, Tells
  <2> QED BY <2>1, <2>2, <2>4, <2>6, <2>7, <2>8 DEF Kept
<1> QED BY <1>1, <1>2, <1>3 DEF LedgerInv

(* A job that starts or is skipped has left nothing, nor have later ones.   *)
LEMMA ReadyLedger ==
  ASSUME LedgerInv, retries = 0, NEW j \in Jobs, Ready(j), NEW new \in {"running", "skipped"},
         status' = [status EXCEPT ![j] = new],
         UNCHANGED <<cfg, art, faults, narration, scanned, shipped>>
  PROVE  InOrder' /\ Uploaded' /\ Kept' /\ \A k \in Jobs : Left(k)' = Left(k)
<1>0. Typed /\ InOrder /\ Uploaded /\ Kept
  BY DEF LedgerInv
<1>1. \A k \in Jobs : status'[k] = IF k = j THEN new ELSE status[k]
  BY <1>0 DEF Typed
<1>2. status[j] = "created" /\ \A n \in Needs[j] : Done(n)
  BY DEF Ready
<1>3. \A k \in Jobs : Done(k) => k # j /\ Done(k)' /\ status'[k] = status[k]
  BY <1>1, <1>2 DEF Done
<1>4. art[j] = None
  BY <1>0, <1>2 DEF InOrder, Done
<1>5. InOrder'
  <2>1. \A k \in Jobs : Needs[k] \subseteq Jobs
    BY DEF Needs, Jobs
  <2>2. \A k \in Jobs : status'[k] # "created" => \A n \in Needs[k] : Done(n)'
    BY <1>0, <1>1, <1>2, <1>3, <2>1 DEF InOrder
  <2>3. \A k \in Jobs : art'[k] # None => Done(k)'
    BY <1>0, <1>3 DEF InOrder
  <2>4. narration' # None => status'["narrate"] # "created"
    BY <1>0, <1>1 DEF InOrder, Jobs
  <2> QED BY <2>2, <2>3, <2>4 DEF InOrder
<1>6. \A k \in Jobs : Left(k)' = Left(k)
  BY DEF Left
<1>7. {"audition", "perform", "review", "publish"} \subseteq Jobs
  BY DEF Jobs
<1>8. Uploaded'
  <2>1. AuditionLeft' /\ PublishLeft'
    BY <1>0, <1>6, <1>7 DEF Uploaded, AuditionLeft, PublishLeft
  <2>2. PerformLeft'
    <3>1. Succeeds(Told(Left("perform"), "build")) => "perform" # j
      BY <1>4 DEF Left, EmptyWorkspace, Told, Succeeds
    <3> QED BY <1>0, <1>1, <1>6, <1>7, <3>1 DEF Uploaded, PerformLeft, ImageTrue
  <2>3. ReviewLeft'
    <3>1. Succeeds(Left("review").shards["security"]) => "review" # j
      BY <1>4, Names DEF Left, EmptyWorkspace, NoSubsystems, Succeeds
    <3> QED BY <1>0, <1>1, <1>6, <1>7, <3>1 DEF Uploaded, ReviewLeft, Accounted
  <2> QED BY <2>1, <2>2, <2>3 DEF Uploaded
<1>9. Kept'
  <2>1. ASSUME narration = "passing", NEW k \in Needs["narrate"]
        PROVE  status'[k] = status[k]
    BY <1>0, <1>3, <2>1, AnnouncedLast
  <2>2. {"perform", "review"} \subseteq Needs["narrate"]
    BY DEF Needs
  <2>3. NarrateHonest'
    BY <1>0, <2>1, <2>2 DEF Kept, NarrateHonest
  <2>4. UnscannedNeverShips' /\ (Forge = "gitlab" => FailuresNarrated')
    BY <1>0 DEF Kept, UnscannedNeverShips, FailuresNarrated, Tells
  <2> QED BY <2>3, <2>4 DEF Kept
<1> QED BY <1>5, <1>6, <1>8, <1>9

(* The workspace a job starts on is as its part of the ledger wants it.     *)
LEMMA StartRunning ==
  ASSUME LedgerInv, retries = 0, NEW j \in Jobs, job' = j, pc' = "start", ws' \in Downloads(j),
         UNCHANGED <<cfg, art>>, \A k \in Jobs : Left(k)' = Left(k),
         \A k \in Jobs \ {j} : status'[k] = status[k]
  PROVE  Running'
<1> DEFINE p == Left("perform")
           r == Left("review")
           q == Left("publish")
<1>0. Typed /\ Uploaded
  BY DEF LedgerInv
<1>1. {"audition", "perform", "review", "publish", "narrate"} \subseteq Jobs
  BY DEF Jobs
<1>2. /\ {"audition", "build", "security"} \subseteq Subsystems
      /\ ByPerform \subseteq Subsystems /\ ByReview \subseteq Subsystems
      /\ ByPerform \cap ByReview = {} /\ "build" \in ByPerform /\ "audition" \in ByPerform /\ "security" \in ByReview
  BY Names DEF ByPerform, ByReview
<1>3. CASE j = "audition"
  <2>1. Needs["audition"] = {}
    BY DEF Needs
  <2>2. ws'.file = NoFile /\ ws'.image = None /\ \A s \in Subsystems : ws'.shards[s] = Absent
    <3>1. /\ ws'.file # NoFile => \E m \in Needs["audition"] : ws'.file = Left(m).file
          /\ ws'.image # None => \E m \in Needs["audition"] : ws'.image = Left(m).image
          /\ \A s \in Subsystems : ws'.shards[s] # Absent => \E m \in Needs["audition"] : ws'.shards[s] = Left(m).shards[s]
      BY <1>1, <1>3, FetchedIs
    <3> QED BY <2>1, <3>1
  <2>3. AuditionRuns'
    BY <2>2 DEF AuditionRuns, Holds
  <2> QED BY <1>3, <2>3 DEF Running, PerformRuns, ReviewRuns, PublishRuns, NarrateRuns
<1>4. CASE j = "perform"
  <2>1. /\ ws'.file = Left("audition").file /\ ws'.image = Left("audition").image
        /\ \A s \in Subsystems : ws'.shards[s] = Left("audition").shards[s]
    BY <1>4, FetchedByPerform
  <2>2. Holds(Left("audition"), {"audition"}) /\ Left("audition").image = None
    BY <1>0 DEF Uploaded, AuditionLeft
  <2>3. Holds(ws', {"audition"}) /\ ws'.image = None
    BY <2>1, <2>2 DEF Holds
  <2>4. Holds(ws', ByPerform)
    BY <1>2, <2>3 DEF Holds
  <2>5. Told(ws', "build") = Absent
    BY <1>2, <2>3 DEF Holds, Told
  <2>6. PerformRuns'
    BY <2>3, <2>4, <2>5, <1>4 DEF PerformRuns, ImageTrue, Succeeds
  <2> QED BY <1>4, <2>6 DEF Running, AuditionRuns, ReviewRuns, PublishRuns, NarrateRuns
<1>5. CASE j = "review"
  <2>1. /\ ws'.file = p.file /\ ws'.image = p.image
        /\ \A s \in Subsystems : ws'.shards[s] = p.shards[s]
    BY <1>5, FetchedByReview
  <2>2. Holds(p, ByPerform) /\ ImageTrue(p) /\ p' = p
    BY <1>0, <1>1 DEF Uploaded, PerformLeft
  <2> HIDE DEF p
  <2>3. \A s \in Subsystems : Told(ws', s) = Told(p, s)
    BY <2>1 DEF Told
  <2>4. Holds(ws', ByPerform \cup ByReview) /\ Told(ws', "security") = Absent
    BY <1>2, <2>1, <2>2 DEF Holds, Told
  <2>5. ImageTrue(ws)'
    BY <1>2, <2>1, <2>2, <2>3 DEF ImageTrue
  <2>6. Inherits'
    BY <1>2, <2>1, <2>2, <2>3 DEF Inherits, p
  <2>7. ReviewRuns'
    BY <2>4, <2>5, <2>6 DEF ReviewRuns, Succeeds
  <2> QED BY <1>5, <2>7 DEF Running, AuditionRuns, PerformRuns, PublishRuns, NarrateRuns
<1>6. ASSUME j \in {"publish", "narrate"}
      PROVE  /\ ws'.file = p.file /\ ws'.image = p.image
             /\ p.file = NoFile => j = "narrate" \/ \A s \in Subsystems : ws'.shards[s] = Absent
             /\ \A s \in ByPerform : Told(ws', s) = Told(p, s)
             /\ j = "publish" => \A s \in ByReview : Told(ws', s) = r.shards[s]
             /\ \A s \in ByReview : Told(ws', s) \in {Absent, r.shards[s]}
             /\ p.file # NoFile /\ Forge = "gitlab" =>
                  \A m \in Needs["narrate"], s \in Subsystems :
                    j = "narrate" /\ Left(m).shards[s] # Absent => Told(ws', s) = Left(m).shards[s]
  <2>1. /\ {"perform", "review"} \subseteq Needs[j] /\ Needs[j] \subseteq {"perform", "review", "publish"}
        /\ j = "publish" => Needs[j] = {"perform", "review"}
    BY <1>6 DEF Needs
  <2>2. /\ ws'.file = p.file /\ ws'.image = p.image
        /\ \A s \in Subsystems, m \in Needs[j] :
             (m # "publish" \/ Forge = "gitlab") /\ Left(m).shards[s] # Absent => ws'.shards[s] = Left(m).shards[s]
        /\ \A s \in Subsystems : ws'.shards[s] # Absent => \E m \in Needs[j] : ws'.shards[s] = Left(m).shards[s]
    BY <1>0, <1>6, FetchedLater
  <2>3. Holds(p, ByPerform)
    BY <1>0 DEF Uploaded, PerformLeft
  <2>4. /\ \A s \in ByPerform : r.shards[s] \in {Absent, Told(p, s)}
        /\ \A s \in Subsystems \ (ByPerform \cup ByReview) : r.shards[s] = Absent
        /\ p.file = NoFile => \A s \in ByReview : r.shards[s] = Absent
    BY <1>0 DEF Uploaded, ReviewLeft
  <2>5. /\ \A s \in ByPerform : q.shards[s] \in {Absent, Told(p, s)}
        /\ \A s \in ByReview : q.shards[s] \in {Absent, r.shards[s]}
    BY <1>0 DEF Uploaded, PublishLeft
  <2>6. ASSUME NEW s \in Subsystems
        PROVE  /\ p.shards[s] # Absent => ws'.shards[s] = p.shards[s]
               /\ r.shards[s] # Absent => ws'.shards[s] = r.shards[s]
               /\ ws'.shards[s] \in {Absent, p.shards[s], r.shards[s], q.shards[s]}
               /\ j = "publish" => ws'.shards[s] \in {Absent, p.shards[s], r.shards[s]}
    BY <2>1, <2>2
  <2> HIDE DEF p, r, q
  <2>7. \A s \in ByPerform : Told(ws', s) = Told(p, s)
    <3>1. ASSUME NEW s \in ByPerform PROVE Told(ws', s) = Told(p, s)
      <4>1. /\ s \in Subsystems
            /\ r.shards[s] \in {Absent, Told(p, s)} /\ q.shards[s] \in {Absent, Told(p, s)}
        BY <1>2, <2>4, <2>5
      <4>2. CASE p.file = NoFile
        BY <2>2, <4>2 DEF Told
      <4>3. CASE p.file # NoFile
        BY <2>2, <2>6, <4>1, <4>3 DEF Told
      <4> QED BY <4>2, <4>3
    <3> QED BY <3>1
  <2>8. ASSUME NEW s \in ByReview
        PROVE  Told(ws', s) \in {Absent, r.shards[s]} /\ (j = "publish" => Told(ws', s) = r.shards[s])
    <3>1. /\ s \in Subsystems \ ByPerform /\ s \in Subsystems
          /\ p.shards[s] = Absent /\ (p.file # NoFile => p.file.subs[s] = Absent)
          /\ q.shards[s] \in {Absent, r.shards[s]} /\ (p.file = NoFile => r.shards[s] = Absent)
      BY <1>2, <2>3, <2>4, <2>5 DEF Holds
    <3>2. ws'.shards[s] \in {Absent, r.shards[s]} /\ (r.shards[s] # Absent => ws'.shards[s] = r.shards[s])
      BY <2>6, <3>1
    <3> QED BY <2>2, <3>1, <3>2 DEF Told
  <2>9. ASSUME p.file = NoFile, j = "publish", NEW s \in Subsystems
        PROVE  ws'.shards[s] = Absent
    <3>1. p.shards[s] = Absent
      BY <2>3, <2>9 DEF Holds
    <3>2. r.shards[s] = Absent
      BY <2>4, <2>9 DEF Told
    <3> QED BY <2>6, <2>9, <3>1, <3>2
  <2>10. ASSUME p.file # NoFile, Forge = "gitlab", j = "narrate",
                NEW m \in Needs["narrate"], NEW s \in Subsystems, Left(m).shards[s] # Absent
         PROVE  Told(ws', s) = Left(m).shards[s]
    BY <2>2, <2>10 DEF Told
  <2>11. p.file = NoFile => j = "narrate" \/ \A s \in Subsystems : ws'.shards[s] = Absent
    BY <1>6, <2>9
  <2> QED BY <2>2, <2>7, <2>8, <2>10, <2>11
<1>7. CASE j = "publish"
  <2>0. p' = p /\ r' = r
    BY <1>1
  <2> HIDE DEF p, r
  <2>1. Inherits'
    BY <1>6, <1>7, <2>0 DEF Inherits, p
  <2>2. Holds(ws', Subsystems)
    BY <1>6, <1>7 DEF Holds
  <2>3. \A s \in ByReview : Told(ws', s) = r'.shards[s]
    BY <1>6, <1>7, <2>0
  <2>4. PublishRuns'
    BY <2>1, <2>2, <2>3 DEF PublishRuns, r
  <2> QED BY <1>7, <2>4 DEF Running, AuditionRuns, PerformRuns, ReviewRuns, NarrateRuns
<1>8. CASE j = "narrate"
  <2>1. status'["perform"] = status["perform"] /\ status'["review"] = status["review"]
    BY <1>1, <1>8
  <2>2. Succeeds(Told(ws', "build")) => status'["perform"] = "success"
    BY <1>0, <1>2, <1>6, <1>8, <2>1 DEF Uploaded, PerformLeft
  <2>3. Succeeds(Told(ws', "security")) => status'["review"] = "success"
    <3>1. Told(ws', "security") \in {Absent, r.shards["security"]}
      BY <1>2, <1>6, <1>8
    <3>2. Succeeds(Told(ws', "security")) => Succeeds(r.shards["security"])
      BY <3>1 DEF Succeeds
    <3> QED BY <1>0, <2>1, <3>2 DEF Uploaded, ReviewLeft
  <2>4. ASSUME ws'.file # NoFile, Forge = "gitlab", NEW m \in Needs["narrate"], NEW s \in Subsystems, Tells(m, s)'
        PROVE  Fails(Told(ws', s))
    <3>1. art[m] # None /\ art[m].shards[s] # Absent /\ art[m].shards[s].life.outcome = "failed"
      BY <2>4 DEF Tells
    <3>2. Left(m) = art[m]
      BY <3>1 DEF Left
    <3>3. Told(ws', s) = art[m].shards[s]
      BY <1>6, <1>8, <2>4, <3>1, <3>2
    <3> QED BY <3>1, <3>3 DEF Fails
  <2>5. NarrateRuns'
    BY <2>2, <2>3, <2>4 DEF NarrateRuns
  <2> QED BY <1>8, <2>5 DEF Running, AuditionRuns, PerformRuns, ReviewRuns, PublishRuns
<1> QED BY <1>3, <1>4, <1>5, <1>7, <1>8 DEF Jobs

(* So does every step of the forge: starting, skipping, ending, killing,   *)
(* cancelling and retrying jobs.                                           *)
LEMMA ForgeLedger ==
  ASSUME LedgerInv, Scheduler \/ KillJob \/ CancelPipeline \/ \E j \in Jobs : RetryJob(j)
  PROVE  LedgerInv'
<1>1. ASSUME NEW j \in Jobs, StartJob(j) PROVE LedgerInv'
  <2>1. /\ Ready(j) /\ status' = [status EXCEPT ![j] = "running"] /\ job' = j /\ pc' = "start"
        /\ ws' \in Downloads(j)
        /\ UNCHANGED <<cfg, art, cancelled, faults, retries, verdict, built, scanned, shipped, narration>>
    BY <1>1 DEF StartJob, history
  <2>2. Typed'
    <3>1. ws' \in Workspaces(built)
      BY <2>1, FetchedTyped DEF LedgerInv
    <3>2. Mishaps' = Mishaps
      BY <2>1 DEF Mishaps
    <3> QED BY <2>1, <3>1, <3>2 DEF LedgerInv, Typed
  <2>3. ASSUME retries = 0 PROVE InOrder' /\ Uploaded' /\ Running' /\ Kept'
    <3>1. InOrder' /\ Uploaded' /\ Kept' /\ \A k \in Jobs : Left(k)' = Left(k)
      BY <2>1, <2>3, ReadyLedger
    <3>2. \A k \in Jobs \ {j} : status'[k] = status[k]
      BY <2>1 DEF LedgerInv, Typed
    <3>3. Running'
      BY <2>1, <2>3, <3>1, <3>2, StartRunning
    <3> QED BY <3>1, <3>3
  <2> QED BY <2>1, <2>2, <2>3 DEF LedgerInv
<1>2. ASSUME NEW j \in Jobs, SkipJob(j) PROVE LedgerInv'
  <2>1. /\ Ready(j) /\ status' = [status EXCEPT ![j] = "skipped"] /\ job = None
        /\ UNCHANGED <<cfg, art, job, pc, ws, cancelled, faults, retries, verdict, built, scanned, shipped, narration>>
    BY <1>2 DEF SkipJob, Ready, history
  <2>2. Typed'
    <3>1. Mishaps' = Mishaps
      BY <2>1 DEF Mishaps
    <3> QED BY <2>1, <3>1 DEF LedgerInv, Typed
  <2>3. retries = 0 => InOrder' /\ Uploaded' /\ Kept'
    BY <2>1, ReadyLedger
  <2>4. Running'
    BY <2>1, Names DEF Running, AuditionRuns, PerformRuns, ReviewRuns, PublishRuns, NarrateRuns, Jobs
  <2> QED BY <2>1, <2>2, <2>3, <2>4 DEF LedgerInv
<1>3. CASE FinishJob
  BY <1>3, EndLedger DEF FinishJob
<1>4. CASE KillJob
  BY <1>4, EndLedger DEF KillJob
<1>5. CASE CancelPipeline
  <2>1. /\ job' = None /\ ws' = EmptyWorkspace
        /\ UNCHANGED <<cfg, status, art, faults, retries, verdict, built, scanned, shipped, narration>>
    BY <1>5 DEF CancelPipeline, history
  <2>2. Typed'
    <3>1. Mishaps' = Mishaps
      BY <2>1 DEF Mishaps
    <3> QED BY <2>1, <3>1, EmptyTyped DEF LedgerInv, Typed
  <2>3. \A k \in Jobs : Left(k)' = Left(k)
    BY <2>1 DEF Left
  <2>4. Uploaded <=> Uploaded'
    <3>1. {"audition", "perform", "review", "publish"} \subseteq Jobs
      BY DEF Jobs
    <3> QED BY <2>1, <2>3, <3>1 DEF Uploaded, AuditionLeft, PerformLeft, ReviewLeft, PublishLeft, ImageTrue, Accounted
  <2>5. InOrder <=> InOrder'
    BY <2>1 DEF InOrder, Done
  <2>6. Kept <=> Kept'
    BY <2>1 DEF Kept, UnscannedNeverShips, NarrateHonest, FailuresNarrated, Tells
  <2>7. Running'
    BY <2>1, Names DEF Running, AuditionRuns, PerformRuns, ReviewRuns, PublishRuns, NarrateRuns, Jobs
  <2> QED BY <2>1, <2>2, <2>4, <2>5, <2>6, <2>7 DEF LedgerInv
<1>6. ASSUME NEW j \in Jobs, RetryJob(j) PROVE LedgerInv'
  <2>1. /\ Mishaps < MaxMishaps /\ job = None /\ retries' = retries + 1
        /\ status' = [k \in Jobs |-> IF k = j \/ status[k] = "skipped" THEN "created" ELSE status[k]]
        /\ art' = [art EXCEPT ![j] = None]
        /\ UNCHANGED <<cfg, job, ws, faults, verdict, built, scanned, shipped, narration>>
    BY <1>6 DEF RetryJob, history
  <2>2. Typed /\ retries \in Nat
    BY DEF LedgerInv, Typed
  <2>3. retries' \in Nat /\ retries' # 0
    BY <2>1, <2>2
  <2>4. Mishaps' <= MaxMishaps
    <3>1. Cardinality(faults) \in Nat
      BY <2>2, JobsFinite, FS_Subset, FS_CardinalityType DEF Typed
    <3>2. MaxMishaps \in Nat
      BY PipelineAssumption
    <3> QED BY <2>1, <2>2, <3>1, <3>2 DEF Mishaps
  <2>5. status' \in [Jobs -> {"created", "running", "success", "failed", "killed", "skipped"}]
    BY <2>1, <2>2 DEF Typed
  <2>6. DOMAIN art' = Jobs /\ \A k \in Jobs : art'[k] # None => art'[k] \in Workspaces(built)
    BY <2>1, <2>2 DEF Typed
  <2>7. Typed'
    BY <2>1, <2>2, <2>3, <2>4, <2>5, <2>6 DEF Typed
  <2> QED BY <2>3, <2>7 DEF LedgerInv
<1> QED BY <1>1, <1>2, <1>3, <1>4, <1>5, <1>6 DEF Scheduler

(* The ledger invariant holds in every reachable state of every pipeline,  *)
(* on every forge and with any number of mishaps.                          *)
THEOREM LedgerInvariance == Spec => []LedgerInv
<1>1. LedgerInv /\ [Next]_vars => LedgerInv'
  <2> SUFFICES ASSUME LedgerInv, [Next]_vars PROVE LedgerInv'
    OBVIOUS
  <2>1. CASE AuditionPreflight \/ AuditionContract
    BY <2>1, AuditionLedger
  <2>2. CASE PerformStart \/ Reconcile \/ recordReconcileState \/ BuildPremark \/ Build \/ RecordBuild
    BY <2>2, PerformLedger
  <2>3. CASE ReviewStart \/ Scan \/ RecordSecurity
    BY <2>3, ReviewLedger
  <2>4. CASE \/ PublishStart \/ Promote \/ RecordTags \/ RecordPublish
             \/ ReleaseStart \/ RunReleaseCreate \/ PublishTail
    BY <2>4, PublishLedger
  <2>5. CASE NarrateStart \/ assertRequiredEvidence \/ Announce
    BY <2>5, NarrateLedger
  <2>6. CASE Scheduler \/ KillJob \/ CancelPipeline \/ \E j \in Jobs : RetryJob(j)
    BY <2>6, ForgeLedger
  <2>7. CASE UNCHANGED vars
    <3>1. \A k \in Jobs : Left(k)' = Left(k)
      BY <2>7 DEF vars, Left
    <3>2. {"audition", "perform", "review", "publish"} \subseteq Jobs
      BY DEF Jobs
    <3>3. Typed'
      BY <2>7 DEF vars, LedgerInv, Typed, Mishaps
    <3>4. Uploaded <=> Uploaded'
      BY <2>7, <3>1, <3>2 DEF vars, Uploaded, AuditionLeft, PerformLeft, ReviewLeft, PublishLeft, ImageTrue, Accounted
    <3>5. Running <=> Running'
      BY <2>7, <3>1, <3>2
      DEF vars, Running, AuditionRuns, PerformRuns, ReviewRuns, PublishRuns, NarrateRuns, Inherits, ImageTrue,
          Accounted, Tells
    <3>6. (InOrder <=> InOrder') /\ (Kept <=> Kept')
      BY <2>7 DEF vars, InOrder, Done, Kept, UnscannedNeverShips, NarrateHonest, FailuresNarrated, Tells
    <3>7. retries' = retries
      BY <2>7 DEF vars
    <3> QED BY <3>3, <3>4, <3>5, <3>6, <3>7 DEF LedgerInv
  <2> QED BY <2>1, <2>2, <2>3, <2>4, <2>5, <2>6, <2>7 DEF Next, Phases
<1> QED BY LedgerInit, <1>1, PTL DEF Spec

(* What the ledger says of one state.                                       *)
LEMMA LedgerTypes == ASSUME LedgerInv PROVE TypeOK
<1>1. Typed
  BY DEF LedgerInv
<1>2. \A w : w \in Workspaces(built) => IsWorkspace(w)
  <2>1. Records \subseteq Entries
    BY DEF Records, Entries
  <2> QED BY <2>1 DEF Workspaces, IsWorkspace, States, Fragments
<1>3. retries \in 0..MaxMishaps
  <2>1. Cardinality(faults) \in Nat
    BY <1>1, JobsFinite, FS_Subset, FS_CardinalityType DEF Typed
  <2>2. MaxMishaps \in Nat /\ retries \in Nat /\ Cardinality(faults) + retries <= MaxMishaps
    BY <1>1, PipelineAssumption DEF Typed, Mishaps
  <2> QED BY <2>1, <2>2
<1> QED BY <1>1, <1>2, <1>3 DEF Typed, TypeOK

(* Whatever is killed, whichever writes of the ledger are lost and however  *)
(* often jobs are retried: the variables keep their types, and a pipeline   *)
(* without retries ships no image its review did not scan, starts every job *)
(* on files that do not depend on the order they are unpacked in, and       *)
(* announces as passing only what perform and review finished; on GitLab,   *)
(* where publish's fragments reach narrate, also only what no job left      *)
(* recorded as failed.                                                      *)
THEOREM PipelineKeeps ==
  Spec => [](/\ TypeOK
             /\ retries = 0 => UnscannedNeverShips /\ NarrateHonest /\ UnionOrderIndependent
             /\ Forge = "gitlab" => PipelineSafe)
<1>1. LedgerInv => /\ TypeOK
                   /\ retries = 0 => UnscannedNeverShips /\ NarrateHonest /\ UnionOrderIndependent
                   /\ Forge = "gitlab" => PipelineSafe
  <2> SUFFICES ASSUME LedgerInv
               PROVE  /\ TypeOK
                      /\ retries = 0 => UnscannedNeverShips /\ NarrateHonest /\ UnionOrderIndependent
                      /\ Forge = "gitlab" => PipelineSafe
    OBVIOUS
  <2>1. TypeOK
    BY LedgerTypes
  <2>2. retries = 0 => UnscannedNeverShips /\ NarrateHonest /\ (Forge = "gitlab" => FailuresNarrated)
    BY DEF LedgerInv, Kept
  <2>3. retries = 0 => UnionOrderIndependent
    BY OneDownload DEF LedgerInv, UnionOrderIndependent
  <2> QED BY <2>1, <2>2, <2>3 DEF PipelineSafe
<1> QED BY LedgerInvariance, <1>1, PTL

=============================================================================
