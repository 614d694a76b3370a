------------------------------ MODULE BuildRun -------------------------------
(***************************************************************************)
(* The build run of perform (build/domains/run.go): contributors binary,   *)
(* image and crucible pass through the domains plan, build, verify and     *)
(* publish, and the manifests are written at the end. Binary builds "a"    *)
(* and "b" and a scribe item "s" form a graph; the image "img" and the     *)
(* crucible image "cru" are built, pushed, recorded, signed and attested.  *)
(***************************************************************************)
EXTENDS Naturals, Sequences, SequencesExt

CONSTANTS
  BdRuns,      \* runs in one workspace
  BdEvents     \* failures of commands

ASSUME BuildRunAssumption == BdRuns \in Nat \ {0} /\ BdEvents \in Nat

VARIABLES
  bdCfg, bdRun, bdPc,
  bdWho,       \* the image that is being built, retained and recorded
  bdTodo,      \* builds and scribe items still to run, in order
  made,        \* what was built or composed, in order
  passed,      \* crucible: the self-build succeeded
  proof,       \* crucible: "none", "ok", "hard"
  work,        \* crucible: the work directory exists
  dig,         \* digest each image was built with in this run
  outs,        \* artifacts of the run
  recs,        \* recorded outcomes: <<artifact, type, digest>>
  regs,        \* digest each image has in the registry
  signed, attested, retained,  \* digests
  prov,        \* provenance was written
  pubOk,       \* crucible: the verified artifact was built and recorded
  outFile, resFile,            \* manifests on disk: <<run, artifacts>>
  bdResult, bdEvents

bdLocal == <<bdWho, bdTodo, made, passed, proof, work, dig, outs, recs, prov, pubOk>>
bdWorld == <<regs, signed, attested, retained, outFile, resFile>>
bdVars == <<bdCfg, bdRun, bdPc, bdLocal, bdWorld, bdResult, bdEvents>>

Images == {"img", "cru"}
NoDig == <<0, "none", 0>>
Graph == {<<"a", "b">>, <<"b", "a">>, <<"a", "s">>, <<"b", "s">>, <<"s", "a">>, <<"s", "b">>}

\* edges: depends_on, stage.from and scribe edges of the binary builds; from: the image
\* is staged from this build, "" for none; mode: how images leave the build; clash: two
\* archives carry one name; signer: what resolves for the signing profile, a key or the
\* auto-provisioned one, nothing although the profile is the default one or allows the
\* fallback, or nothing although it is an explicit one; shared: both images go to one
\* repository.
BdConfigs ==
  [active : SUBSET {"binary", "image", "crucible"}, edges : SUBSET Graph, from : {"", "a", "c"},
   mode : {"push", "transport", "local"}, retain : BOOLEAN, daemon : BOOLEAN, dry : BOOLEAN,
   sign : {"off", "soft", "enforce"}, attest : BOOLEAN, archive : BOOLEAN, clash : BOOLEAN,
   signer : {"resolves", "skips", "refuses"}, shared : BOOLEAN]

BdFail == bdEvents < BdEvents /\ bdEvents' = bdEvents + 1
BdOk == UNCHANGED bdEvents
Pushes == bdCfg.mode = "push"
Signing == bdCfg.sign # "off"
Signs == Signing /\ bdCfg.signer = "resolves"
Refuses == Signing /\ bdCfg.signer = "refuses"

-----------------------------------------------------------------------------
(* The graph of the binary builds (perform_graph.go) *)

Nodes == {"a", "b"} \cup {n \in {"s"} : \E b \in {"a", "b"} : <<"s", b>> \in bdCfg.edges}
BuildEdges == {e \in bdCfg.edges : e[1] \in Nodes /\ e[2] \in Nodes}
Sorted(S) == SelectSeq(<<"a", "b", "s">>, LAMBDA n : n \in S)
Parents(n) == {p \in Nodes : <<p, n>> \in BuildEdges}

\* Kahn's algorithm with a sorted queue.
Kahn ==
  LET f[n \in 0..3] ==
        IF n = 0 THEN [done |-> <<>>, queue |-> Sorted({x \in Nodes : Parents(x) = {}})]
        ELSE LET p == f[n - 1] IN
             IF p.queue = <<>> THEN p
             ELSE LET d == Append(p.done, Head(p.queue)) IN
                  [done |-> d,
                   queue |-> Tail(p.queue) \o
                     Sorted({c \in Nodes : Head(p.queue) \in Parents(c) /\ Parents(c) \subseteq ToSet(d)})]
  IN f[3].done

\* The order of builds and scribe items, shorter than the nodes if there is a cycle.
PerformOrder == Kahn

\* Scribe items are composed after the build they follow in the order, or first.
RenderSlot(order) ==
  LET at == CHOOSE i \in DOMAIN order : order[i] = "s" IN IF at = 1 THEN "" ELSE order[at - 1]

\* Build's walk: the first slot, then every build with the slot after it.
Walk(order) ==
  LET builds == SelectSeq(order, LAMBDA n : n # "s") IN
  IF "s" \notin ToSet(order) THEN builds
  ELSE IF RenderSlot(order) = "" THEN <<"s">> \o builds
  ELSE IF builds[1] = RenderSlot(order) THEN <<builds[1], "s", builds[2]>> ELSE builds \o <<"s">>

-----------------------------------------------------------------------------
(* Contributors and domains *)

Labels == <<"plan", "binBuild", "imgBuild", "cruBuild", "cruVerify",
            "binPublish", "imgPublish", "cruPublish", "conclude">>
Contributor(l) ==
  CASE l \in {"binBuild", "binPublish"} -> "binary" [] l \in {"imgBuild", "imgPublish"} -> "image"
    [] l \in {"cruBuild", "cruVerify", "cruPublish"} -> "crucible" [] OTHER -> "none"

\* The next contributor that takes part in this domain or in a later one.
After(label) ==
  LET live == SelectSeq(Labels, LAMBDA l : l = label \/ Contributor(l) \in bdCfg.active \cup {"none"})
      at == CHOOSE i \in DOMAIN live : live[i] = label
  IN live[at + 1]

BdFrom(label) ==
  /\ bdRun = 0 /\ bdPc = label /\ bdWho = "img" /\ bdTodo = <<>> /\ made = <<>>
  /\ passed = FALSE /\ proof = "none" /\ work = FALSE
  /\ dig = [i \in Images |-> NoDig] /\ outs = <<>> /\ recs = {} /\ prov = FALSE /\ pubOk = FALSE
  /\ regs = [i \in Images |-> NoDig] /\ signed = {} /\ attested = {} /\ retained = {}
  /\ outFile = <<0, {}>> /\ resFile = <<0, {}>> /\ bdResult = "none" /\ bdEvents = 0

BdInit == bdCfg \in BdConfigs /\ BdFrom("start")

RunBegin ==
  /\ bdPc \in {"start", "end"} /\ bdRun < BdRuns
  /\ bdRun' = bdRun + 1 /\ bdResult' = "none"
  /\ bdWho' = "img" /\ bdTodo' = <<>> /\ made' = <<>> /\ passed' = FALSE /\ proof' = "none"
  /\ work' = work /\ dig' = [i \in Images |-> NoDig] /\ outs' = <<>> /\ recs' = {}
  /\ prov' = FALSE /\ pubOk' = FALSE
  /\ bdPc' = "preflight" /\ BdOk /\ UNCHANGED <<bdCfg, bdWorld>>

\* The substrate of the active contributors is probed.
Preflight ==
  /\ bdPc = "preflight"
  /\ \/ BdOk /\ bdPc' = "plan" /\ UNCHANGED bdResult
     \/ BdFail /\ bdPc' = "end" /\ bdResult' = "error"
  /\ UNCHANGED <<bdCfg, bdRun, bdLocal, bdWorld>>

\* An error of a contributor: the rest of its domain and later domains are left out.
DomainError == bdPc' = "conclude" /\ bdResult' = "error"
DomainDone(label) == bdPc' = After(label) /\ UNCHANGED bdResult

\* Detect and plan of every contributor; a dry run ends here, without conclude.
Plan ==
  /\ bdPc = "plan"
  /\ \/ /\ "binary" \in bdCfg.active /\ Len(PerformOrder) # Len(Sorted(Nodes))
        /\ DomainError /\ BdOk /\ UNCHANGED bdTodo
     \/ DomainError /\ BdFail /\ UNCHANGED bdTodo
     \/ /\ "binary" \in bdCfg.active => Len(PerformOrder) = Len(Sorted(Nodes))
        /\ bdTodo' = IF "binary" \in bdCfg.active THEN Walk(PerformOrder) ELSE <<>>
        /\ IF bdCfg.dry THEN bdPc' = "end" /\ bdResult' = "ok" ELSE DomainDone("plan")
        /\ BdOk
  /\ UNCHANGED <<bdCfg, bdRun, bdWho, made, passed, proof, work, dig, outs, recs, prov, pubOk, bdWorld>>

-----------------------------------------------------------------------------
(* binary *)

\* A build step fails in its container, or its artifact does not land in the workspace.
StepFails == BdFail

\* One step of the walk: a build that is executed and recorded, or an item composed.
BinaryBuild ==
  /\ bdPc = "binBuild"
  /\ IF bdTodo = <<>> THEN DomainDone("binBuild") /\ BdOk /\ UNCHANGED <<bdTodo, made, outs, recs>>
     ELSE LET n == Head(bdTodo) IN
          \/ /\ BdOk /\ made' = Append(made, n) /\ bdTodo' = Tail(bdTodo)
             /\ outs' = IF n = "s" THEN outs ELSE Append(outs, "bin:" \o n)
             /\ recs' = IF n = "s" THEN recs ELSE recs \cup {<<"bin:" \o n, "build", NoDig>>}
             /\ UNCHANGED <<bdPc, bdResult>>
          \/ StepFails /\ DomainError /\ UNCHANGED <<bdTodo, made, outs, recs>>
  /\ UNCHANGED <<bdCfg, bdRun, bdWho, passed, proof, work, dig, prov, pubOk, bdWorld>>

\* The archives of a run, in order; the checksums come last.
Archives == <<"arc:a", IF bdCfg.clash THEN "arc:a" ELSE "arc:b", "sums">>

\* Archives of what was built, then their checksums.
BinaryPublish ==
  /\ bdPc = "binPublish"
  /\ \/ /\ BdOk /\ DomainDone("binPublish")
        /\ IF bdCfg.archive
           THEN /\ outs' = outs \o Archives
                /\ recs' = recs \cup {<<i, "archive", NoDig>> : i \in ToSet(Archives)}
           ELSE UNCHANGED <<outs, recs>>
     \/ /\ BdFail /\ bdCfg.archive /\ DomainError
        /\ outs' = Append(outs, "arc:a") /\ recs' = recs \cup {<<"arc:a", "archive", NoDig>>}
  /\ UNCHANGED <<bdCfg, bdRun, bdWho, bdTodo, made, passed, proof, work, dig, prov, pubOk, bdWorld>>

-----------------------------------------------------------------------------
(* image *)

\* Single-platform images of a transport run are loaded too unless the store exports.
LoadsIntoDaemon == bdCfg.mode = "local" \/ (bdCfg.mode = "transport" /\ ~bdCfg.retain)

\* The build that the image is staged from left a binary in this run's outputs.
Stageable == bdCfg.from # "" => "bin:" \o bdCfg.from \in ToSet(outs)

\* No builder: neither the remote BuildKit nor a container builder on the daemon answers.
BuilderFails == BdFail

\* Strategy, binaries staged from this run's artifacts, builder and login.
ImageBuild ==
  /\ bdPc = "imgBuild"
  /\ \/ ((LoadsIntoDaemon /\ ~bdCfg.daemon) \/ ~Stageable) /\ DomainError /\ BdOk /\ UNCHANGED bdWho
     \/ BuilderFails /\ DomainError /\ UNCHANGED bdWho
     \/ /\ LoadsIntoDaemon => bdCfg.daemon
        /\ Stageable
        /\ BdOk /\ bdWho' = "img" /\ bdPc' = "push" /\ UNCHANGED bdResult
  /\ UNCHANGED <<bdCfg, bdRun, bdTodo, made, passed, proof, work, dig, outs, recs, prov, pubOk, bdWorld>>

Digest(attempt) == <<bdRun, bdWho, attempt>>

\* Where buildRetainRecord returns to.
RetainFailed == IF bdWho = "img" THEN DomainError ELSE bdPc' = "cruProv" /\ UNCHANGED bdResult

\* buildx, once more after a recovered push or a failed cache export; what was pushed is
\* verified against buildx's metadata, so an unverified push fails the step.
Execute ==
  /\ bdPc = "push"
  /\ \/ /\ BdOk /\ bdPc' = "record" /\ UNCHANGED bdResult
        /\ dig' = [dig EXCEPT ![bdWho] = Digest(1)]
        /\ regs' = IF Pushes THEN [regs EXCEPT ![bdWho] = Digest(1)] ELSE regs
     \/ /\ BdFail /\ Pushes /\ bdPc' = "record" /\ UNCHANGED bdResult
        /\ dig' = [dig EXCEPT ![bdWho] = Digest(2)] /\ regs' = [regs EXCEPT ![bdWho] = Digest(2)]
     \/ BdFail /\ RetainFailed /\ UNCHANGED <<dig, regs>>
     \/ BdFail /\ Pushes /\ RetainFailed /\ regs' = [regs EXCEPT ![bdWho] = Digest(1)] /\ UNCHANGED dig
  /\ UNCHANGED <<bdCfg, bdRun, bdWho, bdTodo, made, passed, proof, work, outs, recs, prov, pubOk,
                 signed, attested, retained, outFile, resFile>>

\* The layout is put in the content store, where a failure is only shown; publications
\* are recorded.
RetainAndRecord ==
  /\ bdPc = "record" /\ bdPc' = "sign"
  /\ recs' = IF Pushes THEN recs \cup {<<bdWho, "push", dig[bdWho]>>} ELSE recs
  /\ \/ BdOk /\ retained' = IF bdCfg.retain THEN retained \cup {dig[bdWho]} ELSE retained
     \/ BdFail /\ bdCfg.retain /\ UNCHANGED retained
  /\ UNCHANGED <<bdCfg, bdRun, bdWho, bdTodo, made, passed, proof, work, dig, outs, prov, pubOk,
                 regs, signed, attested, outFile, resFile, bdResult>>

RetainDone ==
  /\ outs' = Append(outs, bdWho)
  /\ IF bdWho = "img" THEN DomainDone("imgBuild") /\ UNCHANGED pubOk
     ELSE bdPc' = "cruProv" /\ pubOk' = TRUE /\ UNCHANGED bdResult

\* Published digests are signed, or skipped where no signer resolves and the profile
\* allows it, enforcing or not. A failed signature is recorded and fails the run only
\* where the profile enforces it; a signing context that does not resolve always does.
\* The artifacts join the run's outputs last.
SignImages ==
  /\ bdPc = "sign"
  /\ \/ ~(Pushes /\ (Signs \/ Refuses)) /\ BdOk /\ RetainDone /\ UNCHANGED <<signed, recs>>
     \/ Pushes /\ Refuses /\ BdOk /\ RetainFailed /\ UNCHANGED <<signed, recs, outs, pubOk>>
     \/ /\ Pushes /\ Signs /\ BdOk /\ RetainDone /\ signed' = signed \cup {dig[bdWho]}
        /\ recs' = recs \cup {<<bdWho, "signed", dig[bdWho]>>}
     \/ /\ Pushes /\ Signs /\ BdFail /\ UNCHANGED signed
        /\ recs' = recs \cup {<<bdWho, "unsigned", dig[bdWho]>>}
        /\ IF bdCfg.sign = "enforce" THEN RetainFailed /\ UNCHANGED <<outs, pubOk>> ELSE RetainDone
     \/ Pushes /\ Signs /\ BdFail /\ RetainFailed /\ UNCHANGED <<signed, recs, outs, pubOk>>
  /\ UNCHANGED <<bdCfg, bdRun, bdWho, bdTodo, made, passed, proof, work, dig, prov,
                 regs, attested, retained, outFile, resFile>>

\* Retention, which never fails the run, and provenance, whose failure is only shown.
ImagePublish ==
  /\ bdPc = "imgPublish"
  /\ \/ BdOk /\ prov' = TRUE
     \/ BdFail /\ prov' = FALSE
  /\ IF bdCfg.mode = "transport" THEN DomainDone("imgPublish") ELSE bdPc' = "imgAttest" /\ UNCHANGED bdResult
  /\ UNCHANGED <<bdCfg, bdRun, bdWho, bdTodo, made, passed, proof, work, dig, outs, recs, pubOk, bdWorld>>

\* The profile that governs an image is looked up by its repository among those of the
\* contributor that attests; an image of another one has no profile here and is left alone.
Endpoints(at) ==
  IF bdCfg.shared THEN Images ELSE IF at = "imgAttest" THEN {"img"} ELSE {"cru"}

\* The images of the run so far get the provenance attached; one that is not in the
\* registry cannot. A missing provenance is an error.
AttestImages ==
  /\ bdPc \in {"imgAttest", "cruAttest"}
  /\ LET label == IF bdPc = "imgAttest" THEN "imgPublish" ELSE "cruPublish"
         opted == IF Signing /\ bdCfg.attest THEN {dig[i] : i \in Endpoints(bdPc) \cap ToSet(outs)} ELSE {}
         todo == IF Signs THEN opted ELSE {}
         can == {d \in todo : \E i \in Images : regs[i] = d} IN
     \/ todo = {} /\ ~(opted # {} /\ Refuses) /\ BdOk /\ DomainDone(label) /\ UNCHANGED <<attested, recs>>
     \/ opted # {} /\ Refuses /\ BdOk /\ DomainError /\ UNCHANGED <<attested, recs>>
     \/ todo # {} /\ ~prov /\ BdOk /\ DomainError /\ UNCHANGED <<attested, recs>>
     \/ /\ todo # {} /\ prov /\ BdOk
        /\ attested' = attested \cup can
        /\ recs' = recs \cup {<<d[2], IF d \in can THEN "attested" ELSE "unattested", d>> : d \in todo}
        /\ IF can # todo /\ bdCfg.sign = "enforce" THEN DomainError ELSE DomainDone(label)
     \/ /\ todo # {} /\ prov /\ BdFail
        /\ recs' = recs \cup {<<d[2], "unattested", d>> : d \in todo}
        /\ UNCHANGED attested
        /\ IF bdCfg.sign = "enforce" THEN DomainError ELSE DomainDone(label)
  /\ UNCHANGED <<bdCfg, bdRun, bdWho, bdTodo, made, passed, proof, work, dig, outs, prov, pubOk,
                 regs, signed, retained, outFile, resFile>>

-----------------------------------------------------------------------------
(* crucible *)

\* Pass 1 builds the candidate, whose failure ends the domain; pass 2 is the self-proof,
\* whose failure does not.
CrucibleBuild ==
  /\ bdPc = "cruBuild" /\ work' = TRUE
  /\ \/ BdOk /\ passed' = TRUE /\ DomainDone("cruBuild")
     \/ BdFail /\ passed' = FALSE /\ DomainDone("cruBuild")
     \/ BdFail /\ passed' = FALSE /\ DomainError
  /\ UNCHANGED <<bdCfg, bdRun, bdWho, bdTodo, made, proof, dig, outs, recs, prov, pubOk, bdWorld>>

\* Layouts differ where it matters, or could not be read: a hard failure.
HardFailure == BdFail

\* Candidate and self-proof are compared layer by layer; a comparison that cannot be made
\* is an error.
CrucibleVerify ==
  /\ bdPc = "cruVerify"
  /\ \/ ~passed /\ BdOk /\ DomainDone("cruVerify") /\ UNCHANGED proof
     \/ passed /\ BdOk /\ proof' = "ok" /\ DomainDone("cruVerify")
     \/ passed /\ HardFailure /\ proof' = "hard" /\ DomainDone("cruVerify")
     \/ passed /\ BdFail /\ proof' = "hard" /\ DomainError
  /\ UNCHANGED <<bdCfg, bdRun, bdWho, bdTodo, made, passed, work, dig, outs, recs, prov, pubOk, bdWorld>>

CruciblePublishUngated ==
  /\ bdPc = "cruPublish" /\ BdOk
  /\ IF passed THEN bdPc' = "push" /\ bdWho' = "cru" ELSE bdPc' = "cruProv" /\ UNCHANGED bdWho
  /\ UNCHANGED <<bdCfg, bdRun, bdTodo, made, passed, proof, work, dig, outs, recs, prov, pubOk, bdWorld, bdResult>>

\* The verified plan is built once more, and retained, after a registry login.
CruciblePublish ==
  /\ bdPc = "cruPublish"
  /\ \/ /\ passed /\ proof # "hard" /\ BdOk
        /\ bdPc' = "push" /\ bdWho' = "cru"
     \/ /\ passed /\ proof # "hard" /\ Pushes /\ BdFail
        /\ bdPc' = "cruProv" /\ UNCHANGED bdWho
     \/ /\ ~(passed /\ proof # "hard") /\ BdOk
        /\ bdPc' = "cruProv" /\ UNCHANGED bdWho
  /\ UNCHANGED <<bdCfg, bdRun, bdTodo, made, passed, proof, work, dig, outs, recs, prov, pubOk, bdWorld, bdResult>>

\* Provenance in every case; then a failed self-build, proof or publication is the error.
CrucibleProvenance ==
  /\ bdPc = "cruProv"
  /\ \/ BdOk /\ prov' = TRUE
     \/ BdFail /\ prov' = FALSE
  /\ IF ~pubOk THEN DomainError
     ELSE IF bdCfg.mode = "transport" THEN DomainDone("cruPublish")
     ELSE bdPc' = "cruAttest" /\ UNCHANGED bdResult
  /\ UNCHANGED <<bdCfg, bdRun, bdWho, bdTodo, made, passed, proof, work, dig, outs, recs, pubOk, bdWorld>>

-----------------------------------------------------------------------------
\* The crucible's work directory is removed; after an error nothing is written.
Conclude ==
  /\ bdPc = "conclude" /\ work' = FALSE
  /\ bdPc' = IF bdResult = "error" THEN "end" ELSE IF outs = <<>> THEN "done" ELSE "outFile"
  /\ BdOk /\ UNCHANGED <<bdCfg, bdRun, bdWho, bdTodo, made, passed, proof, dig, outs, recs, prov, pubOk, bdWorld, bdResult>>

ManifestFails == bdPc' = "end" /\ bdResult' = "error"

\* Finalize refuses two artifacts of one id; then the outputs are written.
WriteOutputs ==
  /\ bdPc = "outFile"
  /\ \/ ~IsInjective(outs) /\ BdOk /\ ManifestFails /\ UNCHANGED outFile
     \/ BdFail /\ ManifestFails /\ UNCHANGED outFile
     \/ IsInjective(outs) /\ BdOk /\ outFile' = <<bdRun, ToSet(outs)>> /\ bdPc' = "resFile" /\ UNCHANGED bdResult
  /\ UNCHANGED <<bdCfg, bdRun, bdLocal, regs, signed, attested, retained, resFile>>

\* Outcomes were recorded of an artifact that is not among the outputs.
UnknownOutcomes == \E r \in recs : r[1] \notin ToSet(outs)

\* Such outcomes are refused; the results follow the outputs.
WriteResults ==
  /\ bdPc = "resFile"
  /\ \/ UnknownOutcomes /\ BdOk /\ ManifestFails /\ UNCHANGED resFile
     \/ BdFail /\ ManifestFails /\ UNCHANGED resFile
     \/ /\ ~UnknownOutcomes
        /\ BdOk /\ resFile' = <<bdRun, recs>> /\ bdPc' = "done" /\ UNCHANGED bdResult
  /\ UNCHANGED <<bdCfg, bdRun, bdLocal, regs, signed, attested, retained, outFile>>

RunDone ==
  /\ bdPc = "done" /\ bdPc' = "end" /\ bdResult' = "ok"
  /\ BdOk /\ UNCHANGED <<bdCfg, bdRun, bdLocal, bdWorld>>

BdStep ==
  \/ Preflight \/ Plan \/ BinaryBuild \/ ImageBuild \/ Execute \/ RetainAndRecord \/ SignImages
  \/ ImagePublish \/ AttestImages \/ CrucibleBuild \/ CrucibleVerify \/ BinaryPublish
  \/ CruciblePublish \/ CrucibleProvenance \/ Conclude \/ WriteOutputs \/ WriteResults \/ RunDone

BdNext == RunBegin \/ BdStep

BdSpec == BdInit /\ [][BdNext]_bdVars /\ WF_bdVars(BdStep)

-----------------------------------------------------------------------------
Digests == {NoDig} \cup ((1..BdRuns) \X Images \X {1, 2})

BdTypeOK ==
  /\ bdRun \in 0..BdRuns /\ bdWho \in Images /\ passed \in BOOLEAN /\ proof \in {"none", "ok", "hard"}
  /\ dig \in [Images -> Digests] /\ regs \in [Images -> Digests]
  /\ signed \subseteq Digests \ {NoDig} /\ attested \subseteq Digests \ {NoDig}
  /\ outFile[1] >= resFile[1] /\ bdResult \in {"none", "ok", "error"}
  /\ IsInjective(made)

\* Every build and scribe item runs after everything it depends on, also where a scribe
\* item is composed between two builds (perform_graph.go 34, contributors/binary.go 243-261).
BuildsAfterDependencies ==
  \A i \in DOMAIN made : Parents(made[i]) \subseteq {made[j] : j \in 1..(i - 1)}

\* A crucible image reaches the registry or the content store only after the self-build
\* succeeded and its proof was made without a hard failure (crucible_contributor.go 477).
OnlyProvenLeads ==
  [][\A d \in (retained' \cup {regs'["cru"]}) \ (retained \cup {regs["cru"]}) :
       d[2] = "cru" => passed /\ proof = "ok"]_bdVars

\* A run that ends well wrote both manifests, of this run, and they account for what is in
\* the registry: each image the run pushed is recorded with the digest the registry has
\* (buildx.go 183-189, domains/run.go 226-243).
RecordedAsPushed ==
  (bdPc = "end" /\ bdResult = "ok" /\ outs # <<>>) =>
    /\ outFile[1] = bdRun /\ resFile = <<bdRun, recs>>
    /\ \A i \in Images : regs[i][1] = bdRun => <<i, "push", regs[i]>> \in resFile[2] /\ i \in outFile[2]

\* Where signing is enforced, a run that ends well leaves nothing it pushed unsigned, nor,
\* if provenance is to be attached, unattested (sign_published.go 95, 133, 155); except
\* under a profile that allows the fallback to an auto-provisioned key where there is
\* none: the images are then skipped without an error (sign_published.go 77-80,
\* autosign.go 106, 116).
EnforcedIsSigned ==
  (bdPc = "end" /\ bdResult = "ok" /\ bdCfg.sign = "enforce" /\ bdCfg.signer # "skips") =>
    \A i \in Images : regs[i][1] = bdRun =>
      regs[i] \in signed /\ (bdCfg.attest => regs[i] \in attested)

\* Perform pushes nothing of its own in a transport run: only publish does (plan.go 22-23).
TransportPushesNothing == bdCfg.mode # "push" => \A i \in Images : regs[i] = NoDig

\* An image is staged from a binary of this very run (stage.go 37-50).
StagedFromThisRun ==
  (bdPc = "push" /\ bdWho = "img" /\ bdCfg.from # "") => bdCfg.from \in ToSet(made)

\* Nothing of the crucible's passes is left behind (crucible_contributor.go 619).
WorkRemoved == bdPc = "end" => ~work

\* What a perform run leaves true: builds follow what they depend on, records
\* name what was pushed, enforced signing signs unless it may fall back to none, a transport build pushes
\* nothing, staged files come from this run, work directories are removed,
\* and only a proven crucible build leads (build/domains/run.go).
BuildKeeps ==
  /\ [](BdTypeOK /\ BuildsAfterDependencies /\ RecordedAsPushed /\ EnforcedIsSigned)
  /\ [](TransportPushesNothing /\ StagedFromThisRun /\ WorkRemoved)
  /\ OnlyProvenLeads
=============================================================================
