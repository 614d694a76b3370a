------------------------------ MODULE Promotion ------------------------------
(***************************************************************************)
(* From built bytes to registry tags: perform retains every image's OCI    *)
(* layout in the content store (cas/cas.go), publish verifies and promotes *)
(* it tag by tag, signs it, retires the store and prunes the registry      *)
(* (cli/cmd/publish_promote.go, publish_registry_retention.go).  Jobs die  *)
(* and are run again, registries fail, stored files decay, and another     *)
(* pipeline moves the rolling tag of the same repositories.                *)
(***************************************************************************)
EXTENDS Naturals, Sequences, FiniteSets, SequencesExt

CONSTANTS
  PrImages,      \* number of images of the build; every image has a repository of its own
  PrMaxFaults,   \* calls, files and jobs that fail
  PrMaxTries     \* runs of the perform and publish jobs together

ASSUME PromotionAssumption ==
  PrImages \in Nat \ {0} /\ PrMaxFaults \in Nat /\ PrMaxTries \in Nat \ {0}

VARIABLES
  prCfg,     \* signing profile, kind of registry, what the images were built from
  objects,   \* the workspace's content store: per image, the state of each file of its layout
  stores,    \* images whose directory of the store exists, with files or without
  handle,    \* images with a persistence handle in outputs.json
  bundle,    \* what the forge keeps of perform's workspace for later jobs
  prPc,      \* label of the job that runs
  img,       \* the image the job is at
  todo,      \* files left to copy, or tags left to push or delete
  promoted,  \* image and tag pairs this publish job pushed
  refused,   \* images a gate refused, and those with a failed push
  skipped,   \* images whose layout failed verification
  signErr,   \* signing or attesting failed for good
  results,   \* published.json: the last outcome of each tag
  tags,      \* the registry: per image, what each tag serves
  signedAt,  \* the images whose digest carries a signature at the registry
  listed,    \* the listing of one retention pass
  prRecord,  \* what the ledger says of publish
  prRaced,   \* ghost: the other pipeline tagged a version about to be deleted
  prTries, prFaults

workspace == <<objects, stores, handle>>
jobVars == <<prPc, img, todo, promoted, refused, skipped, signErr, listed>>
remote == <<tags, signedAt>>
promotionVars == <<prCfg, workspace, bundle, jobVars, results, remote, prRecord, prRaced, prTries, prFaults>>

Img == 1..PrImages
Files == {"blob1", "blob2", "index"}
TagNames == {"own", "rolling", "prev", "old"}
PushedTags == {"own", "rolling"}
\* Digests in the order the registry created them.
Digests == {"none", "d-old", "d-prev", "d-new", "d-rival"}
Created(d) == CASE d = "none" -> 0 [] d = "d-old" -> 1 [] d = "d-prev" -> 2 [] d = "d-new" -> 3 [] OTHER -> 4

\* sign: nothing is signed; a failed signature is tolerated; the profile enforces; or it
\* enforces and allows a fallback, so that it may also resolve to no signer at all.
\* versions: deleting a tag deletes the version it is on (GHCR).
\* same: the build reproduced the digest the oldest tag has.
\* gate: what the provenance and evidence gates say of the first image.
PrConfigs ==
  [sign : {"off", "lenient", "enforce", "fallback"}, versions : BOOLEAN, same : BOOLEAN, twin : BOOLEAN,
   gate : BOOLEAN, targeted : {Img, {1}}]

Digest == IF prCfg.same THEN "d-old" ELSE "d-new"

-----------------------------------------------------------------------------
PrOk == UNCHANGED prFaults
PrFault == prFaults < PrMaxFaults /\ prFaults' = prFaults + 1

NoLayout == [f \in Files |-> "none"]

\* verifyLayout: index.json names the digest, and the blobs that are there hash
\* to their names.  A blob that is missing is not looked for.
verifyLayout(l) ==
  /\ l["index"] = "whole"
  /\ \E f \in Files \ {"index"} : l[f] # "none"
  /\ \A f \in Files \ {"index"} : l[f] # "torn"

Complete(l) == \A f \in Files : l[f] = "whole"

\* filepath.Walk goes in lexical order: blobs/ comes before index.json.
copyOrder == <<"blob1", "blob2", "index">>

PromotionInit ==
  /\ prCfg \in PrConfigs
  /\ objects = [i \in Img |-> NoLayout]
  /\ stores = {}
  /\ handle = {}
  /\ bundle = [objects |-> [i \in Img |-> NoLayout], handle |-> {}]
  /\ prPc = "put"
  /\ img = 1
  /\ todo = <<>>
  /\ promoted = {}
  /\ refused = {}
  /\ skipped = {}
  /\ signErr = FALSE
  /\ results = [i \in Img |-> [t \in PushedTags |-> "none"]]
  /\ tags = [i \in Img |-> [t \in TagNames |->
       CASE t = "own" -> "none"
         [] t \in {"rolling", "prev"} -> "d-prev"
         [] t = "old" -> IF prCfg.twin THEN "d-prev" ELSE "d-old"]]
  /\ signedAt = {}
  /\ listed = [t \in TagNames |-> "none"]
  /\ prRecord = "none"
  /\ prRaced = FALSE
  /\ prTries = 1
  /\ prFaults = 0

-----------------------------------------------------------------------------
(* perform: persistArtifactsRecords and FSStore.Put *)

\* The next image, or the end of perform: the forge keeps the workspace.
NextPut ==
  IF img < PrImages
    THEN prPc' = "put" /\ img' = img + 1 /\ UNCHANGED bundle
    ELSE prPc' = "between" /\ UNCHANGED img /\ bundle' = [objects |-> objects', handle |-> handle']

\* Put: a directory that is already there is verified and not written again, an empty
\* one too, which a kill leaves and no run will ever fill.
PutBegin ==
  /\ prPc = "put"
  /\ UNCHANGED objects
  /\ \/ /\ img \notin stores
        /\ stores' = stores \cup {img}
        /\ prPc' = "copy"
        /\ todo' = copyOrder
        /\ UNCHANGED <<handle, img, bundle>>
     \/ /\ img \in stores
        /\ handle' = IF verifyLayout(objects[img]) THEN handle \cup {img} ELSE handle
        /\ NextPut
        /\ UNCHANGED <<stores, todo>>
  /\ UNCHANGED <<prCfg, promoted, refused, skipped, signErr, listed, results, remote,
                 prRecord, prRaced, prTries, prFaults>>

\* copyTree: one file at a time.  A copy that fails leaves a torn file or none, and the
\* artifact without a handle: the failure is reported and perform goes on.
CopyFile ==
  /\ prPc = "copy" /\ todo # <<>>
  /\ \/ /\ objects' = [objects EXCEPT ![img][Head(todo)] = "whole"]
        /\ todo' = Tail(todo)
        /\ PrOk
        /\ UNCHANGED <<prPc, img, handle, bundle>>
     \/ /\ objects' \in {objects, [objects EXCEPT ![img][Head(todo)] = "torn"]}
        /\ todo' = <<>>
        /\ PrFault
        /\ UNCHANGED handle
        /\ NextPut
  /\ UNCHANGED <<prCfg, stores, promoted, refused, skipped, signErr, listed, results, remote, prRecord, prRaced, prTries>>

\* The stored copy is verified before its handle is recorded.
PutVerify ==
  /\ prPc = "copy" /\ todo = <<>>
  /\ handle' = IF verifyLayout(objects[img]) THEN handle \cup {img} ELSE handle
  /\ UNCHANGED <<objects, stores>>
  /\ NextPut
  /\ UNCHANGED <<prCfg, todo, promoted, refused, skipped, signErr, listed, results, remote, prRecord,
                 prRaced, prTries, prFaults>>

\* Perform is killed while it persists and run again where its files survive.
PerformAgain ==
  /\ prPc \in {"put", "copy"}
  /\ PrFault
  /\ prTries < PrMaxTries
  /\ prTries' = prTries + 1
  /\ \/ UNCHANGED objects
     \/ /\ prPc = "copy" /\ todo # <<>>
        /\ objects' = [objects EXCEPT ![img][Head(todo)] = "torn"]
  /\ handle' = {}
  /\ prPc' = "put" /\ img' = 1 /\ todo' = <<>>
  /\ UNCHANGED <<prCfg, stores, bundle, promoted, refused, skipped, signErr, listed, results, remote, prRecord, prRaced>>

-----------------------------------------------------------------------------
(* publish: promoteArtifacts *)

\* A publish job starts on the files perform left: its first run or a retry.
StartPromotion ==
  /\ \/ prPc = "between"
     \/ prPc = "ended" /\ prTries < PrMaxTries
  /\ prTries' = IF prPc = "ended" THEN prTries + 1 ELSE prTries
  /\ objects' = bundle.objects
  /\ handle' = bundle.handle
  /\ stores' = {i \in Img : bundle.objects[i] # NoLayout}
  /\ promoted' = {} /\ refused' = {} /\ skipped' = {} /\ signErr' = FALSE
  /\ results' = [i \in Img |-> [t \in PushedTags |-> "none"]]
  /\ prPc' = "image" /\ img' = 1 /\ todo' = <<>>
  /\ UNCHANGED <<prCfg, bundle, listed, remote, prRecord, prRaced, prFaults>>

\* Bytes of the content store rot or vanish before publish has read them.
Decay(i, f, how) ==
  /\ prPc \in {"image", "push"}
  /\ objects[i][f] = "whole"
  /\ PrFault
  /\ objects' = [objects EXCEPT ![i][f] = how]
  /\ UNCHANGED <<prCfg, stores, handle, bundle, jobVars, results, remote, prRecord, prRaced, prTries>>

\* The loop over outputs.Artifacts.
NextImage == IF img < PrImages THEN prPc' = "image" /\ img' = img + 1 ELSE prPc' = "sign" /\ img' = 1

\* No handle, or no target for this ref: nothing is promoted.
PassOver ==
  /\ prPc = "image"
  /\ img \notin handle \/ img \notin prCfg.targeted
  /\ NextImage
  /\ UNCHANGED <<prCfg, workspace, bundle, todo, promoted, refused, skipped, signErr, listed, results,
                 remote, prRecord, prRaced, prTries, prFaults>>

\* VerifyLayoutAt, then the provenance and the evidence gate: a layout that fails
\* verification is skipped, a refused one is a failure of the run.
VerifyImage ==
  /\ prPc = "image"
  /\ img \in handle \cap prCfg.targeted
  /\ IF ~verifyLayout(objects[img])
       THEN skipped' = skipped \cup {img} /\ NextImage /\ UNCHANGED <<refused, todo>>
     ELSE IF prCfg.gate /\ img = 1
       THEN refused' = refused \cup {img} /\ NextImage /\ UNCHANGED <<skipped, todo>>
     ELSE prPc' = "push" /\ todo' = <<"own", "rolling">> /\ UNCHANGED <<img, skipped, refused>>
  /\ UNCHANGED <<prCfg, workspace, bundle, promoted, signErr, listed, results, remote, prRecord,
                 prRaced, prTries, prFaults>>

NextTag ==
  IF Len(todo) > 1
    THEN todo' = Tail(todo) /\ UNCHANGED <<prPc, img>>
    ELSE todo' = <<>> /\ NextImage

PushFailed ==
  /\ results' = [results EXCEPT ![img][Head(todo)] = "failed"]
  /\ refused' = refused \cup {img}
  /\ NextTag

\* Mutant: a tag that is already at the registry cannot be pushed again.
PushTagOnce ==
  /\ prPc = "push"
  /\ \/ /\ Complete(objects[img]) /\ ~(Head(todo) = "own" /\ tags[img]["own"] # "none")
        /\ tags' = [tags EXCEPT ![img][Head(todo)] = Digest]
        /\ prPc' = "reread"
        /\ PrOk
        /\ UNCHANGED <<todo, img, results, refused>>
     \/ /\ PushFailed
        /\ IF Complete(objects[img]) /\ tags[img]["own"] = "none" THEN PrFault ELSE PrOk
        /\ UNCHANGED tags
  /\ UNCHANGED <<prCfg, workspace, bundle, promoted, skipped, signErr, listed, signedAt, prRecord, prRaced, prTries>>

\* LayoutToRegistry: the blobs and the manifest are written.  A layout with a
\* missing blob cannot be pushed, and a damaged one is refused by the registry.
PushTag ==
  /\ prPc = "push"
  /\ \/ /\ Complete(objects[img])
        /\ tags' = [tags EXCEPT ![img][Head(todo)] = Digest]
        /\ prPc' = "reread"
        /\ PrOk
        /\ UNCHANGED <<todo, img, results, refused>>
     \/ /\ PushFailed
        /\ IF Complete(objects[img]) THEN PrFault ELSE PrOk
        /\ UNCHANGED tags
  /\ UNCHANGED <<prCfg, workspace, bundle, promoted, skipped, signErr, listed, signedAt, prRecord, prRaced, prTries>>

\* The tag is read back and must serve the recorded digest; otherwise, or when the
\* registry does not answer, the tag counts as failed and the next one is pushed.
Reread ==
  /\ prPc = "reread"
  /\ LET ok == tags[img][Head(todo)] = Digest IN
     \/ /\ ok
        /\ results' = [results EXCEPT ![img][Head(todo)] = "ok"]
        /\ promoted' = promoted \cup {<<img, Head(todo)>>}
        /\ PrOk
        /\ UNCHANGED refused
     \/ /\ results' = [results EXCEPT ![img][Head(todo)] = "failed"]
        /\ refused' = refused \cup {img}
        /\ IF ok THEN PrFault ELSE PrOk
        /\ UNCHANGED promoted
  /\ IF Len(todo) > 1 THEN todo' = Tail(todo) /\ prPc' = "push" /\ UNCHANGED img ELSE todo' = <<>> /\ NextImage
  /\ UNCHANGED <<prCfg, workspace, bundle, skipped, signErr, listed, remote, prRecord, prRaced, prTries>>

-----------------------------------------------------------------------------
(* Signing, verdict and retirement *)

ToSign == {i \in Img : \E t \in PushedTags : <<i, t>> \in promoted}

Enforcing == prCfg.sign \in {"enforce", "fallback"}

\* SignPublished and AttestPublished: image by image.  An image for which no signer
\* resolves is skipped without an error, whether its profile enforces or not.  A failed
\* signature ends the pass when the profile enforces, and is only recorded otherwise; a
\* signer that fails to resolve ends it under every profile.
SignImages ==
  /\ prPc = "sign"
  /\ \/ /\ img \notin ToSign \/ prCfg.sign \in {"off", "fallback"}
        /\ prPc' = IF img < PrImages THEN "sign" ELSE "verdict"
        /\ PrOk
        /\ UNCHANGED <<signedAt, signErr>>
     \/ /\ img \in ToSign /\ prCfg.sign # "off"
        /\ signedAt' = signedAt \cup {img}
        /\ prPc' = IF img < PrImages THEN "sign" ELSE "verdict"
        /\ PrOk
        /\ UNCHANGED signErr
     \/ /\ img \in ToSign /\ prCfg.sign # "off"
        /\ signErr' \in {Enforcing, TRUE}
        /\ prPc' = IF img < PrImages /\ ~signErr' THEN "sign" ELSE "verdict"
        /\ PrFault
        /\ UNCHANGED signedAt
  /\ img' = IF img < PrImages THEN img + 1 ELSE img
  /\ UNCHANGED <<prCfg, workspace, bundle, todo, promoted, refused, skipped, listed, results, tags,
                 prRecord, prRaced, prTries>>

\* Mutant: the number of tags published decides, not the errors.
VerdictByCount ==
  /\ prPc = "verdict"
  /\ IF promoted # {}
       THEN prRecord' = "success" /\ objects' = [i \in Img |-> NoLayout] /\ prPc' = "prune"
       ELSE UNCHANGED <<prRecord, objects>> /\ prPc' = "prune"
  /\ img' = 1
  /\ UNCHANGED <<prCfg, stores, handle, bundle, todo, promoted, refused, skipped, signErr, listed, results, remote, prRaced, prTries, prFaults>>

\* The end of promoteArtifacts and what publishPhaseRunner makes of it: a failed
\* tag, a gate or a fatal signature fails the run and keeps the store; one tag
\* published without an error is a success and retires the store; nothing to
\* distribute leaves the record alone.
Verdict ==
  /\ prPc = "verdict"
  /\ IF refused # {} \/ signErr
       THEN prRecord' = "failed" /\ UNCHANGED objects /\ prPc' = "ended"
     ELSE IF promoted # {}
       THEN prRecord' = "success" /\ objects' = [i \in Img |-> NoLayout] /\ prPc' = "prune"
     ELSE UNCHANGED <<prRecord, objects>> /\ prPc' = "prune"
  /\ img' = 1
  /\ UNCHANGED <<prCfg, stores, handle, bundle, todo, promoted, refused, skipped, signErr, listed, results, remote, prRaced, prTries, prFaults>>

\* The publish job dies at any point before its end.
PublishKilled ==
  /\ prPc \in {"image", "push", "reread", "sign", "verdict", "prune", "delete", "version"}
  /\ PrFault
  /\ prPc' = "ended"
  /\ UNCHANGED <<prCfg, workspace, bundle, img, todo, promoted, refused, skipped, signErr, listed,
                 results, remote, prRecord, prRaced, prTries>>

-----------------------------------------------------------------------------
(* pruneRemoteRegistries: keep_last 1 of the accumulating tags *)

\* planRegistryRetention adds the tags of this run to the protected ones; the
\* rolling tag is of a template without a sequence and is never a candidate.
ProtectedTags == PushedTags

\* Apply: of the tags in scope that are not protected, the newest is kept.
Candidates(l) == {t \in TagNames \ (ProtectedTags \cup {"rolling"}) : l[t] # "none"}
Newest(l) == {t \in Candidates(l) : \A u \in Candidates(l) : Created(l[u]) <= Created(l[t])}
Outdated(l) == Candidates(l) \ (IF Newest(l) = {} THEN {} ELSE {CHOOSE t \in Newest(l) : TRUE})

NextPrune == IF img < PrImages THEN prPc' = "prune" /\ img' = img + 1 ELSE prPc' = "ended" /\ UNCHANGED img

\* ApplyRetention lists the repository once; a listing that fails ends its pass.
ListTags ==
  /\ prPc = "prune"
  /\ \/ /\ PrOk
        /\ listed' = tags[img]
        /\ todo' = SetToSeq(Outdated(tags[img]))
        /\ IF Outdated(tags[img]) = {} THEN NextPrune ELSE prPc' = "delete" /\ UNCHANGED img
     \/ PrFault /\ NextPrune /\ UNCHANGED <<listed, todo>>
  /\ UNCHANGED <<prCfg, workspace, bundle, promoted, refused, skipped, signErr, results, remote, prRecord, prRaced, prTries>>

NextDelete == IF Len(todo) > 1 THEN prPc' = "delete" /\ todo' = Tail(todo) /\ UNCHANGED img ELSE todo' = <<>> /\ NextPrune

\* digestAwareStore.Delete: the digests of protected tags, as listed.
SharedWithProtected(t) ==
  listed[t] # "none" /\ \E p \in ProtectedTags : listed[p] = listed[t]

\* DeleteTag of every registry but GHCR removes the tag and nothing else.
DeleteTag ==
  /\ prPc = "delete"
  /\ LET t == Head(todo) IN
     \/ SharedWithProtected(t) /\ UNCHANGED tags /\ PrOk /\ NextDelete
     \/ ~SharedWithProtected(t) /\ ~prCfg.versions /\ NextDelete
          /\ \/ tags' = [tags EXCEPT ![img][t] = "none"] /\ PrOk
             \/ UNCHANGED tags /\ PrFault
     \* GHCR: the version the tag is on is looked up; one with other tags is left.
     \/ ~SharedWithProtected(t) /\ prCfg.versions /\ UNCHANGED tags /\ PrOk
          /\ IF \E u \in TagNames \ {t} : tags[img][u] = tags[img][t]
               THEN NextDelete ELSE prPc' = "version" /\ UNCHANGED <<todo, img>>
  /\ UNCHANGED <<prCfg, workspace, bundle, promoted, refused, skipped, signErr, listed, results, signedAt,
                 prRecord, prRaced, prTries>>

\* The version is deleted with whatever tags it has by then.
DeleteVersion ==
  /\ prPc = "version"
  /\ LET d == listed[Head(todo)] IN
     \/ tags' = [tags EXCEPT ![img] = [u \in TagNames |-> IF tags[img][u] = d THEN "none" ELSE tags[img][u]]] /\ PrOk
     \/ UNCHANGED tags /\ PrFault
  /\ NextDelete
  /\ UNCHANGED <<prCfg, workspace, bundle, promoted, refused, skipped, signErr, listed, results, signedAt,
                 prRecord, prRaced, prTries>>

\* Another pipeline of the repository moves the rolling tag: to its own image, or
\* back to the oldest one.
RivalPush(i, d) ==
  /\ prPc \notin {"put", "copy", "between", "ended"}
  /\ tags[i]["rolling"] # d
  /\ PrFault
  /\ tags' = [tags EXCEPT ![i]["rolling"] = d]
  /\ prRaced' = (prRaced \/ prPc = "version")
  /\ UNCHANGED <<prCfg, workspace, bundle, jobVars, results, signedAt, prRecord, prTries>>

-----------------------------------------------------------------------------
PromotionStep ==
  \/ PutBegin \/ CopyFile \/ PutVerify
  \/ PassOver \/ VerifyImage \/ PushTag \/ Reread
  \/ SignImages \/ Verdict
  \/ ListTags \/ DeleteTag \/ DeleteVersion

PromotionNext ==
  \/ PromotionStep
  \/ PerformAgain
  \/ StartPromotion
  \/ PublishKilled
  \/ \E i \in Img, f \in Files, how \in {"none", "torn"} : Decay(i, f, how)
  \/ \E i \in Img, d \in {"d-rival", "d-old"} : RivalPush(i, d)

\* Fairness: a running job's next step; jobs are started by people and forges.
PromotionSpec ==
  /\ PromotionInit /\ [][PromotionNext]_promotionVars
  /\ WF_promotionVars(PromotionStep)
  /\ WF_promotionVars(prPc = "between" /\ StartPromotion)

-----------------------------------------------------------------------------
(* Properties *)

\* Type invariant of perform's store, publish's progress and the registry.
PromotionTypeOK ==
  /\ prCfg \in PrConfigs
  /\ objects \in [Img -> [Files -> {"none", "torn", "whole"}]]
  /\ handle \cup stores \subseteq Img
  /\ bundle.handle \subseteq Img
  /\ img \in Img
  /\ Range(todo) \subseteq Files \cup TagNames
  /\ promoted \subseteq Img \X PushedTags
  /\ refused \cup skipped \cup signedAt \subseteq Img
  /\ results \in [Img -> [PushedTags -> {"none", "ok", "failed"}]]
  /\ tags \in [Img -> [TagNames -> Digests]]
  /\ listed \in [TagNames -> Digests]
  /\ prRecord \in {"none", "failed", "success"}
  /\ prTries \in 1..PrMaxTries /\ prFaults \in 0..PrMaxFaults

\* A handle in outputs.json names a complete layout, although Put accepts what it
\* finds in the store after a kill and verification does not look for blobs that
\* are missing: index.json is the last file copied.
HandleMeansComplete == \A i \in bundle.handle : Complete(bundle.objects[i])

\* A run recorded as a success pushed every tag of every image it had a verified
\* layout for, and every signature the profile enforces is at the registry.  Only for a
\* profile that may fall back and finds nothing to fall back on ("fallback") is that not
\* so: SignPublished skips the image and says nothing to the verdict.
SuccessMeansShipped ==
  prPc \in {"prune", "delete", "version"} /\ promoted # {} =>
    \A i \in (handle \cap prCfg.targeted) \ skipped :
      /\ \A t \in PushedTags : <<i, t>> \in promoted
      /\ prCfg.sign = "enforce" => i \in signedAt

\* A tag published.json calls a success was served by the registry with the recorded
\* digest after the push, whatever another pipeline did to it in between.
ResultsTruthful ==
  [][\A i \in Img, t \in PushedTags :
       results'[i][t] = "ok" /\ results[i][t] # "ok" => tags[i][t] = Digest]_promotionVars

\* The registry loses no tag but those the retention pass chose to delete: not the
\* tags that share a digest or a version with them.  Only a tag set between the
\* look-up of a version and its deletion is lost.
KeptTagsSurvive ==
  [][\A i \in Img, t \in TagNames :
       tags[i][t] # "none" /\ tags'[i][t] = "none" => t \in Range(todo) \/ prRaced]_promotionVars

\* The tag a run has just pushed outlives its own retention pass, also when the
\* build reproduced an old digest and the registry dates the tag by it.
OwnTagsSurvive ==
  prPc \in {"prune", "delete", "version", "ended"} =>
    \A i \in Img : <<i, "own">> \in promoted => tags[i]["own"] = Digest

\* A publish run that starts when nothing fails any more ships everything it holds,
\* however far earlier runs had come.
RetryConverges ==
  /\ prPc = "image" /\ img = 1 /\ promoted = {} /\ prFaults = PrMaxFaults
  /\ ~prCfg.gate
  /\ handle \cap prCfg.targeted # {}
  /\ \A i \in handle : Complete(objects[i])
  ~> /\ prRecord = "success"
     /\ \A i \in handle \cap prCfg.targeted, t \in PushedTags : tags[i][t] = Digest

\* What promotion out of the content store leaves true: a handle names
\* complete layouts only, a success has shipped every targeted image, this
\* run's own tags survive its retention, what it reports is what the registry
\* holds, and tags that retention keeps stay (cli/cmd/publish_promote.go).
PromotionKeeps ==
  /\ [](PromotionTypeOK /\ HandleMeansComplete /\ SuccessMeansShipped /\ OwnTagsSurvive)
  /\ ResultsTruthful
  /\ KeptTagsSurvive
=============================================================================
