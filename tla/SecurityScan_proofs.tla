------------------------- MODULE SecurityScan_proofs -------------------------
(***************************************************************************)
(* Proofs about SecurityScan, for every configuration, any number of       *)
(* builds and of failing scanners, stores and writes.                      *)
(*                                                                         *)
(* What a verdict means was decided several steps earlier: which image the *)
(* scan is of, which scanners were heard, what was merged of what they     *)
(* said.  The invariant says of every step what those before it have       *)
(* established, and that nothing since has changed it.  The gate counts    *)
(* findings and excused findings apart; that the difference of two counts  *)
(* is about single findings is a lemma on finite sets.                     *)
(***************************************************************************)
EXTENDS SecurityScan, FiniteSetTheorems, TLAPS

Scanning == {"scan", "grype", "merge", "syft", "cyclonedx", "advisories", "verify", "gate", "judge"}
ScLabels == {"idle", "cas", "views", "commit", "end"} \cup Scanning

\* The scan is at one of these steps, or was judged after them.
Judged(verdicts) == scPc = "end" /\ scVerdict \in verdicts
Past(labels) == scPc \in labels \/ Judged({"ok", "gated", "strict"})

\* The type invariant, by what it is about.
RunOK ==
  /\ scCfg \in ScConfigs
  /\ scPc \in ScLabels
  /\ target \in [image : 0..built, source : {"none", "store", "results"}, commit : 0..built, exact : BOOLEAN, served : BOOLEAN]
  /\ ran \subseteq scCfg.on /\ failed \subseteq scCfg.on
  /\ heard \subseteq {"trivy", "grype"} \X (0..built)
  /\ vulns \subseteq Vuln
  /\ seal \in {"none", "no", "degraded"}
  /\ scVerdict \in {"none", "ok", "error", "gated", "strict"}
  /\ scEvents \in Nat

BuildsOK ==
  /\ built \in 1..ScBuilds /\ outsOf \in 1..built /\ layout \in {"ok", "damaged", "none"}
  /\ trivyFile \in 0..built /\ grypeFile \in 0..built
  /\ spdx \in 0..built /\ cdx \in 0..built
  /\ subject \in 0..built /\ advisories \in 0..built

\* The image is the one the outputs name; the store's is intact, and past the
\* commit guard it is this build's.
Identified ==
  /\ target.image = target.commit
  /\ target.source = "store" /\ scPc \in Scanning \cup {"commit"} => layout = "ok"
  /\ target.source = "store" /\ scPc \in Scanning /\ scCfg.ci => target.image = built

\* Which scanners have had their turn.
TurnsTaken ==
  /\ ran \cap failed = {}
  /\ scPc \in {"idle", "cas", "views", "commit", "scan"} => ran = {} /\ failed = {}
  /\ scPc = "grype" => ran \cup failed = scCfg.on \cap {"trivy"}
  /\ Past({"merge", "syft", "cyclonedx", "advisories", "verify", "gate", "judge"}) => ran \cup failed = scCfg.on

\* A scanner that counts as run was heard about this image, or something kept it from it.
Listened ==
  /\ \A s \in ran : <<s, target.image>> \in heard \/ s \in deaf
  /\ DeafByMishap

\* What is judged is what was heard.
Merged ==
  Past({"syft", "cyclonedx", "advisories", "verify", "gate", "judge"}) =>
    vulns = Deduplicate(ReportOf("trivy"), ReportOf("grype"))

\* The SBOM file is of the image scanned.
Described ==
  Past({"cyclonedx", "advisories", "verify", "gate", "judge"}) /\ scCfg.sbom => spdx = target.image

Verified ==
  Past({"gate", "judge"}) /\ target.exact /\ seal # "no" => ~CommitMismatch

\* The recorded count is the one that is judged, unless its write failed.
Recorded ==
  /\ scPc \notin {"judge", "end"} => blocking = <<>>
  /\ Past({"judge"}) =>
       /\ blocking \in {<<>>, <<GatingCount>>}
       /\ scEvents = 0 => blocking = <<GatingCount>>

Decided ==
  /\ scPc # "end" => scVerdict = "none"
  /\ Judged({"ok"}) =>
       GatingCount = 0 /\ (scCfg.strict => ~StrictRefuses)
  /\ Judged({"gated"}) => GatingCount > 0

IInv ==
  /\ RunOK /\ BuildsOK
  /\ Identified
  /\ TurnsTaken
  /\ Listened
  /\ Merged
  /\ Described
  /\ Verified
  /\ Recorded
  /\ Decided
  /\ SBOMOfTheImage

-----------------------------------------------------------------------------
(* The gate *)

\* There are finitely many vulnerabilities to find.
LEMMA VulnFinite == IsFiniteSet(Vuln)
<1> DEFINE T == ({"x", "y"} \X {"p", "q"}) \X (Sev \X BOOLEAN)
           f == [t \in T |-> [id |-> t[1][1], pkg |-> t[1][2], sev |-> t[2][1], fix |-> t[2][2]]]
<1>1. IsFiniteSet({"x", "y"}) /\ IsFiniteSet({"p", "q"}) /\ IsFiniteSet(BOOLEAN) /\ IsFiniteSet(Sev)
  <2>1. IsFiniteSet({"x"} \cup {"y"}) /\ IsFiniteSet({"p"} \cup {"q"}) /\ IsFiniteSet({TRUE} \cup {FALSE})
    BY FS_Singleton, FS_Union
  <2>2. {"x", "y"} = {"x"} \cup {"y"} /\ {"p", "q"} = {"p"} \cup {"q"} /\ BOOLEAN = {TRUE} \cup {FALSE}
    OBVIOUS
  <2>3. IsFiniteSet(Sev)
    <3>1. IsFiniteSet(0..4)
      BY FS_Interval, 0 \in Int, 4 \in Int, Zenon
    <3> QED BY <3>1 DEF Sev
  <2> QED BY <2>1, <2>2, <2>3
<1>2. IsFiniteSet(T)
  <2>1. IsFiniteSet({"x", "y"} \X {"p", "q"}) /\ IsFiniteSet(Sev \X BOOLEAN)
    BY <1>1, FS_Product
  <2> QED BY <2>1, FS_Product
<1>3. f \in [T -> Vuln]
  BY DEF Vuln
<1>4. ASSUME NEW v \in Vuln PROVE \E t \in T : f[t] = v
  <2> DEFINE t == <<<<v.id, v.pkg>>, <<v.sev, v.fix>>>>
  <2>1. t \in T
    BY DEF Vuln
  <2>2. f[t] = [id |-> v.id, pkg |-> v.pkg, sev |-> v.sev, fix |-> v.fix]
    BY <2>1
  <2>3. v = [id |-> v.id, pkg |-> v.pkg, sev |-> v.sev, fix |-> v.fix]
    BY DEF Vuln
  <2> QED BY <2>1, <2>2, <2>3
<1>5. f \in Surjection(T, Vuln)
  BY <1>3, <1>4 DEF Surjection
<1> QED BY <1>2, <1>5, FS_Surjection

(* The difference of the two counts is about single findings: it is zero    *)
(* only where every finding at the threshold is excused, and positive only  *)
(* where one is not.                                                        *)
LEMMA GateCounts ==
  ASSUME RunOK
  PROVE  /\ GatingCount \in Nat
         /\ scCfg.failOn > 0 /\ GatingCount = 0 => \A v \in vulns : v.sev >= scCfg.failOn => Excused(v)
         /\ GatingCount > 0 => \E v \in vulns : v.sev >= scCfg.failOn /\ ~Excused(v)
<1> DEFINE reached == {v \in vulns : v.sev >= scCfg.failOn /\ v.sev > 0}
           passed == {v \in vulns : v.sev >= scCfg.failOn /\ Excused(v)}
<1>1. scCfg.failOn \in Nat /\ \A v \in vulns : v.sev \in Nat
  BY DEF RunOK, ScConfigs, Vuln, Sev
<1>2. CASE scCfg.failOn = 0
  BY <1>2 DEF GatingCount
<1>3. CASE scCfg.failOn > 0
  <2>1. IsFiniteSet(vulns)
    BY VulnFinite, FS_Subset DEF RunOK
  <2>2. IsFiniteSet(reached) /\ reached \subseteq vulns
    BY <2>1, FS_Subset
  <2>3. passed \subseteq reached
    BY <1>1, <1>3
  <2>4. /\ IsFiniteSet(passed)
        /\ Cardinality(passed) <= Cardinality(reached)
        /\ Cardinality(passed) = Cardinality(reached) => passed = reached
    BY <2>2, <2>3, FS_Subset
  <2>5. Cardinality(passed) \in Nat /\ Cardinality(reached) \in Nat
    BY <2>2, <2>4, FS_CardinalityType
  <2>6. GatingCount = IF Cardinality(reached) = 0 THEN 0 ELSE Cardinality(reached) - Cardinality(passed)
    <3> HIDE DEF passed, reached
    <3>1. CountAtOrAbove = Cardinality(reached)
      BY DEF CountAtOrAbove, reached
    <3>2. GatingCount = IF Cardinality(reached) = 0 THEN 0
                        ELSE Cardinality(reached)
                               - (IF Cardinality(passed) > Cardinality(reached) THEN Cardinality(reached) ELSE Cardinality(passed))
      BY <1>3, <3>1 DEF GatingCount, passed
    <3> QED BY <3>2, <2>4, <2>5
  <2>7. ASSUME GatingCount = 0 PROVE passed = reached
    <3>1. CASE Cardinality(reached) = 0
      <4>1. reached = {}
        BY <3>1, <2>2, FS_EmptySet
      <4> QED BY <4>1, <2>3
    <3>2. CASE Cardinality(reached) # 0
      <4> HIDE DEF passed, reached
      <4>1. Cardinality(reached) - Cardinality(passed) = 0
        BY <2>6, <2>7, <3>2
      <4> QED BY <4>1, <2>4, <2>5
    <3> QED BY <3>1, <3>2
  <2>8. ASSUME GatingCount > 0 PROVE \E v \in reached : v \notin passed
    <3> HIDE DEF passed, reached
    <3>1. Cardinality(reached) # Cardinality(passed)
      BY <2>5, <2>6, <2>8
    <3> QED BY <3>1, <2>3
  <2>9. GatingCount \in Nat
    <3> HIDE DEF passed, reached
    <3> QED BY <2>4, <2>5, <2>6
  <2>10. ASSUME GatingCount = 0, NEW v \in vulns, v.sev >= scCfg.failOn PROVE Excused(v)
    <3>1. v \in reached
      BY <1>1, <1>3, <2>10
    <3> QED BY <3>1, <2>7, <2>10
  <2> QED BY <2>8, <2>9, <2>10
<1> QED BY <1>1, <1>2, <1>3

(* What does not change the findings does not change the counts.            *)
LEMMA GatingStays == UNCHANGED <<scCfg, vulns>> => GatingCount' = GatingCount
BY DEF GatingCount, CountAtOrAbove, Excused, ExceptedIDs, UnreachableIDs

LEMMA ReportsStay ==
  UNCHANGED <<scCfg, heard>> =>
    ReportOf("trivy")' = ReportOf("trivy") /\ ReportOf("grype")' = ReportOf("grype")
BY DEF ReportOf, Says

(* What a report holds are vulnerabilities.                                 *)
LEMMA ReportsAreVulns ==
  ASSUME RunOK, NEW s \in {"trivy", "grype"}
  PROVE  ReportOf(s) \subseteq Vuln
<1>1. scCfg.says \in [{"trivy", "grype"} -> SUBSET Vuln]
  BY DEF RunOK, ScConfigs
<1>2. \A image : Says(s, image) \subseteq Vuln
  BY <1>1 DEF Says
<1> QED BY <1>2 DEF ReportOf

(* Merging two reports invents nothing and drops no advisory of a package;  *)
(* what the first scanner says of its severity stands, and a fix that one   *)
(* report names is not lost.                                                *)
LEMMA MergeKeeps ==
  ASSUME NEW first, NEW second, first \subseteq Vuln, second \subseteq Vuln
  PROVE  /\ Deduplicate(first, second) \subseteq Vuln
         /\ \A v \in first : \E m \in Deduplicate(first, second) :
              m.id = v.id /\ m.sev = v.sev /\ (v.fix => m.fix)
         /\ \A w \in second : (\A v \in first : v.id # w.id \/ v.pkg # w.pkg) => w \in Deduplicate(first, second)
<1> DEFINE Fixed(v) == v.fix \/ \E w \in second : w.id = v.id /\ w.pkg = v.pkg /\ w.fix
           New(v) == [v EXCEPT !.fix = Fixed(v)]
<1>1. ASSUME NEW v \in Vuln
      PROVE  New(v) \in Vuln /\ New(v).id = v.id /\ New(v).sev = v.sev /\ (v.fix => New(v).fix)
  <2>1. Fixed(v) \in BOOLEAN
    BY DEF Vuln
  <2> HIDE DEF Fixed
  <2>2. New(v).fix = Fixed(v) /\ New(v).id = v.id /\ New(v).sev = v.sev /\ New(v) \in Vuln
    BY <2>1 DEF Vuln
  <2>3. v.fix => Fixed(v)
    BY DEF Fixed
  <2> QED BY <2>2, <2>3
<1>2. Deduplicate(first, second)
        = {New(v) : v \in first} \cup {w \in second : \A v \in first : ~(v.id = w.id /\ v.pkg = w.pkg)}
  BY DEF Deduplicate
<1> HIDE DEF New
<1> QED BY <1>1, <1>2

-----------------------------------------------------------------------------
(* At first nothing was scanned.                                            *)
LEMMA InitInv == ScInit => IInv
BY ScanAssumption
DEF ScInit, ScFrom, IInv, RunOK, BuildsOK, ScLabels, Scanning, NoTarget, Identified, TurnsTaken, Merged, Described,
    Verified, Listened, DeafByMishap, Recorded, Decided, StrictRefuses, Past, Judged, SBOMOfTheImage

(* Every step keeps the invariant.                                          *)
LEMMA StepInv == IInv /\ [ScNext]_scVars => IInv'
<1> SUFFICES ASSUME IInv, [ScNext]_scVars PROVE IInv'
  OBVIOUS
<1> USE ScanAssumption
<1>0. ReportOf("trivy") \subseteq Vuln /\ ReportOf("grype") \subseteq Vuln
  BY ReportsAreVulns DEF IInv
<1>1. CASE Rebuild
  <2>0. RunOK /\ BuildsOK
    BY DEF IInv
  <2>1. RunOK'
    BY <1>1, <2>0
    DEF RunOK, BuildsOK, ScConfigs, ScLabels, Scanning, NoTarget, Rebuild, ScOk, ScFail, scFiles
  <2>2. BuildsOK'
    BY <1>1, <2>0 DEF RunOK, BuildsOK, Rebuild, ScOk, ScFail, scFiles
  <2>3. Identified'
    BY <1>1, <2>0
    DEF IInv, Identified, RunOK, BuildsOK, Scanning, CommitMismatch, NoTarget, Rebuild, ScOk,
        ScFail, scFiles
  <2>4. TurnsTaken'
    BY <1>1, <2>0 DEF IInv, TurnsTaken, RunOK, Decided, Past, Judged, Rebuild, ScOk, ScFail, scFiles
  <2>5. Merged'
    BY <1>1, <2>0
    DEF IInv, Merged, Decided, Deduplicate, Past, Judged, Rebuild, ScOk, ScFail, scFiles
  <2>6. Described'
    BY <1>1, <2>0 DEF IInv, Described, Decided, Past, Judged, Rebuild, ScOk, ScFail, scFiles
  <2>7. Verified'
    BY <1>1, <2>0
    DEF IInv, Verified, Decided, CommitMismatch, Past, Judged, Rebuild, ScOk, ScFail, scFiles
  <2>8. Recorded'
    BY <1>1, <2>0 DEF IInv, RunOK, Recorded, Decided, Past, Judged, Rebuild, ScOk, ScFail, scFiles
  <2>9. Decided'
    BY <1>1, <2>0 DEF IInv, Decided, StrictRefuses, Past, Judged, Rebuild, ScOk, ScFail, scFiles
  <2>10. SBOMOfTheImage'
    BY <1>1, <2>0 DEF IInv, SBOMOfTheImage, Described, Past, Judged, Rebuild, ScOk, ScFail, scFiles
  <2>11. Listened'
    BY <1>1, <2>0 DEF IInv, Listened, DeafByMishap, TurnsTaken, RunOK, Rebuild, ScOk, ScFail, scFiles
  <2> QED BY <2>1, <2>2, <2>3, <2>4, <2>5, <2>6, <2>7, <2>8, <2>9, <2>10, <2>11 DEF IInv
<1>2. CASE BeginScan
  <2>0. RunOK /\ BuildsOK
    BY DEF IInv
  <2>g. GatingCount' = GatingCount
    BY <1>2, GatingStays DEF BeginScan, ScOk, scFiles, scRun
  <2>r. ReportOf("trivy")' = ReportOf("trivy") /\ ReportOf("grype")' = ReportOf("grype")
    BY <1>2, ReportsStay DEF BeginScan, ScOk, scFiles, scRun
  <2>1. RunOK'
    BY <1>2, <2>0
    DEF RunOK, BuildsOK, ScConfigs, ScLabels, Scanning, NoTarget, BeginScan, ScOk, scFiles,
        scRun
  <2>2. BuildsOK'
    BY <1>2, <2>0 DEF RunOK, BuildsOK, BeginScan, ScOk, scFiles, scRun
  <2>3. Identified'
    BY <1>2, <2>0
    DEF IInv, Identified, RunOK, BuildsOK, Scanning, CommitMismatch, NoTarget, BeginScan, ScOk,
        scFiles, scRun
  <2>4. TurnsTaken'
    BY <1>2, <2>0
    DEF IInv, TurnsTaken, RunOK, Decided, Past, Judged, BeginScan, ScOk, scFiles, scRun
  <2>5. Merged'
    BY <1>2, <2>0, <2>r
    DEF IInv, Merged, Decided, Deduplicate, Past, Judged, BeginScan, ScOk, scFiles, scRun
  <2>6. Described'
    BY <1>2, <2>0 DEF IInv, Described, Decided, Past, Judged, BeginScan, ScOk, scFiles, scRun
  <2>7. Verified'
    BY <1>2, <2>0
    DEF IInv, Verified, Decided, CommitMismatch, Past, Judged, BeginScan, ScOk, scFiles, scRun
  <2>8. Recorded'
    BY <1>2, <2>0, <2>g
    DEF IInv, RunOK, Recorded, Decided, Past, Judged, BeginScan, ScOk, scFiles, scRun
  <2>9. Decided'
    BY <1>2, <2>0, <2>g DEF IInv, Decided, StrictRefuses, Past, Judged, BeginScan, ScOk, scFiles, scRun
  <2>10. SBOMOfTheImage'
    BY <1>2, <2>0 DEF IInv, SBOMOfTheImage, Described, Past, Judged, BeginScan, ScOk, scFiles, scRun
  <2>11. Listened'
    BY <1>2, <2>0 DEF IInv, Listened, DeafByMishap, TurnsTaken, RunOK, BeginScan, ScOk, scFiles, scRun
  <2> QED BY <2>1, <2>2, <2>3, <2>4, <2>5, <2>6, <2>7, <2>8, <2>9, <2>10, <2>11 DEF IInv
<1>3. CASE AttestSBOM
  <2>0. RunOK /\ BuildsOK
    BY DEF IInv
  <2>g. GatingCount' = GatingCount
    BY <1>3, GatingStays DEF AttestSBOM, ScOk, scFiles, scRun
  <2>r. ReportOf("trivy")' = ReportOf("trivy") /\ ReportOf("grype")' = ReportOf("grype")
    BY <1>3, ReportsStay DEF AttestSBOM, ScOk, scFiles, scRun
  <2>1. RunOK'
    BY <1>3, <2>0
    DEF RunOK, BuildsOK, ScConfigs, ScLabels, Scanning, NoTarget, AttestSBOM, ScOk, scFiles,
        scRun
  <2>2. BuildsOK'
    BY <1>3, <2>0 DEF RunOK, BuildsOK, AttestSBOM, ScOk, scFiles, scRun
  <2>3. Identified'
    BY <1>3, <2>0
    DEF IInv, Identified, RunOK, BuildsOK, Scanning, CommitMismatch, NoTarget, AttestSBOM, ScOk,
        scFiles, scRun
  <2>4. TurnsTaken'
    BY <1>3, <2>0
    DEF IInv, TurnsTaken, RunOK, Decided, Past, Judged, AttestSBOM, ScOk, scFiles, scRun
  <2>5. Merged'
    BY <1>3, <2>0, <2>r
    DEF IInv, Merged, Decided, Deduplicate, Past, Judged, AttestSBOM, ScOk, scFiles, scRun
  <2>6. Described'
    BY <1>3, <2>0 DEF IInv, Described, Decided, Past, Judged, AttestSBOM, ScOk, scFiles, scRun
  <2>7. Verified'
    BY <1>3, <2>0
    DEF IInv, Verified, Decided, CommitMismatch, Past, Judged, AttestSBOM, ScOk, scFiles, scRun
  <2>8. Recorded'
    BY <1>3, <2>0, <2>g
    DEF IInv, RunOK, Recorded, Decided, Past, Judged, AttestSBOM, ScOk, scFiles, scRun
  <2>9. Decided'
    BY <1>3, <2>0, <2>g DEF IInv, Decided, StrictRefuses, Past, Judged, AttestSBOM, ScOk, scFiles, scRun
  <2>10. SBOMOfTheImage'
    BY <1>3, <2>0
    DEF IInv, SBOMOfTheImage, Described, Past, Judged, AttestSBOM, ScOk, scFiles, scRun
  <2>11. Listened'
    BY <1>3, <2>0 DEF IInv, Listened, DeafByMishap, TurnsTaken, RunOK, AttestSBOM, ScOk, scFiles, scRun
  <2> QED BY <2>1, <2>2, <2>3, <2>4, <2>5, <2>6, <2>7, <2>8, <2>9, <2>10, <2>11 DEF IInv
<1>4. CASE ResolveCASTarget
  <2>0. RunOK /\ BuildsOK
    BY DEF IInv
  <2>g. GatingCount' = GatingCount
    BY <1>4, GatingStays DEF ResolveCASTarget, ScOk, scFiles
  <2>r. ReportOf("trivy")' = ReportOf("trivy") /\ ReportOf("grype")' = ReportOf("grype")
    BY <1>4, ReportsStay DEF ResolveCASTarget, ScOk, scFiles
  <2>o. outsOf \in 0..built
    BY <2>0 DEF BuildsOK
  <2> DEFINE T == [image : 0..built, source : {"none", "store", "results"}, commit : 0..built, exact : BOOLEAN, served : BOOLEAN]
             Of(s, e, d) == [image |-> outsOf, source |-> s, commit |-> outsOf, exact |-> e, served |-> d]
  <2>t. target' \in T
    <3>1. target \in T
      BY <2>0 DEF RunOK
    <3>2. \A s \in {"store", "results"}, e, d \in BOOLEAN : Of(s, e, d) \in T
      BY <2>o
    <3>3. target' = target \/ \E s \in {"store", "results"}, e, d \in BOOLEAN : target' = Of(s, e, d)
      BY <1>4 DEF ResolveCASTarget
    <3> HIDE DEF T, Of
    <3> QED BY <3>1, <3>2, <3>3
  <2>1. RunOK'
    BY <1>4, <2>0, <2>t DEF RunOK, ScLabels, Scanning, ResolveCASTarget, ScOk, scFiles
  <2>2. BuildsOK'
    BY <1>4, <2>0 DEF RunOK, BuildsOK, ResolveCASTarget, ScOk, scFiles
  <2>3. Identified'
    BY <1>4, <2>0
    DEF IInv, Identified, RunOK, BuildsOK, Scanning, CommitMismatch, NoTarget, ResolveCASTarget,
        ScOk, scFiles
  <2>4. TurnsTaken'
    BY <1>4, <2>0
    DEF IInv, TurnsTaken, RunOK, Decided, Past, Judged, ResolveCASTarget, ScOk, scFiles
  <2>5. Merged'
    BY <1>4, <2>0, <2>r
    DEF IInv, Merged, Decided, Deduplicate, Past, Judged, ResolveCASTarget, ScOk, scFiles
  <2>6. Described'
    BY <1>4, <2>0 DEF IInv, Described, Decided, Past, Judged, ResolveCASTarget, ScOk, scFiles
  <2>7. Verified'
    BY <1>4, <2>0
    DEF IInv, Verified, Decided, CommitMismatch, Past, Judged, ResolveCASTarget, ScOk, scFiles
  <2>8. Recorded'
    BY <1>4, <2>0, <2>g
    DEF IInv, RunOK, Recorded, Decided, Past, Judged, ResolveCASTarget, ScOk, scFiles
  <2>9. Decided'
    BY <1>4, <2>0, <2>g DEF IInv, Decided, StrictRefuses, Past, Judged, ResolveCASTarget, ScOk, scFiles
  <2>10. SBOMOfTheImage'
    BY <1>4, <2>0 DEF IInv, SBOMOfTheImage, Described, Past, Judged, ResolveCASTarget, ScOk, scFiles
  <2>11. Listened'
    BY <1>4, <2>0 DEF IInv, Listened, DeafByMishap, TurnsTaken, RunOK, ResolveCASTarget, ScOk, scFiles
  <2> QED BY <2>1, <2>2, <2>3, <2>4, <2>5, <2>6, <2>7, <2>8, <2>9, <2>10, <2>11 DEF IInv
<1>5. CASE ResolveTarget
  <2>0. RunOK /\ BuildsOK
    BY DEF IInv
  <2>g. GatingCount' = GatingCount
    BY <1>5, GatingStays DEF ResolveTarget, ScOk, ScFail, Ends, scFiles
  <2>r. ReportOf("trivy")' = ReportOf("trivy") /\ ReportOf("grype")' = ReportOf("grype")
    BY <1>5, ReportsStay DEF ResolveTarget, ScOk, ScFail, Ends, scFiles
  <2>o. outsOf \in 0..built
    BY <2>0 DEF BuildsOK
  <2> DEFINE T == [image : 0..built, source : {"none", "store", "results"}, commit : 0..built, exact : BOOLEAN, served : BOOLEAN]
             Of(s, e, d) == [image |-> outsOf, source |-> s, commit |-> outsOf, exact |-> e, served |-> d]
  <2>t. target' \in T
    <3>1. target \in T
      BY <2>0 DEF RunOK
    <3>2. \A s \in {"store", "results"}, e, d \in BOOLEAN : Of(s, e, d) \in T
      BY <2>o
    <3>3. target' = target \/ \E s \in {"store", "results"}, e, d \in BOOLEAN : target' = Of(s, e, d)
      BY <1>5 DEF ResolveTarget
    <3> HIDE DEF T, Of
    <3> QED BY <3>1, <3>2, <3>3
  <2>1. RunOK'
    BY <1>5, <2>0, <2>t DEF RunOK, ScLabels, Scanning, ResolveTarget, ScOk, ScFail, Ends, scFiles
  <2>2. BuildsOK'
    BY <1>5, <2>0 DEF RunOK, BuildsOK, ResolveTarget, ScOk, ScFail, Ends, scFiles
  <2>3. Identified'
    BY <1>5, <2>0
    DEF IInv, Identified, RunOK, BuildsOK, Scanning, CommitMismatch, NoTarget, ResolveTarget,
        ScOk, ScFail, Ends, scFiles
  <2>4. TurnsTaken'
    BY <1>5, <2>0
    DEF IInv, TurnsTaken, RunOK, Decided, Past, Judged, ResolveTarget, ScOk, ScFail, Ends,
        scFiles
  <2>5. Merged'
    BY <1>5, <2>0, <2>r
    DEF IInv, Merged, Decided, Deduplicate, Past, Judged, ResolveTarget, ScOk, ScFail, Ends,
        scFiles
  <2>6. Described'
    BY <1>5, <2>0
    DEF IInv, Described, Decided, Past, Judged, ResolveTarget, ScOk, ScFail, Ends, scFiles
  <2>7. Verified'
    BY <1>5, <2>0
    DEF IInv, Verified, Decided, CommitMismatch, Past, Judged, ResolveTarget, ScOk, ScFail, Ends,
        scFiles
  <2>8. Recorded'
    BY <1>5, <2>0, <2>g
    DEF IInv, RunOK, Recorded, Decided, Past, Judged, ResolveTarget, ScOk, ScFail, Ends, scFiles
  <2>9. Decided'
    BY <1>5, <2>0, <2>g DEF IInv, Decided, StrictRefuses, Past, Judged, ResolveTarget, ScOk, ScFail, Ends, scFiles
  <2>10. SBOMOfTheImage'
    BY <1>5, <2>0
    DEF IInv, SBOMOfTheImage, Described, Past, Judged, ResolveTarget, ScOk, ScFail, Ends,
        scFiles
  <2>11. Listened'
    BY <1>5, <2>0 DEF IInv, Listened, DeafByMishap, TurnsTaken, RunOK, ResolveTarget, ScOk, ScFail, Ends, scFiles
  <2> QED BY <2>1, <2>2, <2>3, <2>4, <2>5, <2>6, <2>7, <2>8, <2>9, <2>10, <2>11 DEF IInv
<1>6. CASE CommitGuard
  <2>0. RunOK /\ BuildsOK
    BY DEF IInv
  <2>g. GatingCount' = GatingCount
    BY <1>6, GatingStays DEF CommitGuard, ScOk, Ends, scFiles
  <2>r. ReportOf("trivy")' = ReportOf("trivy") /\ ReportOf("grype")' = ReportOf("grype")
    BY <1>6, ReportsStay DEF CommitGuard, ScOk, Ends, scFiles
  <2>1. RunOK'
    BY <1>6, <2>0
    DEF RunOK, BuildsOK, ScConfigs, ScLabels, Scanning, NoTarget, CommitGuard, ScOk, Ends,
        scFiles
  <2>2. BuildsOK'
    BY <1>6, <2>0 DEF RunOK, BuildsOK, CommitGuard, ScOk, Ends, scFiles
  <2>3. Identified'
    BY <1>6, <2>0
    DEF IInv, Identified, RunOK, BuildsOK, Scanning, CommitMismatch, NoTarget, CommitGuard, ScOk,
        Ends, scFiles
  <2>4. TurnsTaken'
    BY <1>6, <2>0
    DEF IInv, TurnsTaken, RunOK, Decided, Past, Judged, CommitGuard, ScOk, Ends, scFiles
  <2>5. Merged'
    BY <1>6, <2>0, <2>r
    DEF IInv, Merged, Decided, Deduplicate, Past, Judged, CommitGuard, ScOk, Ends, scFiles
  <2>6. Described'
    BY <1>6, <2>0 DEF IInv, Described, Decided, Past, Judged, CommitGuard, ScOk, Ends, scFiles
  <2>7. Verified'
    BY <1>6, <2>0
    DEF IInv, Verified, Decided, CommitMismatch, Past, Judged, CommitGuard, ScOk, Ends, scFiles
  <2>8. Recorded'
    BY <1>6, <2>0, <2>g
    DEF IInv, RunOK, Recorded, Decided, Past, Judged, CommitGuard, ScOk, Ends, scFiles
  <2>9. Decided'
    BY <1>6, <2>0, <2>g DEF IInv, Decided, StrictRefuses, Past, Judged, CommitGuard, ScOk, Ends, scFiles
  <2>10. SBOMOfTheImage'
    BY <1>6, <2>0
    DEF IInv, SBOMOfTheImage, Described, Past, Judged, CommitGuard, ScOk, Ends, scFiles
  <2>11. Listened'
    BY <1>6, <2>0 DEF IInv, Listened, DeafByMishap, TurnsTaken, RunOK, CommitGuard, ScOk, Ends, scFiles
  <2> QED BY <2>1, <2>2, <2>3, <2>4, <2>5, <2>6, <2>7, <2>8, <2>9, <2>10, <2>11 DEF IInv
<1>7. CASE Trivy
  <2>0. RunOK /\ BuildsOK
    BY DEF IInv
  <2>g. GatingCount' = GatingCount
    BY <1>7, GatingStays DEF Trivy, ScOk, ScFail, Ends
  <2>o. scCfg.on \subseteq {"trivy", "grype"}
    BY <2>0 DEF RunOK, ScConfigs
  <2>t. target.image \in 0..built /\ trivyFile \in 0..built /\ grypeFile \in 0..built
    BY <2>0 DEF RunOK, BuildsOK
  <2>h. heard' \subseteq {"trivy", "grype"} \X (0..built)
    BY <1>7, <2>0, <2>t DEF RunOK, Trivy
  <2>1. RunOK'
    BY <1>7, <2>0, <2>h DEF RunOK, ScLabels, Scanning, Trivy, ScOk, ScFail, Ends
  <2>2. BuildsOK'
    BY <1>7, <2>0 DEF RunOK, BuildsOK, Trivy, ScOk, ScFail, Ends
  <2>3. Identified'
    BY <1>7, <2>0
    DEF IInv, Identified, RunOK, BuildsOK, Scanning, CommitMismatch, NoTarget, Trivy, ScOk,
        ScFail, Ends
  <2>4. TurnsTaken'
    BY <1>7, <2>0, <2>o
    DEF IInv, TurnsTaken, RunOK, Decided, Past, Judged, Trivy, ScOk, ScFail, Ends
  <2>5. Merged'
    BY <1>7, <2>0 DEF IInv, Merged, Decided, Deduplicate, Past, Judged, Trivy, ScOk, ScFail, Ends
  <2>6. Described'
    BY <1>7, <2>0 DEF IInv, Described, Decided, Past, Judged, Trivy, ScOk, ScFail, Ends
  <2>7. Verified'
    BY <1>7, <2>0
    DEF IInv, Verified, Decided, CommitMismatch, Past, Judged, Trivy, ScOk, ScFail, Ends
  <2>8. Recorded'
    BY <1>7, <2>0, <2>g DEF IInv, RunOK, Recorded, Decided, Past, Judged, Trivy, ScOk, ScFail, Ends
  <2>9. Decided'
    BY <1>7, <2>0, <2>g DEF IInv, Decided, StrictRefuses, Past, Judged, Trivy, ScOk, ScFail, Ends
  <2>10. SBOMOfTheImage'
    BY <1>7, <2>0 DEF IInv, SBOMOfTheImage, Described, Past, Judged, Trivy, ScOk, ScFail, Ends
  <2>11. Listened'
    BY <1>7, <2>0 DEF IInv, Listened, DeafByMishap, TurnsTaken, RunOK, Trivy, ScOk, ScFail, Ends
  <2> QED BY <2>1, <2>2, <2>3, <2>4, <2>5, <2>6, <2>7, <2>8, <2>9, <2>10, <2>11 DEF IInv
<1>8. CASE Grype
  <2>0. RunOK /\ BuildsOK
    BY DEF IInv
  <2>g. GatingCount' = GatingCount
    BY <1>8, GatingStays DEF Grype, ScOk, ScFail
  <2>o. scCfg.on \subseteq {"trivy", "grype"}
    BY <2>0 DEF RunOK, ScConfigs
  <2>t. target.image \in 0..built /\ trivyFile \in 0..built /\ grypeFile \in 0..built
    BY <2>0 DEF RunOK, BuildsOK
  <2>h. heard' \subseteq {"trivy", "grype"} \X (0..built)
    BY <1>8, <2>0, <2>t DEF RunOK, Grype
  <2>u. /\ scPc = "grype"
        /\ UNCHANGED <<scCfg, built, layout, outsOf, target, vulns, seal, blocking, trivyFile, spdx, cdx,
                       subject, advisories, boundTo>>
        /\ scEvents' = scEvents \/ scEvents' = scEvents + 1
    BY <1>8 DEF Grype, ScOk, ScFail
  <2>e. \/ scPc' = "end" /\ scVerdict' = "error" /\ ran' = ran /\ failed' = failed
        \/ /\ scPc' = "merge" /\ scVerdict' = scVerdict
           /\ \/ "grype" \notin scCfg.on /\ ran' = ran /\ failed' = failed
              \/ "grype" \in scCfg.on /\ ran' = ran \cup {"grype"} /\ failed' = failed
              \/ "grype" \in scCfg.on /\ ran' = ran /\ failed' = failed \cup {"grype"}
    BY <1>8 DEF Grype, Ends
  <2>1. RunOK'
    BY <2>u, <2>e, <2>0, <2>h DEF RunOK, ScLabels, Scanning
  <2>2. BuildsOK'
    BY <1>8, <2>0 DEF RunOK, BuildsOK, Grype, ScOk, ScFail
  <2>3. Identified'
    BY <1>8, <2>0
    DEF IInv, Identified, RunOK, BuildsOK, Scanning, CommitMismatch, NoTarget, Grype, ScOk,
        ScFail
  <2>4. TurnsTaken'
    BY <2>u, <2>e, <2>0, <2>o DEF IInv, TurnsTaken, RunOK, Decided, Past, Judged
  <2>5. Merged'
    BY <2>u, <2>e DEF Merged, Past, Judged
  <2>6. Described'
    BY <2>u, <2>e DEF Described, Past, Judged
  <2>7. Verified'
    BY <2>u, <2>e DEF Verified, Past, Judged
  <2>8. Recorded'
    BY <1>8, <2>0, <2>g DEF IInv, RunOK, Recorded, Decided, Past, Judged, Grype, ScOk, ScFail
  <2>9. Decided'
    BY <2>u, <2>e DEF IInv, Decided, Judged
  <2>10. SBOMOfTheImage'
    BY <1>8, <2>0 DEF IInv, SBOMOfTheImage, Described, Past, Judged, Grype, ScOk, ScFail
  <2>11. Listened'
    BY <1>8, <2>0 DEF IInv, Listened, DeafByMishap, TurnsTaken, RunOK, Grype, ScOk, ScFail
  <2> QED BY <2>1, <2>2, <2>3, <2>4, <2>5, <2>6, <2>7, <2>8, <2>9, <2>10, <2>11 DEF IInv
<1>9. CASE Merge
  <2>0. RunOK /\ BuildsOK
    BY DEF IInv
  <2>r. ReportOf("trivy")' = ReportOf("trivy") /\ ReportOf("grype")' = ReportOf("grype")
    BY <1>9, ReportsStay DEF Merge, ScOk, scFiles
  <2>1. RunOK'
    BY <1>9, <2>0, <1>0, MergeKeeps
    DEF RunOK, BuildsOK, ScConfigs, ScLabels, Scanning, NoTarget, Merge, ScOk, scFiles
  <2>2. BuildsOK'
    BY <1>9, <2>0 DEF RunOK, BuildsOK, Merge, ScOk, scFiles
  <2>3. Identified'
    BY <1>9, <2>0
    DEF IInv, Identified, RunOK, BuildsOK, Scanning, CommitMismatch, NoTarget, Merge, ScOk,
        scFiles
  <2>4. TurnsTaken'
    BY <1>9, <2>0 DEF IInv, TurnsTaken, RunOK, Decided, Past, Judged, Merge, ScOk, scFiles
  <2>5. Merged'
    BY <1>9, <2>0, <2>r DEF IInv, Merged, Decided, Deduplicate, Past, Judged, Merge, ScOk, scFiles
  <2>6. Described'
    BY <1>9, <2>0 DEF IInv, Described, Decided, Past, Judged, Merge, ScOk, scFiles
  <2>7. Verified'
    BY <1>9, <2>0 DEF IInv, Verified, Decided, CommitMismatch, Past, Judged, Merge, ScOk, scFiles
  <2>8. Recorded'
    BY <1>9, <2>0 DEF IInv, RunOK, Recorded, Decided, Past, Judged, Merge, ScOk, scFiles
  <2>9. Decided'
    BY <1>9, <2>0 DEF IInv, Decided, StrictRefuses, Past, Judged, Merge, ScOk, scFiles
  <2>10. SBOMOfTheImage'
    BY <1>9, <2>0 DEF IInv, SBOMOfTheImage, Described, Past, Judged, Merge, ScOk, scFiles
  <2>11. Listened'
    BY <1>9, <2>0 DEF IInv, Listened, DeafByMishap, TurnsTaken, RunOK, Merge, ScOk, scFiles
  <2> QED BY <2>1, <2>2, <2>3, <2>4, <2>5, <2>6, <2>7, <2>8, <2>9, <2>10, <2>11 DEF IInv
<1>10. CASE Syft
  <2>0. RunOK /\ BuildsOK
    BY DEF IInv
  <2>g. GatingCount' = GatingCount
    BY <1>10, GatingStays DEF Syft, ScOk, ScFail, Ends
  <2>r. ReportOf("trivy")' = ReportOf("trivy") /\ ReportOf("grype")' = ReportOf("grype")
    BY <1>10, ReportsStay DEF Syft, ScOk, ScFail, Ends
  <2>1. RunOK'
    BY <1>10, <2>0
    DEF RunOK, BuildsOK, ScConfigs, ScLabels, Scanning, NoTarget, Syft, ScOk, ScFail, Ends
  <2>2. BuildsOK'
    BY <1>10, <2>0 DEF RunOK, BuildsOK, Syft, ScOk, ScFail, Ends
  <2>3. Identified'
    BY <1>10, <2>0
    DEF IInv, Identified, RunOK, BuildsOK, Scanning, CommitMismatch, NoTarget, Syft, ScOk,
        ScFail, Ends
  <2>4. TurnsTaken'
    BY <1>10, <2>0 DEF IInv, TurnsTaken, RunOK, Decided, Past, Judged, Syft, ScOk, ScFail, Ends
  <2>5. Merged'
    BY <1>10, <2>0, <2>r
    DEF IInv, Merged, Decided, Deduplicate, Past, Judged, Syft, ScOk, ScFail, Ends
  <2>6. Described'
    BY <1>10, <2>0 DEF IInv, Described, Decided, Past, Judged, Syft, ScOk, ScFail, Ends
  <2>7. Verified'
    BY <1>10, <2>0
    DEF IInv, Verified, Decided, CommitMismatch, Past, Judged, Syft, ScOk, ScFail, Ends
  <2>8. Recorded'
    BY <1>10, <2>0, <2>g DEF IInv, RunOK, Recorded, Decided, Past, Judged, Syft, ScOk, ScFail, Ends
  <2>9. Decided'
    BY <1>10, <2>0, <2>g DEF IInv, Decided, StrictRefuses, Past, Judged, Syft, ScOk, ScFail, Ends
  <2>10. SBOMOfTheImage'
    BY <1>10, <2>0 DEF IInv, SBOMOfTheImage, Described, Past, Judged, Syft, ScOk, ScFail, Ends
  <2>11. Listened'
    BY <1>10, <2>0 DEF IInv, Listened, DeafByMishap, TurnsTaken, RunOK, Syft, ScOk, ScFail, Ends
  <2> QED BY <2>1, <2>2, <2>3, <2>4, <2>5, <2>6, <2>7, <2>8, <2>9, <2>10, <2>11 DEF IInv
<1>11. CASE CycloneDX
  <2>0. RunOK /\ BuildsOK
    BY DEF IInv
  <2>g. GatingCount' = GatingCount
    BY <1>11, GatingStays DEF CycloneDX, ScOk, ScFail, Ends
  <2>r. ReportOf("trivy")' = ReportOf("trivy") /\ ReportOf("grype")' = ReportOf("grype")
    BY <1>11, ReportsStay DEF CycloneDX, ScOk, ScFail, Ends
  <2>1. RunOK'
    BY <1>11, <2>0
    DEF RunOK, BuildsOK, ScConfigs, ScLabels, Scanning, NoTarget, CycloneDX, ScOk, ScFail, Ends
  <2>2. BuildsOK'
    BY <1>11, <2>0 DEF RunOK, BuildsOK, CycloneDX, ScOk, ScFail, Ends
  <2>3. Identified'
    BY <1>11, <2>0
    DEF IInv, Identified, RunOK, BuildsOK, Scanning, CommitMismatch, NoTarget, CycloneDX, ScOk,
        ScFail, Ends
  <2>4. TurnsTaken'
    BY <1>11, <2>0 DEF IInv, TurnsTaken, RunOK, Decided, Past, Judged, CycloneDX, ScOk, ScFail, Ends
  <2>5. Merged'
    BY <1>11, <2>0, <2>r
    DEF IInv, Merged, Decided, Deduplicate, Past, Judged, CycloneDX, ScOk, ScFail, Ends
  <2>6. Described'
    BY <1>11, <2>0 DEF IInv, Described, Decided, Past, Judged, CycloneDX, ScOk, ScFail, Ends
  <2>7. Verified'
    BY <1>11, <2>0
    DEF IInv, Verified, Decided, CommitMismatch, Past, Judged, CycloneDX, ScOk, ScFail, Ends
  <2>8. Recorded'
    BY <1>11, <2>0, <2>g
    DEF IInv, RunOK, Recorded, Decided, Past, Judged, CycloneDX, ScOk, ScFail, Ends
  <2>9. Decided'
    BY <1>11, <2>0, <2>g DEF IInv, Decided, StrictRefuses, Past, Judged, CycloneDX, ScOk, ScFail, Ends
  <2>10. SBOMOfTheImage'
    BY <1>11, <2>0 DEF IInv, SBOMOfTheImage, Described, Past, Judged, CycloneDX, ScOk, ScFail, Ends
  <2>11. Listened'
    BY <1>11, <2>0 DEF IInv, Listened, DeafByMishap, TurnsTaken, RunOK, CycloneDX, ScOk, ScFail, Ends
  <2> QED BY <2>1, <2>2, <2>3, <2>4, <2>5, <2>6, <2>7, <2>8, <2>9, <2>10, <2>11 DEF IInv
<1>12. CASE WriteAdvisories
  <2>0. RunOK /\ BuildsOK
    BY DEF IInv
  <2>g. GatingCount' = GatingCount
    BY <1>12, GatingStays DEF WriteAdvisories, ScOk, ScFail, scRun
  <2>r. ReportOf("trivy")' = ReportOf("trivy") /\ ReportOf("grype")' = ReportOf("grype")
    BY <1>12, ReportsStay DEF WriteAdvisories, ScOk, ScFail, scRun
  <2>1. RunOK'
    BY <1>12, <2>0
    DEF RunOK, BuildsOK, ScConfigs, ScLabels, Scanning, NoTarget, WriteAdvisories, ScOk, ScFail,
        scRun
  <2>2. BuildsOK'
    BY <1>12, <2>0 DEF RunOK, BuildsOK, WriteAdvisories, ScOk, ScFail, scRun
  <2>3. Identified'
    BY <1>12, <2>0
    DEF IInv, Identified, RunOK, BuildsOK, Scanning, CommitMismatch, NoTarget, WriteAdvisories,
        ScOk, ScFail, scRun
  <2>4. TurnsTaken'
    BY <1>12, <2>0
    DEF IInv, TurnsTaken, RunOK, Decided, Past, Judged, WriteAdvisories, ScOk, ScFail, scRun
  <2>5. Merged'
    BY <1>12, <2>0, <2>r
    DEF IInv, Merged, Decided, Deduplicate, Past, Judged, WriteAdvisories, ScOk, ScFail, scRun
  <2>6. Described'
    BY <1>12, <2>0 DEF IInv, Described, Decided, Past, Judged, WriteAdvisories, ScOk, ScFail, scRun
  <2>7. Verified'
    BY <1>12, <2>0
    DEF IInv, Verified, Decided, CommitMismatch, Past, Judged, WriteAdvisories, ScOk, ScFail,
        scRun
  <2>8. Recorded'
    BY <1>12, <2>0, <2>g
    DEF IInv, RunOK, Recorded, Decided, Past, Judged, WriteAdvisories, ScOk, ScFail, scRun
  <2>9. Decided'
    BY <1>12, <2>0, <2>g DEF IInv, Decided, StrictRefuses, Past, Judged, WriteAdvisories, ScOk, ScFail, scRun
  <2>10. SBOMOfTheImage'
    BY <1>12, <2>0
    DEF IInv, SBOMOfTheImage, Described, Past, Judged, WriteAdvisories, ScOk, ScFail, scRun
  <2>11. Listened'
    BY <1>12, <2>0 DEF IInv, Listened, DeafByMishap, TurnsTaken, RunOK, WriteAdvisories, ScOk, ScFail, scRun
  <2> QED BY <2>1, <2>2, <2>3, <2>4, <2>5, <2>6, <2>7, <2>8, <2>9, <2>10, <2>11 DEF IInv
<1>13. CASE Verify
  <2>0. RunOK /\ BuildsOK
    BY DEF IInv
  <2>g. GatingCount' = GatingCount
    BY <1>13, GatingStays DEF Verify, ScOk, ScFail, scFiles
  <2>r. ReportOf("trivy")' = ReportOf("trivy") /\ ReportOf("grype")' = ReportOf("grype")
    BY <1>13, ReportsStay DEF Verify, ScOk, ScFail, scFiles
  <2>1. RunOK'
    BY <1>13, <2>0
    DEF RunOK, BuildsOK, ScConfigs, ScLabels, Scanning, NoTarget, Verify, ScOk, ScFail, scFiles
  <2>2. BuildsOK'
    BY <1>13, <2>0 DEF RunOK, BuildsOK, Verify, ScOk, ScFail, scFiles
  <2>3. Identified'
    BY <1>13, <2>0
    DEF IInv, Identified, RunOK, BuildsOK, Scanning, CommitMismatch, NoTarget, Verify, ScOk,
        ScFail, scFiles
  <2>4. TurnsTaken'
    BY <1>13, <2>0 DEF IInv, TurnsTaken, RunOK, Decided, Past, Judged, Verify, ScOk, ScFail, scFiles
  <2>5. Merged'
    BY <1>13, <2>0, <2>r
    DEF IInv, Merged, Decided, Deduplicate, Past, Judged, Verify, ScOk, ScFail, scFiles
  <2>6. Described'
    BY <1>13, <2>0 DEF IInv, Described, Decided, Past, Judged, Verify, ScOk, ScFail, scFiles
  <2>7. Verified'
    BY <1>13, <2>0
    DEF IInv, Verified, Decided, CommitMismatch, Past, Judged, Verify, ScOk, ScFail, scFiles
  <2>8. Recorded'
    BY <1>13, <2>0, <2>g
    DEF IInv, RunOK, Recorded, Decided, Past, Judged, Verify, ScOk, ScFail, scFiles
  <2>9. Decided'
    BY <1>13, <2>0, <2>g DEF IInv, Decided, StrictRefuses, Past, Judged, Verify, ScOk, ScFail, scFiles
  <2>10. SBOMOfTheImage'
    BY <1>13, <2>0 DEF IInv, SBOMOfTheImage, Described, Past, Judged, Verify, ScOk, ScFail, scFiles
  <2>11. Listened'
    BY <1>13, <2>0 DEF IInv, Listened, DeafByMishap, TurnsTaken, RunOK, Verify, ScOk, ScFail, scFiles
  <2> QED BY <2>1, <2>2, <2>3, <2>4, <2>5, <2>6, <2>7, <2>8, <2>9, <2>10, <2>11 DEF IInv
<1>14. CASE RecordFacts
  <2>0. RunOK /\ BuildsOK
    BY DEF IInv
  <2>g. GatingCount' = GatingCount
    BY <1>14, GatingStays DEF RecordFacts, ScOk, ScFail, scFiles
  <2>r. ReportOf("trivy")' = ReportOf("trivy") /\ ReportOf("grype")' = ReportOf("grype")
    BY <1>14, ReportsStay DEF RecordFacts, ScOk, ScFail, scFiles
  <2>1. RunOK'
    BY <1>14, <2>0
    DEF RunOK, BuildsOK, ScConfigs, ScLabels, Scanning, NoTarget, RecordFacts, ScOk, ScFail,
        scFiles
  <2>2. BuildsOK'
    BY <1>14, <2>0 DEF RunOK, BuildsOK, RecordFacts, ScOk, ScFail, scFiles
  <2>3. Identified'
    BY <1>14, <2>0
    DEF IInv, Identified, RunOK, BuildsOK, Scanning, CommitMismatch, NoTarget, RecordFacts, ScOk,
        ScFail, scFiles
  <2>4. TurnsTaken'
    BY <1>14, <2>0
    DEF IInv, TurnsTaken, RunOK, Decided, Past, Judged, RecordFacts, ScOk, ScFail, scFiles
  <2>5. Merged'
    BY <1>14, <2>0, <2>r
    DEF IInv, Merged, Decided, Deduplicate, Past, Judged, RecordFacts, ScOk, ScFail, scFiles
  <2>6. Described'
    BY <1>14, <2>0 DEF IInv, Described, Decided, Past, Judged, RecordFacts, ScOk, ScFail, scFiles
  <2>7. Verified'
    BY <1>14, <2>0
    DEF IInv, Verified, Decided, CommitMismatch, Past, Judged, RecordFacts, ScOk, ScFail,
        scFiles
  <2>8. Recorded'
    BY <1>14, <2>0, <2>g
    DEF IInv, RunOK, Recorded, Decided, Past, Judged, RecordFacts, ScOk, ScFail, scFiles
  <2>9. Decided'
    BY <1>14, <2>0, <2>g DEF IInv, Decided, StrictRefuses, Past, Judged, RecordFacts, ScOk, ScFail, scFiles
  <2>10. SBOMOfTheImage'
    BY <1>14, <2>0
    DEF IInv, SBOMOfTheImage, Described, Past, Judged, RecordFacts, ScOk, ScFail, scFiles
  <2>11. Listened'
    BY <1>14, <2>0 DEF IInv, Listened, DeafByMishap, TurnsTaken, RunOK, RecordFacts, ScOk, ScFail, scFiles
  <2> QED BY <2>1, <2>2, <2>3, <2>4, <2>5, <2>6, <2>7, <2>8, <2>9, <2>10, <2>11 DEF IInv
<1>15. CASE Judge
  <2>0. RunOK /\ BuildsOK
    BY DEF IInv
  <2>g. GatingCount' = GatingCount
    BY <1>15, GatingStays DEF Judge, ScOk, Ends, scFiles
  <2>r. ReportOf("trivy")' = ReportOf("trivy") /\ ReportOf("grype")' = ReportOf("grype")
    BY <1>15, ReportsStay DEF Judge, ScOk, Ends, scFiles
  <2>1. RunOK'
    BY <1>15, <2>0
    DEF RunOK, BuildsOK, ScConfigs, ScLabels, Scanning, NoTarget, Judge, ScOk, Ends, scFiles
  <2>2. BuildsOK'
    BY <1>15, <2>0 DEF RunOK, BuildsOK, Judge, ScOk, Ends, scFiles
  <2>3. Identified'
    BY <1>15, <2>0
    DEF IInv, Identified, RunOK, BuildsOK, Scanning, CommitMismatch, NoTarget, Judge, ScOk, Ends,
        scFiles
  <2>4. TurnsTaken'
    BY <1>15, <2>0 DEF IInv, TurnsTaken, RunOK, Decided, Past, Judged, Judge, ScOk, Ends, scFiles
  <2>5. Merged'
    BY <1>15, <2>0, <2>r
    DEF IInv, Merged, Decided, Deduplicate, Past, Judged, Judge, ScOk, Ends, scFiles
  <2>6. Described'
    BY <1>15, <2>0 DEF IInv, Described, Decided, Past, Judged, Judge, ScOk, Ends, scFiles
  <2>7. Verified'
    BY <1>15, <2>0
    DEF IInv, Verified, Decided, CommitMismatch, Past, Judged, Judge, ScOk, Ends, scFiles
  <2>8. Recorded'
    BY <1>15, <2>0, <2>g
    DEF IInv, RunOK, Recorded, Decided, Past, Judged, Judge, ScOk, Ends, scFiles
  <2>9. Decided'
    BY <1>15, <2>0, <2>g, GateCounts DEF IInv, Decided, StrictRefuses, Past, Judged, Judge, ScOk, Ends, scFiles
  <2>10. SBOMOfTheImage'
    BY <1>15, <2>0 DEF IInv, SBOMOfTheImage, Described, Past, Judged, Judge, ScOk, Ends, scFiles
  <2>11. Listened'
    BY <1>15, <2>0 DEF IInv, Listened, DeafByMishap, TurnsTaken, RunOK, Judge, ScOk, Ends, scFiles
  <2> QED BY <2>1, <2>2, <2>3, <2>4, <2>5, <2>6, <2>7, <2>8, <2>9, <2>10, <2>11 DEF IInv
<1>16. CASE UNCHANGED scVars
  <2>0. RunOK /\ BuildsOK
    BY DEF IInv
  <2>g. GatingCount' = GatingCount
    BY <1>16, GatingStays DEF scVars, scRun, scFiles
  <2>r. ReportOf("trivy")' = ReportOf("trivy") /\ ReportOf("grype")' = ReportOf("grype")
    BY <1>16, ReportsStay DEF scVars, scRun, scFiles
  <2>1. RunOK'
    BY <1>16, <2>0
    DEF RunOK, BuildsOK, ScConfigs, ScLabels, Scanning, NoTarget, scVars, scRun, scFiles
  <2>2. BuildsOK'
    BY <1>16, <2>0 DEF RunOK, BuildsOK, scVars, scRun, scFiles
  <2>3. Identified'
    BY <1>16, <2>0
    DEF IInv, Identified, RunOK, BuildsOK, Scanning, CommitMismatch, NoTarget, scVars, scRun,
        scFiles
  <2>4. TurnsTaken'
    BY <1>16, <2>0 DEF IInv, TurnsTaken, RunOK, Decided, Past, Judged, scVars, scRun, scFiles
  <2>5. Merged'
    BY <1>16, <2>0, <2>r
    DEF IInv, Merged, Decided, Deduplicate, Past, Judged, scVars, scRun, scFiles
  <2>6. Described'
    BY <1>16, <2>0 DEF IInv, Described, Decided, Past, Judged, scVars, scRun, scFiles
  <2>7. Verified'
    BY <1>16, <2>0 DEF IInv, Verified, Decided, CommitMismatch, Past, Judged, scVars, scRun, scFiles
  <2>8. Recorded'
    BY <1>16, <2>0, <2>g DEF IInv, RunOK, Recorded, Decided, Past, Judged, scVars, scRun, scFiles
  <2>9. Decided'
    BY <1>16, <2>0, <2>g DEF IInv, Decided, StrictRefuses, Past, Judged, scVars, scRun, scFiles
  <2>10. SBOMOfTheImage'
    BY <1>16, <2>0 DEF IInv, SBOMOfTheImage, Described, Past, Judged, scVars, scRun, scFiles
  <2>11. Listened'
    BY <1>16, <2>0 DEF IInv, Listened, DeafByMishap, TurnsTaken, RunOK, scVars, scRun, scFiles
  <2> QED BY <2>1, <2>2, <2>3, <2>4, <2>5, <2>6, <2>7, <2>8, <2>9, <2>10, <2>11 DEF IInv
<1> QED
  BY <1>1, <1>2, <1>3, <1>4, <1>5, <1>6, <1>7, <1>8, <1>9, <1>10, <1>11, <1>12, <1>13, <1>14, <1>15, <1>16
  DEF ScNext, ScStep

(* The invariant holds throughout.                                          *)
THEOREM Invariance == ScSpec => []IInv
<1>1. ScInit => IInv
  BY InitInv
<1>2. IInv /\ [ScNext]_scVars => IInv'
  BY StepInv
<1> QED BY <1>1, <1>2, PTL DEF ScSpec

-----------------------------------------------------------------------------
(* A finding a scanner was heard to report is among the merged ones: with   *)
(* its severity, and with its fix if it has one.                            *)
LEMMA HeardIsMerged ==
  ASSUME IInv, Judged({"ok"}), NEW h \in heard, NEW v \in Says(h[1], h[2]),
         h[1] = "trivy" \/ \A w \in ReportOf("trivy") : w.id # v.id \/ w.pkg # v.pkg
  PROVE  \E m \in vulns : m.id = v.id /\ m.sev = v.sev /\ (v.fix => m.fix)
<1>1. ReportOf("trivy") \subseteq Vuln /\ ReportOf("grype") \subseteq Vuln
  BY ReportsAreVulns DEF IInv
<1>2. vulns = Deduplicate(ReportOf("trivy"), ReportOf("grype"))
  BY DEF IInv, Merged, Past, Judged
<1>3. h[1] \in {"trivy", "grype"} /\ v \in ReportOf(h[1])
  BY DEF IInv, RunOK, ReportOf
<1>4. CASE h[1] = "trivy"
  BY <1>1, <1>2, <1>3, <1>4, MergeKeeps
<1>5. CASE h[1] # "trivy"
  BY <1>1, <1>2, <1>3, <1>5, MergeKeeps
<1> QED BY <1>4, <1>5

(* What the invariant says of a verdict.                                    *)
LEMMA IInvSecure == IInv => SecuritySafe
<1> SUFFICES ASSUME IInv PROVE SecuritySafe
  OBVIOUS
<1>1. ScTypeOK
  BY DEF IInv, RunOK, BuildsOK, TurnsTaken, Recorded, Decided, StrictRefuses, Past, Judged, ScTypeOK
<1>2. StoreTargetIsGenuine
  BY DEF IInv, Identified, Scanning, StoreTargetIsGenuine
<1>3. NothingUnexcusedPasses
  <2> SUFFICES ASSUME Judged({"ok"}), scCfg.failOn > 0, NEW h \in heard, NEW v \in Says(h[1], h[2]),
                      v.sev >= scCfg.failOn,
                      h[1] = "trivy" \/ \A w \in ReportOf("trivy") : w.id # v.id \/ w.pkg # v.pkg
               PROVE  \/ v.id \in UnreachableIDs
                      \/ \E e \in scCfg.except : e[1] = v.id /\ e[3]
                      \/ scCfg.unfixed /\ ~v.fix
    BY DEF NothingUnexcusedPasses, Judged
  <2>1. PICK m \in vulns : m.id = v.id /\ m.sev = v.sev /\ (v.fix => m.fix)
    BY HeardIsMerged
  <2>2. Excused(m)
    BY <2>1, GateCounts DEF IInv, Decided
  <2>3. m.id \in ExceptedIDs => \E e \in scCfg.except : e[1] = m.id /\ e[3]
    BY DEF ExceptedIDs
  <2> QED BY <2>1, <2>2, <2>3 DEF Excused
<1>4. ExcusedNeverBlocks
  BY GateCounts DEF IInv, Decided, Judged, ExcusedNeverBlocks
<1>5. StrictIsComplete
  BY
  DEF IInv, Decided, StrictRefuses, Verified, TurnsTaken, Listened, Identified, CommitMismatch,
      Past, Judged, StrictIsComplete
<1>6. GatedIsRecorded
  BY DEF IInv, Decided, Recorded, Past, Judged, GatedIsRecorded
<1> QED BY <1>1, <1>2, <1>3, <1>4, <1>5, <1>6 DEF SecuritySafe, IInv, Listened

(* security scan keeps its promises whatever scanners, stores and writes    *)
(* fail and however often perform builds again (cli/cmd/security_scan.go,   *)
(* security/gate.go).                                                       *)
THEOREM ScanKeepsItsWord == ScSpec => []SecuritySafe
BY Invariance, IInvSecure, PTL
=============================================================================
