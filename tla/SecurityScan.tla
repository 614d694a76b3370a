---------------------------- MODULE SecurityScan -----------------------------
(***************************************************************************)
(* security scan: the target is resolved from the content store or from    *)
(* the results of perform, scanned by Trivy and Grype, described by Syft,  *)
(* verified, and gated (cli/cmd/security_scan.go, security/). Images are   *)
(* numbered by the build that made them; report files stay in the output   *)
(* directory from one scan to the next.                                    *)
(***************************************************************************)
EXTENDS Naturals, FiniteSets, Sequences, FiniteSetsExt

CONSTANTS
  ScBuilds,    \* images perform makes
  ScEvents     \* failures of scanners, files and stores

ASSUME ScanAssumption == ScBuilds \in Nat \ {0} /\ ScEvents \in Nat

VARIABLES
  scCfg, scPc,
  built,       \* the image perform made last
  layout,      \* its layout in the content store: "ok", "damaged", "none"
  outsOf,      \* commit the outputs manifest names
  target,      \* [image, source, commit] of the scan; exact: by digest; served: as the registry serves it
  ran, failed, \* scanners
  heard,       \* ghost: reports the scan took in: <<scanner, image of the report>>
  deaf,        \* ghost: scanners that count as run though no report of this scan was taken in
  vulns,       \* merged vulnerabilities: [id, pkg, sev, fix]
  trivyFile, grypeFile, spdx, cdx, subject, advisories, \* image a file is about; 0: absent, or cut short
  seal,        \* confidence of the verification
  blocking,    \* recorded count, or "none"
  scVerdict,   \* "none", "ok", "error", "gated", "strict"
  boundTo,     \* <<image, image of the SBOM>> of an attestation
  scEvents

scFiles == <<trivyFile, grypeFile, spdx, cdx, subject, advisories>>
scRun == <<target, ran, failed, heard, deaf, vulns, seal, blocking, scVerdict>>
scVars == <<scCfg, scPc, built, layout, outsOf, scRun, scFiles, boundTo, scEvents>>

Sev == 0..4      \* unknown, low, medium, high, critical
Vuln == [id : {"x", "y"}, pkg : {"p", "q"}, sev : Sev, fix : BOOLEAN]

\* says: what each scanner finds in an image; failOn: threshold, 0 is off; except:
\* advisories excused by a record <<id, package or "any", still valid>>; silent: ids proven
\* unreachable by the source analysis; signs: perform recorded that it tried to sign what it
\* pushed; ci: the pipeline names its commit.
ScConfigs ==
  [says : [{"trivy", "grype"} -> SUBSET Vuln], on : SUBSET {"trivy", "grype"}, failOn : Sev,
   unreachable : BOOLEAN, unfixed : BOOLEAN, except : SUBSET ({"x", "y"} \X {"p", "q", "any"} \X BOOLEAN),
   silent : SUBSET {"x", "y"}, strict : BOOLEAN, sbom : BOOLEAN, pinned : BOOLEAN,
   signs : BOOLEAN, ci : BOOLEAN]

ScFail == scEvents < ScEvents /\ scEvents' = scEvents + 1
ScOk == UNCHANGED scEvents
NoTarget == [image |-> 0, source |-> "none", commit |-> 0, exact |-> FALSE, served |-> TRUE]

ScFrom(label) ==
  /\ scPc = label /\ built = 1 /\ layout = "ok" /\ outsOf = 1
  /\ target = NoTarget /\ ran = {} /\ failed = {} /\ heard = {} /\ deaf = {} /\ vulns = {}
  /\ trivyFile = 0 /\ grypeFile = 0 /\ spdx = 0 /\ cdx = 0 /\ subject = 0 /\ advisories = 0
  /\ seal = "none" /\ blocking = <<>> /\ scVerdict = "none" /\ boundTo = <<0, 0>> /\ scEvents = 0

ScInit == scCfg \in ScConfigs /\ ScFrom("idle")

-----------------------------------------------------------------------------
\* Perform builds again; its outputs may be those of an earlier commit, and its layout
\* may be missing or damaged when the scan comes to it.
Rebuild ==
  /\ scPc \in {"idle", "end"} /\ built < ScBuilds
  /\ built' = built + 1 /\ scPc' = "idle"
  /\ \/ ScOk /\ layout' = "ok" /\ outsOf' = built + 1
     \/ ScFail /\ layout' \in {"none", "damaged"} /\ outsOf' = built + 1
     \/ ScFail /\ layout' = "ok" /\ outsOf' = built
  /\ target' = NoTarget /\ ran' = {} /\ failed' = {} /\ heard' = {} /\ deaf' = {} /\ vulns' = {}
  /\ seal' = "none" /\ blocking' = <<>> /\ scVerdict' = "none"
  /\ UNCHANGED <<scCfg, scFiles, boundTo>>

Ends(verdict) == scPc' = "end" /\ scVerdict' = verdict

\* The first layout that is in the store and re-hashes to its digest.
ResolveCASTargetTrusting ==
  /\ scPc = "cas" /\ ScOk
  /\ IF layout # "none"
     THEN scPc' = "commit" /\ target' = [image |-> outsOf, source |-> "store", commit |-> outsOf, exact |-> TRUE, served |-> TRUE]
     ELSE scPc' = "views" /\ UNCHANGED target
  /\ UNCHANGED <<scCfg, built, layout, outsOf, ran, failed, heard, deaf, vulns, seal, blocking, scVerdict, scFiles, boundTo>>

ResolveCASTarget ==
  /\ scPc = "cas" /\ ScOk
  /\ IF layout = "ok"
     THEN scPc' = "commit" /\ target' = [image |-> outsOf, source |-> "store", commit |-> outsOf, exact |-> TRUE, served |-> TRUE]
     ELSE scPc' = "views" /\ UNCHANGED target
  /\ UNCHANGED <<scCfg, built, layout, outsOf, ran, failed, heard, deaf, vulns, seal, blocking, scVerdict, scFiles, boundTo>>

\* Otherwise the first publication whose digest is known, else the first tag; no
\* publication, no scan. The registry may have served another digest when it was pushed.
ResolveTarget ==
  /\ scPc = "views"
  /\ \/ /\ ScOk /\ scPc' = "scan" /\ UNCHANGED scVerdict
        /\ target' = [image |-> outsOf, source |-> "results", commit |-> outsOf, exact |-> TRUE, served |-> TRUE]
     \/ /\ ScFail /\ scPc' = "scan" /\ UNCHANGED scVerdict
        /\ target' \in {[image |-> outsOf, source |-> "results", commit |-> outsOf, exact |-> FALSE, served |-> TRUE],
                       [image |-> outsOf, source |-> "results", commit |-> outsOf, exact |-> TRUE, served |-> FALSE]}
     \/ ScFail /\ Ends("error") /\ UNCHANGED target
  /\ UNCHANGED <<scCfg, built, layout, outsOf, ran, failed, heard, deaf, vulns, seal, blocking, scFiles, boundTo>>

BeginScan ==
  /\ scPc = "idle" /\ scPc' = "cas"
  /\ ScOk /\ UNCHANGED <<scCfg, built, layout, outsOf, scRun, scFiles, boundTo>>

CommitMismatch == scCfg.ci /\ target.commit # built

\* A layout of another commit than the pipeline's is refused.
CommitGuard ==
  /\ scPc = "commit" /\ ScOk
  /\ IF CommitMismatch THEN Ends("error") ELSE scPc' = "scan" /\ UNCHANGED scVerdict
  /\ UNCHANGED <<scCfg, built, layout, outsOf, target, ran, failed, heard, deaf, vulns, seal, blocking, scFiles, boundTo>>

-----------------------------------------------------------------------------
(* The scanners *)

\* A pinned scanner that cannot be had stops the scan; otherwise it is listed as failed.
\* A report that cannot be parsed is left out of the findings, and its scanner ran.
Trivy ==
  /\ scPc = "scan"
  /\ \/ "trivy" \notin scCfg.on /\ ScOk /\ scPc' = "grype" /\ UNCHANGED <<ran, failed, heard, deaf, trivyFile, scVerdict>>
     \/ /\ "trivy" \in scCfg.on /\ ScOk /\ scPc' = "grype"
        /\ trivyFile' = target.image /\ ran' = ran \cup {"trivy"} /\ heard' = heard \cup {<<"trivy", target.image>>}
        /\ UNCHANGED <<failed, deaf, scVerdict>>
     \/ /\ "trivy" \in scCfg.on /\ ScFail /\ scCfg.pinned /\ Ends("error")
        /\ UNCHANGED <<ran, failed, heard, deaf, trivyFile>>
     \/ /\ "trivy" \in scCfg.on /\ ScFail /\ scPc' = "grype" /\ failed' = failed \cup {"trivy"}
        /\ UNCHANGED <<ran, heard, deaf, trivyFile, scVerdict>>
     \/ /\ "trivy" \in scCfg.on /\ ScFail /\ scPc' = "grype"     \* the report cannot be parsed
        /\ trivyFile' = target.image /\ ran' = ran \cup {"trivy"} /\ deaf' = deaf \cup {"trivy"}
        /\ UNCHANGED <<failed, heard, scVerdict>>
  /\ UNCHANGED <<scCfg, built, layout, outsOf, target, vulns, seal, blocking, grypeFile, spdx, cdx, subject, advisories, boundTo>>

\* The same of Grype, but that it exits with an error where it finds something: its run
\* failed only if there is no report file, be it of an earlier scan.
Grype ==
  /\ scPc = "grype"
  /\ \/ "grype" \notin scCfg.on /\ ScOk /\ scPc' = "merge" /\ UNCHANGED <<ran, failed, heard, deaf, grypeFile, scVerdict>>
     \/ /\ "grype" \in scCfg.on /\ ScOk /\ scPc' = "merge"
        /\ grypeFile' = target.image /\ ran' = ran \cup {"grype"} /\ heard' = heard \cup {<<"grype", target.image>>}
        /\ UNCHANGED <<failed, deaf, scVerdict>>
     \/ /\ "grype" \in scCfg.on /\ ScFail /\ scCfg.pinned /\ Ends("error")
        /\ UNCHANGED <<ran, failed, heard, deaf, grypeFile>>
     \/ /\ "grype" \in scCfg.on /\ ScFail /\ scPc' = "merge" /\ failed' = failed \cup {"grype"}
        /\ UNCHANGED <<ran, heard, deaf, grypeFile, scVerdict>>
     \/ /\ "grype" \in scCfg.on /\ ScFail /\ scPc' = "merge"     \* the report cannot be parsed
        /\ grypeFile' = target.image /\ ran' = ran \cup {"grype"} /\ deaf' = deaf \cup {"grype"}
        /\ UNCHANGED <<failed, heard, scVerdict>>
     \/ /\ "grype" \in scCfg.on /\ ScFail /\ scPc' = "merge" /\ grypeFile # 0     \* an earlier scan's
        /\ ran' = ran \cup {"grype"} /\ deaf' = deaf \cup {"grype"} /\ heard' \in {heard, heard \cup {<<"grype", grypeFile>>}}
        /\ UNCHANGED <<failed, grypeFile, scVerdict>>
  /\ UNCHANGED <<scCfg, built, layout, outsOf, target, vulns, seal, blocking, trivyFile, spdx, cdx, subject, advisories, boundTo>>

\* Every image has one finding more than the one before: y appears with the second.
Says(scanner, image) == {v \in scCfg.says[scanner] : v.id = "y" => image > 1}

\* One entry per advisory and package: the first severity, and a fix if either names one.
Deduplicate(first, second) ==
  {[v EXCEPT !.fix = v.fix \/ \E w \in second : w.id = v.id /\ w.pkg = v.pkg /\ w.fix] : v \in first}
    \cup {w \in second : \A v \in first : ~(v.id = w.id /\ v.pkg = w.pkg)}

ReportOf(scanner) == UNION {Says(scanner, h[2]) : h \in {g \in heard : g[1] = scanner}}

Merge ==
  /\ scPc = "merge" /\ ScOk
  /\ vulns' = Deduplicate(ReportOf("trivy"), ReportOf("grype"))
  /\ scPc' = IF scCfg.sbom THEN "syft" ELSE "advisories"
  /\ UNCHANGED <<scCfg, built, layout, outsOf, target, ran, failed, heard, deaf, seal, blocking, scVerdict, scFiles, boundTo>>

\* SPDX, the subject it is about, CycloneDX. The subject's failure is only shown; a failed
\* Syft leaves the file it had created, truncated.
Syft ==
  /\ scPc = "syft"
  /\ \/ ScOk /\ scPc' = "cyclonedx" /\ spdx' = target.image /\ subject' = target.image /\ UNCHANGED scVerdict
     \/ ScFail /\ scPc' = "cyclonedx" /\ spdx' = target.image /\ UNCHANGED <<subject, scVerdict>>
     \/ ScFail /\ Ends("error") /\ spdx' = 0 /\ UNCHANGED subject
  /\ UNCHANGED <<scCfg, built, layout, outsOf, target, ran, failed, heard, deaf, vulns, seal, blocking,
                 trivyFile, grypeFile, cdx, advisories, boundTo>>

CycloneDX ==
  /\ scPc = "cyclonedx"
  /\ \/ ScOk /\ scPc' = "advisories" /\ cdx' = target.image /\ UNCHANGED scVerdict
     \/ ScFail /\ Ends("error") /\ UNCHANGED cdx
  /\ UNCHANGED <<scCfg, built, layout, outsOf, target, ran, failed, heard, deaf, vulns, seal, blocking,
                 trivyFile, grypeFile, spdx, subject, advisories, boundTo>>

\* Advisories with a fix, for the next dependency update.
WriteAdvisories ==
  /\ scPc = "advisories" /\ scPc' = "verify"
  /\ \/ ScOk /\ advisories' = target.image
     \/ ScFail /\ UNCHANGED advisories
  /\ UNCHANGED <<scCfg, built, layout, outsOf, scRun, trivyFile, grypeFile, spdx, cdx, subject, boundTo>>

-----------------------------------------------------------------------------
(* Verification and gate *)

\* Confidence: none where the commit differs, the registry served another digest or the tag
\* is not one of the expected; no key is handed to it, so no signature is ever valid or bad.
Verify ==
  /\ scPc = "verify" /\ scPc' = "gate"
  /\ \/ ~target.exact /\ ScOk /\ UNCHANGED seal
     \/ target.exact /\ ScOk /\ seal' = IF CommitMismatch \/ ~target.served THEN "no" ELSE "degraded"
     \/ target.exact /\ target.source = "results" /\ ScFail /\ seal' = "no"
  /\ UNCHANGED <<scCfg, built, layout, outsOf, target, ran, failed, heard, deaf, vulns, blocking, scVerdict, scFiles, boundTo>>

\* Advisory ids excused by a valid exception that matches a finding.
ExceptedIDs ==
  {v.id : v \in {w \in vulns : \E e \in scCfg.except : e[1] = w.id /\ e[2] \in {w.pkg, "any"} /\ e[3]}}

\* Ids whose code the source analysis proved unreachable, where policy lets them pass.
UnreachableIDs == IF scCfg.unreachable THEN scCfg.silent ELSE {}

Excused(v) == v.id \in ExceptedIDs \cup UnreachableIDs \/ (scCfg.unfixed /\ ~v.fix)

CountAtOrAbove == Cardinality({v \in vulns : v.sev >= scCfg.failOn /\ v.sev > 0})

\* The count at or above the threshold less the excused among them.
GatingCount ==
  IF scCfg.failOn = 0 \/ CountAtOrAbove = 0 THEN 0
  ELSE LET n == Cardinality({v \in vulns : v.sev >= scCfg.failOn /\ Excused(v)})
           base == CountAtOrAbove
       IN base - (IF n > base THEN base ELSE n)

\* The facts of the scan are recorded before it is judged; a write that fails is shown.
RecordFacts ==
  /\ scPc = "gate" /\ scPc' = "judge"
  /\ \/ ScOk /\ blocking' = <<GatingCount>>
     \/ ScFail /\ UNCHANGED blocking
  /\ UNCHANGED <<scCfg, built, layout, outsOf, target, ran, failed, heard, deaf, vulns, seal, scVerdict, scFiles, boundTo>>

\* What strict mode asks besides: every scanner ran, a target by digest that the registry
\* serves, verified, and of which no signature was tried, as none is ever found valid.
StrictRefuses ==
  \/ failed # {}
  \/ ~target.exact
  \/ ~target.served
  \/ target.source = "results" /\ scCfg.signs
  \/ seal = "no"

\* The gate; then, in strict mode, completeness, identity and verification.
Judge ==
  /\ scPc = "judge" /\ ScOk
  /\ IF GatingCount > 0 THEN Ends("gated")
     ELSE IF scCfg.strict /\ StrictRefuses THEN Ends("strict")
     ELSE Ends("ok")
  /\ UNCHANGED <<scCfg, built, layout, outsOf, target, ran, failed, heard, deaf, vulns, seal, blocking, scFiles, boundTo>>

\* After a scan that ended well publish attaches the SBOM it finds to the image; a missing
\* one is an error where it was asked for.
AttestSBOM ==
  /\ scPc = "end" /\ scVerdict = "ok" /\ boundTo[1] # built
  /\ scCfg.sbom
  /\ boundTo' = <<target.image, spdx>>
  /\ ScOk /\ UNCHANGED <<scCfg, scPc, built, layout, outsOf, scRun, scFiles>>

ScStep ==
  \/ ResolveCASTarget \/ ResolveTarget \/ CommitGuard \/ Trivy \/ Grype \/ Merge \/ Syft \/ CycloneDX
  \/ WriteAdvisories \/ Verify \/ RecordFacts \/ Judge

ScNext == Rebuild \/ BeginScan \/ AttestSBOM \/ ScStep

ScSpec == ScInit /\ [][ScNext]_scVars /\ WF_scVars(ScStep)

-----------------------------------------------------------------------------
ScTypeOK ==
  /\ built \in 1..ScBuilds /\ outsOf \in 1..built /\ target.image \in 0..built
  /\ ran \cap failed = {} /\ ran \cup failed \subseteq scCfg.on
  /\ vulns \subseteq Vuln /\ seal \in {"none", "no", "degraded"}
  /\ {trivyFile, grypeFile, spdx, cdx, subject, advisories} \subseteq 0..built
  /\ scVerdict \in {"none", "ok", "error", "gated", "strict"}
  /\ (scVerdict = "ok" => blocking \in {<<>>, <<0>>})

\* What the content store serves is scanned only if it re-hashes to its digest and, in a
\* pipeline, was built for its commit (cli/cmd/security_scan.go 107, 386).
StoreTargetIsGenuine ==
  (target.source = "store" /\ scPc \in {"scan", "grype", "merge", "syft", "judge"}) =>
    layout = "ok" /\ (scCfg.ci => target.image = built)

\* A scan that ends well lets nothing through: whatever a report it took in holds, at the
\* threshold by the first scanner that named it, is excused by record, by proof or for
\* want of a fix (security/gate.go 64-80, scan.go 816-861).
NothingUnexcusedPasses ==
  (scPc = "end" /\ scVerdict = "ok" /\ scCfg.failOn > 0) =>
    \A h \in heard : \A v \in Says(h[1], h[2]) :
      (v.sev >= scCfg.failOn /\ (h[1] = "trivy" \/ \A w \in ReportOf("trivy") : w.id # v.id \/ w.pkg # v.pkg))
        => \/ v.id \in UnreachableIDs
           \/ \E e \in scCfg.except : e[1] = v.id /\ e[3]
           \/ scCfg.unfixed /\ ~v.fix

\* A finding is never blocked without cause either: where everything at the threshold is
\* excused the gate does not close.
ExcusedNeverBlocks ==
  (scPc = "end" /\ scVerdict = "gated") => \E v \in vulns : v.sev >= scCfg.failOn /\ ~Excused(v)

\* In strict mode a scan that ends well took in a report of every enabled scanner on the
\* image it judged, unless that scanner's report could not be parsed, or was an earlier
\* scan's: those two count as run (security/scan.go 232, 263, 747). The target is identified
\* by the digest the registry serves, is this build's, and signing was not tried
\* (cli/cmd/security_scan.go 753-770).
StrictIsComplete ==
  (scPc = "end" /\ scVerdict = "ok" /\ scCfg.strict) =>
    /\ ran = scCfg.on
    /\ \A s \in scCfg.on : <<s, target.image>> \in heard \/ s \in deaf
    /\ target.exact /\ target.served
    /\ target.source = "results" => ~scCfg.signs
    /\ ~(scCfg.ci /\ target.image # built)

\* A report is missed so only where something went wrong.
DeafByMishap == deaf # {} => scEvents > 0

\* The ledger knows of a scan that was gated what blocked it, unless its write failed
\* (cli/cmd/security_scan.go 732-743).
GatedIsRecorded ==
  (scPc = "end" /\ scVerdict = "gated" /\ scEvents = 0) => blocking # <<>> /\ blocking[1] > 0

\* An image is never attested with the SBOM of another (security/attest.go 35-54).
SBOMOfTheImage == boundTo[1] = boundTo[2]

\* What a scan and its gate leave true: the store's target is this build's
\* image, nothing unexcused of what it heard passes and no excused one blocks,
\* a strict verdict heard every scanner but one whose report was unreadable
\* or an earlier scan's, what was gated is recorded, and an SBOM is attested
\* for the image it describes (security/scan.go, security/gate.go).
SecuritySafe ==
  /\ ScTypeOK
  /\ StoreTargetIsGenuine
  /\ NothingUnexcusedPasses
  /\ ExcusedNeverBlocks
  /\ StrictIsComplete
  /\ DeafByMishap
  /\ GatedIsRecorded
  /\ SBOMOfTheImage
=============================================================================
