------------------------------ MODULE Freshness -------------------------------
(***************************************************************************)
(* What dependency discovery finds (supplychain/discovery), what the       *)
(* release cooldown leaves of it, which of that the policy lets through    *)
(* (dependency/filter.go, candidate.go) and what is written.  One          *)
(* dependency of some kind: a crate ("cargo"), a package ("npm"), a Go     *)
(* module, a toolchain on a line ("wild") or at a version ("exact"), the   *)
(* tag of an image or the codename of a distribution ("suite").  Releases  *)
(* appear and are withdrawn, and advisories are published, at any time,    *)
(* also between discovery and the update.  A version is <<major, minor,    *)
(* patch, 1 or 0 for a prerelease, variant>>; a suite counts its releases. *)
(***************************************************************************)
EXTENDS Integers, FiniteSets, Sequences

CONSTANTS
  FrConfigs,   \* [kind, op, base: what is declared; locked; start, registry: what is and may be
               \*  published; newGo: what needs a newer Go; wait, max, security, until: the policy;
               \*  torn: the lock of the toolchains cannot be read]
  FrTimes, FrEvents

ASSUME FreshnessAssumption == FrTimes \in Nat /\ FrEvents \in Nat

VARIABLES
  frCfg, frPc, frNow,
  frOut,       \* when each published version came out
  frGone,      \* yanked, or unpublished
  frFix,       \* the advisory: none, or the version that fixes it, NoVersion for none yet
  frPin,       \* what the manifest or the configuration says
  frLock,      \* what the lock says, or NoVersion
  frDep,       \* the dependency as the snapshot has it
  frReport,    \* what the last update made of it
  frEvents

frVars == <<frCfg, frPc, frNow, frOut, frGone, frFix, frPin, frLock, frDep, frReport, frEvents>>

FrEvent == frEvents < FrEvents /\ frEvents' = frEvents + 1

-----------------------------------------------------------------------------
(* Versions *)

NoVersion == <<>>
Older(v, w) == \E i \in 1..5 : v[i] < w[i] /\ \A j \in 1..(i - 1) : v[j] = w[j]
\* By major, minor and patch alone.
CompareVersions(v, w) == \E i \in 1..3 : v[i] < w[i] /\ \A j \in 1..(i - 1) : v[j] = w[j]
IsPrerelease(v) == v[4] = 0
Newest(S) == IF S = {} THEN NoVersion ELSE CHOOSE v \in S : \A w \in S \ {v} : Older(w, v)
firstNonEmpty(v, w) == IF v # NoVersion THEN v ELSE w

DominantUpdateType(cur, v) == IF v[1] > cur[1] THEN "major" ELSE IF v[2] > cur[2] THEN "minor" ELSE "patch"
updateTypeRank == [patch |-> 1, minor |-> 2, major |-> 3]
updateTypeExceedsCeiling(cur, v) == updateTypeRank[DominantUpdateType(cur, v)] > updateTypeRank[frCfg.max]

\* A caret, a tilde, an exact pin; or a line of releases.
Satisfies(con, v) ==
  /\ con.op = "=" => v = con.base
  /\ con.op \in {"^", "~"} => ~Older(v, con.base)
  /\ con.op # "=" => v[1] = con.base[1] /\ (IsPrerelease(v) => IsPrerelease(con.base))
  /\ con.op = "~" => v[2] = con.base[2]
LatestSatisfying(con, S) == Newest({v \in S : Satisfies(con, v)})

\* The same line and the same variant, prerelease or not, as a tag.
FilterTagsByVersionLine(tags, cur) ==
  {t \in tags : t[1] = cur[1] /\ t[2] = cur[2] /\ t[4] = cur[4] /\ t[5] = cur[5]}

-----------------------------------------------------------------------------
(* Discovery *)

Listed == DOMAIN frOut \ frGone
Stable == {v \in Listed : ~IsPrerelease(v)}

Longest == CHOOSE d \in {frCfg.wait[t] : t \in DOMAIN frCfg.wait} : \A t \in DOMAIN frCfg.wait : frCfg.wait[t] <= d
inCooldown(v) == frNow - frOut[v] < Longest

Dependency(cur, con, found) ==
  [cur |-> cur, con |-> con, latest |-> NoVersion, eligible |-> NoVersion, available |-> {}, released |-> {},
   pending |-> FALSE, failed |-> FALSE, unscanned |-> FALSE, vulns |-> {}, held |-> NoVersion, bypassed |-> NoVersion,
   at |-> frNow, listed |-> Listed, found |-> found]

\* Dates are kept of what is not older than the current version.
setReleased(cur, S) == {v \in S : ~Older(v, cur)}

Free == [op |-> "", base |-> NoVersion]
DeclaredRange == [op |-> frCfg.op, base |-> frPin]

\* The locked version counts as the current one where the manifest allows it.
checkCargo(found) ==
  Dependency(IF frLock # NoVersion /\ Satisfies(DeclaredRange, frLock) THEN frLock ELSE frPin, DeclaredRange, found)
resolveCrate(found) ==
  LET dep == checkCargo(found)
  IN IF found /\ Listed # {}
     THEN [dep EXCEPT !.latest = Newest(Listed), !.eligible = LatestSatisfying(DeclaredRange, Listed),
                      !.available = Listed, !.released = setReleased(dep.cur, Listed)]
     ELSE [dep EXCEPT !.failed = TRUE]

\* A failed lookup leaves the package without a latest version.
checkNpm(found) == Dependency(firstNonEmpty(frLock, frPin), DeclaredRange, found)
resolveNpmPackage(found) ==
  LET dep == checkNpm(found)
  IN IF ~found THEN dep
     ELSE [dep EXCEPT !.latest = Newest(Stable), !.eligible = LatestSatisfying(DeclaredRange, Listed),
                      !.available = Listed, !.released = setReleased(dep.cur, Listed)]

\* A release that needs a newer Go is passed over for the newest that does not.
newestGoCompatible(newer) == firstNonEmpty(Newest(newer \ frCfg.newGo), frPin)

\* A retracted version is not the latest, and stays in the list.  Releases below a young
\* latest are dated down to the first past every window.
resolveGoModule(found) ==
  LET all == {v \in DOMAIN frOut : v[1] = frPin[1]}
      latest == Newest(all \cap Stable)
      newer == {v \in all \ {latest} : ~IsPrerelease(v) /\ Older(frPin, v)}
      dated == {v \in newer : \A w \in newer : Older(v, w) => inCooldown(w)}
      dep == Dependency(frPin, Free, found)
  IN IF ~found \/ latest = NoVersion THEN dep
     ELSE [dep EXCEPT !.latest = latest,
                      !.eligible = IF latest \in frCfg.newGo THEN newestGoCompatible(newer) ELSE NoVersion,
                      !.available = IF frCfg.max = "patch" THEN all ELSE {},
                      !.released = setReleased(frPin, {latest} \cup IF inCooldown(latest) THEN dated ELSE {})]

\* A line: its newest member is where the lock should go, what is locked is what there is;
\* without a lock it is born there.
checkToolchains(found) ==
  LET line == [op |-> "x", base |-> frPin]
      member == IF found THEN LatestSatisfying(line, Stable) ELSE NoVersion
      locked == IF frCfg.torn THEN NoVersion ELSE frLock
      cur == firstNonEmpty(locked, member)
  IN [Dependency(cur, line, found) EXCEPT !.latest = firstNonEmpty(member, locked), !.released = IF found THEN Stable ELSE {},
                                   !.pending = locked = NoVersion /\ member # NoVersion,
                                   !.failed = cur = NoVersion \/ frCfg.torn]

\* The latest release is the one that came out last; older ones are dated when it is young.
latestRelease(found) ==
  LET last == Newest({v \in Stable : \A w \in Stable : frOut[w] <= frOut[v]})
      dep == [Dependency(frPin, Free, found) EXCEPT !.failed = frCfg.torn]
  IN IF ~found \/ last = NoVersion THEN dep
     ELSE [dep EXCEPT !.latest = last, !.released = setReleased(frPin, IF inCooldown(last) THEN Stable ELSE {last})]

\* The newest tag of any variant for awareness, the newest of the line and variant to take.
resolveImage(found) ==
  LET dep == Dependency(frPin, Free, found)
  IN IF ~found \/ Listed = {} THEN dep
     ELSE [dep EXCEPT !.latest = Newest(Listed),
                      !.eligible = firstNonEmpty(Newest(FilterTagsByVersionLine(Listed, frPin)), frPin)]

\* Only a released suite is newer, and none is taken.
latestCodenameTag(found) ==
  LET dep == Dependency(frPin, Free, found)
  IN IF ~found THEN dep
     ELSE [dep EXCEPT !.latest = firstNonEmpty(Newest({v \in Stable : Older(frPin, v)}), frPin), !.eligible = frPin]

resolveFile(found) ==
  CASE frCfg.kind = "cargo" -> resolveCrate(found)       [] frCfg.kind = "npm" -> resolveNpmPackage(found)
    [] frCfg.kind = "gomod" -> resolveGoModule(found)    [] frCfg.kind = "wild" -> checkToolchains(found)
    [] frCfg.kind = "exact" -> latestRelease(found)      [] frCfg.kind = "image" -> resolveImage(found)
    [] frCfg.kind = "suite" -> latestCodenameTag(found)

osvEcosystems == {"cargo", "npm", "gomod", "wild", "exact"}

\* An advisory counts unless the current version is past its fix. One that cannot be
\* fetched leaves the dependency unverified.
applyVuln(dep) == {fix \in frFix : fix # NoVersion => CompareVersions(dep.cur, fix)}
correlateVulns(dep, scanned) ==
  IF frCfg.kind \notin osvEcosystems \/ dep.cur = NoVersion THEN dep
  ELSE IF scanned THEN [dep EXCEPT !.vulns = applyVuln(dep)] ELSE [dep EXCEPT !.unscanned = TRUE]

-----------------------------------------------------------------------------
(* The cooldown *)

IsZero == \A t \in DOMAIN frCfg.wait : frCfg.wait[t] = 0
age(dep, v) == dep.at - frOut[v]
Window(dep, v) == IF dep.pending \/ dep.cur = NoVersion THEN Longest ELSE frCfg.wait[DominantUpdateType(dep.cur, v)]

\* An undated version is as old as a dated one past every window that is not older.
aged(dep, v) ==
  LET pastAll == Newest({w \in dep.released : age(dep, w) >= Longest /\ ~IsPrerelease(w)})
  IN IF v \in dep.released THEN age(dep, v) >= Window(dep, v) ELSE pastAll # NoVersion /\ ~Older(pastAll, v)

FixOf(dep) == Newest(dep.vulns \ {NoVersion})

newestAged(dep, ceiling, constrained) ==
  Newest({v \in dep.released :
            /\ aged(dep, v) /\ ~Older(ceiling, v)
            /\ IsPrerelease(v) => dep.cur # NoVersion /\ IsPrerelease(dep.cur)
            /\ ~dep.pending /\ dep.cur # NoVersion => Older(dep.cur, v)
            /\ constrained /\ dep.con.op # "" => Satisfies(dep.con, v)})

\* Mutant: any advisory lets a young release through.
BypassesForAny(dep, t, constrained) == dep.vulns # {}

\* Only the young release has the fix.
Bypasses(dep, t, constrained) ==
  LET v == newestAged(dep, t, constrained)
  IN FixOf(dep) # NoVersion /\ ~Older(t, FixOf(dep)) /\ (v = NoVersion \/ Older(v, FixOf(dep)))
stepBack(dep, t, constrained) == IF Bypasses(dep, t, constrained) THEN t ELSE newestAged(dep, t, constrained)

Young(dep, t) == t # NoVersion /\ ~aged(dep, t)

\* What is too young steps back to the newest that is not, first the compatible version,
\* then the latest; a first lock is born at an old one if there is any.
applyCooldown(dep) ==
  LET compatible == Young(dep, dep.eligible) /\ dep.eligible # dep.cur
      eligible == IF compatible THEN firstNonEmpty(stepBack(dep, dep.eligible, TRUE), dep.cur) ELSE dep.eligible
      unbound == dep.pending \/ eligible = NoVersion
      latest == Young(dep, dep.latest) /\ (dep.pending \/ dep.latest # dep.cur)
      back == stepBack(dep, dep.latest, unbound)
      moved == latest /\ back # dep.latest /\ (dep.pending => back # NoVersion)
      bypassed == IF latest /\ Bypasses(dep, dep.latest, unbound) THEN dep.latest
                  ELSE IF compatible /\ Bypasses(dep, dep.eligible, TRUE) THEN dep.eligible ELSE NoVersion
  IN IF IsZero \/ dep.released = {} THEN dep
     ELSE [dep EXCEPT !.eligible = eligible,
                      !.latest = IF moved THEN firstNonEmpty(back, firstNonEmpty(eligible, dep.cur)) ELSE @,
                      !.cur = IF moved /\ dep.pending THEN back ELSE @,
                      !.held = IF moved THEN dep.latest ELSE IF eligible # dep.eligible THEN dep.eligible ELSE NoVersion,
                      !.bypassed = bypassed,
                      !.available = {v \in @ : ~Older(dep.cur, v) \/ aged(dep, v) \/ v = bypassed}]

-----------------------------------------------------------------------------
(* Policy *)

\* An accepted risk is one until its date.
ApplyIgnores(dep) == IF frNow < frCfg.until THEN [dep EXCEPT !.vulns = {}] ELSE dep

UpdateTarget(dep) == firstNonEmpty(dep.eligible, dep.latest)
MajorAvailable(dep) == dep.eligible # NoVersion /\ dep.latest # dep.eligible
ceilingGoverns(dep) == dep.vulns = {} /\ frCfg.kind \notin {"wild", "exact"}
CeilingTarget(dep) == Newest({v \in dep.available : Older(dep.cur, v) /\ ~updateTypeExceedsCeiling(dep.cur, v)})
TooFar(dep) == ceilingGoverns(dep) /\ updateTypeExceedsCeiling(dep.cur, UpdateTarget(dep))

skipReason(dep) ==
  IF dep.failed \/ dep.latest = NoVersion THEN "unresolved"
  ELSE IF ~dep.pending /\ UpdateTarget(dep) = dep.cur
       THEN IF dep.held # NoVersion THEN "cooldown" ELSE IF MajorAvailable(dep) THEN "major" ELSE "up_to_date"
  ELSE IF frCfg.security /\ dep.vulns = {} THEN "security"
  ELSE IF TooFar(dep) /\ CeilingTarget(dep) = NoVersion THEN "ceiling"
  ELSE "none"
Construct(dep) == IF TooFar(dep) THEN CeilingTarget(dep) ELSE UpdateTarget(dep)

-----------------------------------------------------------------------------
(* Writing *)

\* What is written for target t: [pin, lock]. A crate whose manifest does not name the
\* locked version is passed over; its lock, and a package's, is what the tool makes of the
\* new range; a lock of a line only moves forward.
cargoUpdate(con) == LatestSatisfying(con, Listed)
npmInstall(con) == IF frLock = NoVersion \/ Satisfies(con, frLock) THEN frLock ELSE LatestSatisfying(con, Listed)
\* Nothing listed is within the new range any more.
Unresolvable(new) == frCfg.kind \in {"cargo", "npm"} /\ frLock # NoVersion /\ new.lock = NoVersion
Written(dep, t) ==
  LET con == [op |-> frCfg.op, base |-> t]
      made(pin, lock) == [pin |-> pin, lock |-> lock]
  IN CASE frCfg.kind = "cargo" -> IF dep.cur # frPin THEN made(frPin, frLock) ELSE made(t, cargoUpdate(con))
       [] frCfg.kind = "npm" -> made(t, npmInstall(con))
       [] frCfg.kind = "wild" -> made(frPin, IF frLock = NoVersion \/ Older(frLock, t) THEN t ELSE frLock)
       [] frCfg.kind = "exact" -> made(t, t)
       [] OTHER -> made(t, frLock)

\* Of a toolchain the advisories that its new version fixes, otherwise all.
fixedBy(dep, t) ==
  IF frCfg.kind \in {"wild", "exact"} THEN {fix \in dep.vulns : fix # NoVersion /\ ~CompareVersions(t, fix)} ELSE dep.vulns

\* What is left for the gate: of the snapshot, what no applied update claims to fix.
Residuals(dep, claimed) == dep.vulns \ claimed

-----------------------------------------------------------------------------
NoDep == [at |-> -1]
NoReport == [skip |-> "", adopted |-> NoVersion, residual |-> {}]

FrFrom(label) ==
  /\ frPc = label /\ frNow = 0 /\ frGone = {} /\ frFix = {}
  /\ frOut = [v \in frCfg.start |-> 0]
  /\ frPin = frCfg.base /\ frLock = IF frCfg.locked THEN frCfg.base ELSE NoVersion
  /\ frDep = NoDep /\ frReport = NoReport /\ frEvents = 0
FrInit == frCfg \in FrConfigs /\ FrFrom("idle")

\* Time passes between runs; releases and advisories come and go at any time.
FrElapse ==
  /\ frPc = "idle" /\ frNow < FrTimes /\ frNow' = frNow + 1
  /\ UNCHANGED <<frCfg, frPc, frOut, frGone, frFix, frPin, frLock, frDep, frReport, frEvents>>
Publish(v) ==
  /\ frPc # "off" /\ FrEvent /\ v \notin DOMAIN frOut
  /\ frOut' = [w \in DOMAIN frOut \cup {v} |-> IF w = v THEN frNow ELSE frOut[w]]
  /\ UNCHANGED <<frCfg, frPc, frNow, frGone, frFix, frPin, frLock, frDep, frReport>>
Withdraw(v) ==
  /\ frPc # "off" /\ FrEvent /\ v \in Listed /\ frGone' = frGone \cup {v}
  /\ UNCHANGED <<frCfg, frPc, frNow, frOut, frFix, frPin, frLock, frDep, frReport>>
Disclose(fix) ==
  /\ frPc # "off" /\ FrEvent /\ fix \notin frFix /\ frFix' = {fix}
  /\ UNCHANGED <<frCfg, frPc, frNow, frOut, frGone, frPin, frLock, frDep, frReport>>

\* The registry and the advisory database answer, or one of them does not.
Discover(found, scanned) ==
  /\ frPc = "idle" /\ frPc' = "found"
  /\ frDep' = applyCooldown(correlateVulns(resolveFile(found), scanned))
  /\ IF found /\ scanned THEN UNCHANGED frEvents ELSE FrEvent
  /\ UNCHANGED <<frCfg, frNow, frOut, frGone, frFix, frPin, frLock, frReport>>

\* The update of the snapshot.  A lock the tool cannot resolve fails it; what it wrote
\* lands, or its commit fails, which is a warning.
ApplyUpdate(landed) ==
  /\ frPc = "found" /\ frPc' = "idle" /\ frDep' = NoDep
  /\ LET dep == ApplyIgnores(frDep)
         t == Construct(dep)
         new == Written(dep, t)
         writes == skipReason(dep) = "none" /\ ~Unresolvable(new) /\ new # [pin |-> frPin, lock |-> frLock]
         failed == skipReason(dep) = "none" /\ Unresolvable(new)
     IN /\ frReport' = [skip |-> IF failed THEN "failed" ELSE skipReason(dep), adopted |-> IF writes THEN t ELSE NoVersion,
                        residual |-> Residuals(frDep, IF writes THEN fixedBy(dep, t) ELSE {})]
        /\ IF writes /\ landed THEN frPin' = new.pin /\ frLock' = new.lock ELSE UNCHANGED <<frPin, frLock>>
  /\ IF landed THEN UNCHANGED frEvents ELSE FrEvent
  /\ UNCHANGED <<frCfg, frNow, frOut, frGone, frFix>>

FrNext ==
  \/ FrElapse
  \/ \E v \in frCfg.registry : Publish(v) \/ Withdraw(v)
  \/ \E fix \in frCfg.registry \cup {NoVersion} : Disclose(fix)
  \/ \E found \in BOOLEAN, scanned \in BOOLEAN : Discover(found, scanned)
  \/ \E landed \in BOOLEAN : ApplyUpdate(landed)

FrSpec == FrInit /\ [][FrNext]_frVars

-----------------------------------------------------------------------------
(* Properties *)

Judged == frPc = "found" /\ frPc' = "idle"
Adopts == Judged /\ frReport'.adopted # NoVersion

\* What the dependency may move to at all, as the registry listed it.
Reachable ==
  {v \in frDep.listed :
     /\ ~IsPrerelease(v) /\ v \notin frCfg.newGo
     /\ frDep.con.op # "" => Satisfies(frDep.con, v)
     /\ frCfg.kind = "gomod" => v[1] = frPin[1]}

\* The fixes that are known, and whether v has them all.
Fixable == frDep.vulns \ {NoVersion}
Fixes(v) == Fixable # {} /\ \A fix \in Fixable : ~Older(v, fix)

\* Out for as long as its size waits; what has no date, not newer than what is out for as
\* long as any size waits.
OutFor(v, days) == v \in frDep.released /\ frDep.at - frOut[v] >= days
Settled(v) ==
  IF v \in frDep.released
  THEN OutFor(v, Longest) \/ (~frDep.pending /\ OutFor(v, frCfg.wait[DominantUpdateType(frDep.cur, v)]))
  ELSE \E w \in frDep.released : OutFor(w, Longest) /\ ~Older(w, v)

\* Of a dependency with dates, only a settled release is adopted; otherwise one with the fix
\* that no settled release has, or the first lock of a line where nothing is settled.
AdoptsAged ==
  Adopts /\ frDep.released # {} /\ ~IsZero =>
    LET t == frReport'.adopted
        settled == {v \in Reachable \cap frDep.released : Settled(v) /\ (frCfg.kind = "exact" => ~Older(t, v))}
    IN \/ Settled(t)
       \/ Fixes(t) /\ \A v \in settled : ~Fixes(v)
       \/ frDep.pending /\ settled = {}

\* What is adopted is within the declared range, the ceiling, the line and the variant, and
\* no suite is ever left.
StaysInBounds ==
  Adopts =>
    LET t == frReport'.adopted
        retargeted == TooFar(ApplyIgnores(frDep))
    IN /\ frCfg.kind # "gomod" => t \in frDep.listed
       /\ frDep.con.op # "" /\ frDep.eligible # NoVersion =>
            Satisfies(frDep.con, t) \/ (retargeted /\ IsPrerelease(t))
       /\ ceilingGoverns(ApplyIgnores(frDep)) => ~updateTypeExceedsCeiling(frDep.cur, t)
       /\ frCfg.kind = "image" => t \in FilterTagsByVersionLine({t}, frPin)
       /\ frCfg.kind # "suite"

\* A fix that a listed release within range has is not held back by the cooldown, the
\* ceiling or the policy, unless the risk is accepted; an exact toolchain is offered the
\* release that came out last and no other, whether that has the fix or not.
FixNotHeld ==
  Judged /\ frCfg.kind # "exact" /\ frDep.found /\ ~frDep.failed /\ frNow >= frCfg.until
    /\ (\E v \in Reachable : Older(frDep.cur, v) /\ Fixes(v)) =>
       frReport'.skip = "failed" \/ (frReport'.skip = "none" /\ Fixes(Construct(frDep)))

\* What could not be looked up is not called up to date, but for a line that has its lock;
\* nor is what has a newer release within range.
UpToDateMeansIt ==
  Judged =>
    /\ ~frDep.found /\ ~(frCfg.kind = "wild" /\ frLock # NoVersion) => frReport'.skip = "unresolved"
    /\ frDep.found /\ ~frDep.failed /\ frCfg.kind \in {"cargo", "npm", "gomod", "wild"}
         /\ (\E v \in Reachable : Older(frDep.cur, v)) => frReport'.skip \notin {"up_to_date", "major", "unresolved"}

\* Nothing goes back while its current version is listed, but from a prerelease and but an
\* exact toolchain, which goes to the release that came out last; the lock of a line never does.
NeverBack ==
  /\ Adopts /\ frCfg.kind # "exact" /\ frDep.cur \in frDep.listed /\ ~IsPrerelease(frDep.cur) =>
       ~Older(frReport'.adopted, frDep.cur)
  /\ frCfg.kind = "wild" /\ frLock # NoVersion => ~Older(frLock', frLock)

\* When nothing is left for the gate of a toolchain, its lock has the fix or there was none
\* known to need.
GateHonest ==
  Judged /\ frCfg.kind \in {"wild", "exact"} /\ frReport'.residual = {} =>
    \A fix \in frDep.vulns : fix # NoVersion /\ ~CompareVersions(frReport'.adopted, fix)

FreshnessSafe ==
  /\ AdoptsAged /\ StaysInBounds /\ FixNotHeld /\ UpToDateMeansIt /\ NeverBack /\ GateHonest

\* Whatever is published, withdrawn or disclosed before, between or after the steps of a run,
\* what is adopted is old enough or the only fix, within its bounds and, exact toolchains and
\* prereleases excepted, not older than what is there; a fix within range is held back from
\* nothing but an exact toolchain, what cannot be seen is not called healthy, and the gate is
\* not told of fixes that were not made (supplychain/discovery/cooldown.go, dependency/filter.go).
FreshnessKeeps == [][FreshnessSafe]_frVars
=============================================================================
