----------------------------- MODULE Schedules ------------------------------
(***************************************************************************)
(* Declared schedules and their copies on GitLab.  The configuration's     *)
(* schedules are grouped by the cron they resolve to; every run of the     *)
(* default branch converges the forge's pipeline schedules to those        *)
(* groups, one API call at a time, while other runs do the same, people    *)
(* edit schedules in the forge and schedules fire.                         *)
(*                                                                         *)
(* A forge schedule is [id, marked, key, cron, owner, active, ids]: marked *)
(* when its description starts with StageFreight's marker, key the ids in  *)
(* it, ids the SF_CI_SCHEDULE variable its runs get.                       *)
(***************************************************************************)
EXTENDS Naturals, Sequences, FiniteSets, SequencesExt

CONSTANTS
    SdIds,       \* the schedule ids, in declaration order
    SdCrons,     \* the crons an expression can resolve to
    SdHash,      \* where H puts each id
    SdDecls,     \* configurations: id -> [cron, build], cron "none" when undeclared
    SdJobs,      \* CI runs
    SdSlots,     \* schedule numbers of the forge
    SdRuns,      \* bound: attempts of each run
    SdFaults, SdEdits   \* bounds: failing calls, edits by people

ASSUME SdBoundsAssumption == {SdFaults, SdEdits} \subseteq Nat /\ SdSlots \subseteq Nat /\ SdRuns \in [SdJobs -> Nat]

VARIABLES
    sdDecl,              \* the default branch's configuration
    sdForge,             \* the forge's schedules, a set
    sdCfg, sdAt, sdRuns, \* each run: its configuration, where it is, how often it ran
    sdVia, sdBuilt,      \* the ids of the owned schedule that started it, whether it builds
    sdSeen, sdTodo,      \* the schedules it listed, the calls it has left
    sdSignal,            \* it raised schedule-inactive
    sdAlone,             \* nothing else touched the forge since it listed
    sdFaults, sdEdits
sdVars == <<sdDecl, sdForge, sdCfg, sdAt, sdRuns, sdVia, sdBuilt, sdSeen, sdTodo, sdSignal, sdAlone, sdFaults, sdEdits>>
sdBudget == <<sdFaults, sdEdits>>

SdMe == "bot"
NoSlot == [id |-> 0, marked |-> FALSE, key |-> <<>>, cron |-> "none", owner |-> "none", active |-> FALSE, ids |-> <<>>]
SdForeign == [NoSlot EXCEPT !.cron = CHOOSE c \in SdCrons : TRUE, !.owner = "person", !.active = TRUE]

SdFrom(at) ==
    /\ sdDecl \in SdDecls
    /\ sdForge = {[SdForeign EXCEPT !.id = CHOOSE n \in SdSlots : \A k \in SdSlots : n <= k]}
    /\ sdCfg = [p \in SdJobs |-> sdDecl] /\ sdAt = [p \in SdJobs |-> at] /\ sdRuns = [p \in SdJobs |-> 0]
    /\ sdVia = [p \in SdJobs |-> <<>>] /\ sdBuilt = [p \in SdJobs |-> TRUE]
    /\ sdSeen = [p \in SdJobs |-> {}] /\ sdTodo = [p \in SdJobs |-> <<>>]
    /\ sdSignal = [p \in SdJobs |-> FALSE] /\ sdAlone = [p \in SdJobs |-> TRUE]
    /\ sdFaults = 0 /\ sdEdits = 0
SdInit == SdFrom("idle")

SdFault == sdFaults < SdFaults /\ sdFaults' = sdFaults + 1 /\ UNCHANGED sdEdits

---------------------------------------------------------------------------
(* config/schedules.go *)

SdIn(cfg) == SelectSeq(SdIds, LAMBDA i : cfg[i].cron # "none")

\* checkCronField refuses a malformed field; "bad" stands for any of them.
CheckCronField(cron) == cron \in SdCrons \cup {"H"}
ResolveCron(cron, id) == IF cron = "H" THEN SdHash[id] ELSE cron

\* A configuration with a malformed schedule is not loaded at all.
ValidateSchedules(cfg) == \A i \in Range(SdIn(cfg)) : CheckCronField(cfg[i].cron)

\* One entry per distinct cron, in the order of first use, with every id that
\* shares it.
ResolvedSchedulesFirst(cfg) ==
    LET Cron(i) == ResolveCron(cfg[i].cron, i)
        firsts == SelectSeq(SdIn(cfg), LAMBDA i : \A j \in Range(SdIn(cfg)) : Cron(j) = Cron(i) =>
                      \E a, b \in 1 .. Len(SdIds) : a <= b /\ SdIds[a] = i /\ SdIds[b] = j)
    IN  [n \in 1 .. Len(firsts) |-> [cron |-> Cron(firsts[n]), key |-> <<firsts[n]>>]]
ResolvedSchedules(cfg) ==
    LET Cron(i) == ResolveCron(cfg[i].cron, i)
        firsts == SelectSeq(SdIn(cfg), LAMBDA i : \A j \in Range(SdIn(cfg)) : Cron(j) = Cron(i) =>
                      \E a, b \in 1 .. Len(SdIds) : a <= b /\ SdIds[a] = i /\ SdIds[b] = j)
    IN  [n \in 1 .. Len(firsts) |->
            [cron |-> Cron(firsts[n]), key |-> SelectSeq(SdIn(cfg), LAMBDA j : Cron(j) = Cron(firsts[n]))]]
SdGroups == [cfg \in SdDecls |-> ResolvedSchedules(cfg)]

\* A run fired by declared schedules builds when one of them says so; one that
\* names no schedule, or an unknown one, builds.
ScheduledRunBuilds(cfg, ids) ==
    ids = <<>> \/ \E i \in Range(ids) : cfg[i].cron = "none" \/ cfg[i].build = "always"

---------------------------------------------------------------------------
(* planSchedules *)

\* Of the marked schedules, the first of each key in list order is the owned
\* one and the others are duplicates.
OwnedSchedules(seen) == {e \in seen : e.marked /\ \A f \in seen : f.marked /\ f.key = e.key => e.id <= f.id}

SdWant(d) == [NoSlot EXCEPT !.marked = TRUE, !.key = d.key, !.cron = d.cron, !.owner = SdMe, !.active = TRUE]

\* Duplicates go first, then each desired schedule is created or brought up to
\* date and taken over, then what nobody desires goes.  Deletions are of
\* distinct schedules, so their order does not matter.
PlanSchedules(desired, seen, me) ==
    LET owned == OwnedSchedules(seen)
        Call(kind, d, e) == [kind |-> kind, want |-> d, on |-> e.id]
        Deletes(set) == [n \in 1 .. Cardinality(set) |-> Call("delete", NoSlot, SetToSeq(set)[n])]
        For(d) ==
            LET mine == {e \in owned : e.key = d.key} IN
            IF mine = {} THEN <<Call("create", SdWant(d), NoSlot)>>
            ELSE LET e == CHOOSE x \in mine : TRUE IN
                 (IF e.cron # d.cron \/ ~e.active THEN <<Call("update", SdWant(d), e)>> ELSE <<>>)
                 \o (IF me /\ e.owner # SdMe THEN <<Call("own", SdWant(d), e)>> ELSE <<>>)
    IN  Deletes({e \in seen : e.marked} \ owned)
        \o FlattenSeq([n \in 1 .. Len(desired) |-> For(desired[n])])
        \o Deletes({e \in owned : \A n \in 1 .. Len(desired) : desired[n].key # e.key})

\* The owned schedules no call of the plan checked the variable of.
SdUnchecked(desired, seen, ops) ==
    LET left == SelectSeq(desired, LAMBDA d : (\E e \in OwnedSchedules(seen) : e.key = d.key)
                    /\ \A n \in 1 .. Len(ops) : ops[n].kind \in {"create", "update"} => ops[n].want.key # d.key)
    IN  [n \in 1 .. Len(left) |->
            [kind |-> "check", want |-> SdWant(left[n]), on |-> (CHOOSE e \in OwnedSchedules(seen) : e.key = left[n].key).id]]

---------------------------------------------------------------------------
(* forge/schedules.go *)

SdOf(forge, id) == {e \in forge : e.id = id}
SdWith(forge, id, Change(_)) == (forge \ SdOf(forge, id)) \cup {Change(e) : e \in SdOf(forge, id)}
CreatePipelineSchedule(forge, n, s) == forge \cup {[s EXCEPT !.id = n]}
UpdatePipelineSchedule(forge, id, s) == SdWith(forge, id, LAMBDA e : [e EXCEPT !.cron = s.cron, !.active = TRUE])
TakePipelineScheduleOwnership(forge, id) == SdWith(forge, id, LAMBDA e : [e EXCEPT !.owner = SdMe])
DeletePipelineSchedule(forge, id) == forge \ SdOf(forge, id)
SetPipelineScheduleVariable(forge, id, ids) == SdWith(forge, id, LAMBDA e : [e EXCEPT !.ids = ids])

---------------------------------------------------------------------------
(* Runs of the pipeline and reconcileSchedules *)

SdRun == UNCHANGED <<sdDecl, sdCfg, sdRuns, sdVia, sdBuilt>>
SdOthersSee(p) == sdAlone' = [q \in SdJobs |-> IF q = p THEN sdAlone[q] ELSE FALSE]

\* A push, a person or an active schedule starts a run; a retry keeps the
\* commit, and so the configuration, of its first attempt.
SdStart(p, via) ==
    /\ sdAt[p] \in {"idle", "done"} /\ sdRuns[p] < SdRuns[p]
    /\ via \in sdForge => via.active
    /\ \/ sdCfg' = [sdCfg EXCEPT ![p] = sdDecl]
       \/ via = NoSlot /\ sdRuns[p] > 0 /\ UNCHANGED sdCfg
    /\ ValidateSchedules(sdCfg'[p])
    /\ sdRuns' = [sdRuns EXCEPT ![p] = @ + 1]
    /\ sdVia' = [sdVia EXCEPT ![p] = via.key]
    /\ sdBuilt' = [sdBuilt EXCEPT ![p] = via = NoSlot \/ ScheduledRunBuilds(sdCfg'[p], via.ids)]
    /\ sdAt' = [sdAt EXCEPT ![p] = "list"] /\ sdSignal' = [sdSignal EXCEPT ![p] = FALSE]
    /\ UNCHANGED <<sdDecl, sdForge, sdSeen, sdTodo, sdAlone, sdBudget>>

\* A failing call ends the reconcile with a warning and the signal.
SdFail(p) ==
    /\ sdAt' = [sdAt EXCEPT ![p] = "done"] /\ sdTodo' = [sdTodo EXCEPT ![p] = <<>>]
    /\ sdSignal' = [sdSignal EXCEPT ![p] = SdGroups[sdCfg[p]] # <<>>]

SdFinish(p) ==
    /\ sdAt' = [sdAt EXCEPT ![p] = "done"] /\ sdTodo' = [sdTodo EXCEPT ![p] = <<>>]
    /\ sdSignal' = [sdSignal EXCEPT ![p] = \E e \in sdSeen'[p] : e.marked /\ ~e.active]
SdContinue(p, todo) ==
    IF todo = <<>> THEN SdFinish(p)
    ELSE sdAt' = [sdAt EXCEPT ![p] = "call"] /\ sdTodo' = [sdTodo EXCEPT ![p] = todo] /\ UNCHANGED sdSignal

\* ListPipelineSchedules, CurrentUserID and the plan.
SdList(p) ==
    /\ sdAt[p] = "list"
    /\ \/ SdFault /\ UNCHANGED <<sdSeen, sdAlone>> /\ SdFail(p)
       \/ \E me \in BOOLEAN :
            /\ IF me THEN UNCHANGED sdBudget ELSE SdFault
            /\ sdSeen' = [sdSeen EXCEPT ![p] = sdForge]
            /\ sdAlone' = [sdAlone EXCEPT ![p] = me]
            /\ LET desired == SdGroups[sdCfg[p]]
                   ops == PlanSchedules(desired, sdForge, me)
               IN  SdContinue(p, ops \o SdUnchecked(desired, sdForge, ops))
    /\ UNCHANGED sdForge /\ SdRun

\* One call; after a create or an update the schedule's variable is next.
\* A call on a schedule that is gone is refused.
SdCall(p) ==
    /\ sdAt[p] = "call" /\ sdTodo[p][1].kind # "check" /\ UNCHANGED sdSeen
    /\ LET op == Head(sdTodo[p])
           at == SdOf(sdForge, op.on)
           next == IF op.kind \in {"create", "update"} THEN <<[op EXCEPT !.kind = "check"]>> ELSE <<>>
       IN  \/ /\ (at = {} /\ op.kind # "create" /\ UNCHANGED sdBudget) \/ SdFault
              /\ SdFail(p) /\ UNCHANGED <<sdForge, sdAlone>>
           \/ /\ op.kind = "create" /\ UNCHANGED sdBudget
              /\ \E n \in SdSlots \ {e.id : e \in sdForge} :
                   /\ \A k \in SdSlots \ {e.id : e \in sdForge} : n <= k
                   /\ sdForge' = CreatePipelineSchedule(sdForge, n, op.want)
                   /\ SdContinue(p, <<[op EXCEPT !.kind = "check", !.on = n]>> \o Tail(sdTodo[p]))
              /\ SdOthersSee(p)
           \/ /\ op.kind # "create" /\ at # {} /\ UNCHANGED sdBudget
              /\ sdForge' = CASE op.kind = "update" -> UpdatePipelineSchedule(sdForge, op.on, op.want)
                              [] op.kind = "own" -> TakePipelineScheduleOwnership(sdForge, op.on)
                              [] OTHER -> DeletePipelineSchedule(sdForge, op.on)
              /\ SdContinue(p, next \o Tail(sdTodo[p]))
              /\ SdOthersSee(p)
    /\ SdRun

\* ensureScheduleVar: a schedule whose variable already names its ids is left.
EnsureScheduleVar(p) ==
    /\ sdAt[p] = "call" /\ sdTodo[p][1].kind = "check" /\ UNCHANGED sdSeen
    /\ LET op == Head(sdTodo[p])
           at == SdOf(sdForge, op.on)
           new == SetPipelineScheduleVariable(sdForge, op.on, op.want.key)
       IN  \/ ((at = {} /\ UNCHANGED sdBudget) \/ SdFault) /\ SdFail(p) /\ UNCHANGED <<sdForge, sdAlone>>
           \/ /\ at # {} /\ UNCHANGED sdBudget
              /\ sdForge' = new
              /\ SdContinue(p, Tail(sdTodo[p]))
              /\ IF new = sdForge THEN UNCHANGED sdAlone ELSE SdOthersSee(p)
    /\ SdRun

---------------------------------------------------------------------------
(* Other people *)

SdCommit ==
    /\ sdEdits < SdEdits /\ sdEdits' = sdEdits + 1 /\ \A p \in SdJobs : sdAt[p] # "off"
    /\ sdDecl' \in SdDecls \ {sdDecl}
    /\ UNCHANGED <<sdForge, sdCfg, sdAt, sdRuns, sdVia, sdBuilt, sdSeen, sdTodo, sdSignal, sdAlone, sdFaults>>

\* Somebody edits, deactivates or deletes a schedule in the forge.
SdEditForge(e) ==
    /\ sdEdits < SdEdits /\ sdEdits' = sdEdits + 1 /\ \A p \in SdJobs : sdAt[p] # "off"
    /\ \E new \in {{}, {[e EXCEPT !.active = FALSE]}, {[e EXCEPT !.owner = "person"]}, {[e EXCEPT !.ids = <<>>]}} :
         sdForge' = (sdForge \ {e}) \cup new /\ sdForge' # sdForge
    /\ sdAlone' = [p \in SdJobs |-> FALSE]
    /\ UNCHANGED <<sdDecl, sdCfg, sdAt, sdRuns, sdVia, sdBuilt, sdSeen, sdTodo, sdSignal, sdFaults>>

SdNext ==
    \/ \E p \in SdJobs :
         \/ \E via \in sdForge \cup {NoSlot} : SdStart(p, via)
         \/ SdList(p) \/ SdCall(p) \/ EnsureScheduleVar(p)
    \/ SdCommit
    \/ \E e \in sdForge : SdEditForge(e)
SdSpec == SdInit /\ [][SdNext]_sdVars

---------------------------------------------------------------------------
(* Properties *)

\* Every variable keeps its type, and schedule numbers are unique.
SdTypeOK ==
    /\ sdDecl \in SdDecls /\ sdFaults \in 0 .. SdFaults /\ sdEdits \in 0 .. SdEdits
    /\ \A e \in sdForge : /\ e.id \in SdSlots /\ e.cron \in SdCrons /\ e.active \in BOOLEAN /\ e.owner \in {SdMe, "person"}
                          /\ Range(e.key) \cup Range(e.ids) \subseteq Range(SdIds)
                          /\ \A f \in sdForge : f.id = e.id => f = e
    /\ \A p \in SdJobs : /\ sdCfg[p] \in SdDecls /\ sdAt[p] \in {"off", "idle", "list", "call", "done"}
                         /\ sdAt[p] = "call" <=> sdTodo[p] # <<>>
    /\ \A p \in SdJobs : sdRuns[p] \in 0 .. SdRuns[p]
    /\ sdBuilt \in [SdJobs -> BOOLEAN] /\ sdSignal \in [SdJobs -> BOOLEAN] /\ sdAlone \in [SdJobs -> BOOLEAN]

\* No run touches a schedule that does not carry the marker, whatever its
\* cron or owner (cli/cmd/schedules_reconcile.go scheduleMarker: "anyone
\* else's are never touched").
ForeignUntouched ==
    [][sdEdits' = sdEdits => {e \in sdForge' : ~e.marked} = {e \in sdForge : ~e.marked}]_sdVars

\* A run that nothing disturbs since its listing leaves exactly the declared
\* schedules on the forge: one per cron, active, owned by the token's user
\* and naming its ids, whatever earlier runs left half done, duplicated or
\* out of date (planSchedules, ensureScheduleVar).
CleanRunConverges ==
    [][\A p \in SdJobs : sdAt[p] \in {"list", "call"} /\ sdAt'[p] = "done" /\ sdAlone'[p] /\ sdFaults' = sdFaults =>
         {[e EXCEPT !.id = 0] : e \in {x \in sdForge' : x.marked}}
             = {[SdWant(SdGroups[sdCfg[p]][n]) EXCEPT !.ids = SdGroups[sdCfg[p]][n].key] : n \in 1 .. Len(SdGroups[sdCfg[p]])}
         /\ \A e, f \in sdForge' : e.marked /\ f.marked /\ e.key = f.key => e = f]_sdVars

\* Every declared schedule is in exactly one forge schedule, with the cron its
\* own expression resolves to (config/schedules.go ResolvedSchedules, which
\* merges those that share a cron).
EveryIdFires ==
    \A p \in SdJobs : \A i \in Range(SdIn(sdCfg[p])) : ValidateSchedules(sdCfg[p]) =>
        Cardinality({n \in 1 .. Len(SdGroups[sdCfg[p]]) :
            /\ i \in Range(SdGroups[sdCfg[p]][n].key)
            /\ SdGroups[sdCfg[p]][n].cron = ResolveCron(sdCfg[p][i].cron, i)}) = 1

\* A run that ends having seen a deactivated schedule of ours, or without
\* being able to finish, says so (config SignalScheduleInactive).
InactiveIsSaid ==
    [][\A p \in SdJobs : sdAt[p] # "done" /\ sdAt'[p] = "done" /\ SdIn(sdCfg[p]) # <<>>
         /\ (sdFaults' # sdFaults \/ \E e \in sdSeen'[p] : e.marked /\ ~e.active /\ sdAt[p] = "call") => sdSignal'[p]]_sdVars

\* What reconciling the forge's schedules leaves true: every declared
\* schedule fires under its own id, foreign schedules are untouched, a clean
\* run converges, and what is inactive is said to be (cli/cmd/schedules_reconcile.go).
SchedulesKeep ==
  /\ [](SdTypeOK /\ EveryIdFires)
  /\ ForeignUntouched
  /\ CleanRunConverges
  /\ InactiveIsSaid
=============================================================================
