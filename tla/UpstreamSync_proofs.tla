------------------------ MODULE UpstreamSync_proofs ------------------------
(***************************************************************************)
(* Proofs about UpstreamSync, for any number of pipelines, changes and     *)
(* failures and every strategy: what a run pushes carries the release it   *)
(* fetched and all it started from (PushesWhatItPlanned), and no change    *)
(* is lost by a plain push nor joined twice (SyncSafe).                    *)
(***************************************************************************)
EXTENDS UpstreamSync, SequenceTheorems, WellFoundedInduction, TLAPS

Distinct(c) == \A i, j \in DOMAIN c : c[i] = c[j] => i = j

(* Nothing is in a history twice, wherever a run keeps it.                  *)
AllDistinct ==
  /\ Distinct(upstream) /\ Distinct(branch)
  /\ \A r \in Runs : Distinct(head[r]) /\ Distinct(target[r]) /\ Distinct(plan[r].newHead)

(* The commit a run is about to push carries both of its parents.           *)
PlansJoin ==
  \A r \in Runs : pc[r] \in {"check", "push"} =>
    Carries(head[r]) \cup Carries(target[r]) \subseteq Carries(plan[r].newHead)

(* Only a rebase rewrites, and so only a rebase loses what was published.   *)
RewritesOnlyRebase == cfg.strategy # "rebase" => \A r \in Runs : ~plan[r].rewrites

SyncInv ==
  /\ TypeOK /\ AllDistinct /\ PlansJoin /\ RewritesOnlyRebase
  /\ Carries(branch) \subseteq published
  /\ NoPlainPushOverwritten

-----------------------------------------------------------------------------
(* Natural numbers *)

(* A set of natural numbers that is not empty has a least one.              *)
LEMMA LeastNat ==
  ASSUME NEW T \in SUBSET Nat, T # {}
  PROVE  \E m \in T : \A n \in T : m <= n
<1> DEFINE R == OpToRel(<, Nat)
<1>1. \A a, b \in Nat : <<a, b>> \in R <=> a < b
  BY DEF OpToRel
<1>2. IsWellFoundedOn(R, Nat)
  BY NatLessThanWellFounded
<1> HIDE DEF R
<1>3. PICK m \in T : \A n \in T : ~(<<n, m>> \in R)
  <2>1. T \subseteq Nat /\ T # {}
    OBVIOUS
  <2> QED BY <1>2, <2>1, WFMin, Zenon
<1>4. \A n \in T : n \in Nat /\ ~(n < m)
  BY <1>1, <1>3
<1> QED BY <1>4

(* A set that contains 0 and with each number the next one, up to n.        *)
LEMMA UpTo ==
  ASSUME NEW N \in Nat, NEW S, 0 \in S, \A n \in 0..N : n < N /\ n \in S => n + 1 \in S
  PROVE  \A n \in 0..N : n \in S
<1> SUFFICES ASSUME NEW k \in 0..N, k \notin S PROVE FALSE
  OBVIOUS
<1> DEFINE T == {n \in 0..N : n \notin S}
<1>1. T \in SUBSET Nat /\ T # {}
  OBVIOUS
<1>2. PICK m \in T : \A n \in T : m <= n
  BY <1>1, LeastNat
<1>3. m \in 0..N /\ m # 0
  BY <1>2
<1>4. m - 1 \in 0..N /\ m - 1 < N /\ m - 1 \notin T
  BY <1>2, <1>3
<1>5. m - 1 \in S
  BY <1>4
<1>6. (m - 1) + 1 \in S
  BY <1>4, <1>5
<1>7. (m - 1) + 1 = m
  BY <1>3
<1> QED BY <1>2, <1>6, <1>7

-----------------------------------------------------------------------------
(* Histories *)

(* The walk that Lacking stands for exists, and is the recursion.           *)
LEMMA LackingIs ==
  ASSUME NEW c \in Commits, NEW d
  PROVE  Lacking(c, d) =
           [n \in 0..Len(c) |-> IF n = 0 THEN <<>>
                                ELSE IF c[n] \in Carries(d) THEN Lacking(c, d)[n - 1]
                                ELSE Append(Lacking(c, d)[n - 1], c[n])]
<1> DEFINE Step(n, s) == IF c[n] \in Carries(d) THEN s ELSE Append(s, c[n])
           IsWalk(g, N) == g = [n \in 0..N |-> IF n = 0 THEN <<>> ELSE Step(n, g[n - 1])]
           S == {N \in Nat : \E g : IsWalk(g, N)}
<1>1. 0 \in S
  <2>1. IsWalk([n \in {0} |-> <<>>], 0)
    OBVIOUS
  <2> QED BY <2>1
<1>2. ASSUME NEW N \in Nat, N \in S PROVE N + 1 \in S
  <2>1. PICK g : IsWalk(g, N)
    BY <1>2
  <2> DEFINE h == [n \in 0..(N + 1) |-> IF n = N + 1 THEN Step(n, g[N]) ELSE g[n]]
  <2>2. ASSUME NEW n \in 0..(N + 1) PROVE h[n] = IF n = 0 THEN <<>> ELSE Step(n, h[n - 1])
    <3>1. CASE n = N + 1
      <4>1. n # 0 /\ n - 1 = N /\ N \in 0..(N + 1) /\ N # N + 1
        BY <3>1
      <4>2. h[n] = Step(n, g[N]) /\ h[N] = g[N]
        BY <3>1, <4>1
      <4> QED BY <4>1, <4>2
    <3>2. CASE n # N + 1
      <4>1. n \in 0..N
        BY <3>2
      <4>2. h[n] = g[n]
        BY <3>2
      <4>3. g[n] = IF n = 0 THEN <<>> ELSE Step(n, g[n - 1])
        BY <2>1, <4>1
      <4>4. n # 0 => n - 1 \in 0..(N + 1) /\ n - 1 # N + 1
        BY <4>1
      <4>5. n # 0 => h[n - 1] = g[n - 1]
        BY <4>4
      <4> QED BY <4>2, <4>3, <4>5
    <3> QED BY <3>1, <3>2
  <2>3. IsWalk(h, N + 1)
    <3> HIDE DEF Step
    <3> QED BY <2>2
  <2> HIDE DEF h, IsWalk
  <2> QED BY <2>3
<1>3. Len(c) \in Nat
  BY LenProperties DEF Commits
<1>4. Len(c) \in S
  <2>1. \A n \in 0..Len(c) : n < Len(c) /\ n \in S => n + 1 \in S
    <3> HIDE DEF S
    <3> QED BY <1>2, <1>3
  <2> HIDE DEF S
  <2>2. \A n \in 0..Len(c) : n \in S
    BY <1>1, <1>3, <2>1, UpTo, Zenon
  <2> QED BY <1>3, <2>2
<1>5. Lacking(c, d) = CHOOSE g : IsWalk(g, Len(c))
  BY DEF Lacking
<1>6. IsWalk(Lacking(c, d), Len(c))
  <2>1. \E g : IsWalk(g, Len(c))
    BY <1>4
  <2> HIDE DEF IsWalk
  <2> QED BY <1>5, <2>1
<1> QED BY <1>6

(* What is left of a history keeps its order, has nothing twice that had    *)
(* nothing twice, and carries what the other history lacks.                 *)
LEMMA WithoutIs ==
  ASSUME NEW c \in Commits, NEW d
  PROVE  /\ Without(c, d) \in Commits
         /\ Carries(Without(c, d)) = Carries(c) \ Carries(d)
         /\ Distinct(c) => Distinct(Without(c, d))
<1> DEFINE K == Lacking(c, d)
           Of(n) == {c[i] : i \in 1..n} \ Carries(d)
           S == {n \in 0..Len(c) : K[n] \in Commits /\ Carries(K[n]) = Of(n) /\ (Distinct(c) => Distinct(K[n]))}
<1>1. Len(c) \in Nat /\ DOMAIN c = 1..Len(c) /\ \A n \in 1..Len(c) : c[n] \in Changes
  BY LenProperties, ElementOfSeq DEF Commits
<1>2. /\ K[0] = <<>>
      /\ \A n \in 1..Len(c) : K[n] = IF c[n] \in Carries(d) THEN K[n - 1] ELSE Append(K[n - 1], c[n])
  <2>1. K = [n \in 0..Len(c) |-> IF n = 0 THEN <<>>
                                 ELSE IF c[n] \in Carries(d) THEN K[n - 1] ELSE Append(K[n - 1], c[n])]
    BY LackingIs
  <2> HIDE DEF K
  <2>2. 0 \in 0..Len(c) /\ \A n \in 1..Len(c) : n \in 0..Len(c) /\ n # 0
    BY <1>1
  <2> QED BY <2>1, <2>2, Zenon
<1> HIDE DEF K
<1>3. 0 \in S
  <2>1. <<>> \in Commits /\ Carries(<<>>) = {} /\ Distinct(<<>>)
    BY DEF Commits, Carries, Distinct
  <2>2. Of(0) = {}
    OBVIOUS
  <2> QED BY <1>1, <1>2, <2>1, <2>2
<1>4. ASSUME NEW m \in 0..Len(c), m < Len(c), m \in S PROVE m + 1 \in S
  <2> DEFINE n == m + 1
             k == K[m]
  <2>1. n \in 1..Len(c) /\ n - 1 = m /\ c[n] \in Changes
    BY <1>1, <1>4
  <2>2. k \in Commits /\ Carries(k) = Of(m) /\ (Distinct(c) => Distinct(k))
    BY <1>4
  <2>3. Of(n) = Of(m) \cup ({c[n]} \ Carries(d))
    <3>1. 1..n = 1..m \cup {n}
      BY <1>1, <1>4
    <3> HIDE DEF n
    <3> QED BY <3>1
  <2>4. CASE c[n] \in Carries(d)
    BY <1>2, <2>1, <2>2, <2>3, <2>4
  <2>5. CASE c[n] \notin Carries(d)
    <3>1. K[n] = Append(k, c[n])
      BY <1>2, <2>1, <2>5
    <3>2. /\ Append(k, c[n]) \in Commits /\ Len(Append(k, c[n])) = Len(k) + 1
          /\ \A i \in 1..Len(k) : Append(k, c[n])[i] = k[i]
          /\ Append(k, c[n])[Len(k) + 1] = c[n]
      BY <2>1, <2>2, AppendProperties DEF Commits
    <3>3. Len(k) \in Nat /\ DOMAIN k = 1..Len(k) /\ DOMAIN Append(k, c[n]) = 1..(Len(k) + 1)
      BY <2>2, <3>2, LenProperties DEF Commits
    <3>4. Carries(Append(k, c[n])) = Carries(k) \cup {c[n]}
      BY <3>2, <3>3 DEF Carries
    <3>5. Distinct(c) => c[n] \notin Of(m)
      BY <1>1, <1>4, <2>1 DEF Distinct
    <3>6. Distinct(c) => Distinct(Append(k, c[n]))
      <4> SUFFICES ASSUME Distinct(c), NEW i \in 1..(Len(k) + 1), NEW j \in 1..(Len(k) + 1),
                          Append(k, c[n])[i] = Append(k, c[n])[j]
                   PROVE  i = j
        BY <3>3 DEF Distinct
      <4>1. Distinct(k) /\ c[n] \notin Carries(k)
        BY <2>2, <3>5
      <4>2. CASE i \in 1..Len(k) /\ j \in 1..Len(k)
        BY <3>2, <3>3, <4>1, <4>2 DEF Distinct
      <4>3. CASE i \in 1..Len(k) /\ j = Len(k) + 1
        BY <3>2, <3>3, <4>1, <4>3 DEF Carries
      <4>4. CASE i = Len(k) + 1 /\ j \in 1..Len(k)
        BY <3>2, <3>3, <4>1, <4>4 DEF Carries
      <4> QED BY <3>3, <4>2, <4>3, <4>4
    <3>7. Carries(Append(k, c[n])) = Of(n)
      BY <2>2, <2>3, <2>5, <3>4
    <3>8. K[m + 1] \in Commits /\ Carries(K[m + 1]) = Of(m + 1) /\ (Distinct(c) => Distinct(K[m + 1]))
      BY <3>1, <3>2, <3>6, <3>7
    <3> HIDE DEF Of
    <3> QED BY <2>1, <3>8
  <2> QED BY <2>4, <2>5
<1>5. \A n \in 0..Len(c) : n \in S
  <2>1. \A n \in 0..Len(c) : n < Len(c) /\ n \in S => n + 1 \in S
    <3> HIDE DEF S
    <3> QED BY <1>4
  <2> HIDE DEF S
  <2> QED BY <1>1, <1>3, <2>1, UpTo, Zenon
<1>6. Len(c) \in S
  <2> HIDE DEF S
  <2> QED BY <1>1, <1>5
<1>7. Without(c, d) = K[Len(c)]
  BY DEF Without, K
<1>8. Of(Len(c)) = Carries(c) \ Carries(d)
  BY <1>1 DEF Carries
<1> QED BY <1>6, <1>7, <1>8

(* One history after another.                                               *)
LEMMA Joined ==
  ASSUME NEW a \in Commits, NEW b \in Commits
  PROVE  /\ a \o b \in Commits
         /\ Carries(a \o b) = Carries(a) \cup Carries(b)
         /\ Distinct(a) /\ Distinct(b) /\ Carries(a) \cap Carries(b) = {} => Distinct(a \o b)
<1>1. /\ a \o b \in Commits /\ Len(a \o b) = Len(a) + Len(b)
      /\ \A i \in 1..(Len(a) + Len(b)) : (a \o b)[i] = IF i <= Len(a) THEN a[i] ELSE b[i - Len(a)]
  BY ConcatProperties DEF Commits
<1>2. /\ Len(a) \in Nat /\ DOMAIN a = 1..Len(a) /\ Len(b) \in Nat /\ DOMAIN b = 1..Len(b)
      /\ DOMAIN (a \o b) = 1..(Len(a) + Len(b))
  BY <1>1, LenProperties DEF Commits
<1>3. \A i \in 1..Len(a) : i \in 1..(Len(a) + Len(b)) /\ (a \o b)[i] = a[i]
  BY <1>1, <1>2
<1>4. \A i \in 1..Len(b) : /\ Len(a) + i \in 1..(Len(a) + Len(b))
                          /\ (a \o b)[Len(a) + i] = b[i]
  BY <1>1, <1>2
<1>5. \A i \in 1..(Len(a) + Len(b)) : i \in 1..Len(a) \/ (i - Len(a) \in 1..Len(b) /\ Len(a) + (i - Len(a)) = i)
  BY <1>2
<1>6. Carries(a \o b) = Carries(a) \cup Carries(b)
  <2>1. Carries(a) \cup Carries(b) \subseteq Carries(a \o b)
    BY <1>2, <1>3, <1>4 DEF Carries
  <2>2. ASSUME NEW i \in 1..(Len(a) + Len(b)) PROVE (a \o b)[i] \in Carries(a) \cup Carries(b)
    BY <1>2, <1>3, <1>4, <1>5 DEF Carries
  <2> QED BY <1>2, <2>1, <2>2 DEF Carries
<1>7. ASSUME Distinct(a), Distinct(b), Carries(a) \cap Carries(b) = {},
             NEW i \in 1..(Len(a) + Len(b)), NEW j \in 1..(Len(a) + Len(b)), (a \o b)[i] = (a \o b)[j]
      PROVE  i = j
  <2>1. CASE i \in 1..Len(a) /\ j \in 1..Len(a)
    BY <1>2, <1>3, <1>7, <2>1 DEF Distinct
  <2>2. CASE i \in 1..Len(a) /\ j - Len(a) \in 1..Len(b)
    BY <1>2, <1>3, <1>4, <1>5, <1>7, <2>2 DEF Carries
  <2>3. CASE i - Len(a) \in 1..Len(b) /\ j \in 1..Len(a)
    <3>1. b[i - Len(a)] = a[j]
      BY <1>2, <1>3, <1>4, <1>5, <1>7, <2>3
    <3> QED BY <1>2, <1>7, <2>3, <3>1 DEF Carries
  <2>4. CASE i - Len(a) \in 1..Len(b) /\ j - Len(a) \in 1..Len(b)
    <3>1. (a \o b)[i] = b[i - Len(a)] /\ (a \o b)[j] = b[j - Len(a)]
      BY <1>1, <1>2, <2>4
    <3>2. i - Len(a) = j - Len(a)
      BY <1>2, <1>7, <2>4, <3>1 DEF Distinct
    <3> QED BY <1>2, <3>2
  <2> QED BY <1>5, <2>1, <2>2, <2>3, <2>4
<1> QED BY <1>1, <1>2, <1>6, <1>7 DEF Distinct

(* An ancestor carries no more than its descendant.                         *)
LEMMA AncestorCarries ==
  ASSUME NEW c \in Commits, NEW d \in Commits, IsAncestor(c, d)
  PROVE  Carries(c) \subseteq Carries(d)
<1>1. /\ Len(c) \in Nat /\ DOMAIN c = 1..Len(c) /\ Len(d) \in Nat /\ DOMAIN d = 1..Len(d)
  BY LenProperties DEF Commits
<1>2. Len(c) <= Len(d) /\ SubSeq(d, 1, Len(c)) = c
  BY DEF IsAncestor
<1>3. \A i \in 1..Len(c) : i \in 1..Len(d) /\ SubSeq(d, 1, Len(c))[i] = d[i]
  BY <1>1, <1>2 DEF Commits
<1> QED BY <1>1, <1>2, <1>3 DEF Carries

(* One more change at the end.                                              *)
LEMMA Extended ==
  ASSUME NEW c \in Commits, NEW x \in Changes
  PROVE  /\ Append(c, x) \in Commits
         /\ Carries(Append(c, x)) = Carries(c) \cup {x}
         /\ Distinct(c) /\ x \notin Carries(c) => Distinct(Append(c, x))
<1>1. <<x>> \in Commits /\ Append(c, x) = c \o <<x>> /\ Carries(<<x>>) = {x} /\ Distinct(<<x>>)
  BY AppendIsConcat DEF Commits, Carries, Distinct
<1> QED BY <1>1, Joined

(* The plan of a sync: a history with nothing twice that carries both.      *)
LEMMA Planned ==
  ASSUME NEW h \in Commits, NEW t \in Commits, Distinct(h), Distinct(t), Joinable(h, t)
  PROVE  /\ PlanSync(h, t) \in [newHead : Commits, rewrites : BOOLEAN]
         /\ Distinct(PlanSync(h, t).newHead)
         /\ Carries(h) \cup Carries(t) \subseteq Carries(PlanSync(h, t).newHead)
         /\ PlanSync(h, t).rewrites => cfg.strategy \notin {"merge", "mirror"}
<1>1. CASE IsAncestor(h, t)
  <2>1. PlanSync(h, t) = [newHead |-> t, rewrites |-> FALSE]
    BY <1>1 DEF PlanSync
  <2> QED BY <1>1, <2>1, AncestorCarries
<1>2. CASE ~IsAncestor(h, t) /\ cfg.strategy = "merge"
  <2>1. PlanSync(h, t) = [newHead |-> h \o Without(t, h), rewrites |-> FALSE]
    BY <1>2 DEF PlanSync
  <2>2. /\ Without(t, h) \in Commits /\ Carries(Without(t, h)) = Carries(t) \ Carries(h)
        /\ Distinct(Without(t, h))
    BY WithoutIs
  <2>3. /\ h \o Without(t, h) \in Commits
        /\ Carries(h \o Without(t, h)) = Carries(h) \cup Carries(Without(t, h))
        /\ Distinct(h \o Without(t, h))
    BY <2>2, Joined
  <2> QED BY <2>1, <2>2, <2>3
<1>3. CASE ~IsAncestor(h, t) /\ cfg.strategy # "merge"
  <2>1. PlanSync(h, t) = [newHead |-> t \o Without(h, t), rewrites |-> TRUE]
    BY <1>3 DEF PlanSync
  <2>2. /\ Without(h, t) \in Commits /\ Carries(Without(h, t)) = Carries(h) \ Carries(t)
        /\ Distinct(Without(h, t))
    BY WithoutIs
  <2>3. /\ t \o Without(h, t) \in Commits
        /\ Carries(t \o Without(h, t)) = Carries(t) \cup Carries(Without(h, t))
        /\ Distinct(t \o Without(h, t))
    BY <2>2, Joined
  <2>4. cfg.strategy # "mirror"
    BY <1>3 DEF Joinable
  <2> QED BY <1>3, <2>1, <2>2, <2>3, <2>4
<1> QED BY <1>1, <1>2, <1>3

-----------------------------------------------------------------------------
(* The steps *)

(* The invariant holds before any pipeline ran.                             *)
LEMMA InitSync == Init => SyncInv
<1> SUFFICES ASSUME Init PROVE SyncInv
  OBVIOUS
<1>1. <<>> \in Commits /\ <<"base">> \in Commits /\ Carries(<<"base">>) = {"base"}
  BY DEF Commits, Changes, Carries
<1>2. Distinct(<<>>) /\ Distinct(<<"base">>)
  BY DEF Distinct
<1>3. NoPlan \in [newHead : Commits, rewrites : BOOLEAN] /\ NoPlan.newHead = <<>> /\ ~NoPlan.rewrites
  BY <1>1 DEF NoPlan
<1>4. TypeOK
  BY <1>1, <1>3, UpstreamSyncAssumption DEF Init, TypeOK, Changes
<1>5. AllDistinct
  BY <1>2, <1>3 DEF Init, AllDistinct
<1>6. PlansJoin /\ RewritesOnlyRebase
  BY <1>3 DEF Init, PlansJoin, RewritesOnlyRebase
<1>7. Carries(branch) \subseteq published /\ NoPlainPushOverwritten
  BY <1>1 DEF Init, NoPlainPushOverwritten, NoPushOverwritten
<1> QED BY <1>4, <1>5, <1>6, <1>7 DEF SyncInv

(* Steps that only move a run on, or make it give up.                       *)
LEMMA Moves ==
  ASSUME SyncInv, NEW r \in Runs, NEW step \in {"start", "list", "fetch", "plan", "push"}, Goto(r, step),
         step = "push" => pc[r] = "check", failures' \in 0..MaxFailures,
         UNCHANGED <<cfg, upstream, branch, head, target, plan, pushed, published>>
  PROVE  SyncInv'
<1>1. TypeOK'
  BY DEF SyncInv, TypeOK, Goto
<1>2. AllDistinct'
  BY DEF SyncInv, AllDistinct
<1>3. PlansJoin'
  BY DEF SyncInv, TypeOK, PlansJoin, Goto
<1>4. RewritesOnlyRebase' /\ (Carries(branch) \subseteq published)' /\ NoPlainPushOverwritten'
  BY DEF SyncInv, RewritesOnlyRebase, NoPlainPushOverwritten, NoPushOverwritten
<1> QED BY <1>1, <1>2, <1>3, <1>4 DEF SyncInv

(* So does a run that gives up.                                             *)
LEMMA GivesUp ==
  ASSUME SyncInv, NEW r \in Runs, GiveUp(r)
  PROVE  SyncInv'
<1>1. failures' \in 0..MaxFailures
  BY UpstreamSyncAssumption DEF GiveUp, SyncInv, TypeOK
<1> QED BY <1>1, Moves DEF GiveUp

(* Every step of a run, of upstream and of the developers keeps the invariant.*)
LEMMA SyncStep ==
  ASSUME SyncInv, [Next]_vars
  PROVE  SyncInv'
<1>0. TypeOK /\ AllDistinct /\ PlansJoin /\ RewritesOnlyRebase /\ Carries(branch) \subseteq published
      /\ NoPlainPushOverwritten
  BY DEF SyncInv
<1>1. ASSUME NEW u \in Theirs, Release(u) PROVE SyncInv'
  <2>1. u \in Changes /\ upstream \in Commits /\ Distinct(upstream) /\ u \notin Carries(upstream)
    BY <1>0, <1>1 DEF Release, Changes, TypeOK, AllDistinct
  <2>2. upstream' \in Commits /\ Distinct(upstream')
    BY <1>1, <2>1, Extended DEF Release
  <2>3. TypeOK' /\ AllDistinct'
    BY <1>0, <1>1, <2>2 DEF Release, TypeOK, AllDistinct
  <2>4. PlansJoin' /\ RewritesOnlyRebase' /\ (Carries(branch) \subseteq published)' /\ NoPlainPushOverwritten'
    BY <1>0, <1>1 DEF Release, PlansJoin, RewritesOnlyRebase, NoPlainPushOverwritten, NoPushOverwritten
  <2> QED BY <2>3, <2>4 DEF SyncInv
<1>2. ASSUME NEW o \in Ours, OtherPush(o) PROVE SyncInv'
  <2>1. o \in Changes /\ branch \in Commits /\ Distinct(branch) /\ o \notin Carries(branch)
    BY <1>0, <1>2 DEF OtherPush, Changes, TypeOK, AllDistinct
  <2>2. branch' \in Commits /\ Distinct(branch') /\ Carries(branch') = Carries(branch) \cup {o}
    BY <1>2, <2>1, Extended DEF OtherPush
  <2>3. TypeOK' /\ AllDistinct'
    BY <1>0, <1>2, <2>1, <2>2 DEF OtherPush, TypeOK, AllDistinct
  <2>4. PlansJoin' /\ RewritesOnlyRebase'
    BY <1>0, <1>2 DEF OtherPush, PlansJoin, RewritesOnlyRebase
  <2>5. (Carries(branch) \subseteq published)' /\ NoPlainPushOverwritten'
    BY <1>0, <1>2, <2>2 DEF OtherPush, NoPlainPushOverwritten, NoPushOverwritten
  <2> QED BY <2>3, <2>4, <2>5 DEF SyncInv
<1>3. ASSUME NEW r \in Runs, StartRun(r) PROVE SyncInv'
  <2>1. pc' = [pc EXCEPT ![r] = "list"] /\ head' = [head EXCEPT ![r] = branch] /\ pushed' = pushed \ {r}
        /\ UNCHANGED <<cfg, upstream, branch, target, plan, failures, published>>
    BY <1>3 DEF StartRun, Goto
  <2>2. TypeOK' /\ AllDistinct'
    BY <1>0, <2>1 DEF TypeOK, AllDistinct
  <2>3. PlansJoin' /\ RewritesOnlyRebase'
    BY <1>0, <2>1 DEF TypeOK, PlansJoin, RewritesOnlyRebase
  <2>4. (Carries(branch) \subseteq published)' /\ NoPlainPushOverwritten'
    BY <1>0, <2>1 DEF NoPlainPushOverwritten, NoPushOverwritten
  <2> QED BY <2>2, <2>3, <2>4 DEF SyncInv
<1>4. ASSUME NEW r \in Runs, ListUpstream(r) PROVE SyncInv'
  <2>1. CASE GiveUp(r)
    BY <2>1, GivesUp
  <2>2. CASE /\ pc[r] = "list" /\ target' = [target EXCEPT ![r] = upstream]
             /\ pc' = [pc EXCEPT ![r] = "fetch"]
             /\ UNCHANGED <<cfg, upstream, branch, head, plan, pushed, failures, published>>
    <3>1. TypeOK' /\ AllDistinct'
      BY <1>0, <2>2 DEF TypeOK, AllDistinct
    <3>2. PlansJoin' /\ RewritesOnlyRebase'
      BY <1>0, <2>2 DEF TypeOK, PlansJoin, RewritesOnlyRebase
    <3>3. (Carries(branch) \subseteq published)' /\ NoPlainPushOverwritten'
      BY <1>0, <2>2 DEF NoPlainPushOverwritten, NoPushOverwritten
    <3> QED BY <3>1, <3>2, <3>3 DEF SyncInv
  <2> QED BY <1>4, <2>1, <2>2 DEF ListUpstream, Goto
<1>5. ASSUME NEW r \in Runs, FetchUpstream(r) PROVE SyncInv'
  <2>1. CASE GiveUp(r)
    BY <2>1, GivesUp
  <2>2. CASE \E step \in {"start", "plan"} : Goto(r, step) /\ UNCHANGED <<cfg, upstream, branch, head, target, plan, pushed, failures, published>>
    BY <1>0, <2>2, Moves DEF TypeOK
  <2> QED BY <1>5, <2>1, <2>2 DEF FetchUpstream
<1>6. ASSUME NEW r \in Runs, Plan(r) PROVE SyncInv'
  <2>1. CASE GiveUp(r)
    BY <2>1, GivesUp
  <2>2. CASE Goto(r, "start") /\ UNCHANGED <<cfg, upstream, branch, head, target, plan, pushed, failures, published>>
    BY <1>0, <2>2, Moves DEF TypeOK
  <2>3. CASE /\ Joinable(head[r], target[r])
             /\ plan' = [plan EXCEPT ![r] = PlanSync(head[r], target[r])]
             /\ pc' = [pc EXCEPT ![r] = "check"]
             /\ UNCHANGED <<cfg, upstream, branch, head, target, pushed, failures, published>>
    <3> DEFINE p == PlanSync(head[r], target[r])
    <3>1. head[r] \in Commits /\ target[r] \in Commits /\ Distinct(head[r]) /\ Distinct(target[r])
      BY <1>0 DEF TypeOK, AllDistinct
    <3>2. /\ p \in [newHead : Commits, rewrites : BOOLEAN] /\ Distinct(p.newHead)
          /\ Carries(head[r]) \cup Carries(target[r]) \subseteq Carries(p.newHead)
          /\ p.rewrites => cfg.strategy \notin {"merge", "mirror"}
      BY <2>3, <3>1, Planned
    <3> HIDE DEF p
    <3>3. plan' = [plan EXCEPT ![r] = p]
      BY <2>3 DEF p
    <3>4. TypeOK'
      BY <1>0, <2>3, <3>2, <3>3 DEF TypeOK
    <3>5. AllDistinct'
      BY <1>0, <2>3, <3>2, <3>3 DEF TypeOK, AllDistinct
    <3>6. PlansJoin'
      BY <1>0, <2>3, <3>2, <3>3 DEF TypeOK, PlansJoin
    <3>7. cfg.strategy \in {"merge", "mirror", "rebase"}
      BY <1>0, UpstreamSyncAssumption DEF TypeOK
    <3>8. RewritesOnlyRebase'
      BY <1>0, <2>3, <3>2, <3>3, <3>7 DEF TypeOK, RewritesOnlyRebase
    <3>9. (Carries(branch) \subseteq published)' /\ NoPlainPushOverwritten'
      BY <1>0, <2>3 DEF NoPlainPushOverwritten, NoPushOverwritten
    <3> QED BY <3>4, <3>5, <3>6, <3>8, <3>9 DEF SyncInv
  <2> QED BY <1>6, <2>1, <2>2, <2>3 DEF Plan, Goto
<1>7. ASSUME NEW r \in Runs, CheckRemote(r) PROVE SyncInv'
  <2>1. CASE branch = head[r]
    BY <1>0, <1>7, <2>1, Moves DEF CheckRemote, TypeOK
  <2>2. CASE branch # head[r]
    BY <1>0, <1>7, <2>2, Moves DEF CheckRemote, TypeOK
  <2> QED BY <2>1, <2>2
<1>8. ASSUME NEW r \in Runs, Push(r) PROVE SyncInv'
  <2>1. CASE GiveUp(r)
    BY <2>1, GivesUp
  <2>2. CASE Goto(r, "start") /\ UNCHANGED <<cfg, upstream, branch, head, target, plan, pushed, failures, published>>
    BY <1>0, <2>2, Moves DEF TypeOK
  <2>3. CASE /\ pc[r] = "push" /\ Accepted(r) /\ branch' = plan[r].newHead
             /\ published' = published \cup Carries(plan[r].newHead)
             /\ pushed' = pushed \cup {r} /\ pc' = [pc EXCEPT ![r] = "start"]
             /\ UNCHANGED <<cfg, upstream, head, target, plan, failures>>
    <3>1. plan[r].newHead \in Commits /\ Distinct(plan[r].newHead) /\ branch \in Commits
      BY <1>0 DEF TypeOK, AllDistinct
    <3>2. Carries(plan[r].newHead) \subseteq Changes
      BY <3>1, LenProperties, ElementOfSeq DEF Carries, Commits
    <3>3. TypeOK' /\ AllDistinct'
      BY <1>0, <2>3, <3>1, <3>2 DEF TypeOK, AllDistinct
    <3>4. PlansJoin' /\ RewritesOnlyRebase'
      BY <1>0, <2>3 DEF TypeOK, PlansJoin, RewritesOnlyRebase
    <3>5. (Carries(branch) \subseteq published)'
      BY <2>3
    <3>6. NoPlainPushOverwritten'
      <4> SUFFICES ASSUME cfg.strategy # "rebase" PROVE published' \subseteq Carries(branch')
        BY <2>3 DEF NoPlainPushOverwritten, NoPushOverwritten
      <4>1. published \subseteq Carries(branch) /\ ~plan[r].rewrites
        BY <1>0 DEF NoPlainPushOverwritten, NoPushOverwritten, RewritesOnlyRebase
      <4>2. Carries(branch) \subseteq Carries(plan[r].newHead)
        BY <2>3, <3>1, <4>1, AncestorCarries DEF Accepted
      <4> QED BY <2>3, <4>1, <4>2
    <3> QED BY <3>3, <3>4, <3>5, <3>6 DEF SyncInv
  <2> QED BY <1>8, <2>1, <2>2, <2>3 DEF Push, Goto
<1>9. CASE UNCHANGED vars
  <2>1. TypeOK' /\ AllDistinct'
    BY <1>0, <1>9 DEF vars, TypeOK, AllDistinct
  <2>2. PlansJoin' /\ RewritesOnlyRebase'
    BY <1>0, <1>9 DEF vars, PlansJoin, RewritesOnlyRebase
  <2>3. (Carries(branch) \subseteq published)' /\ NoPlainPushOverwritten'
    BY <1>0, <1>9 DEF vars, NoPlainPushOverwritten, NoPushOverwritten
  <2> QED BY <2>1, <2>2, <2>3 DEF SyncInv
<1> QED BY <1>1, <1>2, <1>3, <1>4, <1>5, <1>6, <1>7, <1>8, <1>9 DEF Next, syncUpstream

(* The invariant holds in every reachable state.                            *)
LEMMA Synced == Spec => []SyncInv
<1>1. SyncInv /\ [Next]_vars => SyncInv'
  BY SyncStep
<1> QED BY InitSync, <1>1, PTL DEF Spec

(* Whatever runs, developers and upstream do and whichever calls fail:      *)
(* without a rebase our branch carries everything it has ever carried, a    *)
(* mirror's and a merge's pushes included, and no change is in it twice.    *)
THEOREM SyncHolds == Spec => []SyncSafe
<1>1. SyncInv => SyncSafe
  BY DEF SyncInv, SyncSafe, AllDistinct, Distinct, JoinedOnce
<1> QED BY Synced, <1>1, PTL

(* What a run pushes is the join of what it started from and what it        *)
(* fetched: nothing of either is missing, also after a rebase.              *)
THEOREM PushesPlanned == Spec => PushesWhatItPlanned
<1>1. SyncInv /\ [Next]_vars =>
        \A r \in pushed' \ pushed : Carries(head[r]) \cup Carries(target[r]) \subseteq Carries(branch')
  <2> SUFFICES ASSUME SyncInv, [Next]_vars, NEW r \in pushed' \ pushed
               PROVE  Carries(head[r]) \cup Carries(target[r]) \subseteq Carries(branch')
    OBVIOUS
  <2>1. PICK q \in Runs : Push(q) /\ pushed' = pushed \cup {q} /\ branch' = plan[q].newHead
    BY DEF Next, vars, syncUpstream, Release, OtherPush, StartRun, ListUpstream, FetchUpstream, Plan, CheckRemote, Push, GiveUp
  <2>2. q = r /\ pc[r] = "push"
    BY <2>1 DEF Push
  <2> QED BY <2>1, <2>2 DEF SyncInv, PlansJoin
<1> QED BY Synced, <1>1, PTL DEF Spec, PushesWhatItPlanned

=============================================================================
