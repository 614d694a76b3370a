--------------------------- MODULE Estate_proofs ----------------------------
(***************************************************************************)
(* Proofs about the estate's reconciles, for every graph of kustomizations *)
(* and every configuration: a gitops reconcile accelerates only what was   *)
(* proved, dependencies first, and its impact analysis is complete         *)
(* (GitopsSafe).                                                           *)
(***************************************************************************)
EXTENDS GitopsReconcile, FiniteSetTheorems, SequenceTheorems, WellFoundedInduction, TLAPS

(* The reconciles of any configuration that GrConfigs admits.               *)
GrSpec == grCfg \in GrConfigs /\ GrFrom("audition") /\ [][GrNext]_grVars

-----------------------------------------------------------------------------
(* Natural numbers and finite sets *)

(* A set of natural numbers that is not empty has a least one.              *)
LEMMA LeastNat ==
  ASSUME NEW T \in SUBSET Nat, T # {}
  PROVE  \E m \in T : \A n \in T : m <= n
<1> DEFINE R == OpToRel(<, Nat)
<1>1. \A a, b \in Nat : <<a, b>> \in R <=> a < b
  BY DEF OpToRel
<1>2. IsWellFoundedOn(R, Nat)
  BY NatLessThanWellFounded
<1> HIDE DEF R
<1>3. PICK m \in T : \A n \in T : ~(<<n, m>> \in R)
  <2>1. T \subseteq Nat /\ T # {}
    OBVIOUS
  <2> QED BY <1>2, <2>1, WFMin, Zenon
<1>4. \A n \in T : n \in Nat /\ ~(n < m)
  BY <1>1, <1>3
<1> QED BY <1>4

(* Min is that least one.                                                   *)
LEMMA MinIs ==
  ASSUME NEW T \in SUBSET Nat, T # {}
  PROVE  Min(T) \in T /\ \A n \in T : Min(T) <= n
BY LeastNat DEF Min

(* A set that contains 0 and with each number the next one, up to n.        *)
LEMMA UpTo ==
  ASSUME NEW N \in Nat, NEW S, 0 \in S, \A n \in 0..N : n < N /\ n \in S => n + 1 \in S
  PROVE  \A n \in 0..N : n \in S
<1> SUFFICES ASSUME NEW k \in 0..N, k \notin S PROVE FALSE
  OBVIOUS
<1> DEFINE T == {n \in 0..N : n \notin S}
<1>1. T \in SUBSET Nat /\ T # {}
  OBVIOUS
<1>2. PICK m \in T : \A n \in T : m <= n
  BY <1>1, LeastNat
<1>3. m \in 0..N /\ m # 0
  BY <1>2
<1>4. m - 1 \in 0..N /\ m - 1 < N /\ m - 1 \notin T
  BY <1>2, <1>3
<1>5. m - 1 \in S
  BY <1>4
<1>6. (m - 1) + 1 \in S
  BY <1>4, <1>5
<1>7. (m - 1) + 1 = m
  BY <1>3
<1> QED BY <1>2, <1>6, <1>7

(* The subsets of a finite set that only grow, and stay once they stay, have *)
(* stopped growing after as many rounds as the set has members.             *)
LEMMA Settles ==
  ASSUME NEW D, IsFiniteSet(D), NEW T,
         \A n \in 0..(Cardinality(D) + 1) : T[n] \subseteq D,
         \A n \in 0..Cardinality(D) : T[n] \subseteq T[n + 1],
         \A n \in 0..Cardinality(D) : n < Cardinality(D) /\ T[n + 1] = T[n] => T[n + 2] = T[n + 1]
  PROVE  T[Cardinality(D) + 1] = T[Cardinality(D)]
<1> DEFINE N == Cardinality(D)
           S == {n \in 0..N : T[n + 1] = T[n] \/ Cardinality(T[n + 1]) >= n + 1}
<1>1. N \in Nat
  BY FS_CardinalityType
<1>2. ASSUME NEW n \in 0..N
      PROVE  /\ Cardinality(T[n]) \in Nat /\ Cardinality(T[n + 1]) \in Nat
             /\ T[n + 1] # T[n] => Cardinality(T[n]) < Cardinality(T[n + 1])
  <2>1. n \in 0..(N + 1) /\ n + 1 \in 0..(N + 1)
    BY <1>1
  <2>2. T[n] \in SUBSET D /\ T[n + 1] \in SUBSET D /\ T[n] \in SUBSET T[n + 1]
    BY <2>1
  <2>3. IsFiniteSet(T[n + 1]) /\ IsFiniteSet(T[n])
    BY <2>2, FS_Subset
  <2>4. Cardinality(T[n]) <= Cardinality(T[n + 1]) /\ (Cardinality(T[n]) = Cardinality(T[n + 1]) => T[n] = T[n + 1])
    BY <2>2, <2>3, FS_Subset
  <2> QED BY <2>3, <2>4, FS_CardinalityType
<1>3. 0 \in S
  <2>1. T[1] # T[0] => Cardinality(T[1]) >= 1
    <3>1. 0 \in 0..N /\ 0 + 1 = 1
      BY <1>1
    <3> QED BY <1>2, <3>1
  <2> QED BY <1>1, <2>1
<1>4. ASSUME NEW n \in 0..N, n < N, n \in S PROVE n + 1 \in S
  <2>1. n + 1 \in 0..N /\ (n + 1) + 1 = n + 2
    BY <1>1, <1>4
  <2>2. CASE T[n + 1] = T[n]
    BY <1>1, <1>4, <2>1, <2>2
  <2>3. CASE Cardinality(T[n + 1]) >= n + 1
    <3>1. /\ Cardinality(T[n + 1]) \in Nat /\ Cardinality(T[n + 2]) \in Nat
          /\ T[n + 2] # T[n + 1] => Cardinality(T[n + 1]) < Cardinality(T[n + 2])
      BY <1>2, <2>1
    <3>2. T[n + 2] = T[n + 1] \/ Cardinality(T[n + 2]) >= n + 2
      BY <1>1, <2>3, <3>1
    <3> QED BY <1>1, <2>1, <3>2
  <2> QED BY <1>4, <2>2, <2>3
<1>5. N \in S
  <2> HIDE DEF S
  <2>1. \A n \in 0..N : n < N /\ n \in S => n + 1 \in S
    BY <1>4
  <2>2. \A n \in 0..N : n \in S
    BY <1>1, <1>3, <2>1, UpTo, Zenon
  <2> QED BY <1>1, <2>2
<1>6. Cardinality(T[N + 1]) <= N
  <2>1. T[N + 1] \in SUBSET D
    BY <1>1
  <2> HIDE DEF N
  <2> QED BY <2>1, FS_Subset DEF N
<1> QED BY <1>1, <1>2, <1>5, <1>6

(* A finite set has an element that is above no other, in any strict order.  *)
LEMMA Minimal ==
  ASSUME NEW S, IsFiniteSet(S), S # {}, NEW R,
         \A a \in S : <<a, a>> \notin R,
         \A a, b, c \in S : <<a, b>> \in R /\ <<b, c>> \in R => <<a, c>> \in R
  PROVE  \E m \in S : \A x \in S : <<m, x>> \notin R
<1> DEFINE Beyond(a) == {x \in S : <<a, x>> \in R}
           sizes == {Cardinality(Beyond(a)) : a \in S}
<1>1. \A a \in S : IsFiniteSet(Beyond(a)) /\ Cardinality(Beyond(a)) \in Nat
  BY FS_Subset, FS_CardinalityType
<1>2. PICK n \in sizes : \A k \in sizes : n <= k
  <2>1. sizes \in SUBSET Nat /\ sizes # {}
    <3> HIDE DEF Beyond
    <3> QED BY <1>1
  <2> HIDE DEF sizes
  <2> QED BY <2>1, LeastNat
<1>3. PICK m \in S : Cardinality(Beyond(m)) = n
  BY <1>2
<1>4. SUFFICES ASSUME NEW x \in S, <<m, x>> \in R PROVE FALSE
  OBVIOUS
<1>5. Beyond(x) \in SUBSET Beyond(m) /\ x \in Beyond(m) /\ x \notin Beyond(x)
  BY <1>4
<1>6. /\ Cardinality(Beyond(x)) <= Cardinality(Beyond(m))
      /\ Cardinality(Beyond(x)) = Cardinality(Beyond(m)) => Beyond(x) = Beyond(m)
  <2> HIDE DEF Beyond
  <2> QED BY <1>1, <1>5, FS_Subset
<1>7. n <= Cardinality(Beyond(x))
  <2>1. Cardinality(Beyond(x)) \in sizes
    BY <1>4
  <2> QED BY <2>1, <1>2
<1> QED
  <2> HIDE DEF Beyond
  <2> QED BY <1>1, <1>3, <1>5, <1>6, <1>7

-----------------------------------------------------------------------------
(* What depends on what *)

Edges(g) == {p \in (DOMAIN g) \X (DOMAIN g) : p[2] \in g[p[1]].deps}

(* A relation that has the edges and all that follows from them.            *)
Closed(g, Q) ==
  \A a, b \in DOMAIN g :
    /\ b \in g[a].deps => <<a, b>> \in Q
    /\ \A c \in DOMAIN g : <<a, b>> \in Q /\ <<b, c>> \in Q => <<a, c>> \in Q

Graph(g) == IsFiniteSet(DOMAIN g) /\ DOMAIN g \subseteq Nat

LEMMA GraphSize ==
  ASSUME NEW g, Graph(g)
  PROVE  Cardinality(DOMAIN g) \in Nat
BY FS_CardinalityType DEF Graph

(* The closure of the edges is a recursion over its rounds.                 *)
LEMMA ReachesIs ==
  ASSUME NEW g, Cardinality(DOMAIN g) \in Nat
  PROVE  \E r : /\ r[0] = Edges(g)
                /\ \A n \in 1..Cardinality(DOMAIN g) : r[n] = r[n - 1] \cup {p \in (DOMAIN g) \X (DOMAIN g) : \E b \in DOMAIN g : <<p[1], b>> \in r[n - 1] /\ <<b, p[2]>> \in r[n - 1]}
                /\ Reaches(g) = r[Cardinality(DOMAIN g)]
<1> DEFINE N == Cardinality(DOMAIN g)
           Step(n, s) == s \cup {p \in (DOMAIN g) \X (DOMAIN g) : \E b \in DOMAIN g : <<p[1], b>> \in s /\ <<b, p[2]>> \in s}
           IsWalk(f, m) == f = [n \in 0..m |-> IF n = 0 THEN Edges(g) ELSE Step(n, f[n - 1])]
           S == {m \in Nat : \E f : IsWalk(f, m)}
<1>1. 0 \in S
  <2>1. IsWalk([n \in {0} |-> Edges(g)], 0)
    OBVIOUS
  <2> QED BY <2>1
<1>2. ASSUME NEW m \in Nat, m \in S PROVE m + 1 \in S
  <2>1. PICK f : IsWalk(f, m)
    BY <1>2
  <2> DEFINE h == [n \in 0..(m + 1) |-> IF n = m + 1 THEN Step(n, f[m]) ELSE f[n]]
  <2> HIDE DEF Step
  <2>2. ASSUME NEW n \in 0..(m + 1) PROVE h[n] = IF n = 0 THEN Edges(g) ELSE Step(n, h[n - 1])
    <3>1. CASE n = m + 1
      <4>1. n # 0 /\ n - 1 = m /\ m \in 0..(m + 1) /\ m # m + 1
        BY <3>1
      <4>2. h[n] = Step(n, f[m]) /\ h[m] = f[m]
        BY <3>1, <4>1
      <4> QED BY <4>1, <4>2
    <3>2. CASE n # m + 1
      <4>1. n \in 0..m
        BY <3>2
      <4>2. h[n] = f[n]
        BY <3>2
      <4>3. f[n] = IF n = 0 THEN Edges(g) ELSE Step(n, f[n - 1])
        BY <2>1, <4>1
      <4>4. n # 0 => n - 1 \in 0..(m + 1) /\ n - 1 # m + 1
        BY <4>1
      <4>5. n # 0 => h[n - 1] = f[n - 1]
        BY <4>4
      <4> QED BY <4>2, <4>3, <4>5
    <3> QED BY <3>1, <3>2
  <2>3. IsWalk(h, m + 1)
    BY <2>2
  <2> HIDE DEF h, IsWalk
  <2> QED BY <2>3
<1>3. N \in S
  <2>1. \A n \in 0..N : n < N /\ n \in S => n + 1 \in S
    <3> HIDE DEF S
    <3> QED BY <1>2
  <2> HIDE DEF S
  <2>2. \A n \in 0..N : n \in S
    BY <1>1, <2>1, UpTo, Zenon
  <2> QED BY <2>2
<1> DEFINE r == CHOOSE f : IsWalk(f, N)
<1>4. IsWalk(r, N)
  <2>1. \E f : IsWalk(f, N)
    BY <1>3
  <2> HIDE DEF IsWalk
  <2> QED BY <2>1
<1>5. Reaches(g) = r[N]
  BY DEF Reaches, Edges
<1> HIDE DEF r
<1>6. r[0] = Edges(g) /\ \A n \in 1..N : r[n] = Step(n, r[n - 1])
  <2> HIDE DEF Step
  <2>1. 0 \in 0..N /\ \A n \in 1..N : n \in 0..N /\ n # 0
    OBVIOUS
  <2> QED BY <1>4, <2>1, Zenon
<1> QED BY <1>5, <1>6

(* What is reached is in every closed relation.                             *)
LEMMA ReachesLeast ==
  ASSUME NEW g, Graph(g), NEW Q, Closed(g, Q)
  PROVE  \A a, b \in DOMAIN g : <<a, b>> \in Reaches(g) => <<a, b>> \in Q
<1> DEFINE N == Cardinality(DOMAIN g)
<1>1. N \in Nat
  BY GraphSize
<1>2. PICK r : /\ r[0] = Edges(g)
               /\ \A n \in 1..N : r[n] = r[n - 1] \cup {p \in (DOMAIN g) \X (DOMAIN g) :
                                     \E b \in DOMAIN g : <<p[1], b>> \in r[n - 1] /\ <<b, p[2]>> \in r[n - 1]}
               /\ Reaches(g) = r[N]
  BY <1>1, ReachesIs, Zenon
<1> DEFINE S == {n \in 0..N : \A a, b \in DOMAIN g : <<a, b>> \in r[n] => <<a, b>> \in Q}
<1> HIDE DEF N
<1>3. 0 \in S
  <2>1. ASSUME NEW a \in DOMAIN g, NEW b \in DOMAIN g, <<a, b>> \in Edges(g) PROVE <<a, b>> \in Q
    <3>1. b \in g[a].deps
      BY <2>1 DEF Edges
    <3> QED BY <3>1 DEF Closed
  <2> QED BY <1>1, <1>2, <2>1
<1>4. ASSUME NEW n \in 0..N, n < N, n \in S PROVE n + 1 \in S
  <2>1. n + 1 \in 1..N /\ (n + 1) - 1 = n
    BY <1>1, <1>4
  <2>2. r[n + 1] = r[n] \cup {p \in (DOMAIN g) \X (DOMAIN g) :
                                     \E b \in DOMAIN g : <<p[1], b>> \in r[n] /\ <<b, p[2]>> \in r[n]}
    BY <1>2, <2>1
  <2>3. ASSUME NEW a \in DOMAIN g, NEW c \in DOMAIN g, <<a, c>> \in r[n + 1] PROVE <<a, c>> \in Q
    <3>1. CASE <<a, c>> \in r[n]
      BY <1>4, <3>1
    <3>2. CASE \E b \in DOMAIN g : <<a, b>> \in r[n] /\ <<b, c>> \in r[n]
      BY <1>4, <3>2 DEF Closed
    <3> QED BY <2>2, <2>3, <3>1, <3>2
  <2> QED BY <2>1, <2>3
<1>5. N \in S
  <2> HIDE DEF S
  <2>1. \A n \in 0..N : n < N /\ n \in S => n + 1 \in S
    BY <1>4
  <2>2. \A n \in 0..N : n \in S
    BY <1>1, <1>3, <2>1, UpTo, Zenon
  <2> QED BY <1>1, <2>2
<1> QED BY <1>2, <1>5

(* Only members are related.                                                *)
LEMMA ReachesMembers ==
  ASSUME NEW g, Graph(g)
  PROVE  Reaches(g) \subseteq (DOMAIN g) \X (DOMAIN g)
<1> DEFINE N == Cardinality(DOMAIN g)
<1>1. N \in Nat
  BY GraphSize
<1>2. PICK r : /\ r[0] = Edges(g)
               /\ \A n \in 1..N : r[n] = r[n - 1] \cup {p \in (DOMAIN g) \X (DOMAIN g) :
                                     \E b \in DOMAIN g : <<p[1], b>> \in r[n - 1] /\ <<b, p[2]>> \in r[n - 1]}
               /\ Reaches(g) = r[N]
  BY <1>1, ReachesIs, Zenon
<1> DEFINE S == {n \in 0..N : r[n] \subseteq (DOMAIN g) \X (DOMAIN g)}
<1> HIDE DEF N
<1>3. 0 \in S
  BY <1>1, <1>2 DEF Edges
<1>4. ASSUME NEW n \in 0..N, n < N, n \in S PROVE n + 1 \in S
  <2>1. n + 1 \in 1..N /\ (n + 1) - 1 = n
    BY <1>1, <1>4
  <2> QED BY <1>2, <1>4, <2>1
<1>5. N \in S
  <2> HIDE DEF S
  <2>1. \A n \in 0..N : n < N /\ n \in S => n + 1 \in S
    BY <1>4
  <2>2. \A n \in 0..N : n \in S
    BY <1>1, <1>3, <2>1, UpTo, Zenon
  <2> QED BY <1>1, <2>2
<1> QED BY <1>2, <1>5

(* The dependents are a recursion over the rounds.                          *)
LEMMA DependentsIs ==
  ASSUME NEW g, NEW B, Cardinality(DOMAIN g) \in Nat
  PROVE  \E r : /\ r[0] = B
                /\ \A n \in 1..Cardinality(DOMAIN g) : r[n] = r[n - 1] \cup {k \in DOMAIN g : g[k].deps \cap r[n - 1] # {}}
                /\ Dependents(g, B) = r[Cardinality(DOMAIN g)]
<1> DEFINE N == Cardinality(DOMAIN g)
           Step(n, s) == s \cup {k \in DOMAIN g : g[k].deps \cap s # {}}
           IsWalk(f, m) == f = [n \in 0..m |-> IF n = 0 THEN B ELSE Step(n, f[n - 1])]
           S == {m \in Nat : \E f : IsWalk(f, m)}
<1>1. 0 \in S
  <2>1. IsWalk([n \in {0} |-> B], 0)
    OBVIOUS
  <2> QED BY <2>1
<1>2. ASSUME NEW m \in Nat, m \in S PROVE m + 1 \in S
  <2>1. PICK f : IsWalk(f, m)
    BY <1>2
  <2> DEFINE h == [n \in 0..(m + 1) |-> IF n = m + 1 THEN Step(n, f[m]) ELSE f[n]]
  <2> HIDE DEF Step
  <2>2. ASSUME NEW n \in 0..(m + 1) PROVE h[n] = IF n = 0 THEN B ELSE Step(n, h[n - 1])
    <3>1. CASE n = m + 1
      <4>1. n # 0 /\ n - 1 = m /\ m \in 0..(m + 1) /\ m # m + 1
        BY <3>1
      <4>2. h[n] = Step(n, f[m]) /\ h[m] = f[m]
        BY <3>1, <4>1
      <4> QED BY <4>1, <4>2
    <3>2. CASE n # m + 1
      <4>1. n \in 0..m
        BY <3>2
      <4>2. h[n] = f[n]
        BY <3>2
      <4>3. f[n] = IF n = 0 THEN B ELSE Step(n, f[n - 1])
        BY <2>1, <4>1
      <4>4. n # 0 => n - 1 \in 0..(m + 1) /\ n - 1 # m + 1
        BY <4>1
      <4>5. n # 0 => h[n - 1] = f[n - 1]
        BY <4>4
      <4> QED BY <4>2, <4>3, <4>5
    <3> QED BY <3>1, <3>2
  <2>3. IsWalk(h, m + 1)
    BY <2>2
  <2> HIDE DEF h, IsWalk
  <2> QED BY <2>3
<1>3. N \in S
  <2>1. \A n \in 0..N : n < N /\ n \in S => n + 1 \in S
    <3> HIDE DEF S
    <3> QED BY <1>2
  <2> HIDE DEF S
  <2>2. \A n \in 0..N : n \in S
    BY <1>1, <2>1, UpTo, Zenon
  <2> QED BY <2>2
<1> DEFINE r == CHOOSE f : IsWalk(f, N)
<1>4. IsWalk(r, N)
  <2>1. \E f : IsWalk(f, N)
    BY <1>3
  <2> HIDE DEF IsWalk
  <2> QED BY <2>1
<1>5. Dependents(g, B) = r[N]
  BY DEF Dependents
<1> HIDE DEF r
<1>6. r[0] = B /\ \A n \in 1..N : r[n] = Step(n, r[n - 1])
  <2> HIDE DEF Step
  <2>1. 0 \in 0..N /\ \A n \in 1..N : n \in 0..N /\ n # 0
    OBVIOUS
  <2> QED BY <1>4, <2>1, Zenon
<1> QED BY <1>5, <1>6

(* The dependents are closed: what depends on one of them is one.           *)
LEMMA DependentsAre ==
  ASSUME NEW g, Graph(g), NEW B \in SUBSET DOMAIN g
  PROVE  /\ B \subseteq Dependents(g, B) /\ Dependents(g, B) \subseteq DOMAIN g
         /\ \A k \in DOMAIN g : g[k].deps \cap Dependents(g, B) # {} => k \in Dependents(g, B)
<1> DEFINE N == Cardinality(DOMAIN g)
<1>1. N \in Nat
  BY GraphSize
<1>2. PICK r : /\ r[0] = B
               /\ \A n \in 1..N : r[n] = r[n - 1] \cup {k \in DOMAIN g : g[k].deps \cap r[n - 1] # {}}
               /\ Dependents(g, B) = r[N]
  BY <1>1, DependentsIs, Zenon
<1> DEFINE Grow(s) == s \cup {k \in DOMAIN g : g[k].deps \cap s # {}}
           T == [n \in 0..(N + 2) |-> IF n <= N THEN r[n] ELSE IF n = N + 1 THEN Grow(r[N]) ELSE Grow(Grow(r[N]))]
<1>3. ASSUME NEW n \in 0..N PROVE T[n + 1] = Grow(T[n])
  <2> HIDE DEF N, Grow
  <2>1. n + 1 \in 0..(N + 2) /\ n \in 0..(N + 2) /\ n <= N
    BY <1>1
  <2>2. CASE n = N
    <3>1. ~(n + 1 <= N) /\ n + 1 = N + 1
      BY <1>1, <2>2
    <3> QED BY <2>1, <2>2, <3>1
  <2>3. CASE n < N
    <3>1. n + 1 <= N /\ n + 1 \in 1..N /\ (n + 1) - 1 = n
      BY <1>1, <2>3
    <3>2. r[n + 1] = Grow(r[n])
      BY <1>2, <3>1 DEF Grow
    <3> QED BY <2>1, <3>1, <3>2
  <2> QED BY <1>1, <2>2, <2>3
<1>4. \A n \in 0..(N + 1) : T[n] \subseteq DOMAIN g
  <2> DEFINE S == {n \in 0..(N + 1) : T[n] \subseteq DOMAIN g}
  <2>1. T[0] = B
    BY <1>1, <1>2
  <2> HIDE DEF N, T
  <2>2. 0 \in S
    BY <1>1, <2>1
  <2>3. \A n \in 0..(N + 1) : n < N + 1 /\ n \in S => n + 1 \in S
    BY <1>1, <1>3
  <2>4. N + 1 \in Nat
    BY <1>1
  <2> HIDE DEF S
  <2>5. \A n \in 0..(N + 1) : n \in S
    BY <2>2, <2>3, <2>4, UpTo, Zenon
  <2> QED BY <2>5 DEF S
<1>5. \A n \in 0..N : T[n] \subseteq T[n + 1]
  BY <1>3
<1>6. \A n \in 0..N : n < N /\ T[n + 1] = T[n] => T[n + 2] = T[n + 1]
  <2> SUFFICES ASSUME NEW n \in 0..N, n < N, T[n + 1] = T[n] PROVE T[n + 2] = T[n + 1]
    OBVIOUS
  <2>1. n + 1 \in 0..N /\ (n + 1) + 1 = n + 2
    BY <1>1
  <2> HIDE DEF T, N, Grow
  <2>2. T[(n + 1) + 1] = Grow(T[n + 1]) /\ T[n + 1] = Grow(T[n])
    BY <1>3, <2>1
  <2> QED BY <2>1, <2>2
<1>7. T[N + 1] = T[N]
  <2> HIDE DEF T
  <2>1. IsFiniteSet(DOMAIN g)
    BY DEF Graph
  <2> QED BY <1>4, <1>5, <1>6, <2>1, Settles
<1>8. T[N] = Dependents(g, B) /\ T[0] = B /\ N \in 0..N /\ N \in 0..(N + 1)
  BY <1>1, <1>2
<1>9. B \subseteq T[N]
  <2> DEFINE S == {n \in 0..N : B \subseteq T[n]}
  <2> HIDE DEF N, T
  <2>2. 0 \in S
    BY <1>1, <1>8
  <2>3. \A n \in 0..N : n < N /\ n \in S => n + 1 \in S
    BY <1>1, <1>5
  <2> HIDE DEF S
  <2>5. \A n \in 0..N : n \in S
    BY <1>1, <2>2, <2>3, UpTo, Zenon
  <2> QED BY <1>8, <2>5 DEF S
<1>10. Grow(T[N]) = T[N]
  <2> HIDE DEF T, Grow
  <2> QED BY <1>3, <1>7, <1>8
<1> HIDE DEF T, N
<1> QED BY <1>4, <1>8, <1>9, <1>10

(* They are the least such set.                                             *)
LEMMA DependentsLeast ==
  ASSUME NEW g, Graph(g), NEW B, NEW A, B \subseteq A,
         \A k \in DOMAIN g : g[k].deps \cap A # {} => k \in A
  PROVE  Dependents(g, B) \subseteq A
<1> DEFINE N == Cardinality(DOMAIN g)
<1>1. N \in Nat
  BY GraphSize
<1>2. PICK r : /\ r[0] = B
               /\ \A n \in 1..N : r[n] = r[n - 1] \cup {k \in DOMAIN g : g[k].deps \cap r[n - 1] # {}}
               /\ Dependents(g, B) = r[N]
  BY <1>1, DependentsIs, Zenon
<1> DEFINE S == {n \in 0..N : r[n] \subseteq A}
<1> HIDE DEF N
<1>3. 0 \in S
  BY <1>1, <1>2
<1>4. ASSUME NEW n \in 0..N, n < N, n \in S PROVE n + 1 \in S
  <2>1. n + 1 \in 1..N /\ n + 1 \in 0..N /\ (n + 1) - 1 = n
    BY <1>1, <1>4
  <2>2. r[n + 1] = r[n] \cup {k \in DOMAIN g : g[k].deps \cap r[n] # {}}
    BY <1>2, <2>1
  <2> QED BY <1>4, <2>1, <2>2
<1>5. N \in S
  <2> HIDE DEF S
  <2>1. \A n \in 0..N : n < N /\ n \in S => n + 1 \in S
    BY <1>4
  <2>2. \A n \in 0..N : n \in S
    BY <1>1, <1>3, <2>1, UpTo, Zenon
  <2> QED BY <1>1, <2>2
<1> QED BY <1>2, <1>5

(* The relation that Reaches computes is the transitive closure of the      *)
(* edges: it has every path, for what has a path to c settles after as many *)
(* rounds as there are kustomizations.                                      *)
LEMMA ReachesClosed ==
  ASSUME NEW g, Graph(g)
  PROVE  Closed(g, Reaches(g))
<1> DEFINE N == Cardinality(DOMAIN g)
           To(c) == Dependents(g, {a \in DOMAIN g : c \in g[a].deps})
           P == {p \in (DOMAIN g) \X (DOMAIN g) : p[1] \in To(p[2])}
<1>1. N \in Nat
  BY GraphSize
<1>2. \A c \in DOMAIN g : /\ {a \in DOMAIN g : c \in g[a].deps} \subseteq To(c)
                          /\ \A k \in DOMAIN g : g[k].deps \cap To(c) # {} => k \in To(c)
  <2> TAKE c \in DOMAIN g
  <2>1. {a \in DOMAIN g : c \in g[a].deps} \in SUBSET DOMAIN g
    OBVIOUS
  <2> QED BY <2>1, DependentsAre
<1>3. ASSUME NEW b \in DOMAIN g, NEW c \in DOMAIN g, b \in To(c) PROVE To(b) \subseteq To(c)
  <2>1. {a \in DOMAIN g : b \in g[a].deps} \subseteq To(c)
    <3> SUFFICES ASSUME NEW a \in DOMAIN g, b \in g[a].deps PROVE a \in To(c)
      OBVIOUS
    <3> HIDE DEF To
    <3>1. g[a].deps \cap To(c) # {}
      BY <1>3
    <3> QED BY <1>2, <3>1
  <2>2. \A k \in DOMAIN g : g[k].deps \cap To(c) # {} => k \in To(c)
    BY <1>2
  <2> QED BY <2>1, <2>2, DependentsLeast
<1>4. Closed(g, P)
  <2> HIDE DEF To
  <2>1. ASSUME NEW a \in DOMAIN g, NEW b \in DOMAIN g, b \in g[a].deps PROVE <<a, b>> \in P
    BY <1>2, <2>1
  <2>2. ASSUME NEW a \in DOMAIN g, NEW b \in DOMAIN g, NEW c \in DOMAIN g, <<a, b>> \in P, <<b, c>> \in P
        PROVE  <<a, c>> \in P
    <3>1. a \in To(b) /\ b \in To(c)
      BY <2>2
    <3> QED BY <1>3, <3>1
  <2> HIDE DEF P
  <2> QED BY <2>1, <2>2 DEF Closed
<1>5. \A a, b \in DOMAIN g : <<a, b>> \in Reaches(g) => <<a, b>> \in P
  <2> HIDE DEF P
  <2> QED BY <1>4, ReachesLeast
<1>6. ASSUME NEW a0 \in DOMAIN g, NEW c \in DOMAIN g, <<a0, c>> \in P PROVE <<a0, c>> \in Reaches(g)
  <2>1. PICK r : /\ r[0] = Edges(g)
                 /\ \A n \in 1..N : r[n] = r[n - 1] \cup {p \in (DOMAIN g) \X (DOMAIN g) :
                                       \E b \in DOMAIN g : <<p[1], b>> \in r[n - 1] /\ <<b, p[2]>> \in r[n - 1]}
                 /\ Reaches(g) = r[N]
    BY <1>1, ReachesIs, Zenon
  <2> DEFINE B == {a \in DOMAIN g : c \in g[a].deps}
  <2>2. PICK t : /\ t[0] = B
                 /\ \A n \in 1..N : t[n] = t[n - 1] \cup {k \in DOMAIN g : g[k].deps \cap t[n - 1] # {}}
                 /\ Dependents(g, B) = t[N]
    <3> HIDE DEF B
    <3> QED BY <1>1, DependentsIs, Zenon
  <2> DEFINE S == {n \in 0..N : /\ Edges(g) \subseteq r[n]
                                /\ \A a \in t[n] : a \in DOMAIN g /\ <<a, c>> \in r[n]}
  <2> HIDE DEF N
  <2>3. 0 \in S
    BY <1>1, <2>1, <2>2 DEF Edges
  <2>4. ASSUME NEW n \in 0..N, n < N, n \in S PROVE n + 1 \in S
    <3>1. n + 1 \in 1..N /\ n + 1 \in 0..N /\ (n + 1) - 1 = n
      BY <1>1, <2>4
    <3>2. r[n + 1] = r[n] \cup {p \in (DOMAIN g) \X (DOMAIN g) :
                                       \E b \in DOMAIN g : <<p[1], b>> \in r[n] /\ <<b, p[2]>> \in r[n]}
      BY <2>1, <3>1
    <3>3. t[n + 1] = t[n] \cup {k \in DOMAIN g : g[k].deps \cap t[n] # {}}
      BY <2>2, <3>1
    <3>4. Edges(g) \subseteq r[n + 1]
      BY <2>4, <3>2
    <3>5. ASSUME NEW a \in t[n + 1] PROVE a \in DOMAIN g /\ <<a, c>> \in r[n + 1]
      <4>1. CASE a \in t[n]
        BY <2>4, <3>2, <4>1
      <4>2. CASE a \in DOMAIN g /\ g[a].deps \cap t[n] # {}
        <5>1. PICK b \in t[n] : b \in g[a].deps
          BY <4>2
        <5>2. b \in DOMAIN g /\ <<b, c>> \in r[n]
          BY <2>4, <5>1
        <5>3. <<a, b>> \in Edges(g)
          BY <4>2, <5>1, <5>2 DEF Edges
        <5> QED BY <2>4, <3>2, <4>2, <5>2, <5>3
      <4> QED BY <3>3, <3>5, <4>1, <4>2
    <3> QED BY <3>1, <3>4, <3>5
  <2>5. N \in S
    <3> HIDE DEF S
    <3>1. \A n \in 0..N : n < N /\ n \in S => n + 1 \in S
      BY <2>4
    <3>2. \A n \in 0..N : n \in S
      BY <1>1, <2>3, <3>1, UpTo, Zenon
    <3> QED BY <1>1, <3>2
  <2>6. a0 \in Dependents(g, B)
    BY <1>6
  <2> QED BY <2>1, <2>2, <2>5, <2>6
<1> HIDE DEF P
<1> QED BY <1>4, <1>5, <1>6 DEF Closed

(* The impact of a change is what it touches and all that reaches that.     *)
LEMMA ImpactIs ==
  ASSUME NEW g, Graph(g), NEW paths
  PROVE  /\ ComputeImpact(g, paths) \subseteq DOMAIN g
         /\ \A k \in DOMAIN g : g[k].deps \cap ComputeImpact(g, paths) # {} => k \in ComputeImpact(g, paths)
         /\ \A k \in DOMAIN g :
              k \in ComputeImpact(g, paths) <=>
                \/ g[k].path \in paths
                \/ \E b \in DOMAIN g : <<k, b>> \in Reaches(g) /\ g[b].path \in paths
<1> DEFINE B == {k \in DOMAIN g : g[k].path \in paths}
           A == B \cup {k \in DOMAIN g : \E b \in B : <<k, b>> \in Reaches(g)}
           D == Dependents(g, B)
           Q == {p \in (DOMAIN g) \X (DOMAIN g) : p[2] \in D => p[1] \in D}
<1>1. ComputeImpact(g, paths) = D
  BY DEF ComputeImpact
<1>2. /\ B \subseteq D /\ D \subseteq DOMAIN g
      /\ \A k \in DOMAIN g : g[k].deps \cap D # {} => k \in D
  <2>1. B \in SUBSET DOMAIN g
    OBVIOUS
  <2> HIDE DEF B
  <2> QED BY <2>1, DependentsAre
<1>3. D \subseteq A
  <2>1. ASSUME NEW k \in DOMAIN g, g[k].deps \cap A # {} PROVE k \in A
    <3>1. PICK j \in A : j \in g[k].deps
      BY <2>1
    <3>2. j \in DOMAIN g /\ <<k, j>> \in Reaches(g)
      BY <3>1, ReachesClosed DEF Closed
    <3>3. CASE j \in B
      BY <3>2, <3>3
    <3>4. ASSUME NEW b \in B, <<j, b>> \in Reaches(g) PROVE k \in A
      <4>1. b \in DOMAIN g
        OBVIOUS
      <4> HIDE DEF B
      <4>2. <<k, b>> \in Reaches(g)
        BY <3>2, <3>4, <4>1, ReachesClosed DEF Closed
      <4> QED BY <4>2
    <3> QED BY <3>1, <3>3, <3>4
  <2>2. B \subseteq A
    OBVIOUS
  <2> HIDE DEF A, B
  <2> QED BY <2>1, <2>2, DependentsLeast
<1>4. Closed(g, Q)
  <2> HIDE DEF D
  <2> QED BY <1>2 DEF Closed
<1>5. \A a, b \in DOMAIN g : <<a, b>> \in Reaches(g) => (b \in D => a \in D)
  <2>1. \A a, b \in DOMAIN g : <<a, b>> \in Q => (b \in D => a \in D)
    <3> HIDE DEF D
    <3> QED OBVIOUS
  <2> HIDE DEF Q
  <2> QED BY <1>4, <2>1, ReachesLeast
<1> HIDE DEF D
<1> QED BY <1>1, <1>2, <1>3, <1>5

-----------------------------------------------------------------------------
(* Kahn's rounds *)

(* Kahn's rounds are a recursion.                                           *)
LEMMA PlacedAtIs ==
  ASSUME NEW g, Cardinality(DOMAIN g) \in Nat
  PROVE  \E r : /\ r[0] = {}
                /\ \A n \in 1..Cardinality(DOMAIN g) : r[n] = {k \in DOMAIN g : Known(g, k) \subseteq r[n - 1]}
                /\ PlacedAt(g) = r
<1> DEFINE N == Cardinality(DOMAIN g)
           Step(n, s) == {k \in DOMAIN g : Known(g, k) \subseteq s}
           IsWalk(f, m) == f = [n \in 0..m |-> IF n = 0 THEN {} ELSE Step(n, f[n - 1])]
           S == {m \in Nat : \E f : IsWalk(f, m)}
<1>1. 0 \in S
  <2>1. IsWalk([n \in {0} |-> {}], 0)
    OBVIOUS
  <2> QED BY <2>1
<1>2. ASSUME NEW m \in Nat, m \in S PROVE m + 1 \in S
  <2>1. PICK f : IsWalk(f, m)
    BY <1>2
  <2> DEFINE h == [n \in 0..(m + 1) |-> IF n = m + 1 THEN Step(n, f[m]) ELSE f[n]]
  <2> HIDE DEF Step
  <2>2. ASSUME NEW n \in 0..(m + 1) PROVE h[n] = IF n = 0 THEN {} ELSE Step(n, h[n - 1])
    <3>1. CASE n = m + 1
      <4>1. n # 0 /\ n - 1 = m /\ m \in 0..(m + 1) /\ m # m + 1
        BY <3>1
      <4>2. h[n] = Step(n, f[m]) /\ h[m] = f[m]
        BY <3>1, <4>1
      <4> QED BY <4>1, <4>2
    <3>2. CASE n # m + 1
      <4>1. n \in 0..m
        BY <3>2
      <4>2. h[n] = f[n]
        BY <3>2
      <4>3. f[n] = IF n = 0 THEN {} ELSE Step(n, f[n - 1])
        BY <2>1, <4>1
      <4>4. n # 0 => n - 1 \in 0..(m + 1) /\ n - 1 # m + 1
        BY <4>1
      <4>5. n # 0 => h[n - 1] = f[n - 1]
        BY <4>4
      <4> QED BY <4>2, <4>3, <4>5
    <3> QED BY <3>1, <3>2
  <2>3. IsWalk(h, m + 1)
    BY <2>2
  <2> HIDE DEF h, IsWalk
  <2> QED BY <2>3
<1>3. N \in S
  <2>1. \A n \in 0..N : n < N /\ n \in S => n + 1 \in S
    <3> HIDE DEF S
    <3> QED BY <1>2
  <2> HIDE DEF S
  <2>2. \A n \in 0..N : n \in S
    BY <1>1, <2>1, UpTo, Zenon
  <2> QED BY <2>2
<1> DEFINE r == CHOOSE f : IsWalk(f, N)
<1>4. IsWalk(r, N)
  <2>1. \E f : IsWalk(f, N)
    BY <1>3
  <2> HIDE DEF IsWalk
  <2> QED BY <2>1
<1>5. PlacedAt(g) = r
  BY DEF PlacedAt
<1> HIDE DEF r
<1>6. r[0] = {} /\ \A n \in 1..N : r[n] = Step(n, r[n - 1])
  <2> HIDE DEF Step
  <2>1. 0 \in 0..N /\ \A n \in 1..N : n \in 0..N /\ n # 0
    OBVIOUS
  <2> QED BY <1>4, <2>1, Zenon
<1> QED BY <1>5, <1>6

(* A placed kustomization has its dependencies in an earlier round.         *)
LEMMA Placed ==
  ASSUME NEW g, Graph(g)
  PROVE  /\ kahn(g) \subseteq DOMAIN g
         /\ \A k \in kahn(g) :
              /\ Depth(g, k) \in Nat
              /\ \A b \in Known(g, k) : b \in kahn(g) /\ Depth(g, b) < Depth(g, k)
<1> DEFINE N == Cardinality(DOMAIN g)
           P == PlacedAt(g)
<1>1. N \in Nat
  BY GraphSize
<1>2. P[0] = {} /\ \A n \in 1..N : P[n] = {k \in DOMAIN g : Known(g, k) \subseteq P[n - 1]}
  <2>1. \E r : /\ r[0] = {}
               /\ \A n \in 1..N : r[n] = {k \in DOMAIN g : Known(g, k) \subseteq r[n - 1]}
               /\ PlacedAt(g) = r
    BY <1>1, PlacedAtIs, Zenon
  <2> QED BY <2>1
<1>3. kahn(g) = P[N] /\ \A k : Depth(g, k) = Min({n \in 0..N : k \in P[n]})
  BY DEF kahn, Depth
<1> HIDE DEF P, N
<1>4. \A n \in 0..N : n < N => P[n] \subseteq P[n + 1]
  <2> DEFINE S == {n \in 0..N : n < N => P[n] \subseteq P[n + 1]}
  <2>1. 0 \in S
    BY <1>1, <1>2
  <2>2. ASSUME NEW n \in 0..N, n < N, n \in S PROVE n + 1 \in S
    <3>1. n + 1 \in 1..N /\ n + 1 \in 0..N /\ (n + 1) - 1 = n
      BY <1>1, <2>2
    <3>2. CASE n + 1 < N
      <4>1. n + 2 \in 1..N /\ (n + 2) - 1 = n + 1 /\ (n + 1) + 1 = n + 2
        BY <1>1, <3>1, <3>2
      <4>2. P[n + 1] = {k \in DOMAIN g : Known(g, k) \subseteq P[n]}
        BY <1>2, <3>1
      <4>3. P[n + 2] = {k \in DOMAIN g : Known(g, k) \subseteq P[n + 1]}
        BY <1>2, <4>1
      <4>4. P[n] \subseteq P[n + 1]
        BY <2>2
      <4> QED BY <3>1, <4>1, <4>2, <4>3, <4>4
    <3> QED BY <3>1, <3>2
  <2> HIDE DEF S
  <2>3. \A n \in 0..N : n < N /\ n \in S => n + 1 \in S
    BY <2>2
  <2>4. \A n \in 0..N : n \in S
    BY <1>1, <2>1, <2>3, UpTo, Zenon
  <2> QED BY <2>4 DEF S
<1>5. ASSUME NEW m \in 0..N PROVE P[m] \subseteq P[N]
  <2> DEFINE S == {n \in 0..N : n >= m => P[m] \subseteq P[n]}
  <2>1. 0 \in S
    BY <1>1
  <2>2. ASSUME NEW n \in 0..N, n < N, n \in S PROVE n + 1 \in S
    <3>1. n + 1 \in 0..N /\ P[n] \subseteq P[n + 1]
      BY <1>1, <1>4, <2>2
    <3>2. CASE n + 1 = m
      BY <3>1, <3>2
    <3>3. CASE n + 1 # m
      <4>1. n + 1 >= m => n >= m
        BY <1>1, <3>3
      <4> QED BY <2>2, <3>1, <4>1
    <3> QED BY <3>2, <3>3
  <2> HIDE DEF S
  <2>3. \A n \in 0..N : n < N /\ n \in S => n + 1 \in S
    BY <2>2
  <2>4. \A n \in 0..N : n \in S
    BY <1>1, <2>1, <2>3, UpTo, Zenon
  <2>5. N \in S
    BY <1>1, <2>4
  <2> QED BY <1>1, <2>5 DEF S
<1>6. kahn(g) \subseteq DOMAIN g
  <2>1. CASE N = 0
    BY <1>2, <1>3, <2>1
  <2>2. CASE N # 0
    <3>1. N \in 1..N
      BY <1>1, <2>2
    <3> QED BY <1>2, <1>3, <3>1
  <2> QED BY <2>1, <2>2
<1>7. \A k, n : k \in P[n] /\ n \in 0..N =>
        /\ Depth(g, k) \in 0..N /\ Depth(g, k) <= n /\ k \in P[Depth(g, k)]
  <2> TAKE k, n
  <2> DEFINE R == {i \in 0..N : k \in P[i]}
  <2> SUFFICES ASSUME k \in P[n], n \in 0..N
               PROVE  Depth(g, k) \in 0..N /\ Depth(g, k) <= n /\ k \in P[Depth(g, k)]
    OBVIOUS
  <2>1. R \in SUBSET Nat /\ R # {} /\ n \in R
    BY <1>1
  <2>2. Depth(g, k) = Min(R)
    BY <1>3
  <2>3. Min(R) \in R /\ Min(R) <= n
    <3> HIDE DEF R
    <3> QED BY <2>1, MinIs
  <2> QED BY <2>2, <2>3
<1>8. ASSUME NEW k \in kahn(g), NEW b \in Known(g, k)
      PROVE  b \in kahn(g) /\ Depth(g, b) < Depth(g, k)
  <2> DEFINE d == Depth(g, k)
  <2>1. N \in 0..N
    BY <1>1
  <2>2. d \in 0..N /\ k \in P[d]
    BY <1>3, <1>7, <2>1
  <2> HIDE DEF d
  <2>3. d # 0
    BY <1>2, <2>2
  <2>4. d \in 1..N /\ d - 1 \in 0..N
    BY <1>1, <2>2, <2>3
  <2>5. b \in P[d - 1]
    BY <1>2, <2>2, <2>4
  <2>6. b \in P[N]
    BY <1>5, <2>4, <2>5
  <2>7. Depth(g, b) \in 0..N /\ Depth(g, b) <= d - 1
    BY <1>7, <2>4, <2>5
  <2>8. Depth(g, b) < d
    BY <1>1, <2>2, <2>7
  <2> QED BY <1>3, <2>6, <2>8 DEF d
<1>9. \A k \in kahn(g) : Depth(g, k) \in Nat
  <2>1. N \in 0..N
    BY <1>1
  <2>2. \A k \in kahn(g) : Depth(g, k) \in 0..N
    BY <1>3, <1>7, <2>1
  <2> QED BY <1>1, <2>2
<1> QED BY <1>6, <1>8, <1>9

(* However far it reaches, all that it reaches is placed, and earlier.      *)
LEMMA ReachedEarlier ==
  ASSUME NEW g, Graph(g), NEW k \in kahn(g), NEW b \in DOMAIN g, <<k, b>> \in Reaches(g)
  PROVE  b \in kahn(g) /\ Depth(g, b) < Depth(g, k)
<1> DEFINE Q == {p \in (DOMAIN g) \X (DOMAIN g) :
                   p[1] \in kahn(g) => p[2] \in kahn(g) /\ Depth(g, p[2]) < Depth(g, p[1])}
<1>1. Closed(g, Q)
  <2>1. ASSUME NEW a \in DOMAIN g, NEW c \in DOMAIN g, c \in g[a].deps PROVE <<a, c>> \in Q
    <3>1. c \in Known(g, a)
      BY <2>1 DEF Known
    <3> QED BY <3>1, Placed
  <2>2. ASSUME NEW a \in DOMAIN g, NEW c \in DOMAIN g, NEW d \in DOMAIN g, <<a, c>> \in Q, <<c, d>> \in Q
        PROVE  <<a, d>> \in Q
    <3>1. CASE a \in kahn(g)
      <4>1. c \in kahn(g) /\ Depth(g, c) < Depth(g, a)
        BY <2>2, <3>1
      <4>2. d \in kahn(g) /\ Depth(g, d) < Depth(g, c)
        BY <2>2, <4>1
      <4>3. Depth(g, a) \in Nat /\ Depth(g, c) \in Nat /\ Depth(g, d) \in Nat
        BY <3>1, <4>1, <4>2, Placed
      <4>4. Depth(g, d) < Depth(g, a)
        BY <4>1, <4>2, <4>3
      <4> QED BY <4>2, <4>4
    <3> QED BY <3>1
  <2> HIDE DEF Q
  <2> QED BY <2>1, <2>2 DEF Closed
<1>2. k \in DOMAIN g
  BY Placed
<1>3. <<k, b>> \in Q
  <2> HIDE DEF Q
  <2> QED BY <1>1, <1>2, ReachesLeast
<1> QED BY <1>3

-----------------------------------------------------------------------------
(* Orders *)

Once(s) == \A i, j \in DOMAIN s : s[i] = s[j] => i = j

InOrder(s, order) == \A i, j \in DOMAIN s : i < j => <<s[i], s[j]>> \in order

(* Every part of S has a first member.                                      *)
Ordered(S, order) == \A T \in SUBSET S : T # {} => \E a \in T : \A b \in T \ {a} : <<a, b>> \in order

(* One more, after all the others.                                          *)
LEMMA Appended ==
  ASSUME NEW S, NEW s \in Seq(S), NEW a \in S \ ToSet(s), Once(s),
         IsFiniteSet(ToSet(s)), Cardinality(ToSet(s)) = Len(s)
  PROVE  /\ Append(s, a) \in Seq(S) /\ Len(Append(s, a)) = Len(s) + 1 /\ Len(s) \in Nat
         /\ \A i \in 1..Len(s) : Append(s, a)[i] = s[i]
         /\ Append(s, a)[Len(s) + 1] = a
         /\ ToSet(Append(s, a)) = ToSet(s) \cup {a}
         /\ Once(Append(s, a))
         /\ IsFiniteSet(ToSet(Append(s, a))) /\ Cardinality(ToSet(Append(s, a))) = Len(Append(s, a))
<1>1. /\ Append(s, a) \in Seq(S) /\ Len(Append(s, a)) = Len(s) + 1 /\ Len(s) \in Nat
      /\ \A i \in 1..Len(s) : Append(s, a)[i] = s[i]
      /\ Append(s, a)[Len(s) + 1] = a
  BY AppendProperties, LenProperties
<1>2. DOMAIN s = 1..Len(s) /\ DOMAIN Append(s, a) = 1..(Len(s) + 1)
  BY <1>1, LenProperties
<1>3. ToSet(Append(s, a)) = ToSet(s) \cup {a}
  <2>1. \A i \in 1..(Len(s) + 1) : i \in 1..Len(s) \/ i = Len(s) + 1
    BY <1>1
  <2>2. \A i \in 1..Len(s) : i \in 1..(Len(s) + 1)
    BY <1>1
  <2>3. Len(s) + 1 \in 1..(Len(s) + 1)
    BY <1>1
  <2>4. ToSet(Append(s, a)) \subseteq ToSet(s) \cup {a}
    BY <1>1, <1>2, <2>1 DEF ToSet
  <2>5. ToSet(s) \cup {a} \subseteq ToSet(Append(s, a))
    BY <1>1, <1>2, <2>2, <2>3 DEF ToSet
  <2> QED BY <2>4, <2>5
<1>4. Once(Append(s, a))
  <2> SUFFICES ASSUME NEW i \in 1..(Len(s) + 1), NEW j \in 1..(Len(s) + 1), Append(s, a)[i] = Append(s, a)[j]
               PROVE  i = j
    BY <1>2 DEF Once
  <2>1. \A m \in 1..Len(s) : s[m] \in ToSet(s)
    BY <1>2 DEF ToSet
  <2>2. CASE i \in 1..Len(s) /\ j \in 1..Len(s)
    BY <1>1, <1>2, <2>2 DEF Once
  <2>3. CASE i \in 1..Len(s) /\ j = Len(s) + 1
    BY <1>1, <2>1, <2>3
  <2>4. CASE i = Len(s) + 1 /\ j \in 1..Len(s)
    BY <1>1, <2>1, <2>4
  <2> QED BY <1>1, <2>2, <2>3, <2>4
<1>5. IsFiniteSet(ToSet(s) \cup {a}) /\ Cardinality(ToSet(s) \cup {a}) = Cardinality(ToSet(s)) + 1
  BY FS_AddElement
<1> QED BY <1>1, <1>3, <1>4, <1>5

(* Sorting is a recursion over the members placed.                          *)
LEMMA SortedIs ==
  ASSUME NEW S0, NEW order, Cardinality(S0) \in Nat
  PROVE  \E r : /\ r[0] = <<>>
                /\ \A n \in 1..Cardinality(S0) : r[n] = Append(r[n - 1], CHOOSE a \in S0 \ ToSet(r[n - 1]) : \A b \in (S0 \ ToSet(r[n - 1])) \ {a} : <<a, b>> \in order)
                /\ Sorted(S0, order) = r[Cardinality(S0)]
<1> DEFINE N == Cardinality(S0)
           Step(n, s) == Append(s, CHOOSE a \in S0 \ ToSet(s) : \A b \in (S0 \ ToSet(s)) \ {a} : <<a, b>> \in order)
           IsWalk(f, m) == f = [n \in 0..m |-> IF n = 0 THEN <<>> ELSE Step(n, f[n - 1])]
           S == {m \in Nat : \E f : IsWalk(f, m)}
<1>1. 0 \in S
  <2>1. IsWalk([n \in {0} |-> <<>>], 0)
    OBVIOUS
  <2> QED BY <2>1
<1>2. ASSUME NEW m \in Nat, m \in S PROVE m + 1 \in S
  <2>1. PICK f : IsWalk(f, m)
    BY <1>2
  <2> DEFINE h == [n \in 0..(m + 1) |-> IF n = m + 1 THEN Step(n, f[m]) ELSE f[n]]
  <2> HIDE DEF Step
  <2>2. ASSUME NEW n \in 0..(m + 1) PROVE h[n] = IF n = 0 THEN <<>> ELSE Step(n, h[n - 1])
    <3>1. CASE n = m + 1
      <4>1. n # 0 /\ n - 1 = m /\ m \in 0..(m + 1) /\ m # m + 1
        BY <3>1
      <4>2. h[n] = Step(n, f[m]) /\ h[m] = f[m]
        BY <3>1, <4>1
      <4> QED BY <4>1, <4>2
    <3>2. CASE n # m + 1
      <4>1. n \in 0..m
        BY <3>2
      <4>2. h[n] = f[n]
        BY <3>2
      <4>3. f[n] = IF n = 0 THEN <<>> ELSE Step(n, f[n - 1])
        BY <2>1, <4>1
      <4>4. n # 0 => n - 1 \in 0..(m + 1) /\ n - 1 # m + 1
        BY <4>1
      <4>5. n # 0 => h[n - 1] = f[n - 1]
        BY <4>4
      <4> QED BY <4>2, <4>3, <4>5
    <3> QED BY <3>1, <3>2
  <2>3. IsWalk(h, m + 1)
    BY <2>2
  <2> HIDE DEF h, IsWalk
  <2> QED BY <2>3
<1>3. N \in S
  <2>1. \A n \in 0..N : n < N /\ n \in S => n + 1 \in S
    <3> HIDE DEF S
    <3> QED BY <1>2
  <2> HIDE DEF S
  <2>2. \A n \in 0..N : n \in S
    BY <1>1, <2>1, UpTo, Zenon
  <2> QED BY <2>2
<1> DEFINE r == CHOOSE f : IsWalk(f, N)
<1>4. IsWalk(r, N)
  <2>1. \E f : IsWalk(f, N)
    BY <1>3
  <2> HIDE DEF IsWalk
  <2> QED BY <2>1
<1>5. Sorted(S0, order) = r[N]
  BY DEF Sorted
<1> HIDE DEF r
<1>6. r[0] = <<>> /\ \A n \in 1..N : r[n] = Step(n, r[n - 1])
  <2> HIDE DEF Step
  <2>1. 0 \in 0..N /\ \A n \in 1..N : n \in 0..N /\ n # 0
    OBVIOUS
  <2> QED BY <1>4, <2>1, Zenon
<1> QED BY <1>5, <1>6

(* Sorting lists each member once, in the order.                            *)
LEMMA SortedLists ==
  ASSUME NEW S0, IsFiniteSet(S0), NEW order, Ordered(S0, order)
  PROVE  /\ Sorted(S0, order) \in Seq(S0) /\ Len(Sorted(S0, order)) = Cardinality(S0)
         /\ ToSet(Sorted(S0, order)) = S0
         /\ Once(Sorted(S0, order)) /\ InOrder(Sorted(S0, order), order)
<1> DEFINE N == Cardinality(S0)
           First(s) == CHOOSE a \in S0 \ ToSet(s) : \A b \in (S0 \ ToSet(s)) \ {a} : <<a, b>> \in order
<1>1. N \in Nat
  BY FS_CardinalityType
<1>2. PICK r : /\ r[0] = <<>>
               /\ \A n \in 1..N : r[n] = Append(r[n - 1], First(r[n - 1]))
               /\ Sorted(S0, order) = r[N]
  BY <1>1, SortedIs, Zenon
<1> DEFINE Good(s) == /\ s \in Seq(S0) /\ Once(s) /\ InOrder(s, order)
                      /\ ToSet(s) \subseteq S0 /\ IsFiniteSet(ToSet(s)) /\ Cardinality(ToSet(s)) = Len(s)
                      /\ \A x \in ToSet(s), y \in S0 \ ToSet(s) : <<x, y>> \in order
           S == {n \in 0..N : Good(r[n]) /\ Len(r[n]) = n}
<1>3. 0 \in S
  <2>1. <<>> \in Seq(S0) /\ Len(<<>>) = 0 /\ DOMAIN <<>> = {}
    OBVIOUS
  <2>2. ToSet(<<>>) = {} /\ Once(<<>>) /\ InOrder(<<>>, order)
    BY <2>1 DEF ToSet, Once, InOrder
  <2>3. IsFiniteSet({}) /\ Cardinality({}) = 0
    BY FS_EmptySet
  <2>4. Good(<<>>)
    BY <2>1, <2>2, <2>3
  <2> HIDE DEF Good
  <2> QED BY <1>1, <1>2, <2>1, <2>4
<1>4. ASSUME NEW n \in 0..N, n < N, n \in S PROVE n + 1 \in S
  <2> DEFINE s == r[n]
             a == First(s)
  <2>1. Good(s) /\ Len(s) = n
    BY <1>4
  <2>2. n + 1 \in 1..N /\ n + 1 \in 0..N /\ (n + 1) - 1 = n
    BY <1>1, <1>4
  <2>3. r[n + 1] = Append(s, a)
    BY <1>2, <2>2
  <2> HIDE DEF s
  <2>4. S0 \ ToSet(s) # {} /\ S0 \ ToSet(s) \in SUBSET S0
    <3>1. ToSet(s) = S0 => FALSE
      BY <1>1, <1>4, <2>1
    <3> QED BY <2>1, <3>1
  <2>5. a \in S0 \ ToSet(s) /\ \A b \in (S0 \ ToSet(s)) \ {a} : <<a, b>> \in order
    <3>1. \E f \in S0 \ ToSet(s) : \A b \in (S0 \ ToSet(s)) \ {f} : <<f, b>> \in order
      BY <2>4 DEF Ordered
    <3> QED BY <3>1
  <2> HIDE DEF a, First
  <2>6. /\ Append(s, a) \in Seq(S0) /\ Len(Append(s, a)) = Len(s) + 1 /\ Len(s) \in Nat
        /\ \A i \in 1..Len(s) : Append(s, a)[i] = s[i]
        /\ Append(s, a)[Len(s) + 1] = a
        /\ ToSet(Append(s, a)) = ToSet(s) \cup {a}
        /\ Once(Append(s, a))
        /\ IsFiniteSet(ToSet(Append(s, a))) /\ Cardinality(ToSet(Append(s, a))) = Len(Append(s, a))
    <3>1. s \in Seq(S0) /\ Once(s) /\ IsFiniteSet(ToSet(s)) /\ Cardinality(ToSet(s)) = Len(s)
      BY <2>1
    <3> HIDE DEF Good
    <3> QED BY <2>5, <3>1, Appended
  <2>7. InOrder(Append(s, a), order)
    <3>1. DOMAIN s = 1..Len(s) /\ DOMAIN Append(s, a) = 1..(Len(s) + 1)
      BY <2>1, <2>6, LenProperties
    <3> SUFFICES ASSUME NEW i \in 1..(Len(s) + 1), NEW j \in 1..(Len(s) + 1), i < j
                 PROVE  <<Append(s, a)[i], Append(s, a)[j]>> \in order
      BY <3>1 DEF InOrder
    <3>2. i \in 1..Len(s)
      BY <2>6
    <3>3. CASE j \in 1..Len(s)
      BY <2>1, <2>6, <3>1, <3>2, <3>3 DEF InOrder
    <3>4. CASE j = Len(s) + 1
      <4>1. s[i] \in ToSet(s)
        BY <3>1, <3>2 DEF ToSet
      <4>2. <<s[i], a>> \in order
        BY <2>1, <2>5, <4>1
      <4> QED BY <2>6, <3>2, <3>4, <4>2
    <3> QED BY <2>6, <3>3, <3>4
  <2>8. \A x \in ToSet(Append(s, a)), y \in S0 \ ToSet(Append(s, a)) : <<x, y>> \in order
    <3> SUFFICES ASSUME NEW x \in ToSet(s) \cup {a}, NEW y \in S0 \ (ToSet(s) \cup {a}) PROVE <<x, y>> \in order
      BY <2>6
    <3>1. CASE x \in ToSet(s)
      BY <2>1, <3>1
    <3>2. CASE x = a
      BY <2>5, <3>2
    <3> QED BY <3>1, <3>2
  <2>9. Good(Append(s, a))
    BY <2>1, <2>5, <2>6, <2>7, <2>8
  <2> HIDE DEF Good
  <2> QED BY <2>1, <2>2, <2>3, <2>6, <2>9
<1>5. N \in S
  <2> HIDE DEF S
  <2>1. \A n \in 0..N : n < N /\ n \in S => n + 1 \in S
    BY <1>4
  <2>2. \A n \in 0..N : n \in S
    BY <1>1, <1>3, <2>1, UpTo, Zenon
  <2> QED BY <1>1, <2>2
<1>6. Good(r[N]) /\ Len(r[N]) = N
  BY <1>5
<1>7. ToSet(r[N]) = S0
  <2>1. ToSet(r[N]) \in SUBSET S0 /\ Cardinality(ToSet(r[N])) = Cardinality(S0)
    BY <1>6
  <2> QED BY <2>1, FS_Subset
<1> QED BY <1>2, <1>6, <1>7

(* Keys are ordered, and so are depth and key together.                     *)
LEMMA KeysOrdered ==
  ASSUME NEW g, Graph(g), NEW S \in SUBSET DOMAIN g
  PROVE  IsFiniteSet(S) /\ Ordered(S, lessKey(g))
<1>1. IsFiniteSet(S)
  BY FS_Subset DEF Graph
<1>2. ASSUME NEW T \in SUBSET S, T # {} PROVE \E a \in T : \A b \in T \ {a} : <<a, b>> \in lessKey(g)
  <2>1. T \in SUBSET Nat
    BY DEF Graph
  <2>2. PICK a \in T : \A b \in T : a <= b
    BY <1>2, <2>1, LeastNat
  <2>3. \A b \in T \ {a} : a < b /\ a \in DOMAIN g /\ b \in DOMAIN g
    BY <2>1, <2>2
  <2> QED BY <2>3 DEF lessKey
<1> QED BY <1>1, <1>2 DEF Ordered

LEMMA WavefrontOrdered ==
  ASSUME NEW g, Graph(g), NEW S \in SUBSET kahn(g)
  PROVE  IsFiniteSet(S) /\ Ordered(S, Wavefront(g))
<1>1. kahn(g) \subseteq DOMAIN g /\ \A k \in kahn(g) : Depth(g, k) \in Nat
  BY Placed
<1>2. IsFiniteSet(S)
  BY <1>1, FS_Subset DEF Graph
<1>3. ASSUME NEW T \in SUBSET S, T # {} PROVE \E a \in T : \A b \in T \ {a} : <<a, b>> \in Wavefront(g)
  <2> DEFINE depths == {Depth(g, k) : k \in T}
  <2>1. depths \in SUBSET Nat /\ depths # {}
    BY <1>1, <1>3
  <2>2. PICK d \in depths : \A e \in depths : d <= e
    <3> HIDE DEF depths
    <3> QED BY <2>1, LeastNat
  <2> DEFINE U == {k \in T : Depth(g, k) = d}
  <2>3. U \in SUBSET Nat /\ U # {}
    BY <1>1, <2>2 DEF Graph
  <2>4. PICK a \in U : \A b \in U : a <= b
    <3> HIDE DEF U
    <3> QED BY <2>3, LeastNat
  <2>5. ASSUME NEW b \in T \ {a} PROVE <<a, b>> \in Wavefront(g)
    <3>1. a \in kahn(g) /\ b \in kahn(g) /\ Depth(g, a) = d
      BY <2>4
    <3>2. Depth(g, b) \in depths
      BY <2>5
    <3>3. d \in Nat /\ Depth(g, b) \in Nat /\ d <= Depth(g, b)
      BY <1>1, <2>2, <3>1, <3>2
    <3>4. Depth(g, b) = d => a < b
      <4> SUFFICES ASSUME Depth(g, b) = d PROVE a < b
        OBVIOUS
      <4>1. b \in U
        BY <2>5
      <4>2. a \in Nat /\ b \in Nat /\ a # b
        BY <2>3, <2>5, <4>1
      <4> QED BY <2>4, <4>1, <4>2
    <3>5. Depth(g, a) < Depth(g, b) \/ (Depth(g, a) = Depth(g, b) /\ a < b)
      BY <3>1, <3>3, <3>4
    <3> QED BY <3>1, <3>5 DEF Wavefront
  <2> QED BY <2>4, <2>5
<1> QED BY <1>2, <1>3 DEF Ordered

-----------------------------------------------------------------------------
(* The topological order of an impact *)

(* The walk of TopoSort is a recursion over the members placed.             *)
LEMMA DrainedIs ==
  ASSUME NEW g, NEW S0, Cardinality(S0) \in Nat
  PROVE  \E r : /\ r[0] = <<>>
                /\ \A n \in 1..Cardinality(S0) : r[n] = IF Ready(g, S0, r[n - 1]) = {} THEN r[n - 1] ELSE Append(r[n - 1], Min(Ready(g, S0, r[n - 1])))
                /\ Drained(g, S0) = r[Cardinality(S0)]
<1> DEFINE N == Cardinality(S0)
           Step(n, s) == IF Ready(g, S0, s) = {} THEN s ELSE Append(s, Min(Ready(g, S0, s)))
           IsWalk(f, m) == f = [n \in 0..m |-> IF n = 0 THEN <<>> ELSE Step(n, f[n - 1])]
           S == {m \in Nat : \E f : IsWalk(f, m)}
<1>1. 0 \in S
  <2>1. IsWalk([n \in {0} |-> <<>>], 0)
    OBVIOUS
  <2> QED BY <2>1
<1>2. ASSUME NEW m \in Nat, m \in S PROVE m + 1 \in S
  <2>1. PICK f : IsWalk(f, m)
    BY <1>2
  <2> DEFINE h == [n \in 0..(m + 1) |-> IF n = m + 1 THEN Step(n, f[m]) ELSE f[n]]
  <2> HIDE DEF Step
  <2>2. ASSUME NEW n \in 0..(m + 1) PROVE h[n] = IF n = 0 THEN <<>> ELSE Step(n, h[n - 1])
    <3>1. CASE n = m + 1
      <4>1. n # 0 /\ n - 1 = m /\ m \in 0..(m + 1) /\ m # m + 1
        BY <3>1
      <4>2. h[n] = Step(n, f[m]) /\ h[m] = f[m]
        BY <3>1, <4>1
      <4> QED BY <4>1, <4>2
    <3>2. CASE n # m + 1
      <4>1. n \in 0..m
        BY <3>2
      <4>2. h[n] = f[n]
        BY <3>2
      <4>3. f[n] = IF n = 0 THEN <<>> ELSE Step(n, f[n - 1])
        BY <2>1, <4>1
      <4>4. n # 0 => n - 1 \in 0..(m + 1) /\ n - 1 # m + 1
        BY <4>1
      <4>5. n # 0 => h[n - 1] = f[n - 1]
        BY <4>4
      <4> QED BY <4>2, <4>3, <4>5
    <3> QED BY <3>1, <3>2
  <2>3. IsWalk(h, m + 1)
    BY <2>2
  <2> HIDE DEF h, IsWalk
  <2> QED BY <2>3
<1>3. N \in S
  <2>1. \A n \in 0..N : n < N /\ n \in S => n + 1 \in S
    <3> HIDE DEF S
    <3> QED BY <1>2
  <2> HIDE DEF S
  <2>2. \A n \in 0..N : n \in S
    BY <1>1, <2>1, UpTo, Zenon
  <2> QED BY <2>2
<1> DEFINE r == CHOOSE f : IsWalk(f, N)
<1>4. IsWalk(r, N)
  <2>1. \E f : IsWalk(f, N)
    BY <1>3
  <2> HIDE DEF IsWalk
  <2> QED BY <2>1
<1>5. Drained(g, S0) = r[N]
  BY DEF Drained
<1> HIDE DEF r
<1>6. r[0] = <<>> /\ \A n \in 1..N : r[n] = Step(n, r[n - 1])
  <2> HIDE DEF Step
  <2>1. 0 \in 0..N /\ \A n \in 1..N : n \in 0..N /\ n # 0
    OBVIOUS
  <2> QED BY <1>4, <2>1, Zenon
<1> QED BY <1>5, <1>6

(* What comes in s waits for what it depends on in S.                       *)
Waits(g, S, s) == \A i \in DOMAIN s : \A b \in S \cap g[s[i]].deps : \E j \in DOMAIN s : j < i /\ s[j] = b

Acyclic(g, S) == \A k \in S : <<k, k>> \notin Reaches(g)

(* The walk lists members once and after their dependencies, and without a  *)
(* cycle it gets to all of them.                                            *)
LEMMA DrainedLists ==
  ASSUME NEW g, Graph(g), NEW S0 \in SUBSET DOMAIN g
  PROVE  /\ Drained(g, S0) \in Seq(S0) /\ Once(Drained(g, S0)) /\ Waits(g, S0, Drained(g, S0))
         /\ IsFiniteSet(S0) /\ ToSet(Drained(g, S0)) \subseteq S0
         /\ Cardinality(ToSet(Drained(g, S0))) = Len(Drained(g, S0))
         /\ Acyclic(g, S0) => Len(Drained(g, S0)) = Cardinality(S0)
<1> DEFINE N == Cardinality(S0)
<1>1. N \in Nat /\ IsFiniteSet(S0)
  BY FS_CardinalityType, FS_Subset DEF Graph
<1>2. PICK t : /\ t[0] = <<>>
               /\ \A n \in 1..N : t[n] = IF Ready(g, S0, t[n - 1]) = {} THEN t[n - 1]
                                         ELSE Append(t[n - 1], Min(Ready(g, S0, t[n - 1])))
               /\ Drained(g, S0) = t[N]
  BY <1>1, DrainedIs, Zenon
<1> DEFINE Good(s) == /\ s \in Seq(S0) /\ Once(s) /\ Waits(g, S0, s)
                      /\ ToSet(s) \subseteq S0 /\ IsFiniteSet(ToSet(s)) /\ Cardinality(ToSet(s)) = Len(s)
           S == {n \in 0..N : Good(t[n]) /\ (Acyclic(g, S0) => Len(t[n]) = n)}
<1>3. 0 \in S
  <2>1. <<>> \in Seq(S0) /\ Len(<<>>) = 0 /\ DOMAIN <<>> = {}
    OBVIOUS
  <2>2. ToSet(<<>>) = {} /\ Once(<<>>) /\ Waits(g, S0, <<>>)
    BY <2>1 DEF ToSet, Once, Waits
  <2>3. IsFiniteSet({}) /\ Cardinality({}) = 0
    BY FS_EmptySet
  <2>4. Good(<<>>)
    BY <2>1, <2>2, <2>3
  <2> HIDE DEF Good
  <2> QED BY <1>1, <1>2, <2>1, <2>4
<1>4. ASSUME NEW n \in 0..N, n < N, n \in S PROVE n + 1 \in S
  <2> DEFINE s == t[n]
             now == Ready(g, S0, s)
             a == Min(now)
  <2>1. Good(s) /\ (Acyclic(g, S0) => Len(s) = n)
    BY <1>4
  <2>2. n + 1 \in 1..N /\ n + 1 \in 0..N /\ (n + 1) - 1 = n
    BY <1>1, <1>4
  <2>3. t[n + 1] = IF now = {} THEN s ELSE Append(s, a)
    BY <1>2, <2>2
  <2> HIDE DEF s
  <2>4. CASE now = {}
    <3>1. Acyclic(g, S0) => FALSE
      <4> SUFFICES ASSUME Acyclic(g, S0) PROVE FALSE
        OBVIOUS
      <4> DEFINE rest == S0 \ ToSet(s)
      <4>1. rest # {} /\ IsFiniteSet(rest) /\ rest \subseteq DOMAIN g
        <5>1. ToSet(s) = S0 => FALSE
          BY <1>1, <1>4, <2>1
        <5>2. rest \in SUBSET S0
          OBVIOUS
        <5> QED BY <1>1, <2>1, <5>1, <5>2, FS_Subset
      <4>2. \A x \in rest : <<x, x>> \notin Reaches(g)
        BY DEF Acyclic
      <4>3. \A x, y, z \in rest : <<x, y>> \in Reaches(g) /\ <<y, z>> \in Reaches(g) => <<x, z>> \in Reaches(g)
        BY <4>1, ReachesClosed DEF Closed
      <4>4. PICK m \in rest : \A x \in rest : <<m, x>> \notin Reaches(g)
        <5> HIDE DEF rest
        <5> QED BY <4>1, <4>2, <4>3, Minimal
      <4>5. g[m].deps \cap rest = {}
        BY <4>1, <4>4, ReachesClosed DEF Closed
      <4>6. m \in now
        BY <4>5 DEF Ready
      <4> QED BY <2>4, <4>6
    <3> HIDE DEF now, Good
    <3> QED BY <2>1, <2>2, <2>3, <2>4, <3>1
  <2>5. CASE now # {}
    <3>1. now \in SUBSET Nat
      BY DEF Ready, Graph
    <3>2. a \in now
      <4> HIDE DEF now
      <4> QED BY <2>5, <3>1, MinIs
    <3>3. a \in S0 \ ToSet(s) /\ g[a].deps \cap (S0 \ ToSet(s)) = {}
      BY <3>2 DEF Ready
    <3> HIDE DEF a, now
    <3>4. /\ Append(s, a) \in Seq(S0) /\ Len(Append(s, a)) = Len(s) + 1 /\ Len(s) \in Nat
          /\ \A i \in 1..Len(s) : Append(s, a)[i] = s[i]
          /\ Append(s, a)[Len(s) + 1] = a
          /\ ToSet(Append(s, a)) = ToSet(s) \cup {a}
          /\ Once(Append(s, a))
          /\ IsFiniteSet(ToSet(Append(s, a))) /\ Cardinality(ToSet(Append(s, a))) = Len(Append(s, a))
      <4>1. s \in Seq(S0) /\ Once(s) /\ IsFiniteSet(ToSet(s)) /\ Cardinality(ToSet(s)) = Len(s)
        BY <2>1
      <4> HIDE DEF Good
      <4> QED BY <3>3, <4>1, Appended
    <3>5. DOMAIN s = 1..Len(s) /\ DOMAIN Append(s, a) = 1..(Len(s) + 1)
      BY <2>1, <3>4, LenProperties
    <3>6. Waits(g, S0, Append(s, a))
      <4> SUFFICES ASSUME NEW i \in 1..(Len(s) + 1), NEW b \in S0 \cap g[Append(s, a)[i]].deps
                   PROVE  \E j \in 1..(Len(s) + 1) : j < i /\ Append(s, a)[j] = b
        BY <3>5 DEF Waits
      <4>1. CASE i \in 1..Len(s)
        <5>1. b \in S0 \cap g[s[i]].deps
          BY <3>4, <4>1
        <5>2. PICK j \in 1..Len(s) : j < i /\ s[j] = b
          BY <2>1, <3>5, <4>1, <5>1 DEF Waits
        <5>3. j \in 1..(Len(s) + 1)
          BY <3>4, <5>2
        <5> QED BY <3>4, <5>2, <5>3
      <4>2. CASE i = Len(s) + 1
        <5>1. b \in ToSet(s)
          BY <3>3, <3>4, <4>2
        <5>2. PICK j \in 1..Len(s) : s[j] = b
          BY <3>5, <5>1 DEF ToSet
        <5>3. j \in 1..(Len(s) + 1) /\ j < i
          BY <3>4, <4>2
        <5> QED BY <3>4, <5>2, <5>3
      <4> QED BY <3>4, <4>1, <4>2
    <3>7. Good(Append(s, a)) /\ (Acyclic(g, S0) => Len(Append(s, a)) = n + 1)
      BY <2>1, <3>3, <3>4, <3>6
    <3> HIDE DEF Good
    <3> QED BY <2>2, <2>3, <2>5, <3>7
  <2> QED BY <2>4, <2>5
<1>5. N \in S
  <2> HIDE DEF S
  <2>1. \A n \in 0..N : n < N /\ n \in S => n + 1 \in S
    BY <1>4
  <2>2. \A n \in 0..N : n \in S
    BY <1>1, <1>3, <2>1, UpTo, Zenon
  <2> QED BY <1>1, <2>2
<1> QED BY <1>1, <1>2, <1>5

(* TopoSort lists what it is given, and where nothing is on a cycle it      *)
(* lists dependencies first.                                                *)
LEMMA TopoSortLists ==
  ASSUME NEW g, Graph(g), NEW S0 \in SUBSET DOMAIN g,
         \A k \in DOMAIN g : g[k].deps \cap S0 # {} => k \in S0
  PROVE  /\ ToSet(TopoSort(g, S0)) = S0 /\ Len(TopoSort(g, S0)) = Cardinality(S0)
         /\ Acyclic(g, S0) =>
              \A i, j \in DOMAIN TopoSort(g, S0) :
                <<TopoSort(g, S0)[i], TopoSort(g, S0)[j]>> \in Reaches(g) => j < i
<1> DEFINE d == Drained(g, S0)
<1>1. /\ d \in Seq(S0) /\ Once(d) /\ Waits(g, S0, d) /\ IsFiniteSet(S0) /\ ToSet(d) \subseteq S0
      /\ Cardinality(ToSet(d)) = Len(d) /\ (Acyclic(g, S0) => Len(d) = Cardinality(S0))
  BY DrainedLists
<1> HIDE DEF d
<1>2. TopoSort(g, S0) = IF Len(d) = Cardinality(S0) THEN d ELSE Sorted(S0, lessKey(g))
  BY DEF TopoSort, d
<1>3. Len(d) = Cardinality(S0) => ToSet(d) = S0
  <2>1. ToSet(d) \in SUBSET S0
    BY <1>1
  <2> QED BY <1>1, <2>1, FS_Subset
<1>4. ToSet(Sorted(S0, lessKey(g))) = S0 /\ Len(Sorted(S0, lessKey(g))) = Cardinality(S0)
  BY KeysOrdered, SortedLists
<1>5. ASSUME Acyclic(g, S0), NEW i \in DOMAIN d, NEW j \in DOMAIN d, <<d[i], d[j]>> \in Reaches(g) PROVE j < i
  <2> DEFINE Q == {p \in (DOMAIN g) \X (DOMAIN g) :
                     p[2] \in S0 => /\ p[1] \in S0
                                    /\ \A m, n \in DOMAIN d : d[m] = p[1] /\ d[n] = p[2] => n < m}
  <2>1. ToSet(d) = S0 /\ DOMAIN d = 1..Len(d) /\ Len(d) \in Nat
    BY <1>1, <1>3, <1>5, LenProperties
  <2>2. ASSUME NEW a \in DOMAIN g, NEW b \in DOMAIN g, b \in g[a].deps PROVE <<a, b>> \in Q
    <3> SUFFICES ASSUME b \in S0
                 PROVE  a \in S0 /\ \A m, n \in DOMAIN d : d[m] = a /\ d[n] = b => n < m
      OBVIOUS
    <3>1. a \in S0
      BY <2>2
    <3>2. ASSUME NEW m \in DOMAIN d, NEW n \in DOMAIN d, d[m] = a, d[n] = b PROVE n < m
      <4>1. PICK l \in DOMAIN d : l < m /\ d[l] = b
        BY <1>1, <2>2, <3>2 DEF Waits
      <4>2. l = n
        BY <1>1, <3>2, <4>1 DEF Once
      <4> QED BY <4>1, <4>2
    <3> QED BY <3>1, <3>2
  <2>3. ASSUME NEW a \in DOMAIN g, NEW b \in DOMAIN g, NEW c \in DOMAIN g, <<a, b>> \in Q, <<b, c>> \in Q
        PROVE  <<a, c>> \in Q
    <3> SUFFICES ASSUME c \in S0
                 PROVE  a \in S0 /\ \A m, n \in DOMAIN d : d[m] = a /\ d[n] = c => n < m
      OBVIOUS
    <3>1. b \in S0 /\ \A m, n \in DOMAIN d : d[m] = b /\ d[n] = c => n < m
      BY <2>3
    <3>2. a \in S0 /\ \A m, n \in DOMAIN d : d[m] = a /\ d[n] = b => n < m
      BY <2>3, <3>1
    <3>3. PICK l \in DOMAIN d : d[l] = b
      BY <2>1, <3>1 DEF ToSet
    <3>4. ASSUME NEW m \in DOMAIN d, NEW n \in DOMAIN d, d[m] = a, d[n] = c PROVE n < m
      <4>1. n < l /\ l < m
        BY <3>1, <3>2, <3>3, <3>4
      <4> QED BY <2>1, <4>1
    <3> QED BY <3>2, <3>4
  <2>4. d[i] \in S0 /\ d[j] \in S0
    BY <2>1 DEF ToSet
  <2>5. <<d[i], d[j]>> \in Q
    <3>1. Closed(g, Q)
      <4> HIDE DEF Q
      <4> QED BY <2>2, <2>3 DEF Closed
    <3> HIDE DEF Q
    <3> QED BY <1>5, <2>4, <3>1, ReachesLeast
  <2>6. \A m, n \in DOMAIN d : d[m] = d[i] /\ d[n] = d[j] => n < m
    BY <2>4, <2>5
  <2> QED BY <2>6
<1>6. CASE Len(d) = Cardinality(S0)
  BY <1>2, <1>3, <1>5, <1>6
<1>7. CASE Len(d) # Cardinality(S0)
  BY <1>1, <1>2, <1>4, <1>7
<1> QED BY <1>6, <1>7

-----------------------------------------------------------------------------
(* Discovery and the order of a reconcile *)

(* The graph is a recursion over the documents.                             *)
LEMMA DiscoverFluxGraphIs ==
  ASSUME NEW docs, Len(docs) \in Nat
  PROVE  \E r : /\ r[0] = <<>>
                /\ \A n \in 1..Len(docs) : r[n] = Added(r[n - 1], docs[n])
                /\ DiscoverFluxGraph(docs) = r[Len(docs)]
<1> DEFINE N == Len(docs)
           Step(n, s) == Added(s, docs[n])
           IsWalk(f, m) == f = [n \in 0..m |-> IF n = 0 THEN <<>> ELSE Step(n, f[n - 1])]
           S == {m \in Nat : \E f : IsWalk(f, m)}
<1>1. 0 \in S
  <2>1. IsWalk([n \in {0} |-> <<>>], 0)
    OBVIOUS
  <2> QED BY <2>1
<1>2. ASSUME NEW m \in Nat, m \in S PROVE m + 1 \in S
  <2>1. PICK f : IsWalk(f, m)
    BY <1>2
  <2> DEFINE h == [n \in 0..(m + 1) |-> IF n = m + 1 THEN Step(n, f[m]) ELSE f[n]]
  <2> HIDE DEF Step
  <2>2. ASSUME NEW n \in 0..(m + 1) PROVE h[n] = IF n = 0 THEN <<>> ELSE Step(n, h[n - 1])
    <3>1. CASE n = m + 1
      <4>1. n # 0 /\ n - 1 = m /\ m \in 0..(m + 1) /\ m # m + 1
        BY <3>1
      <4>2. h[n] = Step(n, f[m]) /\ h[m] = f[m]
        BY <3>1, <4>1
      <4> QED BY <4>1, <4>2
    <3>2. CASE n # m + 1
      <4>1. n \in 0..m
        BY <3>2
      <4>2. h[n] = f[n]
        BY <3>2
      <4>3. f[n] = IF n = 0 THEN <<>> ELSE Step(n, f[n - 1])
        BY <2>1, <4>1
      <4>4. n # 0 => n - 1 \in 0..(m + 1) /\ n - 1 # m + 1
        BY <4>1
      <4>5. n # 0 => h[n - 1] = f[n - 1]
        BY <4>4
      <4> QED BY <4>2, <4>3, <4>5
    <3> QED BY <3>1, <3>2
  <2>3. IsWalk(h, m + 1)
    BY <2>2
  <2> HIDE DEF h, IsWalk
  <2> QED BY <2>3
<1>3. N \in S
  <2>1. \A n \in 0..N : n < N /\ n \in S => n + 1 \in S
    <3> HIDE DEF S
    <3> QED BY <1>2
  <2> HIDE DEF S
  <2>2. \A n \in 0..N : n \in S
    BY <1>1, <2>1, UpTo, Zenon
  <2> QED BY <2>2
<1> DEFINE r == CHOOSE f : IsWalk(f, N)
<1>4. IsWalk(r, N)
  <2>1. \E f : IsWalk(f, N)
    BY <1>3
  <2> HIDE DEF IsWalk
  <2> QED BY <2>1
<1>5. DiscoverFluxGraph(docs) = r[N]
  BY DEF DiscoverFluxGraph, Added
<1> HIDE DEF r
<1>6. r[0] = <<>> /\ \A n \in 1..N : r[n] = Step(n, r[n - 1])
  <2> HIDE DEF Step
  <2>1. 0 \in 0..N /\ \A n \in 1..N : n \in 0..N /\ n # 0
    OBVIOUS
  <2> QED BY <1>4, <2>1, Zenon
<1> QED BY <1>5, <1>6

(* What is discovered is a graph.                                           *)
LEMMA Discovered ==
  ASSUME NEW docs \in Seq([key : Nat, path : STRING, deps : SUBSET Nat])
  PROVE  Graph(DiscoverFluxGraph(docs))
<1> DEFINE N == Len(docs)
<1>1. N \in Nat /\ DOMAIN docs = 1..N /\ \A n \in 1..N : docs[n].key \in Nat
  <2>1. \A n \in 1..N : docs[n] \in [key : Nat, path : STRING, deps : SUBSET Nat]
    BY ElementOfSeq
  <2>2. N \in Nat /\ DOMAIN docs = 1..N
    BY LenProperties
  <2> QED BY <2>1, <2>2
<1>2. PICK r : /\ r[0] = <<>>
               /\ \A n \in 1..N : r[n] = Added(r[n - 1], docs[n])
               /\ DiscoverFluxGraph(docs) = r[N]
  BY <1>1, DiscoverFluxGraphIs, Zenon
<1> DEFINE S == {n \in 0..N : Graph(r[n])}
<1> HIDE DEF N
<1>3. 0 \in S
  <2>1. DOMAIN <<>> = {}
    OBVIOUS
  <2> QED BY <1>1, <1>2, <2>1, FS_EmptySet DEF Graph
<1>4. ASSUME NEW n \in 0..N, n < N, n \in S PROVE n + 1 \in S
  <2>1. n + 1 \in 1..N /\ n + 1 \in 0..N /\ (n + 1) - 1 = n
    BY <1>1, <1>4
  <2> DEFINE h == r[n]
             e == docs[n + 1]
  <2>2. r[n + 1] = Added(h, e) /\ Graph(h) /\ e.key \in Nat
    BY <1>1, <1>2, <1>4, <2>1
  <2> HIDE DEF h, e
  <2>3. DOMAIN Added(h, e) = DOMAIN h \/ DOMAIN Added(h, e) = DOMAIN h \cup {e.key}
    BY DEF Added
  <2>4. IsFiniteSet(DOMAIN h \cup {e.key})
    BY <2>2, FS_AddElement DEF Graph
  <2>5. Graph(Added(h, e))
    BY <2>2, <2>3, <2>4 DEF Graph
  <2> QED BY <2>1, <2>2, <2>5
<1>5. N \in S
  <2> HIDE DEF S
  <2>1. \A n \in 0..N : n < N /\ n \in S => n + 1 \in S
    BY <1>4
  <2>2. \A n \in 0..N : n \in S
    BY <1>1, <1>3, <2>1, UpTo, Zenon
  <2> QED BY <1>1, <2>2
<1> QED BY <1>2, <1>5

(* What is on no cycle is reconciled by depth, and all of it.               *)
LEMMA OrderOfPlaced ==
  ASSUME NEW g, Graph(g), NEW S \in SUBSET kahn(g)
  PROVE  /\ ReconcileOrder(g, S) \in Seq(S) /\ ToSet(ReconcileOrder(g, S)) = S
         /\ Once(ReconcileOrder(g, S)) /\ InOrder(ReconcileOrder(g, S), Wavefront(g))
<1> DEFINE s == Sorted(S, Wavefront(g))
<1>1. kahn(g) \cap S = S /\ CycleNodes(g) \cap S = {}
  BY DEF CycleNodes
<1>2. /\ s \in Seq(S) /\ ToSet(s) = S /\ Once(s) /\ InOrder(s, Wavefront(g))
  BY WavefrontOrdered, SortedLists
<1>3. Sorted({}, lessKey(g)) \in Seq({}) /\ Len(Sorted({}, lessKey(g))) = 0
  <2>1. {} \in SUBSET DOMAIN g /\ Cardinality({}) = 0
    BY FS_EmptySet
  <2> QED BY <2>1, KeysOrdered, SortedLists
<1>4. Sorted({}, lessKey(g)) = <<>>
  BY <1>3, EmptySeq
<1>5. ReconcileOrder(g, S) = s \o <<>>
  BY <1>1, <1>4 DEF ReconcileOrder
<1> HIDE DEF s
<1>6. s \o <<>> = s
  BY <1>2, ConcatEmptySeq
<1> QED BY <1>2, <1>5, <1>6

(* Sequences over a set are over any larger set.                            *)
LEMMA SeqOfMore ==
  ASSUME NEW S, NEW T, S \subseteq T, NEW s \in Seq(S)
  PROVE  s \in Seq(T)
OBVIOUS

(* The head of a list in order comes before all the rest.                   *)
LEMMA HeadFirst ==
  ASSUME NEW S, NEW s \in Seq(S), s # <<>>, Once(s), NEW order, InOrder(s, order)
  PROVE  /\ Head(s) \in S /\ Tail(s) \in Seq(S)
         /\ Head(s) \in ToSet(s) /\ ToSet(s) = {Head(s)} \cup ToSet(Tail(s)) /\ Head(s) \notin ToSet(Tail(s))
         /\ Once(Tail(s)) /\ InOrder(Tail(s), order)
         /\ \A l \in ToSet(Tail(s)) : <<Head(s), l>> \in order
<1>1. /\ Tail(s) \in Seq(S) /\ Head(s) \in S
      /\ Len(Tail(s)) = Len(s) - 1 /\ Len(s) \in Nat /\ Len(s) > 0
      /\ DOMAIN s = 1..Len(s) /\ DOMAIN Tail(s) = 1..(Len(s) - 1)
      /\ \A i \in 1..(Len(s) - 1) : Tail(s)[i] = s[i + 1]
      /\ Head(s) = s[1]
  BY HeadTailProperties, LenProperties, EmptySeq
<1> DEFINE t == Tail(s)
<1> HIDE DEF t
<1>2. /\ DOMAIN s = 1..Len(s) /\ DOMAIN t = 1..(Len(s) - 1) /\ Len(s) \in Nat /\ Len(s) > 0
      /\ \A i \in 1..(Len(s) - 1) : t[i] = s[i + 1] /\ i + 1 \in 1..Len(s) /\ 1 < i + 1
  BY <1>1 DEF t
<1>3. \A i \in 1..Len(s) : i = 1 \/ (i - 1 \in 1..(Len(s) - 1) /\ s[i] = t[i - 1])
  <2> SUFFICES ASSUME NEW i \in 1..Len(s), i # 1 PROVE i - 1 \in 1..(Len(s) - 1) /\ s[i] = t[i - 1]
    OBVIOUS
  <2>1. i - 1 \in 1..(Len(s) - 1) /\ (i - 1) + 1 = i
    BY <1>2
  <2> QED BY <1>2, <2>1
<1>4. 1 \in DOMAIN s
  BY <1>2
<1>5. ToSet(s) = {s[1]} \cup ToSet(t)
  <2>1. ToSet(s) \subseteq {s[1]} \cup ToSet(t)
    BY <1>2, <1>3 DEF ToSet
  <2>2. ToSet(t) \subseteq ToSet(s) /\ s[1] \in ToSet(s)
    BY <1>2, <1>4 DEF ToSet
  <2> QED BY <2>1, <2>2
<1>6. s[1] \notin ToSet(t) /\ \A l \in ToSet(t) : <<s[1], l>> \in order
  <2> SUFFICES ASSUME NEW i \in 1..(Len(s) - 1) PROVE t[i] # s[1] /\ <<s[1], t[i]>> \in order
    BY <1>2 DEF ToSet
  <2>1. i + 1 \in DOMAIN s /\ 1 < i + 1 /\ t[i] = s[i + 1] /\ i + 1 # 1
    BY <1>2
  <2>2. s[i + 1] # s[1]
    BY <1>4, <2>1 DEF Once
  <2>3. <<s[1], s[i + 1]>> \in order
    BY <1>4, <2>1 DEF InOrder
  <2> QED BY <2>1, <2>2, <2>3
<1>7. Once(t)
  BY <1>2 DEF Once
<1>8. InOrder(t, order)
  <2> SUFFICES ASSUME NEW i \in 1..(Len(s) - 1), NEW j \in 1..(Len(s) - 1), i < j PROVE <<t[i], t[j]>> \in order
    BY <1>2 DEF InOrder
  <2>1. i + 1 \in DOMAIN s /\ j + 1 \in DOMAIN s /\ i + 1 < j + 1
    BY <1>2
  <2> QED BY <1>2, <2>1 DEF InOrder
<1> QED BY <1>1, <1>4, <1>5, <1>6, <1>7, <1>8 DEF t, ToSet

(* What comes after all of a list extends it in order.                      *)
LEMMA OrderExtended ==
  ASSUME NEW S, NEW s \in Seq(S), NEW a \in S, NEW order, InOrder(s, order), \A q \in ToSet(s) : <<q, a>> \in order
  PROVE  /\ Append(s, a) \in Seq(S) /\ InOrder(Append(s, a), order)
         /\ ToSet(Append(s, a)) = ToSet(s) \cup {a}
<1>1. /\ Append(s, a) \in Seq(S) /\ Len(Append(s, a)) = Len(s) + 1 /\ Len(s) \in Nat
      /\ \A i \in 1..Len(s) : Append(s, a)[i] = s[i]
      /\ Append(s, a)[Len(s) + 1] = a
  BY AppendProperties, LenProperties
<1>2. DOMAIN s = 1..Len(s) /\ DOMAIN Append(s, a) = 1..(Len(s) + 1)
  BY <1>1, LenProperties
<1>3. ToSet(Append(s, a)) = ToSet(s) \cup {a}
  <2>1. \A i \in 1..(Len(s) + 1) : i \in 1..Len(s) \/ i = Len(s) + 1
    BY <1>1
  <2>2. \A i \in 1..Len(s) : i \in 1..(Len(s) + 1)
    BY <1>1
  <2>3. Len(s) + 1 \in 1..(Len(s) + 1)
    BY <1>1
  <2>4. ToSet(Append(s, a)) \subseteq ToSet(s) \cup {a}
    BY <1>1, <1>2, <2>1 DEF ToSet
  <2>5. ToSet(s) \cup {a} \subseteq ToSet(Append(s, a))
    BY <1>1, <1>2, <2>2, <2>3 DEF ToSet
  <2> QED BY <2>4, <2>5
<1>4. InOrder(Append(s, a), order)
  <2> SUFFICES ASSUME NEW i \in 1..(Len(s) + 1), NEW j \in 1..(Len(s) + 1), i < j
               PROVE  <<Append(s, a)[i], Append(s, a)[j]>> \in order
    BY <1>2 DEF InOrder
  <2>1. i \in 1..Len(s)
    BY <1>1
  <2>2. CASE j \in 1..Len(s)
    BY <1>1, <1>2, <2>1, <2>2 DEF InOrder
  <2>3. CASE j = Len(s) + 1
    <3>1. s[i] \in ToSet(s)
      BY <1>2, <2>1 DEF ToSet
    <3> QED BY <1>1, <2>1, <2>3, <3>1
  <2> QED BY <1>1, <2>2, <2>3
<1> QED BY <1>1, <1>3, <1>4

-----------------------------------------------------------------------------
(* The reconcile *)

Tried == {r[1] : r \in grResults}

(* What audition rendered and passed.                                       *)
Validated == {k \in DOMAIN graph : grCfg.tool = "ok" /\ Verdict(graph, k, TRUE) # "fail"}

PastPlays == {"flux", "auth", "ca", "kubectl", "plan", "execute", "record", "done"}

GraphFound == grCfg \in GrConfigs /\ graph = DiscoverFluxGraph(grCfg.docs) /\ Graph(graph)

EvidenceTrue == evidence.there => evidence = Proven(grCfg.tool = "ok")

FilesRegistered == secretFiles = cleanups /\ (grPc = "done" => secretFiles = {})

(* Every kustomization is declined, tried or yet to do, and only one of     *)
(* these; what is to do is validated.                                       *)
Accounted ==
  /\ grResults \subseteq (DOMAIN graph) \X BOOLEAN /\ declined \subseteq DOMAIN graph
  /\ grTodo \in Seq(Validated) /\ Once(grTodo) /\ asked \in Seq(Tried) /\ Tried \subseteq Validated
  /\ Tried \cap declined = {} /\ ToSet(grTodo) \cap (Tried \cup declined) = {}
  /\ grPc \notin {"execute", "record", "done"} => declined = {} /\ grTodo = <<>> /\ grResults = {} /\ asked = <<>>
  /\ grPc = "execute" \/ (grPc = "record" /\ ~grCfg.dry) => declined \cup Tried \cup ToSet(grTodo) = DOMAIN graph
  /\ grPc = "record" /\ ~grCfg.dry => grTodo = <<>>
  /\ grPc = "done" /\ ~priErr /\ ~grCfg.dry => declined \cup Tried = DOMAIN graph /\ \A r \in grResults : r[2]

(* Asked in the order of the depths, and all of it before what is to do.    *)
InDepthOrder ==
  /\ InOrder(grTodo, Wavefront(graph)) /\ InOrder(asked, Wavefront(graph))
  /\ \A k \in ToSet(asked), l \in ToSet(grTodo) : <<k, l>> \in Wavefront(graph)

DryKept == grCfg.dry => grPc # "execute" /\ asked = <<>> /\ converged = {}

Recorded ==
  /\ grPc # "done" => grLedger["reconcile"] = "none" /\ priErr = FALSE
  /\ grLedger["reconcile"] = "success" => ~priErr
  /\ grLedger["reconcile"] = "failed" => priErr

AnsibleRecorded ==
  /\ grPc \notin PastPlays => grLedger["ansible"] = "none"
  /\ grLedger["ansible"] = "success" /\ ansErr => \E r \in playResults : r.play.required /\ Unrecapped(r)
  /\ grLedger["ansible"] = "failed" /\ ~ansErr => grCfg.dry \/ \E r \in playResults : PlayFailed(r) /\ ~r.play.required

(* Off the default branch the run ends at the gate.                         *)
OffBranch == grCfg.ref = "other" =>
  /\ grPc \in {"audition", "gate", "skipped"}
  /\ asked = <<>> /\ converged = {} /\ secretFiles = {}

(* A play left the list for its result, and past the plays an absent error  *)
(* means that no required one failed.                                       *)
PlaysKept ==
  /\ playsLeft \in Seq([id : STRING, hosts : SUBSET STRING, required : BOOLEAN])
  /\ \A r \in playResults : r.exit = 0 => r.hosts = [h \in r.play.hosts |-> "ok"]
  /\ grPc = "play" => \A p \in ToSet(grCfg.plays) : p \in ToSet(playsLeft) \/ \E r \in playResults : r.play = p
  /\ grPc \in PastPlays /\ grCfg.creds /\ ~ansErr /\ ~grCfg.dry =>
       \A p \in ToSet(grCfg.plays) : p.required => \E r \in playResults : r.play = p /\ r.exit = 0

GrInv ==
  /\ GrTypeOK /\ GraphFound /\ EvidenceTrue /\ FilesRegistered /\ Accounted /\ InDepthOrder
  /\ DryKept /\ Recorded /\ PlaysKept

GrIInv == GrInv /\ AnsibleRecorded /\ OffBranch

(* What was validated is placed, and only depends on what is known.         *)
LEMMA ValidatedIs ==
  ASSUME Graph(graph)
  PROVE  /\ Validated \subseteq kahn(graph)
         /\ \A k \in Validated : /\ graph[k].deps \subseteq DOMAIN graph /\ grCfg.tool = "ok"
                                 /\ RootOf(graph[k].path) \notin {"crash", "invalid", "unparsable"}
<1> SUFFICES ASSUME NEW k \in Validated
             PROVE  /\ k \in kahn(graph) /\ graph[k].deps \subseteq DOMAIN graph /\ grCfg.tool = "ok"
                    /\ RootOf(graph[k].path) \notin {"crash", "invalid", "unparsable"}
  OBVIOUS
<1>1. k \in DOMAIN graph /\ grCfg.tool = "ok" /\ Verdict(graph, k, TRUE) # "fail"
  BY DEF Validated
<1>2. k \notin graphVerdicts(graph) /\ renderRoot(RootOf(graph[k].path)) # "fail"
  BY <1>1 DEF Verdict
<1>3. k \in kahn(graph) /\ graph[k].deps \subseteq DOMAIN graph
  BY <1>1, <1>2 DEF graphVerdicts, CycleNodes, DanglingDeps
<1>4. RootOf(graph[k].path) \notin {"crash", "invalid", "unparsable"}
  BY <1>2 DEF renderRoot, schemaCheck
<1> QED BY <1>1, <1>3, <1>4

(* The verdicts that reconcile finds are audition's.                        *)
LEMMA VerdictsValidate ==
  ASSUME EvidenceTrue, Graph(graph)
  PROVE  reconcileVerdicts \subseteq Validated /\ reconcileVerdicts \subseteq kahn(graph)
<1>1. CASE evidence.there /\ ~evidence.skipped
  <2>1. evidence = Proven(grCfg.tool = "ok")
    BY <1>1 DEF EvidenceTrue
  <2>2. grCfg.tool = "ok"
    BY <1>1, <2>1 DEF Proven
  <2>3. evidence.verdict = [k \in DOMAIN graph |-> Verdict(graph, k, TRUE)]
    BY <2>1, <2>2 DEF Proven
  <2>4. reconcileVerdicts \subseteq Validated
    BY <1>1, <2>2, <2>3 DEF reconcileVerdicts, Validated
  <2> QED BY <2>4, ValidatedIs
<1>2. CASE ~(evidence.there /\ ~evidence.skipped)
  BY <1>2 DEF reconcileVerdicts
<1> QED BY <1>1, <1>2

LEMMA GrInitInv == grCfg \in GrConfigs /\ GrFrom("audition") => GrInv
<1> SUFFICES ASSUME grCfg \in GrConfigs, GrFrom("audition") PROVE GrInv
  OBVIOUS
<1>1. GraphFound
  <2>1. grCfg.docs \in Seq([key : Nat, path : STRING, deps : SUBSET Nat])
    BY DEF GrConfigs
  <2> QED BY <2>1, Discovered DEF GraphFound, GrFrom
<1>2. /\ \A T : <<>> \in Seq(T)
      /\ ToSet(<<>>) = {} /\ Once(<<>>) /\ \A order : InOrder(<<>>, order)
  BY DEF ToSet, Once, InOrder
<1>3. GrTypeOK
  BY <1>2, ReconcileAssumption DEF GrTypeOK, GrFrom, NoProof
<1>4. Accounted
  BY <1>2 DEF Accounted, Tried, GrFrom
<1>5. InDepthOrder
  BY <1>2 DEF InDepthOrder, GrFrom
<1>6. PlaysKept
  BY <1>2 DEF PlaysKept, GrFrom, PastPlays
<1> QED BY <1>1, <1>3, <1>4, <1>5, <1>6 DEF GrInv, EvidenceTrue, FilesRegistered, DryKept, Recorded, GrFrom, NoProof

(* The configuration and the graph stay.                                    *)
LEMMA GrConstant == [GrNext]_grVars => UNCHANGED <<grCfg, graph>>
BY DEF GrNext, grVars, runFluxValidation, reconcileRunner, ansiblePrepare, runPlay, recordAnsibleState,
       fluxValidate, BuildKubeconfig, resolveCA, kubectlRun, fluxPlan, fluxExecute, fluxExecuted,
       recordReconcileState, GrDone

(* A step that leaves the plan alone, away from the plan.                   *)
LEMMA PlanStays ==
  ASSUME GrInv, UNCHANGED <<grCfg, graph, grTodo, declined, grResults, asked>>,
         \/ grPc' = grPc /\ priErr' = priErr
         \/ grPc \notin {"execute", "record", "done"} /\ grPc' \notin {"execute", "record", "done"}
         \/ grPc \notin {"execute", "record", "done"} /\ grPc' = "done" /\ priErr'
  PROVE  Accounted' /\ InDepthOrder'
<1>1. Tried' = Tried /\ Validated' = Validated
  BY DEF Tried, Validated, Verdict, RootOf
<1>2. Accounted'
  BY <1>1 DEF GrInv, Accounted
<1>3. InDepthOrder'
  BY DEF GrInv, InDepthOrder
<1> QED BY <1>2, <1>3

LEMMA EvidenceStays ==
  ASSUME GrInv, UNCHANGED <<grCfg, graph, evidence>>
  PROVE  GraphFound' /\ EvidenceTrue'
<1>1. \A b : Proven(b)' = Proven(b)
  BY DEF Proven, Verdict, RootOf
<1>2. Proven(grCfg.tool = "ok")' = Proven(grCfg.tool = "ok")
  BY DEF Proven, Verdict, RootOf
<1> QED BY <1>2 DEF GrInv, GraphFound, EvidenceTrue

LEMMA PlaysStay ==
  ASSUME GrInv, UNCHANGED <<grCfg, playsLeft, playResults, ansErr>>,
         grPc' # "play", grPc \in PastPlays \/ grPc' \notin PastPlays
  PROVE  PlaysKept'
BY DEF GrInv, PlaysKept, PastPlays

LEMMA EventsBounded ==
  ASSUME GrInv, GrOk \/ GrFail
  PROVE  grEvents' \in 0..GrEvents
BY ReconcileAssumption DEF GrInv, GrTypeOK, GrOk, GrFail

(* Each phase keeps the invariant: audition and the gate,                   *)
LEMMA AuditionStep ==
  ASSUME GrInv, runFluxValidation \/ reconcileRunner
  PROVE  GrInv'
<1>1. CASE runFluxValidation
  <2> USE DEF runFluxValidation, GrOk, GrFail, grPlan, grPlays, grOut
  <2>1. GraphFound'
    BY <1>1 DEF GrInv, GraphFound
  <2>2. \A b : Proven(b)' = Proven(b)
    BY <1>1 DEF Proven, Verdict, RootOf
  <2>3. Proven(grCfg.tool = "ok")' = Proven(grCfg.tool = "ok")
    BY <1>1 DEF Proven, Verdict, RootOf
  <2>4. EvidenceTrue'
    BY <1>1, <2>3 DEF GrInv, EvidenceTrue
  <2>5. GrTypeOK'
    <3>1. \A b : DOMAIN Proven(b).verdict = DOMAIN graph
      BY DEF Proven
    <3>2. evidence' = evidence \/ evidence' = Proven(grCfg.tool = "ok")
      BY <1>1
    <3>3. evidence'.there => DOMAIN evidence'.verdict = DOMAIN graph
      BY <3>1, <3>2 DEF GrInv, GrTypeOK
    <3>4. grEvents' \in 0..GrEvents
      BY <1>1, EventsBounded
    <3>5. grPc' = "gate" /\ UNCHANGED <<graph, secretFiles, cleanups, grTodo, grResults, declined, grLedger>>
      BY <1>1
    <3> QED BY <3>3, <3>4, <3>5 DEF GrInv, GrTypeOK
  <2>6. Accounted' /\ InDepthOrder'
    BY <1>1, PlanStays
  <2>7. FilesRegistered' /\ DryKept' /\ Recorded'
    BY <1>1 DEF GrInv, FilesRegistered, DryKept, Recorded
  <2>8. PlaysKept'
    BY <1>1, PlaysStay DEF PastPlays
  <2> QED BY <2>1, <2>4, <2>5, <2>6, <2>7, <2>8 DEF GrInv
<1>2. CASE reconcileRunner
  <2> USE DEF reconcileRunner, GrOk, grPlan, grPlays, grOut
  <2>1. GraphFound' /\ EvidenceTrue'
    BY <1>2, EvidenceStays
  <2>2. GrTypeOK'
    BY <1>2 DEF GrInv, GrTypeOK
  <2>3. Accounted' /\ InDepthOrder'
    BY <1>2, PlanStays
  <2>4. FilesRegistered' /\ DryKept' /\ Recorded'
    BY <1>2 DEF GrInv, FilesRegistered, DryKept, Recorded
  <2>5. PlaysKept'
    <3>1. grPc' = "flux" => ToSet(grCfg.plays) = {}
      BY <1>2 DEF ToSet
    <3> QED BY <1>2, <3>1 DEF GrInv, PlaysKept, PastPlays
  <2> QED BY <2>1, <2>2, <2>3, <2>4, <2>5 DEF GrInv
<1> QED BY <1>1, <1>2

(* the plays,                                                               *)
LEMMA AnsibleStep ==
  ASSUME GrInv, ansiblePrepare \/ runPlay \/ recordAnsibleState
  PROVE  GrInv'
<1>0. grCfg.plays \in Seq([id : STRING, hosts : SUBSET STRING, required : BOOLEAN])
  BY DEF GrInv, GraphFound, GrConfigs
<1>1. CASE ansiblePrepare
  <2> USE DEF ansiblePrepare, GrOk, GrFail, grPlan
  <2>1. GraphFound' /\ EvidenceTrue'
    BY <1>1, EvidenceStays
  <2>2. GrTypeOK'
    BY <1>1, ReconcileAssumption DEF GrInv, GrTypeOK
  <2>3. Accounted' /\ InDepthOrder'
    BY <1>1, PlanStays
  <2>4. FilesRegistered' /\ DryKept'
    BY <1>1 DEF GrInv, FilesRegistered, DryKept
  <2>5. Recorded'
    BY <1>1 DEF GrInv, Recorded, GrTypeOK
  <2>6. PlaysKept'
    BY <1>0, <1>1 DEF GrInv, PlaysKept, PastPlays
  <2> QED BY <2>1, <2>2, <2>3, <2>4, <2>5, <2>6 DEF GrInv
<1>2. CASE runPlay
  <2> USE DEF runPlay, GrOk, GrFail, grPlan, grOut
  <2>1. GraphFound' /\ EvidenceTrue'
    BY <1>2, EvidenceStays
  <2>2. GrTypeOK'
    BY <1>2, ReconcileAssumption DEF GrInv, GrTypeOK
  <2>3. Accounted' /\ InDepthOrder'
    BY <1>2, PlanStays
  <2>4. FilesRegistered' /\ DryKept' /\ Recorded'
    BY <1>2 DEF GrInv, FilesRegistered, DryKept, Recorded
  <2>5. PlaysKept'
    <3> DEFINE p == Head(playsLeft)
    <3>1. PICK r \in Recaps(p) \cup BadRecaps(p) : playResults' = playResults \cup {r}
      BY <1>2
    <3>2. r.play = p /\ (r.exit = 0 => r.hosts = [h \in r.play.hosts |-> "ok"])
      <4>1. CASE r \in Recaps(p)
        BY <4>1 DEF Recaps
      <4>2. CASE r \in BadRecaps(p)
        BY <4>2 DEF BadRecaps
      <4> QED BY <4>1, <4>2
    <3>3. playsLeft \in Seq([id : STRING, hosts : SUBSET STRING, required : BOOLEAN]) /\ playsLeft # <<>>
      BY <1>2 DEF GrInv, PlaysKept
    <3>4. /\ Tail(playsLeft) \in Seq([id : STRING, hosts : SUBSET STRING, required : BOOLEAN])
          /\ Len(Tail(playsLeft)) = Len(playsLeft) - 1 /\ Len(playsLeft) \in Nat
          /\ DOMAIN playsLeft = 1..Len(playsLeft) /\ DOMAIN Tail(playsLeft) = 1..Len(Tail(playsLeft))
          /\ \A i \in 1..Len(Tail(playsLeft)) : Tail(playsLeft)[i] = playsLeft[i + 1]
          /\ p = playsLeft[1]
      BY <3>3, HeadTailProperties, LenProperties
    <3>5. \A q \in ToSet(playsLeft) : q = p \/ q \in ToSet(Tail(playsLeft))
      <4> SUFFICES ASSUME NEW i \in 1..Len(playsLeft) PROVE playsLeft[i] = p \/ playsLeft[i] \in ToSet(Tail(playsLeft))
        BY <3>4 DEF ToSet
      <4>1. CASE i = 1
        BY <3>4, <4>1
      <4>2. CASE i # 1
        <5>1. i - 1 \in 1..Len(Tail(playsLeft)) /\ (i - 1) + 1 = i
          BY <3>4, <4>2
        <5> QED BY <3>4, <5>1 DEF ToSet
      <4> QED BY <4>1, <4>2
    <3> HIDE DEF p
    <3>6. \A s \in playResults' : s.exit = 0 => s.hosts = [h \in s.play.hosts |-> "ok"]
      BY <3>1, <3>2 DEF GrInv, PlaysKept
    <3>7. \A q \in ToSet(grCfg.plays) : q \in ToSet(Tail(playsLeft)) \/ \E s \in playResults' : s.play = q
      BY <1>2, <3>1, <3>2, <3>5 DEF GrInv, PlaysKept
    <3> QED BY <1>2, <3>4, <3>6, <3>7 DEF PlaysKept, PastPlays
  <2> QED BY <2>1, <2>2, <2>3, <2>4, <2>5 DEF GrInv
<1>3. CASE recordAnsibleState
  <2> USE DEF recordAnsibleState, GrOk, GrFail, grPlan, grPlays
  <2>1. GraphFound' /\ EvidenceTrue'
    BY <1>3, EvidenceStays
  <2>2. GrTypeOK'
    BY <1>3, ReconcileAssumption DEF GrInv, GrTypeOK
  <2>3. Accounted' /\ InDepthOrder'
    BY <1>3, PlanStays
  <2>4. FilesRegistered' /\ DryKept'
    BY <1>3 DEF GrInv, FilesRegistered, DryKept
  <2>5. Recorded'
    BY <1>3 DEF GrInv, Recorded, GrTypeOK
  <2>6. PlaysKept'
    <3>1. ToSet(playsLeft) = {}
      BY <1>3 DEF ToSet
    <3>2. ASSUME ~grCfg.dry, ~ansErr', NEW q \in ToSet(grCfg.plays), q.required
          PROVE  \E r \in playResults : r.play = q /\ r.exit = 0
      <4>1. PICK r \in playResults : r.play = q
        BY <1>3, <3>1 DEF GrInv, PlaysKept
      <4>2. ~PlayFailed(r)
        BY <1>3, <3>2, <4>1 DEF ansibleFailure
      <4> QED BY <4>1, <4>2 DEF PlayFailed
    <3> QED BY <1>3, <3>2 DEF GrInv, PlaysKept, PastPlays
  <2> QED BY <2>1, <2>2, <2>3, <2>4, <2>5, <2>6 DEF GrInv
<1> QED BY <1>1, <1>2, <1>3

(* the access to the cluster,                                               *)
LEMMA AccessStep ==
  ASSUME GrInv, fluxValidate \/ BuildKubeconfig \/ resolveCA \/ kubectlRun
  PROVE  GrInv'
<1> USE DEF fluxValidate, BuildKubeconfig, resolveCA, kubectlRun, GrReturn, GrOk, GrFail, grPlan, grPlays, grOut
<1>1. GraphFound' /\ EvidenceTrue'
  BY EvidenceStays
<1>2. /\ UNCHANGED <<grCfg, graph, grTodo, declined, grResults, asked, playsLeft, playResults, converged, ansErr, grLedger, evidence>>
      /\ grPc \in {"flux", "auth", "ca", "kubectl"}
      /\ \/ grPc' \in {"auth", "ca", "kubectl", "plan"} /\ priErr' = priErr
         \/ grPc' = "done" /\ priErr'
  OBVIOUS
<1>3. GrTypeOK'
  <2>1. cleanups' \subseteq secretFiles' /\ secretFiles' \subseteq {"kubeconfig", "ca"}
    BY DEF GrInv, GrTypeOK, FilesRegistered
  <2>2. grEvents' \in 0..GrEvents
    BY ReconcileAssumption DEF GrInv, GrTypeOK
  <2> QED BY <1>2, <2>1, <2>2 DEF GrInv, GrTypeOK
<1>4. FilesRegistered'
  BY DEF GrInv, FilesRegistered
<1>5. Accounted' /\ InDepthOrder'
  BY <1>2, PlanStays
<1>6. Recorded' /\ DryKept'
  BY <1>2 DEF GrInv, Recorded, DryKept
<1>7. PlaysKept'
  BY <1>2, PlaysStay DEF PastPlays
<1> QED BY <1>1, <1>3, <1>4, <1>5, <1>6, <1>7 DEF GrInv

(* the plan,                                                                *)
LEMMA PlanStep ==
  ASSUME GrInv, fluxPlan
  PROVE  GrInv'
<1> USE DEF fluxPlan, GrOk, GrFail, grPlays, grOut
<1>1. GraphFound' /\ EvidenceTrue'
  BY EvidenceStays
<1>2. Tried' = Tried /\ Validated' = Validated /\ Tried = {}
  BY DEF Tried, Validated, Verdict, RootOf, GrInv, Accounted
<1>3. /\ grTodo' \in Seq(Validated) /\ Once(grTodo') /\ InOrder(grTodo', Wavefront(graph))
      /\ declined' \subseteq DOMAIN graph /\ ToSet(grTodo') \cap declined' = {}
      /\ declined' \cup ToSet(grTodo') = DOMAIN graph
  <2>1. CASE grTodo' = ReconcileOrder(graph, reconcileVerdicts) /\ declined' = DOMAIN graph \ reconcileVerdicts
    <3>1. /\ grTodo' \in Seq(reconcileVerdicts) /\ ToSet(grTodo') = reconcileVerdicts
          /\ Once(grTodo') /\ InOrder(grTodo', Wavefront(graph))
      BY <2>1, VerdictsValidate, OrderOfPlaced DEF GrInv, GraphFound
    <3>2. reconcileVerdicts \subseteq Validated /\ Validated \subseteq DOMAIN graph
      BY VerdictsValidate DEF GrInv, GraphFound, Validated
    <3>3. grTodo' \in Seq(Validated)
      BY <3>1, <3>2, SeqOfMore
    <3> QED BY <2>1, <3>1, <3>2, <3>3
  <2>2. CASE grTodo' = <<>> /\ declined' = DOMAIN graph
    <3>1. <<>> \in Seq(Validated) /\ ToSet(<<>>) = {} /\ Once(<<>>) /\ InOrder(<<>>, Wavefront(graph))
      BY DEF ToSet, Once, InOrder
    <3> QED BY <2>2, <3>1
  <2> QED BY <2>1, <2>2
<1>4. GrTypeOK'
  <2>1. ToSet(grTodo') \cup {r[1] : r \in grResults} \cup declined' \subseteq DOMAIN graph
    BY <1>2, <1>3 DEF Tried
  <2> QED BY <2>1, ReconcileAssumption DEF GrInv, GrTypeOK
<1>5. Accounted'
  <2>1. grResults = {} /\ asked = <<>>
    BY DEF GrInv, Accounted
  <2>2. grCfg.dry => grPc' = "record"
    OBVIOUS
  <2>3. ~grCfg.dry => grPc' = "execute"
    OBVIOUS
  <2>4. asked' \in Seq(Tried') /\ grPc' \in {"execute", "record"} /\ grResults' = {} /\ Tried' = {}
    BY <1>2, <2>1
  <2> QED BY <1>2, <1>3, <2>2, <2>3, <2>4 DEF Accounted
<1>6. InDepthOrder'
  <2>1. asked = <<>> /\ ToSet(<<>>) = {} /\ \A order : InOrder(<<>>, order)
    BY DEF GrInv, Accounted, ToSet, InOrder
  <2> QED BY <1>3, <2>1 DEF InDepthOrder
<1>7. FilesRegistered' /\ Recorded' /\ DryKept'
  BY DEF GrInv, FilesRegistered, Recorded, DryKept
<1>8. PlaysKept'
  BY PlaysStay DEF PastPlays
<1> QED BY <1>1, <1>4, <1>5, <1>6, <1>7, <1>8 DEF GrInv

(* each kustomization in turn,                                              *)
LEMMA ExecuteStep ==
  ASSUME GrInv, fluxExecute
  PROVE  GrInv'
<1> USE DEF fluxExecute, GrOk, GrFail, grPlays, grOut
<1> DEFINE k == Head(grTodo)
<1>1. GraphFound' /\ EvidenceTrue'
  BY EvidenceStays
<1>2. /\ grTodo \in Seq(Validated) /\ grTodo # <<>> /\ Once(grTodo) /\ InOrder(grTodo, Wavefront(graph))
      /\ asked \in Seq(Tried) /\ InOrder(asked, Wavefront(graph)) /\ Tried \subseteq Validated
      /\ Tried \cap declined = {} /\ ToSet(grTodo) \cap (Tried \cup declined) = {}
      /\ declined \cup Tried \cup ToSet(grTodo) = DOMAIN graph
      /\ \A q \in ToSet(asked), l \in ToSet(grTodo) : <<q, l>> \in Wavefront(graph)
      /\ grResults \subseteq (DOMAIN graph) \X BOOLEAN /\ declined \subseteq DOMAIN graph
  BY DEF GrInv, Accounted, InDepthOrder
<1>3. /\ k \in Validated /\ Tail(grTodo) \in Seq(Validated)
      /\ k \in ToSet(grTodo) /\ ToSet(grTodo) = {k} \cup ToSet(Tail(grTodo)) /\ k \notin ToSet(Tail(grTodo))
      /\ Once(Tail(grTodo)) /\ InOrder(Tail(grTodo), Wavefront(graph))
      /\ \A l \in ToSet(Tail(grTodo)) : <<k, l>> \in Wavefront(graph)
  <2> HIDE DEF fluxExecute
  <2> QED BY <1>2, HeadFirst
<1> HIDE DEF k
<1>4. /\ grTodo' = Tail(grTodo) /\ declined' = declined /\ grPc = "execute" /\ grPc' = grPc
      /\ UNCHANGED <<grCfg, graph, priErr>>
      /\ \E b \in BOOLEAN : grResults' = grResults \cup {<<k, b>>}
      /\ asked' = Append(asked, k) \/ asked' = asked
  BY DEF k
<1>5. Tried' = Tried \cup {k} /\ Validated' = Validated
  <2>1. Validated' = Validated
    BY DEF Validated, Verdict, RootOf
  <2>2. Tried' = Tried \cup {k}
    <3> HIDE DEF fluxExecute
    <3>1. PICK b \in BOOLEAN : grResults' = grResults \cup {<<k, b>>}
      BY <1>4
    <3>2. <<k, b>>[1] = k
      OBVIOUS
    <3> QED BY <3>1, <3>2 DEF Tried
  <2> QED BY <2>1, <2>2
<1>6. GrTypeOK'
  <2>1. ToSet(grTodo') \cup {r[1] : r \in grResults'} \cup declined' \subseteq DOMAIN graph
    BY <1>2, <1>3, <1>4, <1>5 DEF Tried, Validated
  <2>2. grEvents' \in 0..GrEvents
    BY EventsBounded
  <2> QED BY <2>1, <2>2 DEF GrInv, GrTypeOK
<1>7. /\ asked' \in Seq(Tried') /\ InOrder(asked', Wavefront(graph))
      /\ ToSet(asked') \subseteq ToSet(asked) \cup {k}
  <2> HIDE DEF fluxExecute
  <2>1. asked \in Seq(Tried')
    BY <1>2, <1>5, SeqOfMore
  <2>2. k \in Tried' /\ \A q \in ToSet(asked) : <<q, k>> \in Wavefront(graph)
    BY <1>2, <1>3, <1>5
  <2>3. CASE asked' = Append(asked, k)
    <3> DEFINE T == Tried'
    <3> HIDE DEF T
    <3>1. asked \in Seq(T) /\ k \in T
      BY <2>1, <2>2 DEF T
    <3>2. /\ Append(asked, k) \in Seq(T) /\ InOrder(Append(asked, k), Wavefront(graph))
          /\ ToSet(Append(asked, k)) = ToSet(asked) \cup {k}
      BY <1>2, <2>2, <3>1, OrderExtended
    <3> QED BY <2>3, <3>2 DEF T
  <2>4. CASE asked' = asked
    BY <1>2, <2>1, <2>4
  <2> QED BY <1>4, <2>3, <2>4
<1>8. Accounted'
  <2> HIDE DEF fluxExecute
  <2>1. Tried' \subseteq Validated /\ Tried' \cap declined = {} /\ ToSet(Tail(grTodo)) \cap (Tried' \cup declined) = {}
    BY <1>2, <1>3, <1>5
  <2>2. declined \cup Tried' \cup ToSet(Tail(grTodo)) = DOMAIN graph
    BY <1>2, <1>3, <1>5
  <2>3. grResults' \subseteq (DOMAIN graph) \X BOOLEAN
    BY <1>2, <1>3, <1>4 DEF Validated
  <2> QED BY <1>2, <1>3, <1>4, <1>5, <1>7, <2>1, <2>2, <2>3 DEF Accounted
<1>9. InDepthOrder'
  <2> HIDE DEF fluxExecute
  <2>1. \A q \in ToSet(asked'), l \in ToSet(Tail(grTodo)) : <<q, l>> \in Wavefront(graph)
    BY <1>2, <1>3, <1>7
  <2> QED BY <1>3, <1>4, <1>7, <2>1 DEF InDepthOrder
<1>10. FilesRegistered' /\ Recorded' /\ DryKept'
  BY DEF GrInv, FilesRegistered, Recorded, DryKept
<1>11. PlaysKept'
  BY PlaysStay DEF PastPlays
<1> QED BY <1>1, <1>6, <1>8, <1>9, <1>10, <1>11 DEF GrInv

(* and the record.                                                          *)
LEMMA RecordStep ==
  ASSUME GrInv, fluxExecuted \/ recordReconcileState
  PROVE  GrInv'
<1>1. CASE fluxExecuted
  <2> USE DEF fluxExecuted, GrOk, grPlan, grPlays, grOut
  <2>1. GraphFound' /\ EvidenceTrue'
    BY <1>1, EvidenceStays
  <2>2. GrTypeOK'
    BY <1>1 DEF GrInv, GrTypeOK
  <2>3. Accounted'
    <3>1. Tried' = Tried /\ Validated' = Validated
      BY <1>1 DEF Tried, Validated, Verdict, RootOf
    <3> QED BY <1>1, <3>1 DEF GrInv, Accounted
  <2>4. InDepthOrder'
    BY <1>1 DEF GrInv, InDepthOrder
  <2>5. FilesRegistered' /\ Recorded' /\ DryKept'
    BY <1>1 DEF GrInv, FilesRegistered, Recorded, DryKept
  <2>6. PlaysKept'
    BY <1>1, PlaysStay DEF PastPlays
  <2> QED BY <2>1, <2>2, <2>3, <2>4, <2>5, <2>6 DEF GrInv
<1>2. CASE recordReconcileState
  <2> USE DEF recordReconcileState, GrReturn, GrOk, GrFail, grPlan, grPlays
  <2>1. GraphFound' /\ EvidenceTrue'
    BY <1>2, EvidenceStays
  <2>2. grPc = "record" /\ grPc' = "done" /\ priErr' = reconcileFacts
        /\ UNCHANGED <<grCfg, graph, grTodo, declined, grResults, asked, converged>>
    BY <1>2
  <2>3. GrTypeOK'
    <3>1. cleanups' \subseteq secretFiles' /\ secretFiles' \subseteq {"kubeconfig", "ca"}
      BY <1>2 DEF GrInv, GrTypeOK
    <3>2. grEvents' \in 0..GrEvents
      BY <1>2, ReconcileAssumption DEF GrInv, GrTypeOK
    <3>3. grLedger' \in [{"ansible", "reconcile"} -> {"none", "success", "failed"}]
      BY <1>2 DEF GrInv, GrTypeOK
    <3>4. UNCHANGED evidence
      BY <1>2
    <3> QED BY <2>2, <3>1, <3>2, <3>3, <3>4 DEF GrInv, GrTypeOK
  <2>4. Accounted'
    <3>1. Tried' = Tried /\ Validated' = Validated
      BY <1>2 DEF Tried, Validated, Verdict, RootOf
    <3>2. ~priErr' => \A r \in grResults : r[2]
      BY <2>2 DEF reconcileFacts
    <3>3. ~grCfg.dry => declined \cup Tried = DOMAIN graph
      <4>1. ToSet(<<>>) = {}
        BY DEF ToSet
      <4> QED BY <2>2, <4>1 DEF GrInv, Accounted
    <3> QED BY <2>2, <3>1, <3>2, <3>3 DEF GrInv, Accounted
  <2>5. InDepthOrder'
    BY <2>2 DEF GrInv, InDepthOrder
  <2>6. FilesRegistered' /\ DryKept'
    BY <1>2 DEF GrInv, FilesRegistered, DryKept
  <2>7. Recorded'
    BY <1>2 DEF GrInv, Recorded, GrTypeOK
  <2>8. PlaysKept'
    BY <1>2, PlaysStay DEF PastPlays
  <2> QED BY <2>1, <2>3, <2>4, <2>5, <2>6, <2>7, <2>8 DEF GrInv
<1> QED BY <1>1, <1>2

LEMMA GrStep == GrInv /\ [GrNext]_grVars => GrInv'
<1> SUFFICES ASSUME GrInv, [GrNext]_grVars PROVE GrInv'
  OBVIOUS
<1>1. CASE runFluxValidation \/ reconcileRunner
  BY <1>1, AuditionStep
<1>2. CASE ansiblePrepare \/ runPlay \/ recordAnsibleState
  BY <1>2, AnsibleStep
<1>3. CASE fluxValidate \/ BuildKubeconfig \/ resolveCA \/ kubectlRun
  BY <1>3, AccessStep
<1>4. CASE fluxPlan
  BY <1>4, PlanStep
<1>5. CASE fluxExecute
  BY <1>5, ExecuteStep
<1>6. CASE fluxExecuted \/ recordReconcileState
  BY <1>6, RecordStep
<1>7. CASE UNCHANGED grVars
  <2> USE <1>7 DEF grVars, grPlan, grPlays, grOut
  <2>1. Accounted' /\ InDepthOrder'
    BY PlanStays
  <2>2. GraphFound' /\ EvidenceTrue'
    BY EvidenceStays
  <2>3. GrTypeOK' /\ FilesRegistered' /\ DryKept' /\ Recorded' /\ PlaysKept'
    BY DEF GrInv, GrTypeOK, FilesRegistered, DryKept, Recorded, PlaysKept
  <2> QED BY <2>1, <2>2, <2>3 DEF GrInv
<1>8. CASE GrDone
  BY <1>7, <1>8 DEF GrDone
<1> QED BY <1>1, <1>2, <1>3, <1>4, <1>5, <1>6, <1>7, <1>8 DEF GrNext

(* The record of the hosts is made when the plays are over, and stays.      *)
LEMMA AnsibleRecordedStep ==
  ASSUME GrInv, AnsibleRecorded, GrNext
  PROVE  AnsibleRecorded'
<1> USE DEF GrOk, GrFail, grPlays, grOut
<1>0. grCfg' = grCfg
  BY GrConstant
<1>1. CASE runFluxValidation \/ reconcileRunner
  BY <1>0, <1>1 DEF runFluxValidation, reconcileRunner, AnsibleRecorded, PastPlays
<1>2. CASE ansiblePrepare
  BY <1>0, <1>2 DEF ansiblePrepare, AnsibleRecorded, PastPlays, GrInv, GrTypeOK, ansibleFailure
<1>3. CASE runPlay
  BY <1>0, <1>3 DEF runPlay, AnsibleRecorded, PastPlays
<1>4. CASE recordAnsibleState
  <2>1. grLedger["ansible"] = "none" /\ playResults' = playResults /\ grPc' = "flux" /\ ansErr' = ansibleFailure
    BY <1>4 DEF recordAnsibleState, AnsibleRecorded, PastPlays
  <2>2. \A r : PlayFailed(r)' = PlayFailed(r) /\ Unrecapped(r)' = Unrecapped(r)
    BY DEF PlayFailed, Unrecapped
  <2>3. grLedger'["ansible"] \in {"none", IF Aggregate # {} THEN "failed" ELSE "success"}
    BY <1>4, <2>1 DEF recordAnsibleState, GrInv, GrTypeOK
  <2>4. ASSUME Aggregate = {}, ansErr' PROVE \E r \in playResults : r.play.required /\ Unrecapped(r)
    <3>1. PICK r \in playResults : PlayFailed(r) /\ r.play.required
      BY <2>1, <2>4 DEF ansibleFailure
    <3>2. \A h \in DOMAIN r.hosts : r.hosts[h] = "ok"
      BY <2>4 DEF Aggregate
    <3> QED BY <3>1, <3>2 DEF Unrecapped
  <2>5. ASSUME Aggregate # {}, ~ansErr', ~grCfg.dry PROVE \E r \in playResults : PlayFailed(r) /\ ~r.play.required
    <3>1. PICK r \in playResults : \E h \in DOMAIN r.hosts : r.hosts[h] # "ok"
      BY <2>5 DEF Aggregate
    <3> QED BY <2>1, <2>5, <3>1 DEF ansibleFailure, PlayFailed
  <2> QED BY <1>0, <2>1, <2>2, <2>3, <2>4, <2>5 DEF AnsibleRecorded, PastPlays
<1>5. CASE fluxValidate \/ BuildKubeconfig \/ resolveCA \/ kubectlRun \/ fluxPlan \/ fluxExecute \/ fluxExecuted
  <2>1. UNCHANGED <<playResults, ansErr, grLedger>> /\ grPc' \in PastPlays
    BY <1>5 DEF fluxValidate, BuildKubeconfig, resolveCA, kubectlRun, fluxPlan, fluxExecute, fluxExecuted,
       GrReturn, PastPlays
  <2> QED BY <1>0, <2>1 DEF AnsibleRecorded, Unrecapped, PlayFailed
<1>6. CASE recordReconcileState
  <2>1. grLedger'["ansible"] = grLedger["ansible"] /\ ansErr' = ansErr /\ playResults' = playResults /\ grPc' = "done" /\ grPc = "record"
    BY <1>6 DEF recordReconcileState, GrReturn, GrInv, GrTypeOK
  <2> QED BY <1>0, <2>1 DEF AnsibleRecorded, PastPlays
<1>7. CASE GrDone
  BY <1>7 DEF GrDone, grVars, AnsibleRecorded
<1> QED BY <1>1, <1>2, <1>3, <1>4, <1>5, <1>6, <1>7 DEF GrNext

(* Off the default branch nothing but audition and the gate is taken.       *)
LEMMA OffBranchStep ==
  ASSUME OffBranch, GrNext
  PROVE  OffBranch'
<1>0. grCfg' = grCfg
  BY GrConstant
<1>1. SUFFICES ASSUME grCfg.ref = "other"
      PROVE  /\ grPc' \in {"audition", "gate", "skipped"}
             /\ asked' = <<>> /\ converged' = {} /\ secretFiles' = {}
  BY <1>0 DEF OffBranch
<1>2. runFluxValidation \/ reconcileRunner \/ GrDone
  BY <1>1 DEF OffBranch, GrNext, ansiblePrepare, runPlay, recordAnsibleState, fluxValidate, BuildKubeconfig,
     resolveCA, kubectlRun, fluxPlan, fluxExecute, fluxExecuted, recordReconcileState
<1> QED BY <1>1, <1>2 DEF OffBranch, runFluxValidation, reconcileRunner, acceptedState, GrDone, grVars, grPlan, grPlays

LEMMA GrIStep == GrIInv /\ [GrNext]_grVars => GrIInv'
<1> SUFFICES ASSUME GrIInv, [GrNext]_grVars PROVE GrIInv'
  OBVIOUS
<1>1. GrInv'
  BY GrStep DEF GrIInv
<1>2. CASE GrNext
  BY <1>1, <1>2, AnsibleRecordedStep, OffBranchStep DEF GrIInv
<1>3. CASE UNCHANGED grVars
  BY <1>1, <1>3 DEF GrIInv, grVars, grPlan, grPlays, grOut, AnsibleRecorded, OffBranch
<1> QED BY <1>2, <1>3

LEMMA GrInvIsSafe == GrIInv => GitopsSafe
<1> SUFFICES ASSUME GrIInv PROVE GitopsSafe
  OBVIOUS
<1> GrInv
  BY DEF GrIInv
<1> SUFFICES GitopsSafe
  OBVIOUS
<1>1. Graph(graph)
  BY DEF GrInv, GraphFound
<1>2. /\ asked \in Seq(Tried) /\ Tried \subseteq Validated /\ DOMAIN asked = 1..Len(asked) /\ Len(asked) \in Nat
      /\ \A i \in DOMAIN asked : asked[i] \in Validated /\ asked[i] \in kahn(graph) /\ asked[i] \in DOMAIN graph
  <2>1. asked \in Seq(Tried) /\ Tried \subseteq Validated
    BY DEF GrInv, Accounted
  <2>2. DOMAIN asked = 1..Len(asked) /\ Len(asked) \in Nat /\ \A i \in 1..Len(asked) : asked[i] \in Tried
    BY <2>1, LenProperties, ElementOfSeq
  <2> QED BY <1>1, <2>1, <2>2, ValidatedIs DEF Validated
<1>3. OnlyProvenAccelerated
  <2> SUFFICES ASSUME NEW k \in ToSet(asked)
               PROVE  /\ RootOf(graph[k].path) \notin {"crash", "invalid", "unparsable"} /\ grCfg.tool = "ok"
                      /\ graph[k].deps \subseteq DOMAIN graph
                      /\ ~ \E b \in DOMAIN graph : <<b, b>> \in Reaches(graph) /\ (b = k \/ <<k, b>> \in Reaches(graph))
    BY DEF OnlyProvenAccelerated
  <2>1. k \in Validated /\ k \in kahn(graph)
    BY <1>2 DEF ToSet
  <2>2. ASSUME NEW b \in DOMAIN graph, <<b, b>> \in Reaches(graph), b = k \/ <<k, b>> \in Reaches(graph)
        PROVE  FALSE
    <3>1. b \in kahn(graph)
      BY <1>1, <2>1, <2>2, ReachedEarlier
    <3>2. Depth(graph, b) < Depth(graph, b) /\ Depth(graph, b) \in Nat
      BY <1>1, <2>2, <3>1, ReachedEarlier, Placed
    <3> QED BY <3>2
  <2> QED BY <1>1, <2>1, <2>2, ValidatedIs
<1>4. DependenciesFirst
  <2> SUFFICES ASSUME NEW i \in DOMAIN asked, NEW j \in DOMAIN asked, <<asked[i], asked[j]>> \in Reaches(graph), ~(j < i)
               PROVE  FALSE
    BY DEF DependenciesFirst
  <2> DEFINE a == asked[i]
             b == asked[j]
  <2>1. a \in kahn(graph) /\ b \in kahn(graph) /\ b \in DOMAIN graph
    BY <1>2
  <2>2. Depth(graph, b) < Depth(graph, a) /\ Depth(graph, a) \in Nat /\ Depth(graph, b) \in Nat
    BY <1>1, <2>1, ReachedEarlier, Placed
  <2>3. i # j
    BY <2>2
  <2>4. i < j
    BY <1>2, <2>3
  <2>5. <<a, b>> \in Wavefront(graph)
    BY <2>4 DEF GrInv, InDepthOrder, InOrder
  <2> HIDE DEF a, b
  <2>6. Depth(graph, a) <= Depth(graph, b)
    BY <2>2, <2>5 DEF Wavefront
  <2> QED BY <2>2, <2>6
<1>5. CleanExitMeansConverged
  <2>1. ASSUME grPc = "record", ~grCfg.dry PROVE declined \cup Tried = DOMAIN graph /\ declined \cap Tried = {}
    <3>1. ToSet(<<>>) = {}
      BY DEF ToSet
    <3> QED BY <2>1, <3>1 DEF GrInv, Accounted
  <2>2. ASSUME grPc = "done", ~priErr, ~grCfg.dry, NEW k \in DOMAIN graph \ declined PROVE <<k, TRUE>> \in grResults
    <3>1. k \in Tried
      BY <2>2 DEF GrInv, Accounted
    <3>2. PICK r \in grResults : k = r[1]
      BY <3>1 DEF Tried
    <3>3. r = <<r[1], r[2]>> /\ r[2] = TRUE
      BY <2>2, <3>2 DEF GrInv, Accounted
    <3> QED BY <3>2, <3>3
  <2>3. ASSUME grPc = "done", ~ansErr, ~grCfg.dry, grCfg.creds,
               NEW i \in DOMAIN grCfg.plays, grCfg.plays[i].required
        PROVE  \E r \in playResults : r.play = grCfg.plays[i]
                 /\ \A h \in grCfg.plays[i].hosts : h \in DOMAIN r.hosts /\ r.hosts[h] = "ok"
    <3>1. grCfg.plays[i] \in ToSet(grCfg.plays)
      BY DEF ToSet
    <3>2. PICK r \in playResults : r.play = grCfg.plays[i] /\ r.exit = 0
      BY <2>3, <3>1 DEF GrInv, PlaysKept, PastPlays
    <3>3. r.hosts = [h \in r.play.hosts |-> "ok"]
      BY <3>2 DEF GrInv, PlaysKept
    <3> QED BY <3>2, <3>3
  <2> QED BY <2>1, <2>2, <2>3 DEF CleanExitMeansConverged, Tried
<1>6. RecordsAgree
  <2>1. ASSUME grPc = "done", ~priErr, ~grCfg.dry, NEW k \in DOMAIN graph, k \notin declined PROVE <<k, TRUE>> \in grResults
    <3>1. k \in Tried
      BY <2>1 DEF GrInv, Accounted
    <3>2. PICK r \in grResults : k = r[1]
      BY <3>1 DEF Tried
    <3>3. r = <<r[1], r[2]>> /\ r[2] = TRUE
      BY <2>1, <3>2 DEF GrInv, Accounted
    <3> QED BY <3>2, <3>3
  <2> QED BY <2>1 DEF RecordsAgree, GrInv, Recorded, GrIInv, AnsibleRecorded
<1>7. ImpactIsComplete
  <2> SUFFICES ASSUME NEW paths
               PROVE LET S == ComputeImpact(graph, paths)
                         t == TopoSort(graph, S)
                         acyclic == \A k \in S : <<k, k>> \notin Reaches(graph)
                     IN /\ S = {k \in DOMAIN graph : graph[k].path \in paths \/ \E b \in DOMAIN graph : <<k, b>> \in Reaches(graph) /\ graph[b].path \in paths}
                        /\ ToSet(t) = S /\ Len(t) = Cardinality(S)
                        /\ acyclic => \A i, j \in DOMAIN t : <<t[i], t[j]>> \in Reaches(graph) => j < i
    BY DEF ImpactIsComplete
  <2> DEFINE S == ComputeImpact(graph, paths)
  <2>1. /\ S \subseteq DOMAIN graph /\ \A k \in DOMAIN graph : graph[k].deps \cap S # {} => k \in S
        /\ \A k \in DOMAIN graph :
             k \in S <=> \/ graph[k].path \in paths
                         \/ \E b \in DOMAIN graph : <<k, b>> \in Reaches(graph) /\ graph[b].path \in paths
    BY <1>1, ImpactIs
  <2> HIDE DEF S
  <2>2. /\ ToSet(TopoSort(graph, S)) = S /\ Len(TopoSort(graph, S)) = Cardinality(S)
        /\ Acyclic(graph, S) =>
             \A i, j \in DOMAIN TopoSort(graph, S) :
               <<TopoSort(graph, S)[i], TopoSort(graph, S)[j]>> \in Reaches(graph) => j < i
    BY <1>1, <2>1, TopoSortLists
  <2> QED BY <2>1, <2>2 DEF Acyclic, S
<1>8. GrTypeOK /\ CredentialsRemoved /\ DryRunIsDry /\ AcceptedOnly
  BY DEF GrInv, CredentialsRemoved, FilesRegistered, DryRunIsDry, DryKept, GrIInv, OffBranch, AcceptedOnly
<1> QED BY <1>3, <1>4, <1>5, <1>6, <1>7, <1>8 DEF GitopsSafe

(* A gitops reconcile, of any graph, accelerates only what audition proved  *)
(* and its dependencies first; a clean exit means converged, the record     *)
(* agrees with the results (that of the hosts but for a play without a       *)
(* recap), no file with credentials is left, a dry run and a pipeline off    *)
(* the default branch change nothing, and the impact analysis is complete.   *)
THEOREM GitopsHolds == GrSpec => []GitopsSafe
<1>1. GrSpec => []GrIInv
  <2>1. grCfg \in GrConfigs /\ GrFrom("audition") => GrIInv
    BY GrInitInv DEF GrIInv, GrFrom, AnsibleRecorded, OffBranch, PastPlays
  <2> QED BY <2>1, GrIStep, PTL DEF GrSpec
<1>2. GrIInv => GitopsSafe
  BY GrInvIsSafe
<1> QED BY <1>1, <1>2, PTL
=============================================================================
