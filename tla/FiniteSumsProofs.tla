-------------------------- MODULE FiniteSumsProofs --------------------------
(***************************************************************************)
(* Facts about sums over finite sets, and the least-number principle, from *)
(* the library's theorems on cardinality and well-founded subset order.    *)
(***************************************************************************)
EXTENDS FiniteSums, TLAPS, FiniteSetTheorems, FunctionTheorems, WellFoundedInduction

\* A nonempty set of naturals has a least element: among the intervals 0..n there is
\* one that strictly includes no other.
LEMMA LeastNatural ==
    ASSUME NEW S \in SUBSET Nat, S # {}
    PROVE  \E m \in S : \A n \in S : m <= n
<1> DEFINE T == {0..n : n \in S}
<1>1. T \subseteq FiniteSubsetsOf(Nat)
  <2>1. ASSUME NEW n \in S PROVE IsFiniteSet(0..n)
    <3>1. 0 \in Int /\ n \in Int
      OBVIOUS
    <3>2. QED BY <3>1, FS_Interval
  <2>2. QED BY <2>1 DEF FiniteSubsetsOf
<1>2. \E X \in T : \A Y \in T : <<Y, X>> \notin StrictSubsetOrdering(Nat)
  <2>1. IsWellFoundedOn(StrictSubsetOrdering(Nat), FiniteSubsetsOf(Nat))
    BY FS_StrictSubsetOrderingWellFounded
  <2>2. T # {}
    OBVIOUS
  <2> HIDE DEF T
  <2>3. QED BY <2>1, <2>2, <1>1, WFMin
<1>3. PICK m \in S : \A n \in S : <<0..n, 0..m>> \notin StrictSubsetOrdering(Nat)
  BY <1>2
<1>4. ASSUME NEW n \in S, n < m PROVE FALSE
  <2>1. 0..n \subseteq 0..m /\ m \in 0..m /\ m \notin 0..n
    BY <1>4
  <2>2. <<0..n, 0..m>> \in StrictSubsetOrdering(Nat)
    BY <2>1 DEF StrictSubsetOrdering
  <2>3. QED BY <2>2, <1>3
<1>5. QED BY <1>4

\* The units are finitely many, so the sum is a natural number.
LEMMA SumType ==
    ASSUME NEW S, IsFiniteSet(S), NEW f \in [S -> Nat]
    PROVE  IsFiniteSet(Units(S, f)) /\ SumOver(S, f) \in Nat
<1> DEFINE Parts == {{x} \X (1..f[x]) : x \in S}
           part == [x \in S |-> {x} \X (1..f[x])]
<1>1. part \in Surjection(S, Parts)
  BY DEF Surjection
<1>2. IsFiniteSet(Parts)
  BY <1>1, FS_Surjection
<1>3. \A T \in Parts : IsFiniteSet(T)
  <2>1. SUFFICES ASSUME NEW x \in S PROVE IsFiniteSet({x} \X (1..f[x]))
    OBVIOUS
  <2>2. 1 \in Int /\ f[x] \in Int
    OBVIOUS
  <2>3. IsFiniteSet({x}) /\ IsFiniteSet(1..f[x])
    BY <2>2, FS_Singleton, FS_Interval
  <2>4. QED BY <2>3, FS_Product
<1>4. IsFiniteSet(UNION Parts)
  BY <1>2, <1>3, FS_UNION
<1>5. QED BY <1>4, FS_CardinalityType DEF Units, SumOver

\* A sum splits along a partition of its support.
LEMMA SumSplit ==
    ASSUME NEW S, IsFiniteSet(S),
           NEW f \in [S -> Nat], NEW g \in [S -> Nat], NEW h \in [S -> Nat],
           \A x \in S : (f[x] = g[x] /\ h[x] = 0) \/ (f[x] = h[x] /\ g[x] = 0)
    PROVE  SumOver(S, f) = SumOver(S, g) + SumOver(S, h)
<1>1. \A F \in [S -> Nat] : \A u : u \in Units(S, F) <=> \E x \in S : u \in {x} \X (1..F[x])
  BY DEF Units
<1>2. Units(S, f) = Units(S, g) \cup Units(S, h)
  <2>1. ASSUME NEW u
        PROVE  u \in Units(S, f) <=> u \in Units(S, g) \/ u \in Units(S, h)
    <3>1. ASSUME NEW x \in S
          PROVE  u \in {x} \X (1..f[x]) <=>
                    u \in {x} \X (1..g[x]) \/ u \in {x} \X (1..h[x])
      OBVIOUS
    <3>2. QED BY <1>1, <3>1
  <2>2. QED BY <2>1
<1>3. Units(S, g) \cap Units(S, h) = {}
  <2>1. ASSUME NEW u, u \in Units(S, g), u \in Units(S, h) PROVE FALSE
    <3>1. PICK x \in S : u \in {x} \X (1..g[x])
      BY <1>1, <2>1
    <3>2. PICK y \in S : u \in {y} \X (1..h[y])
      BY <1>1, <2>1
    <3>3. y = x
      BY <3>1, <3>2
    <3>4. g[x] # 0 /\ h[x] # 0
      BY <3>1, <3>2, <3>3
    <3>5. QED BY <3>4
  <2>2. QED BY <2>1
<1>4. IsFiniteSet(Units(S, g)) /\ IsFiniteSet(Units(S, h))
  BY SumType
<1>5. Cardinality(Units(S, f))
        = Cardinality(Units(S, g)) + Cardinality(Units(S, h)) - Cardinality({})
  BY <1>2, <1>3, <1>4, FS_Union
<1>6. QED BY <1>4, <1>5, FS_EmptySet, FS_CardinalityType DEF SumOver

\* A function that is zero off one point sums to its value there.
LEMMA SumSingle ==
    ASSUME NEW S, NEW y \in S, NEW f \in [S -> Nat], \A x \in S : x # y => f[x] = 0
    PROVE  SumOver(S, f) = f[y]
<1>1. Units(S, f) = {y} \X (1..f[y])
  <2>1. ASSUME NEW x \in S, x # y PROVE {x} \X (1..f[x]) = {}
    BY <2>1
  <2>2. QED BY <2>1 DEF Units
<1>2. IsFiniteSet({y}) /\ Cardinality({y}) = 1
  BY FS_Singleton
<1>3. IsFiniteSet(1..f[y]) /\ Cardinality(1..f[y]) = f[y]
  <2>1. 1 \in Int /\ f[y] \in Int
    OBVIOUS
  <2>2. QED BY <2>1, FS_Interval
<1>4. Cardinality({y} \X (1..f[y])) = Cardinality({y}) * Cardinality(1..f[y])
  BY <1>2, <1>3, FS_Product
<1>5. QED BY <1>1, <1>2, <1>3, <1>4 DEF SumOver

\* The zero function sums to zero.
LEMMA SumZero ==
    ASSUME NEW S
    PROVE  SumOver(S, [x \in S |-> 0]) = 0
<1>1. Units(S, [x \in S |-> 0]) = {}
  BY DEF Units
<1>2. QED BY <1>1, FS_EmptySet DEF SumOver

\* Changing a function at one point changes its sum by the difference there.
LEMMA SumUpdate ==
    ASSUME NEW S, IsFiniteSet(S), NEW y \in S,
           NEW f \in [S -> Nat], NEW g \in [S -> Nat],
           \A x \in S : x # y => f[x] = g[x]
    PROVE  /\ SumOver(S, f) \in Nat /\ SumOver(S, g) \in Nat
           /\ f[y] <= SumOver(S, f)
           /\ SumOver(S, g) = SumOver(S, f) - f[y] + g[y]
<1> DEFINE rest == [x \in S |-> IF x = y THEN 0 ELSE f[x]]
           atF == [x \in S |-> IF x = y THEN f[y] ELSE 0]
           atG == [x \in S |-> IF x = y THEN g[y] ELSE 0]
<1>0. rest \in [S -> Nat] /\ atF \in [S -> Nat] /\ atG \in [S -> Nat]
  OBVIOUS
<1>1. \A x \in S : (f[x] = rest[x] /\ atF[x] = 0) \/ (f[x] = atF[x] /\ rest[x] = 0)
  OBVIOUS
<1>2. \A x \in S : (g[x] = rest[x] /\ atG[x] = 0) \/ (g[x] = atG[x] /\ rest[x] = 0)
  OBVIOUS
<1>3. /\ \A x \in S : x # y => atF[x] = 0 /\ atG[x] = 0
      /\ atF[y] = f[y] /\ atG[y] = g[y]
  OBVIOUS
<1> HIDE DEF rest, atF, atG
<1>4. SumOver(S, f) = SumOver(S, rest) + SumOver(S, atF)
  BY <1>0, <1>1, SumSplit
<1>5. SumOver(S, g) = SumOver(S, rest) + SumOver(S, atG)
  BY <1>0, <1>2, SumSplit
<1>6. SumOver(S, atF) = f[y] /\ SumOver(S, atG) = g[y]
  BY <1>0, <1>3, SumSingle
<1>7. SumOver(S, rest) \in Nat
  BY <1>0, SumType
<1>8. f[y] \in Nat /\ g[y] \in Nat
  OBVIOUS
<1>9. QED BY <1>4, <1>5, <1>6, <1>7, <1>8

\* A sum is monotone in its summands.
LEMMA SumMonotone ==
    ASSUME NEW S, IsFiniteSet(S), NEW f \in [S -> Nat], NEW g \in [S -> Nat],
           \A x \in S : f[x] <= g[x]
    PROVE  SumOver(S, f) <= SumOver(S, g)
<1>1. ASSUME NEW x \in S PROVE {x} \X (1..f[x]) \subseteq {x} \X (1..g[x])
  <2>1. f[x] \in Nat /\ g[x] \in Nat /\ f[x] <= g[x]
    OBVIOUS
  <2>2. 1..f[x] \subseteq 1..g[x]
    BY <2>1
  <2>3. QED BY <2>2
<1>2. Units(S, f) \subseteq Units(S, g)
  BY <1>1 DEF Units
<1>3. IsFiniteSet(Units(S, g))
  BY SumType
<1>4. QED BY <1>2, <1>3, FS_Subset DEF SumOver

\* A finite nonempty set of naturals has a greatest element: their sum bounds them.
LEMMA GreatestNatural ==
    ASSUME NEW S \in SUBSET Nat, IsFiniteSet(S), S # {}
    PROVE  \E m \in S : \A n \in S : m >= n
<1> DEFINE f == [x \in S |-> x]
           b == SumOver(S, f)
           T == {b - x : x \in S}
<1>1. ASSUME NEW x \in S PROVE b \in Nat /\ x <= b
  <2>1. f \in [S -> Nat] /\ f[x] = x
    OBVIOUS
  <2> HIDE DEF f
  <2> QED BY <2>1, SumUpdate
<1> HIDE DEF b
<1>2. T \in SUBSET Nat /\ T # {}
  <2>1. ASSUME NEW x \in S PROVE b - x \in Nat
    <3>1. x \in Nat /\ b \in Nat /\ x <= b
      BY <1>1
    <3> QED BY <3>1
  <2>2. T # {}
    OBVIOUS
  <2> QED BY <2>1, <2>2
<1>3. PICK k \in T : \A n \in T : k <= n
  BY <1>2, LeastNatural
<1>4. PICK m \in S : k = b - m
  BY <1>3
<1>5. ASSUME NEW n \in S PROVE m >= n
  <2>1. b - n \in T
    OBVIOUS
  <2> QED BY <1>1, <1>3, <1>4, <2>1
<1> QED BY <1>5
=============================================================================
