----------------------------- MODULE Sums_proofs -----------------------------
(***************************************************************************)
(* What the proofs about Waves, DoubleDown and Admission need of a sum.    *)
(***************************************************************************)
EXTENDS Sums, FunctionTheorems, FiniteSetTheorems, WellFoundedInduction, TLAPS

LEMMA NumbersUpTo ==
    ASSUME NEW k \in Nat
    PROVE  IsFiniteSet(1..k) /\ Cardinality(1..k) = k
<1>1. 1 \in Int /\ k \in Int
    BY SMT
<1>2. IsFiniteSet(1..k)
    BY <1>1, FS_Interval, Zenon
<1>3. \A a, b \in Int : Cardinality(a..b) = IF a > b THEN 0 ELSE b - a + 1
    BY FS_Interval
<1>4. Cardinality(1..k) = k
    BY <1>1, <1>3, SMT
<1>. QED BY <1>2, <1>4

LEMMA UnitIs ==
    ASSUME NEW f, NEW S, NEW u
    PROVE  u \in Units(f, S) <=> \E x \in S : \E k \in 1..f[x] : u = <<x, k>>
BY DEF Units

\* The units of one member.
LEMMA UnitsOfOne ==
    ASSUME NEW x, NEW n \in Nat
    PROVE  IsFiniteSet({x} \X (1..n)) /\ Cardinality({x} \X (1..n)) = n
<1>1. IsFiniteSet({x}) /\ Cardinality({x}) = 1
    BY FS_Singleton
<1>2. IsFiniteSet(1..n) /\ Cardinality(1..n) = n
    BY NumbersUpTo
<1>3. /\ IsFiniteSet({x} \X (1..n))
      /\ Cardinality({x} \X (1..n)) = Cardinality({x}) * Cardinality(1..n)
    BY <1>1, <1>2, FS_Product
<1>4. Cardinality({x} \X (1..n)) = 1 * n
    BY <1>1, <1>2, <1>3
<1>5. \A k \in Nat : 1 * k = k
    BY SMT
<1>. QED BY <1>3, <1>4, <1>5, Zenon

LEMMA SumFinite ==
    ASSUME NEW S, IsFiniteSet(S), NEW f, \A x \in S : f[x] \in Nat
    PROVE  IsFiniteSet(Units(f, S)) /\ Total(f, S) \in Nat
<1>. DEFINE Of(x) == {x} \X (1..f[x])
            part == [x \in S |-> Of(x)]
            parts == {Of(x) : x \in S}
<1>1. part \in Surjection(S, parts)
  <2>. HIDE DEF Of
  <2>1. part \in [S -> parts]
      OBVIOUS
  <2>2. ASSUME NEW t \in parts PROVE \E x \in S : part[x] = t
    <3>1. PICK x \in S : t = Of(x)
        OBVIOUS
    <3>2. part[x] = Of(x)
        OBVIOUS
    <3>. QED BY <3>1, <3>2
  <2>. HIDE DEF part, parts
  <2>. QED BY <2>1, <2>2, Fun_IsSurj
<1>2. IsFiniteSet(parts)
    BY <1>1, FS_Surjection
<1>3. ASSUME NEW p \in parts PROVE IsFiniteSet(p)
  <2>1. \A x \in S : IsFiniteSet(Of(x))
      BY UnitsOfOne
  <2>. HIDE DEF Of
  <2>. QED BY <2>1
<1>4. IsFiniteSet(UNION parts)
    BY <1>2, <1>3, FS_UNION
<1>5. Units(f, S) = UNION parts
    BY DEF Units
<1>. HIDE DEF parts
<1>. QED BY <1>4, <1>5, FS_CardinalityType DEF Total

\* A sum over fewer members of less each is no more.
LEMMA SumMonotone ==
    ASSUME NEW T, IsFiniteSet(T), NEW S \in SUBSET T, NEW f, NEW g,
           \A x \in T : g[x] \in Nat, \A x \in S : f[x] \in Nat /\ f[x] <= g[x]
    PROVE  Total(f, S) <= Total(g, T)
<1>1. Units(f, S) \subseteq Units(g, T)
  <2>. SUFFICES ASSUME NEW x \in S, NEW k \in 1..f[x]
                PROVE  x \in T /\ k \in 1..g[x]
      BY UnitIs
  <2>1. f[x] \in Nat /\ g[x] \in Nat /\ f[x] <= g[x]
      OBVIOUS
  <2>. QED BY <2>1, SMT
<1>. QED BY <1>1, SumFinite, FS_Subset DEF Total

LEMMA SumSame ==
    ASSUME NEW S, NEW f, NEW g, \A x \in S : f[x] = g[x]
    PROVE  Total(f, S) = Total(g, S)
<1>1. Units(f, S) = Units(g, S)
    BY DEF Units
<1>. QED BY <1>1 DEF Total

LEMMA SumOfNone ==
    ASSUME NEW f
    PROVE  Total(f, {}) = 0
<1>1. Units(f, {}) = {}
    BY DEF Units
<1>. QED BY <1>1, FS_EmptySet DEF Total

LEMMA SumOfZeros ==
    ASSUME NEW f, NEW S, \A x \in S : f[x] = 0
    PROVE  Total(f, S) = 0
<1>1. \A x \in S : 1..f[x] = {}
    OBVIOUS
<1>2. Units(f, S) = {}
    BY <1>1 DEF Units
<1>. QED BY <1>2, FS_EmptySet DEF Total

\* A sum is the summand of one member and the sum over the others.
LEMMA SumSplits ==
    ASSUME NEW S, IsFiniteSet(S), NEW f, \A x \in S : f[x] \in Nat, NEW y \in S
    PROVE  Total(f, S) = Total(f, S \ {y}) + f[y]
<1>. DEFINE U == Units(f, S \ {y})
            V == {y} \X (1..f[y])
<1>1. Units(f, S) = U \cup V
    BY DEF Units
<1>2. U \cap V = {}
    BY DEF Units
<1>3. IsFiniteSet(S \ {y})
    BY FS_RemoveElement
<1>4. IsFiniteSet(U) /\ Total(f, S \ {y}) = Cardinality(U) /\ Cardinality(U) \in Nat
    BY <1>3, SumFinite DEF Total
<1>5. IsFiniteSet(V) /\ Cardinality(V) = f[y] /\ f[y] \in Nat
    BY UnitsOfOne
<1>6. Cardinality(U \cup V) = Cardinality(U) + Cardinality(V) - Cardinality(U \cap V)
    BY <1>4, <1>5, FS_Union
<1>7. Cardinality(U \cap V) = 0
    BY <1>2, FS_EmptySet
<1>. HIDE DEF U, V
<1>. QED BY <1>1, <1>4, <1>5, <1>6, <1>7, SMT DEF Total

\* The members of the one, each with another of the other and no more than that has.
LEMMA SumInjects ==
    ASSUME NEW S, NEW T, IsFiniteSet(T), NEW h \in Injection(S, T), NEW f, NEW g,
           \A x \in T : g[x] \in Nat, \A x \in S : f[x] \in Nat /\ f[x] <= g[h[x]]
    PROVE  IsFiniteSet(S) /\ Total(f, S) <= Total(g, T)
<1>. DEFINE U == Units(f, S)
            V == Units(g, T)
            move == [u \in U |-> <<h[u[1]], u[2]>>]
<1>1. h \in [S -> T] /\ \A x, y \in S : h[x] = h[y] => x = y
    BY DEF Injection, IsInjective
<1>2. ASSUME NEW u \in U PROVE u[1] \in S /\ u = <<u[1], u[2]>> /\ move[u] \in V
  <2>1. PICK x \in S : \E k \in 1..f[x] : u = <<x, k>>
      BY UnitIs
  <2>2. PICK k \in 1..f[x] : u = <<x, k>>
      BY <2>1
  <2>3. h[x] \in T /\ f[x] \in Nat /\ g[h[x]] \in Nat /\ f[x] <= g[h[x]]
      BY <1>1, <2>1
  <2>4. k \in 1..g[h[x]]
      BY <2>3, SMT
  <2>5. move[u] = <<h[x], k>>
      BY <2>2
  <2>. HIDE DEF move
  <2>6. move[u] \in V
      BY <2>3, <2>4, <2>5, UnitIs
  <2>. QED BY <2>1, <2>2, <2>6
<1>3. \A u, v \in U : move[u] = move[v] => u = v
  <2>. SUFFICES ASSUME NEW u \in U, NEW v \in U, move[u] = move[v] PROVE u = v
      OBVIOUS
  <2>1. u[1] \in S /\ v[1] \in S /\ u = <<u[1], u[2]>> /\ v = <<v[1], v[2]>>
      BY <1>2
  <2>2. h[u[1]] = h[v[1]] /\ u[2] = v[2]
      OBVIOUS
  <2>. QED BY <1>1, <2>1, <2>2
<1>4. move \in [U -> V]
    BY <1>2
<1>5. move \in Injection(U, V)
    BY <1>3, <1>4 DEF Injection, IsInjective
<1>6. IsFiniteSet(V)
    BY SumFinite
<1>7. IsFiniteSet(S)
    BY FS_Injection
<1>8. Cardinality(U) <= Cardinality(V)
    BY <1>5, <1>6, FS_Injection
<1>. QED BY <1>7, <1>8 DEF Total

\* Two functions that differ in one member.
LEMMA SumChangesAt ==
    ASSUME NEW S, IsFiniteSet(S), NEW f, NEW g,
           \A x \in S : f[x] \in Nat /\ g[x] \in Nat, NEW y \in S,
           \A x \in S \ {y} : f[x] = g[x]
    PROVE  Total(f, S) + g[y] = Total(g, S) + f[y]
<1>1. IsFiniteSet(S \ {y})
    BY FS_RemoveElement
<1>2. Total(f, S) = Total(f, S \ {y}) + f[y] /\ Total(g, S) = Total(g, S \ {y}) + g[y]
    BY SumSplits
<1>3. Total(f, S \ {y}) = Total(g, S \ {y})
    BY SumSame
<1>4. Total(f, S \ {y}) \in Nat /\ Total(g, S \ {y}) \in Nat
    BY <1>1, SumFinite
<1>. QED BY <1>2, <1>3, <1>4

\* What two functions cover together.
LEMMA SumOfTwo ==
    ASSUME NEW S, IsFiniteSet(S), NEW f, NEW g, NEW h,
           \A x \in S : /\ f[x] \in Nat /\ g[x] \in Nat /\ h[x] \in Nat
                        /\ h[x] <= f[x] + g[x]
    PROVE  Total(h, S) <= Total(f, S) + Total(g, S)
<1>. DEFINE U == Units(h, S)
            A == {u \in U : u[2] <= f[u[1]]}
            B == U \ A
            move == [u \in B |-> <<u[1], u[2] - f[u[1]]>>]
<1>1. ASSUME NEW u \in U PROVE u[1] \in S /\ u[2] \in 1..h[u[1]] /\ u = <<u[1], u[2]>>
  <2>1. PICK x \in S : \E k \in 1..h[x] : u = <<x, k>>
      BY UnitIs
  <2>2. PICK k \in 1..h[x] : u = <<x, k>>
      BY <2>1
  <2>. QED BY <2>2
<1>2. A \subseteq Units(f, S)
  <2>. SUFFICES ASSUME NEW u \in A PROVE u \in Units(f, S)
      OBVIOUS
  <2>1. u[1] \in S /\ u[2] \in 1..f[u[1]] /\ u = <<u[1], u[2]>>
      BY <1>1
  <2>. QED BY <2>1, UnitIs
<1>3. ASSUME NEW u \in B
      PROVE  /\ u[1] \in S /\ u[2] \in Nat /\ u[2] > f[u[1]] /\ u = <<u[1], u[2]>>
             /\ move[u] \in Units(g, S)
  <2>1. u[1] \in S /\ u[2] \in 1..h[u[1]] /\ u = <<u[1], u[2]>> /\ ~(u[2] <= f[u[1]])
      BY <1>1
  <2>2. u[2] - f[u[1]] \in 1..g[u[1]]
      BY <2>1
  <2>3. move[u] = <<u[1], u[2] - f[u[1]]>>
      OBVIOUS
  <2>. QED BY <2>1, <2>2, <2>3, UnitIs
<1>4. ASSUME NEW u \in B, NEW v \in B, move[u] = move[v] PROVE u = v
  <2>1. u[1] = v[1] /\ u[2] - f[u[1]] = v[2] - f[v[1]]
      BY <1>4
  <2>2. /\ u[2] \in Nat /\ v[2] \in Nat /\ f[u[1]] \in Nat
        /\ u = <<u[1], u[2]>> /\ v = <<v[1], v[2]>>
      BY <1>3
  <2>3. u[2] = v[2]
      BY ONLY <2>1, <2>2
  <2>. QED BY ONLY <2>1, <2>2, <2>3
<1>. HIDE DEF U, A, B
<1>5. move \in Injection(B, Units(g, S))
  <2>. HIDE DEF move
  <2>1. move \in [B -> Units(g, S)]
      BY <1>3 DEF move
  <2>2. \A u, v \in B : move[u] = move[v] => u = v
      BY <1>4, Zenon
  <2>. QED BY <2>1, <2>2, Zenon DEF Injection, IsInjective
<1>6. IsFiniteSet(Units(f, S)) /\ IsFiniteSet(Units(g, S))
    BY SumFinite
<1>7. IsFiniteSet(A) /\ Cardinality(A) <= Total(f, S)
    BY <1>2, <1>6, FS_Subset DEF Total
<1>8. IsFiniteSet(B) /\ Cardinality(B) <= Total(g, S)
    BY <1>5, <1>6, FS_Injection DEF Total
<1>9. A \cap B = {} /\ A \cup B = U
    BY DEF A, B
<1>10. Cardinality(U) = Cardinality(A) + Cardinality(B) - Cardinality({})
    BY <1>7, <1>8, <1>9, FS_Union
<1>11. /\ Cardinality({}) = 0 /\ Cardinality(A) \in Nat /\ Cardinality(B) \in Nat
       /\ Total(f, S) \in Nat /\ Total(g, S) \in Nat
    BY <1>7, <1>8, FS_EmptySet, FS_CardinalityType, SumFinite
<1>. QED BY <1>7, <1>8, <1>10, <1>11 DEF U, Total

-----------------------------------------------------------------------------
(* Ranks                                                                   *)

\* A set of natural numbers has a least one.
LEMMA LeastExists ==
    ASSUME NEW S \in SUBSET Nat, S # {}
    PROVE  \E m \in S : \A k \in S : m <= k
<1>. DEFINE R == OpToRel(<, Nat)
<1>1. IsWellFoundedOn(R, Nat)
    BY NatLessThanWellFounded, Zenon
<1>2. \A a, b \in Nat : a < b => <<a, b>> \in R
    BY DEF OpToRel
<1>. HIDE DEF R
<1>3. PICK x \in S : \A y \in S : ~ (<<y, x>> \in R)
    BY <1>1, WFMin, Zenon
<1>4. x \in Nat /\ \A k \in S : k \in Nat /\ ~(k < x)
    BY <1>2, <1>3, Zenon
<1>. QED BY <1>3, <1>4, SMT

OfRank(a, s, n, k) ==
    /\ a \in {s[i] : i \in 1..n}
    /\ Cardinality({i \in 1..n : s[i] < a}) < k
    /\ Cardinality({i \in 1..n : s[i] <= a}) >= k

\* Among finitely many numbers there is one of each rank.
LEMMA RankExists ==
    ASSUME NEW n \in Nat, NEW s, \A i \in 1..n : s[i] \in Nat, NEW k \in 1..n
    PROVE  \E a : OfRank(a, s, n, k)
<1>. DEFINE UpTo(m) == {i \in 1..n : s[i] <= m}
            G == {m \in Nat : Cardinality(UpTo(m)) >= k}
<1>1. IsFiniteSet(1..n) /\ Cardinality(1..n) = n
    BY NumbersUpTo
<1>2. PICK b \in Nat : \A i \in 1..n : s[i] <= b
  <2>1. Total(s, 1..n) \in Nat
      BY <1>1, SumFinite
  <2>2. ASSUME NEW i \in 1..n PROVE s[i] <= Total(s, 1..n)
    <3>1. IsFiniteSet((1..n) \ {i}) /\ Total(s, (1..n) \ {i}) \in Nat
        BY <1>1, FS_RemoveElement, SumFinite
    <3>2. Total(s, 1..n) = Total(s, (1..n) \ {i}) + s[i]
        BY <1>1, SumSplits
    <3>. QED BY <3>1, <3>2
  <2>. QED BY <2>1, <2>2
<1>3. UpTo(b) = 1..n
    BY <1>2
<1>4. b \in G
  <2>1. Cardinality(UpTo(b)) = n
      BY <1>1, <1>3
  <2>. HIDE DEF UpTo
  <2>2. Cardinality(UpTo(b)) >= k
      BY <2>1
  <2>. QED BY <1>2, <2>2
<1>5. PICK m \in G : \A d \in G : m <= d
  <2>1. G \in SUBSET Nat
      OBVIOUS
  <2>. HIDE DEF G
  <2>. QED BY <1>4, <2>1, LeastExists, Zenon
<1>6. {i \in 1..n : s[i] < m} = IF m = 0 THEN {} ELSE UpTo(m - 1)
  <2>1. m \in Nat
      BY <1>5
  <2>2. \A i \in 1..n : s[i] < m <=> m # 0 /\ s[i] <= m - 1
      BY <2>1
  <2>. QED BY <2>2
<1>7. Cardinality({i \in 1..n : s[i] < m}) < k
  <2>1. CASE m = 0
      BY <1>6, <2>1, FS_EmptySet
  <2>2. CASE m # 0
    <3>1. m - 1 \in Nat /\ ~(m <= m - 1)
        BY <1>5, <2>2
    <3>2. m - 1 \notin G
        BY <1>5, <3>1
    <3>3. IsFiniteSet(UpTo(m - 1))
        BY <1>1, FS_Subset
    <3>4. Cardinality(UpTo(m - 1)) \in Nat
        BY <3>3, FS_CardinalityType
    <3>. QED BY <1>6, <2>2, <3>1, <3>2, <3>4
  <2>. QED BY <2>1, <2>2
<1>8. m \in {s[i] : i \in 1..n}
  <2>. SUFFICES ASSUME \A i \in 1..n : s[i] # m PROVE FALSE
      OBVIOUS
  <2>1. UpTo(m) = {i \in 1..n : s[i] < m}
      BY <1>5
  <2>2. Cardinality(UpTo(m)) >= k
      BY <1>5
  <2>3. IsFiniteSet(UpTo(m)) /\ Cardinality(UpTo(m)) \in Nat
      BY <1>1, FS_Subset, FS_CardinalityType
  <2>. QED BY <1>7, <2>1, <2>2, <2>3
<1>9. Cardinality(UpTo(m)) >= k
    BY <1>5
<1>10. OfRank(m, s, n, k)
    BY <1>7, <1>8, <1>9 DEF OfRank
<1>. QED BY <1>10
=============================================================================
