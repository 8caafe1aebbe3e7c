----------------------------- MODULE ServingProofs -----------------------------
(***************************************************************************)
(* Serving, for every number of users, games, requests, purchases, edits   *)
(* and generations, and every limit.                                       *)
(***************************************************************************)
EXTENDS Serving, FiniteSetTheorems, SequenceTheorems, NaturalsInduction, WellFoundedInduction, TLAPS

-----------------------------------------------------------------------------
(* Sums over finite sets, and the cosine of a taste and a game.            *)

\* A set of naturals that is not empty has a least member.
LEMMA LeastNatural ==
    ASSUME NEW S \in SUBSET Nat, S # {}
    PROVE  \E m \in S : \A n \in S : m <= n
<1>1. PICK m \in S : \A n \in S : ~ (<<n, m>> \in OpToRel(<, Nat))
  BY NatLessThanWellFounded, WFMin
<1>2. ASSUME NEW n \in S PROVE m <= n
  <2>1. m \in Nat /\ n \in Nat
    OBVIOUS
  <2>2. ~ (n < m)
    BY <1>1, <2>1 DEF OpToRel
  <2> QED
    BY <2>1, <2>2
<1> QED
  BY <1>2

\* A family of sets that takes in each set with the set that lacks one of its members has them all.
LEMMA OneByOne ==
    ASSUME NEW D, IsFiniteSet(D), NEW P, {} \in P,
           \A S \in SUBSET D : (\A e \in S : S \ {e} \in P) => S \in P
    PROVE  \A S \in SUBSET D : S \in P
<1> DEFINE Missing == {n \in Nat : \E S \in SUBSET D : Cardinality(S) = n /\ S \notin P}
<1>1. SUFFICES ASSUME NEW R \in SUBSET D, R \notin P PROVE FALSE
  OBVIOUS
<1>2. Cardinality(R) \in Missing
  BY <1>1, FS_Subset, FS_CardinalityType
<1>3. PICK n \in Missing : \A m \in Missing : n <= m
  BY <1>2, LeastNatural
<1>4. PICK S \in SUBSET D : Cardinality(S) = n /\ S \notin P
  BY <1>3
<1>5. ASSUME NEW e \in S PROVE S \ {e} \in P
  <2>1. IsFiniteSet(S)
    BY FS_Subset
  <2>2. Cardinality(S \ {e}) = n - 1 /\ Cardinality(S \ {e}) \in Nat /\ n \in Nat
    BY <1>4, <2>1, FS_RemoveElement, FS_CardinalityType
  <2>3. n - 1 \notin Missing
    BY <1>3, <2>2
  <2> QED
    BY <2>2, <2>3
<1> QED
  BY <1>4, <1>5

\* sum adds up f over each subset of D.
AddsUp(sum, f, D) ==
    /\ sum \in [SUBSET D -> Int]
    /\ sum[{}] = 0
    /\ \A S \in SUBSET D : \A e \in S : sum[S] = f[e] + sum[S \ {e}]

\* SumFunctionOnSet takes the members one by one in an order of its own choice; there is a function that
\* adds as it does, and whatever adds up f has the same values.
LEMMA SumOnSet ==
    ASSUME NEW f, NEW D, IsFiniteSet(D), NEW sum, AddsUp(sum, f, D)
    PROVE  SumFunctionOnSet(f, D) = sum[D]
<1> DEFINE Step(g, S) == IF S = {} THEN 0 ELSE LET x == CHOOSE e \in S : TRUE IN f[x] + g[S \ {x}]
           Recursion(g) == g = [S \in SUBSET D |-> Step(g, S)]
<1>1. SumFunctionOnSet(f, D) = (CHOOSE g : Recursion(g))[D]
  BY DEF SumFunctionOnSet, FoldFunctionOnSet, MapThenFoldSet
<1>2. Recursion(sum)
  <2>1. ASSUME NEW S \in SUBSET D PROVE sum[S] = Step(sum, S)
    BY <2>1 DEF AddsUp
  <2> QED
    BY <2>1 DEF AddsUp
<1> HIDE DEF Recursion
<1>3. PICK g : g = (CHOOSE h : Recursion(h)) /\ Recursion(g)
  BY <1>2, Zenon
<1>4. ASSUME NEW S \in SUBSET D PROVE g[S] = Step(g, S)
  BY <1>3 DEF Recursion
<1> DEFINE P == {S \in SUBSET D : g[S] = sum[S]}
<1>5. {} \in P
  BY <1>4 DEF AddsUp
<1>6. ASSUME NEW S \in SUBSET D, \A e \in S : S \ {e} \in P PROVE S \in P
  <2>1. CASE S = {}
    BY <1>5, <2>1
  <2>2. CASE S # {}
    <3>1. PICK x : x = (CHOOSE e \in S : TRUE) /\ x \in S
      BY <2>2
    <3>2. g[S] = f[x] + g[S \ {x}] /\ g[S \ {x}] = sum[S \ {x}]
      BY <1>4, <1>6, <2>2, <3>1
    <3> QED
      BY <3>1, <3>2 DEF AddsUp
  <2> QED
    BY <2>1, <2>2
<1>7. D \in P
  <2> HIDE DEF P
  <2> QED
    BY <1>5, <1>6, OneByOne
<1> QED
  BY <1>1, <1>3, <1>7

LEMMA SumOnSubset ==
    ASSUME NEW f, NEW D, IsFiniteSet(D), NEW sum, AddsUp(sum, f, D), NEW S \in SUBSET D
    PROVE  SumFunctionOnSet(f, S) = sum[S]
<1>1. PICK part : part = [T \in SUBSET S |-> sum[T]]
  OBVIOUS
<1>2. AddsUp(part, f, S)
  BY <1>1 DEF AddsUp
<1>3. IsFiniteSet(S)
  BY FS_Subset
<1> QED
  BY <1>1, <1>2, <1>3, SumOnSet

\* The units of the counts of the members of S, one by one.
Units(count, S) == {c \in S \X Nat : c[2] \in 1 .. count[c[1]]}

LEMMA UnitsOfOne ==
    ASSUME NEW n \in Nat, NEW e
    PROVE  IsFiniteSet({e} \X (1 .. n)) /\ Cardinality({e} \X (1 .. n)) = n
<1>1. IsFiniteSet({e}) /\ Cardinality({e}) = 1
  BY FS_Singleton
<1>2. IsFiniteSet(1 .. n) /\ Cardinality(1 .. n) = n
  BY FS_Interval
<1>3. /\ IsFiniteSet({e} \X (1 .. n))
      /\ Cardinality({e} \X (1 .. n)) = Cardinality({e}) * Cardinality(1 .. n)
  BY <1>1, <1>2, FS_Product, Zenon
<1> QED
  BY <1>1, <1>2, <1>3

LEMMA UnitsAddUp ==
    ASSUME NEW D, IsFiniteSet(D), NEW count \in [D -> Nat]
    PROVE  /\ \A S \in SUBSET D : IsFiniteSet(Units(count, S)) /\ Cardinality(Units(count, S)) \in Nat
           /\ Units(count, {}) = {}
           /\ \A S \in SUBSET D : \A e \in S :
                Cardinality(Units(count, S)) = count[e] + Cardinality(Units(count, S \ {e}))
<1>1. ASSUME NEW S \in SUBSET D PROVE IsFiniteSet(Units(count, S)) /\ Cardinality(Units(count, S)) \in Nat
  <2> DEFINE blocks == {{e} \X (1 .. count[e]) : e \in S}
             block == [e \in S |-> {e} \X (1 .. count[e])]
  <2>1. block \in Surjection(S, blocks)
    BY DEF Surjection
  <2>2. IsFiniteSet(blocks)
    BY <2>1, FS_Subset, FS_Surjection
  <2>3. \A b \in blocks : IsFiniteSet(b)
    BY UnitsOfOne
  <2>4. IsFiniteSet(UNION blocks)
    BY <2>2, <2>3, FS_UNION
  <2>5. Units(count, S) = UNION blocks
    BY DEF Units
  <2> QED
    BY <2>4, <2>5, FS_CardinalityType
<1>2. ASSUME NEW S \in SUBSET D, NEW e \in S
      PROVE  Cardinality(Units(count, S)) = count[e] + Cardinality(Units(count, S \ {e}))
  <2> DEFINE one == {e} \X (1 .. count[e])
             rest == Units(count, S \ {e})
  <2>1. Units(count, S) = one \cup rest /\ one \cap rest = {}
    BY DEF Units
  <2>2. IsFiniteSet(one) /\ Cardinality(one) = count[e] /\ count[e] \in Nat
    BY UnitsOfOne
  <2>3. IsFiniteSet(rest) /\ Cardinality(rest) \in Nat
    BY <1>1
  <2> HIDE DEF one, rest
  <2>4. Cardinality(one \cup rest) = Cardinality(one) + Cardinality(rest) - Cardinality(one \cap rest)
    BY <2>2, <2>3, FS_Union, Zenon
  <2>5. Cardinality(one \cap rest) = 0
    BY <2>1, FS_EmptySet, Zenon
  <2> QED
    BY <2>1, <2>2, <2>3, <2>4, <2>5 DEF rest
<1>3. Units(count, {}) = {}
  BY DEF Units
<1> QED
  BY <1>1, <1>2, <1>3

\* A sum over a finite set exists: what is positive is counted, and what is negative taken off.
LEMMA SumExists ==
    ASSUME NEW D, IsFiniteSet(D), NEW f \in [D -> Int]
    PROVE  \E sum : AddsUp(sum, f, D)
<1>1. PICK up \in [D -> Nat], down \in [D -> Nat] : \A e \in D : f[e] = up[e] - down[e]
  <2>1. [e \in D |-> IF f[e] > 0 THEN f[e] ELSE 0] \in [D -> Nat]
    OBVIOUS
  <2>2. [e \in D |-> IF f[e] > 0 THEN 0 ELSE 0 - f[e]] \in [D -> Nat]
    OBVIOUS
  <2>3. \A e \in D : f[e] = [d \in D |-> IF f[d] > 0 THEN f[d] ELSE 0][e]
                            - [d \in D |-> IF f[d] > 0 THEN 0 ELSE 0 - f[d]][e]
    OBVIOUS
  <2> QED
    BY <2>1, <2>2, <2>3
<1>2. PICK plus : plus = [S \in SUBSET D |-> Cardinality(Units(up, S))]
  OBVIOUS
<1>3. PICK minus : minus = [S \in SUBSET D |-> Cardinality(Units(down, S))]
  OBVIOUS
<1>4. /\ plus \in [SUBSET D -> Nat] /\ plus[{}] = 0
      /\ \A S \in SUBSET D : \A e \in S : plus[S] = up[e] + plus[S \ {e}]
  BY <1>2, UnitsAddUp, FS_EmptySet
<1>5. /\ minus \in [SUBSET D -> Nat] /\ minus[{}] = 0
      /\ \A S \in SUBSET D : \A e \in S : minus[S] = down[e] + minus[S \ {e}]
  BY <1>3, UnitsAddUp, FS_EmptySet
<1>6. PICK sum : sum = [S \in SUBSET D |-> plus[S] - minus[S]]
  OBVIOUS
<1>7. sum \in [SUBSET D -> Int] /\ sum[{}] = 0
  BY <1>4, <1>5, <1>6
<1>8. ASSUME NEW S \in SUBSET D, NEW e \in S PROVE sum[S] = f[e] + sum[S \ {e}]
  <2>1. PICK rest \in SUBSET D : rest = S \ {e}
    OBVIOUS
  <2>2. plus[S] = up[e] + plus[rest] /\ minus[S] = down[e] + minus[rest] /\ f[e] = up[e] - down[e]
    BY <1>1, <1>4, <1>5, <2>1
  <2>3. up[e] \in Nat /\ down[e] \in Nat /\ plus[rest] \in Nat /\ minus[rest] \in Nat
    BY <1>4, <1>5
  <2>4. sum[S] = plus[S] - minus[S] /\ sum[rest] = plus[rest] - minus[rest]
    BY <1>6
  <2> QED
    BY <2>1, <2>2, <2>3, <2>4
<1> QED
  BY <1>7, <1>8 DEF AddsUp

\* The step of the inequality of Cauchy and Schwarz, for n weights that sum to d, and one more, x.
LEMMA OneMoreWeight ==
    ASSUME NEW d \in Int, NEW q \in Int, NEW n \in Nat, NEW x \in Int, d * d <= n * q, q >= 0
    PROVE  (x + d) * (x + d) <= (n + 1) * (x * x + q)
<1>1. 2 * (d * x) <= q + n * (x * x)
  <2>1. CASE n = 0
    <3>1. d = 0
      BY <2>1
    <3> QED
      BY <2>1, <3>1
  <2>2. CASE n > 0
    <3>1. (d - n * x) * (d - n * x) >= 0
      OBVIOUS
    <3>2. (d - n * x) * (d - n * x) = d * d - 2 * (n * (d * x)) + n * (n * (x * x))
      OBVIOUS
    <3>3. n * (2 * (d * x)) <= n * (q + n * (x * x))
      BY <3>1, <3>2
    <3>4. PICK a \in Int, b \in Int : a = 2 * (d * x) /\ b = q + n * (x * x)
      OBVIOUS
    <3>5. n * a <= n * b
      BY <3>3, <3>4
    <3>6. a <= b
      BY <2>2, <3>5
    <3> QED
      BY <3>4, <3>6
  <2> QED
    BY <2>1, <2>2
<1>2. (x + d) * (x + d) = x * x + 2 * (d * x) + d * d
  OBVIOUS
<1>3. (n + 1) * (x * x + q) = n * (x * x) + n * q + x * x + q
  OBVIOUS
<1> QED
  BY <1>1, <1>2, <1>3

\* The dot product of a taste with a game, squared, is at most the product of their squared magnitudes.
LEMMA CauchySchwarz ==
    ASSUME NEW t \in [Features -> Int], NEW g \in Games
    PROVE  /\ Dot(t, g) \in Int /\ SquaredMagnitude(t) \in Int
           /\ Dot(t, g) * Dot(t, g) <= SquaredMagnitude(t) * Cardinality(Labels[g])
<1>1. IsFiniteSet(Features) /\ Labels[g] \in SUBSET Features
  BY LabelsAssumption
<1>2. PICK square : square = [f \in Features |-> t[f] * t[f]]
  OBVIOUS
<1>3. square \in [Features -> Int] /\ \A f \in Features : square[f] = t[f] * t[f] /\ square[f] >= 0
  BY <1>2
<1>4. PICK sum : AddsUp(sum, t, Features)
  BY <1>1, SumExists
<1>5. PICK squares : AddsUp(squares, square, Features)
  BY <1>1, <1>3, SumExists
<1>6. Dot(t, g) = sum[Labels[g]] /\ SquaredMagnitude(t) = squares[Features]
  <2>1. Dot(t, g) = sum[Labels[g]]
    BY <1>1, <1>4, SumOnSubset DEF Dot
  <2>2. SumFunctionOnSet(square, Features) = squares[Features]
    BY <1>1, <1>5, SumOnSet
  <2>3. SquaredMagnitude(t) = SumFunctionOnSet(square, DOMAIN square)
    BY <1>2 DEF SquaredMagnitude, SumFunction
  <2> QED
    BY <1>3, <2>1, <2>2, <2>3
<1> DEFINE Common(S) == S \cap Labels[g]
           P == {S \in SUBSET Features :
                    /\ squares[S] >= 0
                    /\ sum[Common(S)] * sum[Common(S)] <= Cardinality(Common(S)) * squares[S]}
<1>7. ASSUME NEW S \in SUBSET Features
      PROVE  /\ sum[Common(S)] \in Int /\ squares[S] \in Int
             /\ IsFiniteSet(Common(S)) /\ Cardinality(Common(S)) \in Nat
  BY <1>1, <1>4, <1>5, FS_Subset, FS_CardinalityType DEF AddsUp
<1>8. {} \in P
  <2>1. Common({}) = {} /\ Cardinality({}) = 0
    BY FS_EmptySet
  <2>2. sum[{}] = 0 /\ squares[{}] = 0
    BY <1>4, <1>5 DEF AddsUp
  <2> QED
    BY <2>1, <2>2
<1>9. ASSUME NEW S \in SUBSET Features, \A f \in S : S \ {f} \in P PROVE S \in P
  <2>1. CASE S = {}
    BY <1>8, <2>1
  <2>2. CASE S # {}
    <3>1. PICK f \in S : TRUE
      BY <2>2
    <3>2. PICK rest \in SUBSET Features : rest = S \ {f}
      OBVIOUS
    <3>3. PICK n, d, q, x : n = Cardinality(Common(rest)) /\ d = sum[Common(rest)] /\ q = squares[rest] /\ x = t[f]
      OBVIOUS
    <3>4. n \in Nat /\ d \in Int /\ q \in Int /\ x \in Int
      BY <1>7, <3>3
    <3>5. q >= 0 /\ d * d <= n * q
      BY <1>9, <3>1, <3>2, <3>3
    <3>6. squares[S] = x * x + q
      <4>1. squares[S] = square[f] + squares[S \ {f}]
        BY <1>5, <3>1 DEF AddsUp
      <4> QED
        BY <1>3, <3>2, <3>3, <4>1
    <3>7. squares[S] >= 0
      <4>1. x * x >= 0
        BY <3>4
      <4> QED
        BY <3>4, <3>5, <3>6, <4>1
    <3>8. CASE f \in Labels[g]
      <4>1. Common(rest) = Common(S) \ {f} /\ f \in Common(S)
        BY <3>1, <3>2, <3>8
      <4>2. sum[Common(S)] = x + d
        <5>1. sum[Common(S)] = t[f] + sum[Common(S) \ {f}]
          BY <1>4, <4>1 DEF AddsUp
        <5> QED
          BY <3>3, <4>1, <5>1
      <4>3. Cardinality(Common(S)) = n + 1
        <5>1. Common(S) = Common(rest) \cup {f} /\ f \notin Common(rest)
          BY <4>1
        <5>2. PICK C : C = Common(rest)
          OBVIOUS
        <5>3. IsFiniteSet(C) /\ f \notin C
          BY <1>7, <5>1, <5>2
        <5>4. Cardinality(C \cup {f}) = Cardinality(C) + 1
          BY <5>3, FS_AddElement
        <5> QED
          BY <3>3, <5>1, <5>2, <5>4
      <4>4. (x + d) * (x + d) <= (n + 1) * (x * x + q)
        BY <3>4, <3>5, OneMoreWeight
      <4> QED
        BY <3>6, <3>7, <4>2, <4>3, <4>4
    <3>9. CASE f \notin Labels[g]
      <4>1. Common(rest) = Common(S)
        BY <3>2, <3>9
      <4>2. n * q <= n * (x * x + q)
        <5>1. x * x >= 0
          BY <3>4
        <5>2. n * (x * x) >= 0
          BY <3>4, <5>1
        <5>3. n * (x * x + q) = n * (x * x) + n * q
          BY <3>4
        <5> QED
          BY <3>4, <5>2, <5>3
      <4>3. d * d <= n * (x * x + q)
        BY <3>4, <3>5, <4>2
      <4> QED
        BY <3>3, <3>6, <3>7, <4>1, <4>3
    <3> QED
      BY <3>8, <3>9
  <2> QED
    BY <2>1, <2>2
<1>10. Features \in P
  <2> HIDE DEF P
  <2> QED
    BY <1>1, <1>8, <1>9, OneByOne
<1>11. Common(Features) = Labels[g]
  BY <1>1
<1>12. squares[Features] \in Int /\ sum[Labels[g]] \in Int /\ Cardinality(Labels[g]) \in Nat
  BY <1>7, <1>11
<1>13. sum[Labels[g]] * sum[Labels[g]] <= Cardinality(Labels[g]) * squares[Features]
  BY <1>10, <1>11
<1> QED
  BY <1>6, <1>12, <1>13

\* So a cosine is never above 1, and a whole percent is found for each.
LEMMA CosinesAreWhole ==
    ASSUME NEW t \in [Features -> Int], NEW g \in Games
    PROVE  Content(t, g) \in 0 .. 100
<1>1. PICK dot, norm : dot = Dot(t, g) /\ norm = SquaredMagnitude(t) * Cardinality(Labels[g])
  OBVIOUS
<1>2. dot \in Int /\ norm \in Int /\ dot * dot <= norm
  BY <1>1, CauchySchwarz, LabelsAssumption, FS_Subset, FS_CardinalityType
<1> DEFINE Reaches(c) == c * c * norm >= 10000 * dot * dot
<1>3. Content(t, g) = IF dot <= 0 THEN 0 ELSE CHOOSE c \in 1 .. 100 : Reaches(c) /\ ~ Reaches(c - 1)
  BY <1>1 DEF Content
<1>4. CASE dot <= 0
  BY <1>3, <1>4
<1>5. CASE dot > 0
  <2>1. Reaches(100)
    BY <1>2
  <2>2. ~ Reaches(0)
    <3>1. dot * dot > 0
      BY <1>2, <1>5
    <3> QED
      BY <1>2, <3>1
  <2>3. PICK c \in {m \in 1 .. 100 : Reaches(m)} : \A m \in {k \in 1 .. 100 : Reaches(k)} : c <= m
    <3>1. 100 \in {m \in 1 .. 100 : Reaches(m)}
      BY <2>1
    <3>2. {m \in 1 .. 100 : Reaches(m)} \in SUBSET Nat
      OBVIOUS
    <3> HIDE DEF Reaches
    <3> QED
      BY <3>1, <3>2, LeastNatural
  <2> HIDE DEF Reaches
  <2>4. ~ Reaches(c - 1)
    <3>1. CASE c = 1
      BY <2>2, <3>1
    <3>2. CASE c # 1
      <4>1. c - 1 \in 1 .. 100 /\ ~ (c <= c - 1)
        BY <3>2
      <4> QED
        BY <2>3, <4>1
    <3> QED
      BY <3>1, <3>2
  <2>5. \E k \in 1 .. 100 : Reaches(k) /\ ~ Reaches(k - 1)
    BY <2>3, <2>4
  <2>6. PICK k : k = (CHOOSE m \in 1 .. 100 : Reaches(m) /\ ~ Reaches(m - 1))
    OBVIOUS
  <2>7. k \in 1 .. 100
    BY <2>5, <2>6, Zenon
  <2> QED
    BY <1>2, <1>3, <1>5, <2>6, <2>7
<1> QED
  BY <1>2, <1>4, <1>5

-----------------------------------------------------------------------------
(* The first of an order.                                                  *)

LEMMA MinOfTwo == ASSUME NEW m \in Nat, NEW n \in Nat
                  PROVE  Min({m, n}) = IF m <= n THEN m ELSE n
<1>1. PICK k \in {m, n} : \A l \in {m, n} : k <= l
  BY DEF Min
<1>2. Min({m, n}) \in {m, n} /\ \A l \in {m, n} : Min({m, n}) <= l
  BY <1>1 DEF Min
<1> QED
  BY <1>2

\* above[g] is what comes before g in a strict total order of S.
Orders(above, S) ==
    /\ above \in [S -> SUBSET S]
    /\ \A g \in S : g \notin above[g]
    /\ \A g, h \in S : h \in above[g] => above[h] \subseteq above[g]
    /\ \A g, h \in S : g = h \/ g \in above[h] \/ h \in above[g]

\* The ranks of n elements are 0 to n - 1.
LEMMA RankTaken ==
    ASSUME NEW S, IsFiniteSet(S), NEW above, Orders(above, S), NEW n \in 0 .. Cardinality(S) - 1
    PROVE  \E g \in S : Cardinality(above[g]) = n
<1> DEFINE rank == [g \in S |-> Cardinality(above[g])]
           N == Cardinality(S)
<1>1. N \in Nat
  BY FS_CardinalityType
<1>2. ASSUME NEW g \in S PROVE IsFiniteSet(above[g]) /\ rank[g] \in 0 .. N - 1
  <2>1. above[g] \in SUBSET S /\ above[g] # S
    BY DEF Orders
  <2>2. IsFiniteSet(above[g]) /\ Cardinality(above[g]) <= N /\ Cardinality(above[g]) # N
    BY <2>1, FS_Subset
  <2>3. Cardinality(above[g]) \in Nat
    BY <2>2, FS_CardinalityType
  <2> QED
    BY <1>1, <2>2, <2>3
<1>3. ASSUME NEW g \in S, NEW h \in S, h \in above[g] PROVE rank[h] # rank[g]
  <2>1. above[h] \in SUBSET above[g] /\ above[h] # above[g]
    BY <1>3 DEF Orders
  <2> QED
    BY <2>1, <1>2, FS_Subset
<1>4. \A g, h \in S : rank[g] = rank[h] => g = h
  BY <1>3 DEF Orders
<1>5. rank \in Injection(S, 0 .. N - 1)
  <2>1. rank \in [S -> 0 .. N - 1]
    BY <1>2
  <2> HIDE DEF rank
  <2> QED
    BY <1>4, <2>1 DEF Injection, IsInjective
<1>6. IsFiniteSet(0 .. N - 1) /\ Cardinality(0 .. N - 1) = N
  BY <1>1, FS_Interval
<1>7. rank \in Surjection(S, 0 .. N - 1)
  <2> HIDE DEF rank
  <2> QED
    BY <1>5, <1>6, FS_Injection
<1>8. n \in 0 .. N - 1
  OBVIOUS
<1>9. PICK g \in S : rank[g] = n
  <2> HIDE DEF rank, N
  <2> QED
    BY <1>7, <1>8 DEF Surjection
<1> QED
  BY <1>9

\* s names the first n of S, or all of them if there are fewer.
First(s, n, S) ==
    /\ s \in Seq(S)
    /\ Len(s) = IF n <= Cardinality(S) THEN n ELSE Cardinality(S)
    /\ \A i, j \in DOMAIN s : s[i] = s[j] => i = j

\* Whoever comes before another has the lower rank, and only one has it.
LEMMA RanksOrder ==
    ASSUME NEW S, IsFiniteSet(S), NEW above, Orders(above, S), NEW g \in S, NEW h \in S
    PROVE  /\ Cardinality(above[g]) \in Nat /\ Cardinality(above[h]) \in Nat
           /\ Cardinality(above[g]) < Cardinality(above[h]) <=> g \in above[h]
<1>1. ASSUME NEW x \in S PROVE IsFiniteSet(above[x]) /\ Cardinality(above[x]) \in Nat
  <2>1. above[x] \in SUBSET S
    BY DEF Orders
  <2> QED
    BY <2>1, FS_Subset, FS_CardinalityType
<1>2. ASSUME NEW x \in S, NEW y \in S, x \in above[y] PROVE Cardinality(above[x]) < Cardinality(above[y])
  <2>1. above[x] \in SUBSET above[y] /\ above[x] # above[y]
    BY <1>2 DEF Orders
  <2>2. Cardinality(above[x]) <= Cardinality(above[y]) /\ Cardinality(above[x]) # Cardinality(above[y])
    BY <1>1, <2>1, FS_Subset
  <2> QED
    BY <1>1, <2>2
<1>3. g = h \/ g \in above[h] \/ h \in above[g]
  BY DEF Orders
<1>4. g \in above[h] => Cardinality(above[g]) < Cardinality(above[h])
  BY <1>2
<1>5. h \in above[g] => Cardinality(above[h]) < Cardinality(above[g])
  BY <1>2
<1> QED
  BY <1>1, <1>3, <1>4, <1>5

\* Each of s comes before those after it, and before whatever s leaves out.
BestFirst(s, above, S) ==
    /\ \A i, j \in DOMAIN s : i < j => s[i] \in above[s[j]]
    /\ \A g \in S : (\A i \in DOMAIN s : s[i] # g) => \A i \in DOMAIN s : s[i] \in above[g]

\* What Top returns, for an order of S.
LEMMA TopIsFirst ==
    ASSUME NEW S, IsFiniteSet(S), NEW above, Orders(above, S), NEW n \in Nat, NEW s,
           DOMAIN s = 1 .. Min({n, Cardinality(S)}), s = [i \in DOMAIN s |-> s[i]],
           \A i \in DOMAIN s : (\E g \in S : Cardinality(above[g]) = i - 1)
                                 => s[i] \in S /\ Cardinality(above[s[i]]) = i - 1
    PROVE  First(s, n, S) /\ BestFirst(s, above, S)
<1> DEFINE m == IF n <= Cardinality(S) THEN n ELSE Cardinality(S)
<1>1. Cardinality(S) \in Nat
  BY FS_CardinalityType
<1>2. m \in Nat /\ DOMAIN s = 1 .. m /\ m <= Cardinality(S)
  BY <1>1, MinOfTwo
<1>3. ASSUME NEW i \in 1 .. m PROVE s[i] \in S /\ Cardinality(above[s[i]]) = i - 1
  <2>1. i - 1 \in 0 .. Cardinality(S) - 1
    BY <1>1, <1>2
  <2>2. \E g \in S : Cardinality(above[g]) = i - 1
    BY <2>1, RankTaken
  <2> QED
    BY <2>2, <1>2
<1> HIDE DEF m
<1>4. s \in [1 .. m -> S]
  BY <1>2, <1>3
<1>5. s \in Seq(S) /\ Len(s) = m
  BY <1>2, <1>4
<1>6. ASSUME NEW i \in 1 .. m, NEW j \in 1 .. m, s[i] = s[j] PROVE i = j
  <2>1. i - 1 = j - 1
    BY <1>3, <1>6
  <2> QED
    BY <1>2, <2>1
<1>7. ASSUME NEW i \in 1 .. m, NEW j \in 1 .. m, i < j PROVE s[i] \in above[s[j]]
  <2>1. s[i] \in S /\ Cardinality(above[s[i]]) = i - 1 /\ s[j] \in S /\ Cardinality(above[s[j]]) = j - 1
    BY <1>3
  <2>2. Cardinality(above[s[i]]) < Cardinality(above[s[j]])
    BY <1>7, <2>1
  <2> QED
    BY <2>1, <2>2, RanksOrder
<1>8. ASSUME NEW g \in S, NEW i \in 1 .. m, \A k \in 1 .. m : s[k] # g PROVE s[i] \in above[g]
  <2>0. s[i] \in S /\ Cardinality(above[s[i]]) = i - 1
    BY <1>3
  <2>1. Cardinality(above[g]) \in Nat /\ Cardinality(above[s[i]]) = i - 1
    BY <2>0, RanksOrder
  <2>2. CASE Cardinality(above[g]) < m
    <3>1. PICK j \in 1 .. m : Cardinality(above[g]) = j - 1
      <4>1. Cardinality(above[g]) + 1 \in 1 .. m /\ Cardinality(above[g]) = (Cardinality(above[g]) + 1) - 1
        BY <1>2, <2>1, <2>2
      <4> QED
        BY <4>1
    <3>2. s[j] \in S /\ Cardinality(above[s[j]]) = j - 1 /\ s[j] # g
      BY <1>3, <1>8
    <3>3. ~ (Cardinality(above[g]) < Cardinality(above[s[j]])) /\ ~ (Cardinality(above[s[j]]) < Cardinality(above[g]))
      BY <3>1, <3>2
    <3>4. g \notin above[s[j]] /\ s[j] \notin above[g]
      BY <3>2, <3>3, RanksOrder
    <3> QED
      BY <3>2, <3>4 DEF Orders
  <2>3. CASE ~ (Cardinality(above[g]) < m)
    <3>1. Cardinality(above[s[i]]) < Cardinality(above[g])
      BY <1>2, <2>1, <2>3
    <3> QED
      BY <1>3, <3>1, RanksOrder
  <2> QED
    BY <2>2, <2>3
<1>9. BestFirst(s, above, S)
  BY <1>2, <1>7, <1>8 DEF BestFirst
<1> QED
  BY <1>2, <1>5, <1>6, <1>9 DEF First, m

\* So many elements are among the first.
LEMMA FirstRange ==
    ASSUME NEW S, IsFiniteSet(S), NEW n \in Nat, NEW s, First(s, n, S)
    PROVE  /\ Range(s) \subseteq S
           /\ Cardinality(Range(s)) = IF n <= Cardinality(S) THEN n ELSE Cardinality(S)
           /\ Cardinality(S) <= n => Range(s) = S
<1> DEFINE m == Len(s)
<1>1. m \in Nat /\ DOMAIN s = 1 .. m /\ s \in [1 .. m -> S]
  BY DEF First
<1>2. Range(s) = {s[i] : i \in 1 .. m}
  BY <1>1 DEF Range
<1>3. Range(s) \subseteq S
  BY <1>1, <1>2
<1>4. Cardinality(Range(s)) = m
  <2>1. s \in Injection(1 .. m, Range(s))
    BY <1>1, <1>2 DEF First, Injection, IsInjective
  <2>2. s \in Surjection(1 .. m, Range(s))
    BY <1>1, <1>2 DEF Surjection
  <2>3. IsFiniteSet(1 .. m) /\ Cardinality(1 .. m) = m
    <3> HIDE DEF m
    <3> QED
      BY <1>1, FS_Interval
  <2>4. Cardinality(Range(s)) = Cardinality(1 .. m)
    BY <2>1, <2>2, <2>3, FS_Surjection
  <2> QED
    BY <2>3, <2>4
<1>5. Cardinality(S) <= n => Cardinality(Range(s)) = Cardinality(S)
  <2>1. Cardinality(S) \in Nat
    BY FS_CardinalityType
  <2> QED
    BY <1>4, <2>1 DEF First
<1>6. Range(s) \in SUBSET S
  BY <1>3
<1> QED
  BY <1>3, <1>4, <1>5, <1>6, FS_Subset DEF First

-----------------------------------------------------------------------------
(* The ranking policy.                                                     *)

LEMMA SoldType == ASSUME NEW R, NEW g PROVE Sold(R, g) \in Nat
<1>1. {u \in Users : <<u, g>> \in R} \in SUBSET Users
  OBVIOUS
<1> QED
  BY <1>1, GamesAssumption, FS_Subset, FS_CardinalityType DEF Sold

\* Popularity, with the ids to break ties, orders any games.
LEMMA PopularityOrders ==
    ASSUME NEW S \in SUBSET Games, NEW R
    PROVE  Orders([g \in S |-> {h \in S : MorePopular(R, h, g)}], S)
<1>1. \A g \in S : g \in Nat /\ Sold(R, g) \in Nat
  BY SoldType, GamesAssumption
<1> QED
  BY <1>1 DEF Orders, MorePopular

\* TopSellersProvider.rank
LEMMA TopSellersFirst ==
    ASSUME NEW candidates \in SUBSET Games, NEW owned, NEW R, NEW n \in Nat
    PROVE  First(TopSellers(candidates, owned, R, n), n, candidates \ owned)
<1> DEFINE S == candidates \ owned
           above == [g \in S |-> {h \in S : MorePopular(R, h, g)}]
           best(i) == CHOOSE g \in S : Cardinality({h \in S : MorePopular(R, h, g)}) = i - 1
<1> PICK s : s = TopSellers(candidates, owned, R, n)
  OBVIOUS
<1>1. S \in SUBSET Games /\ IsFiniteSet(S)
  BY GamesAssumption, FS_Subset
<1>2. Orders(above, S)
  <2> HIDE DEF S
  <2> QED
    BY <1>1, PopularityOrders
<1>3. s = [i \in 1 .. Min({n, Cardinality(S)}) |-> best(i)]
  BY DEF TopSellers, Top
<1>4. ASSUME NEW i \in DOMAIN s, \E g \in S : Cardinality(above[g]) = i - 1
      PROVE  s[i] \in S /\ Cardinality(above[s[i]]) = i - 1
  <2>1. s[i] = best(i)
    BY <1>3
  <2>2. \E g \in S : Cardinality({h \in S : MorePopular(R, h, g)}) = i - 1
    BY <1>4
  <2> QED
    BY <2>1, <2>2
<1>5. DOMAIN s = 1 .. Min({n, Cardinality(S)}) /\ s = [i \in DOMAIN s |-> s[i]]
  <2> HIDE DEF best, S
  <2> QED
    BY <1>3
<1> HIDE DEF S, above
<1>6. First(s, n, S)
  BY <1>1, <1>2, <1>4, <1>5, TopIsFirst
<1> QED
  BY <1>6 DEF S

\* The candidates are the most popular of the published games, and all of them if the limit allows.
LEMMA RecommendableFirst ==
    ASSUME NEW P \in SUBSET Games, NEW R, NEW n \in Nat
    PROVE  /\ Recommendable(P, R, n) \subseteq P
           /\ Cardinality(Recommendable(P, R, n)) = IF n <= Cardinality(P) THEN n ELSE Cardinality(P)
           /\ Cardinality(P) <= n => Recommendable(P, R, n) = P
<1> DEFINE s == TopSellers(P, {}, R, n)
<1>1. P \ {} = P /\ IsFiniteSet(P)
  BY GamesAssumption, FS_Subset
<1>2. First(s, n, P)
  BY <1>1, TopSellersFirst
<1>3. Recommendable(P, R, n) = Range(s)
  BY <1>1 DEF Recommendable, TopSellers
<1> HIDE DEF s
<1> QED
  BY <1>1, <1>2, <1>3, FirstRange

\* a/b >= c/d and c/d >= e/f give a/b >= e/f, and the last is strict if one of the others is.
LEMMA Fractions ==
    ASSUME NEW a \in Nat, NEW c \in Nat, NEW e \in Nat,
           NEW b \in Nat \ {0}, NEW d \in Nat \ {0}, NEW f \in Nat \ {0},
           a * d >= c * b, c * f >= e * d
    PROVE  /\ a * f >= e * b
           /\ a * d > c * b \/ c * f > e * d => a * f > e * b
<1>1. /\ a * f \in Nat /\ e * b \in Nat /\ a * d \in Nat /\ c * b \in Nat /\ c * f \in Nat /\ e * d \in Nat
  OBVIOUS
<1>2. ASSUME NEW x \in Nat, NEW y \in Nat, NEW k \in Nat \ {0}
      PROVE  (x >= y <=> x * k >= y * k) /\ (x > y <=> x * k > y * k)
  OBVIOUS
<1>3. (a * d) * f >= (c * b) * f /\ (c * f) * b >= (e * d) * b
  BY <1>1, <1>2
<1>4. /\ a * d > c * b => (a * d) * f > (c * b) * f
      /\ c * f > e * d => (c * f) * b > (e * d) * b
  BY <1>1, <1>2
<1>5. (a * d) * f = (a * f) * d /\ (c * b) * f = (c * f) * b /\ (e * d) * b = (e * b) * d
  OBVIOUS
<1>6. (a * f) * d \in Nat /\ (e * b) * d \in Nat /\ (c * f) * b \in Nat
  BY <1>1
<1>7. (a * f) * d >= (e * b) * d /\ (a * d > c * b \/ c * f > e * d => (a * f) * d > (e * b) * d)
  BY <1>3, <1>4, <1>5, <1>6
<1> QED
  BY <1>1, <1>2, <1>7

\* Cosines, with popularity to break ties, order the games that share a label with the subject.
LEMMA NearnessOrders ==
    ASSUME NEW subject \in Games, NEW S \in SUBSET Games, NEW R,
           \A g \in S : Labels[g] \cap Labels[subject] # {}
    PROVE  Orders([g \in S |-> {h \in S : \/ Nearer(subject, h, g)
                                          \/ ~ Nearer(subject, g, h) /\ MorePopular(R, h, g)}], S)
<1> DEFINE shared(g) == Cardinality(Labels[subject] \cap Labels[g])
           square(g) == shared(g) * shared(g)
           size(g) == Cardinality(Labels[g])
           AtLeast(g, h) == square(g) * size(h) >= square(h) * size(g)
           Before(h, g) == Nearer(subject, h, g) \/ (~ Nearer(subject, g, h) /\ MorePopular(R, h, g))
<1>1. ASSUME NEW g \in S PROVE square(g) \in Nat /\ size(g) \in Nat \ {0}
  <2>1. Labels[g] \in SUBSET Features /\ Labels[g] # {}
    BY LabelsAssumption
  <2>2. IsFiniteSet(Labels[g]) /\ IsFiniteSet(Labels[subject] \cap Labels[g])
    BY <2>1, LabelsAssumption, FS_Subset, FS_Intersection
  <2>3. size(g) \in Nat /\ shared(g) \in Nat /\ size(g) # 0
    BY <2>1, <2>2, FS_CardinalityType, FS_EmptySet
  <2> HIDE DEF shared, size
  <2> QED
    BY <2>3
<1>2. ASSUME NEW g \in S, NEW h \in S
      PROVE  /\ square(g) * size(h) \in Nat
             /\ Nearer(subject, g, h) <=> ~ AtLeast(h, g)
  <2>1. square(g) * size(h) \in Nat /\ square(h) * size(g) \in Nat
    <3> HIDE DEF square, size
    <3> QED
      BY <1>1
  <2>2. Nearer(subject, g, h) <=> square(g) * size(h) > square(h) * size(g)
    BY DEF Nearer
  <2> HIDE DEF square, size
  <2> QED
    BY <2>1, <2>2
<1> HIDE DEF square, size, shared
<1>3. ASSUME NEW g \in S, NEW h \in S, NEW k \in S, AtLeast(g, h), AtLeast(h, k)
      PROVE  /\ AtLeast(g, k)
             /\ ~ AtLeast(h, g) \/ ~ AtLeast(k, h) => ~ AtLeast(k, g)
  <2>1. /\ square(g) * size(k) >= square(k) * size(g)
        /\ square(g) * size(h) > square(h) * size(g) \/ square(h) * size(k) > square(k) * size(h)
              => square(g) * size(k) > square(k) * size(g)
    BY <1>1, <1>3, Fractions
  <2> QED
    BY <2>1, <1>2
<1>4. \A g, h \in S : AtLeast(g, h) \/ AtLeast(h, g)
  BY <1>2
<1>5. \A g, h \in S : Before(g, h) <=> ~ AtLeast(h, g) \/ (AtLeast(g, h) /\ MorePopular(R, g, h))
  BY <1>2
<1>6. /\ \A g \in S : ~ MorePopular(R, g, g)
      /\ \A g, h \in S : g = h \/ MorePopular(R, g, h) \/ MorePopular(R, h, g)
      /\ \A g, h, k \in S : MorePopular(R, g, h) /\ MorePopular(R, h, k) => MorePopular(R, g, k)
  <2>1. \A g \in S : g \in Nat /\ Sold(R, g) \in Nat
    BY SoldType, GamesAssumption
  <2> QED
    BY <2>1 DEF MorePopular
<1> HIDE DEF AtLeast, Before
<1>7. /\ \A g \in S : ~ Before(g, g)
      /\ \A g, h \in S : g = h \/ Before(g, h) \/ Before(h, g)
  BY <1>4, <1>5, <1>6
<1>8. ASSUME NEW g \in S, NEW h \in S, NEW k \in S, Before(g, h), Before(h, k) PROVE Before(g, k)
  <2>1. AtLeast(g, h) /\ AtLeast(h, k)
    BY <1>4, <1>5, <1>8
  <2>2. AtLeast(g, k) /\ (~ AtLeast(h, g) \/ ~ AtLeast(k, h) => ~ AtLeast(k, g))
    BY <1>3, <2>1
  <2> QED
    BY <1>5, <1>6, <1>8, <2>2
<1>9. Orders([g \in S |-> {h \in S : Before(h, g)}], S)
  BY <1>7, <1>8 DEF Orders
<1> QED
  BY <1>9 DEF Before

\* The games that ListSimilarGamesUseCase ranks.
Related(subject, candidates) == {g \in candidates \ {subject} : Labels[g] \cap Labels[subject] # {}}

LEMMA SimilarFirst ==
    ASSUME NEW subject \in Games, NEW candidates \in SUBSET Games, NEW R, NEW n \in Nat
    PROVE  First(Similar(subject, candidates, R, n), n, Related(subject, candidates))
<1> DEFINE S == Related(subject, candidates)
           above == [g \in S |-> {h \in S : \/ Nearer(subject, h, g)
                                            \/ ~ Nearer(subject, g, h) /\ MorePopular(R, h, g)}]
           best(i) == CHOOSE g \in S :
                         Cardinality({h \in S : \/ Nearer(subject, h, g)
                                                \/ ~ Nearer(subject, g, h) /\ MorePopular(R, h, g)}) = i - 1
<1> PICK s : s = Similar(subject, candidates, R, n)
  OBVIOUS
<1>1. S \in SUBSET Games /\ IsFiniteSet(S) /\ \A g \in S : Labels[g] \cap Labels[subject] # {}
  BY GamesAssumption, FS_Subset DEF Related
<1>2. Orders(above, S)
  <2> HIDE DEF S
  <2> QED
    BY <1>1, NearnessOrders
<1>3. s = [i \in 1 .. Min({n, Cardinality(S)}) |-> best(i)]
  BY DEF Similar, Related, Top
<1> HIDE DEF S
<1>4. ASSUME NEW i \in DOMAIN s, \E g \in S : Cardinality(above[g]) = i - 1
      PROVE  s[i] \in S /\ Cardinality(above[s[i]]) = i - 1
  <2>1. s[i] = best(i)
    BY <1>3
  <2>2. \E g \in S : Cardinality({h \in S : \/ Nearer(subject, h, g)
                                            \/ ~ Nearer(subject, g, h) /\ MorePopular(R, h, g)}) = i - 1
    BY <1>4
  <2> QED
    BY <2>1, <2>2
<1>5. DOMAIN s = 1 .. Min({n, Cardinality(S)}) /\ s = [i \in DOMAIN s |-> s[i]]
  <2> HIDE DEF best
  <2> QED
    BY <1>3
<1> HIDE DEF above
<1>6. First(s, n, S)
  BY <1>1, <1>2, <1>4, <1>5, TopIsFirst
<1> QED
  BY <1>6 DEF S

\* The list of a user.
ListOK(stored) ==
    /\ stored \in Seq(Recommendation)
    /\ Len(stored) <= ListLength
    /\ \A i, j \in DOMAIN stored : stored[i].game = stored[j].game => i = j

\* Items of different games, by score and popularity.
LEMMA ScoreOrders ==
    ASSUME NEW S, \A x \in S : x.game \in Games /\ Score(x) \in Nat,
           \A x, y \in S : x.game = y.game => x = y, NEW R
    PROVE  Orders([y \in S |-> {x \in S : \/ Score(x) > Score(y)
                                          \/ Score(x) = Score(y) /\ MorePopular(R, x.game, y.game)}], S)
<1>1. \A x \in S : x.game \in Nat /\ Sold(R, x.game) \in Nat
  BY SoldType, GamesAssumption
<1> QED
  BY <1>1 DEF Orders, MorePopular

\* What HybridRanker.rank sorts, and by what.
Worthy(t, owned, candidates, counts) ==
    {x \in {ScoredGame(t, g, counts[g]) : g \in candidates \ owned} : Score(x) > 0}

Better(R, x, y) == \/ Score(x) > Score(y)
                   \/ Score(x) = Score(y) /\ MorePopular(R, x.game, y.game)

BetterThan(R, S) == [y \in S |-> {x \in S : Better(R, x, y)}]

Listed(s) == [i \in DOMAIN s |-> [game |-> s[i].game, source |-> Source(s[i].content, s[i].collaborative)]]

LEMMA WorthyItems ==
    ASSUME NEW t \in [Features -> Int], NEW owned, NEW candidates \in SUBSET Games,
           NEW counts \in [Games -> Nat]
    PROVE  /\ IsFiniteSet(Worthy(t, owned, candidates, counts))
           /\ \A x \in Worthy(t, owned, candidates, counts) :
                 /\ x.game \in candidates \ owned
                 /\ x = ScoredGame(t, x.game, counts[x.game])
                 /\ Score(x) \in Nat
<1> DEFINE C == candidates \ owned
           item == [g \in C |-> ScoredGame(t, g, counts[g])]
<1>1. ASSUME NEW x \in Worthy(t, owned, candidates, counts)
      PROVE  x.game \in C /\ x = ScoredGame(t, x.game, counts[x.game]) /\ Score(x) \in Nat
  <2>1. PICK g \in C : x = ScoredGame(t, g, counts[g])
    BY DEF Worthy
  <2>2. Content(t, g) \in Nat /\ counts[g] \in Nat /\ x.game = g
    BY <2>1, CosinesAreWhole DEF ScoredGame
  <2>3. Collaborative(counts[g]) \in Nat
    BY <2>2 DEF Collaborative
  <2>4. Score(x) = 65 * Content(t, g) + 35 * Collaborative(counts[g])
    BY <2>1 DEF Score, ScoredGame, Blend
  <2> QED
    BY <2>1, <2>2, <2>3, <2>4
<1>2. IsFiniteSet(Worthy(t, owned, candidates, counts))
  <2>1. C \in SUBSET Games /\ IsFiniteSet(C)
    BY GamesAssumption, FS_Subset
  <2>2. item \in Surjection(C, {item[g] : g \in C})
    BY DEF Surjection
  <2>3. IsFiniteSet({item[g] : g \in C})
    <3> HIDE DEF item, C
    <3> QED
      BY <2>1, <2>2, FS_Surjection
  <2>4. Worthy(t, owned, candidates, counts) \in SUBSET {item[g] : g \in C}
    BY DEF Worthy
  <2> QED
    BY <2>3, <2>4, FS_Subset
<1> QED
  BY <1>1, <1>2

LEMMA RankedIsTop ==
    ASSUME NEW t \in [Features -> Int], NEW owned, NEW candidates \in SUBSET Games,
           NEW counts \in [Games -> Nat], NEW R, NEW n \in Nat
    PROVE  \E s : /\ First(s, n, Worthy(t, owned, candidates, counts))
                  /\ BestFirst(s, BetterThan(R, Worthy(t, owned, candidates, counts)),
                               Worthy(t, owned, candidates, counts))
                  /\ Ranked(t, owned, candidates, counts, R, n) = Listed(s)
<1> DEFINE S == Worthy(t, owned, candidates, counts)
           above == BetterThan(R, S)
           choice(i) == CHOOSE y \in S :
                           Cardinality({x \in S : \/ Score(x) > Score(y)
                                                  \/ Score(x) = Score(y) /\ MorePopular(R, x.game, y.game)}) = i - 1
<1>1. PICK s : s = [i \in 1 .. Min({n, Cardinality(S)}) |-> choice(i)]
  OBVIOUS
<1>2. Ranked(t, owned, candidates, counts, R, n) = Listed(s)
  BY <1>1 DEF Ranked, Top, Worthy, Listed
<1>3. /\ IsFiniteSet(S)
      /\ \A x \in S : x.game \in Games /\ Score(x) \in Nat
      /\ \A x, y \in S : x.game = y.game => x = y
  <2>1. IsFiniteSet(S) /\ \A x \in S : /\ x.game \in candidates \ owned
                                      /\ x = ScoredGame(t, x.game, counts[x.game])
                                      /\ Score(x) \in Nat
    <3> USE WorthyItems
    <3>1. IsFiniteSet(S)
      OBVIOUS
    <3>2. ASSUME NEW x \in S
          PROVE  x.game \in candidates \ owned /\ x = ScoredGame(t, x.game, counts[x.game]) /\ Score(x) \in Nat
      <4> HIDE DEF S
      <4> QED
        BY DEF S
    <3> QED
      BY <3>1, <3>2
  <2> HIDE DEF S
  <2>2. \A x, y \in S : x.game = y.game => x = y
    BY <2>1
  <2> QED
    BY <2>1, <2>2
<1> HIDE DEF S
<1>4. Orders(above, S)
  BY <1>3, ScoreOrders DEF BetterThan, Better
<1>5. ASSUME NEW i \in DOMAIN s, \E y \in S : Cardinality(above[y]) = i - 1
      PROVE  s[i] \in S /\ Cardinality(above[s[i]]) = i - 1
  <2>1. s[i] = choice(i)
    BY <1>1
  <2>2. \E y \in S : Cardinality({x \in S : \/ Score(x) > Score(y)
                                            \/ Score(x) = Score(y) /\ MorePopular(R, x.game, y.game)}) = i - 1
    BY <1>5 DEF BetterThan, Better
  <2>3. choice(i) \in S /\ Cardinality({x \in S :
                              \/ Score(x) > Score(choice(i))
                              \/ Score(x) = Score(choice(i)) /\ MorePopular(R, x.game, choice(i).game)}) = i - 1
    BY <2>2
  <2> HIDE DEF choice
  <2> QED
    BY <2>1, <2>3 DEF BetterThan, Better
<1>6. First(s, n, S) /\ BestFirst(s, above, S)
  <2> HIDE DEF choice, above
  <2>1. DOMAIN s = 1 .. Min({n, Cardinality(S)}) /\ s = [i \in DOMAIN s |-> s[i]]
    BY <1>1
  <2> QED
    BY <1>3, <1>4, <1>5, <2>1, TopIsFirst
<1> QED
  BY <1>2, <1>6 DEF S

\* HybridRanker.rank
LEMMA RankedFits ==
    ASSUME NEW t \in [Features -> Int], NEW owned, NEW candidates \in SUBSET Games,
           NEW counts \in [Games -> Nat], NEW R
    PROVE  ListOK(Ranked(t, owned, candidates, counts, R, ListLength))
<1> DEFINE S == Worthy(t, owned, candidates, counts)
<1>1. ListLength \in Nat
  BY RequestsAssumption
<1>2. IsFiniteSet(S) /\ \A x \in S : x.game \in Games /\ x = ScoredGame(t, x.game, counts[x.game])
  BY WorthyItems
<1>3. PICK s : First(s, ListLength, S) /\ Ranked(t, owned, candidates, counts, R, ListLength) = Listed(s)
  BY <1>1, RankedIsTop
<1> HIDE DEF S
<1>4. \A x, y \in S : x.game = y.game => x = y
  BY <1>2
<1>5. First(s, ListLength, S)
  BY <1>3
<1> DEFINE stored == [i \in DOMAIN s |-> [game |-> s[i].game, source |-> Source(s[i].content, s[i].collaborative)]]
<1>6. Ranked(t, owned, candidates, counts, R, ListLength) = stored
  BY <1>3 DEF Listed
<1>7. Len(s) \in Nat /\ DOMAIN s = 1 .. Len(s) /\ Len(s) <= ListLength /\ \A i \in DOMAIN s : s[i] \in S
  <2>1. s \in Seq(S) /\ Cardinality(S) \in Nat
    BY <1>2, <1>5, FS_CardinalityType DEF First
  <2>2. Len(s) = IF ListLength <= Cardinality(S) THEN ListLength ELSE Cardinality(S)
    BY <1>5 DEF First
  <2> QED
    BY <1>1, <2>1, <2>2
<1>8. \A i \in 1 .. Len(s) : stored[i] \in Recommendation /\ stored[i].game = s[i].game
  BY <1>2, <1>7 DEF Source, Recommendation
<1>9. ASSUME NEW i \in DOMAIN s, NEW j \in DOMAIN s, s[i].game = s[j].game PROVE i = j
  <2>1. s[i] = s[j]
    BY <1>4, <1>7, <1>9
  <2> QED
    BY <1>5, <2>1 DEF First
<1>10. stored \in [1 .. Len(s) -> Recommendation]
  <2>1. stored = [i \in 1 .. Len(s) |-> stored[i]]
    BY <1>7
  <2> HIDE DEF stored
  <2> QED
    BY <1>8, <2>1
<1> HIDE DEF stored
<1>11. stored \in Seq(Recommendation) /\ Len(stored) = Len(s) /\ DOMAIN stored = DOMAIN s
  BY <1>7, <1>10
<1> QED
  BY <1>6, <1>7, <1>8, <1>9, <1>11 DEF ListOK

\* The best of what a user could be offered, best first: stored lists games that are candidates, not
\* owned and worth something; in the order of their score and, among equals, of popularity and id; and
\* it leaves one out only if it is full and everything in it comes before.
IsBest(stored, t, owned, candidates, counts, R) ==
    LET worth(g) == Score(ScoredGame(t, g, counts[g]))
        Ahead(g, h) == worth(g) > worth(h) \/ (worth(g) = worth(h) /\ MorePopular(R, g, h))
    IN  /\ \A i \in DOMAIN stored : stored[i].game \in candidates \ owned /\ worth(stored[i].game) > 0
        /\ \A i, j \in DOMAIN stored : i < j => Ahead(stored[i].game, stored[j].game)
        /\ \A g \in candidates \ owned :
              (worth(g) > 0 /\ \A i \in DOMAIN stored : stored[i].game # g)
                => Len(stored) = ListLength /\ \A i \in DOMAIN stored : Ahead(stored[i].game, g)

LEMMA RankedIsBest ==
    ASSUME NEW t \in [Features -> Int], NEW owned, NEW candidates \in SUBSET Games,
           NEW counts \in [Games -> Nat], NEW R
    PROVE  IsBest(Ranked(t, owned, candidates, counts, R, ListLength), t, owned, candidates, counts, R)
<1> DEFINE S == Worthy(t, owned, candidates, counts)
           item(g) == ScoredGame(t, g, counts[g])
           stored == Ranked(t, owned, candidates, counts, R, ListLength)
<1>1. ListLength \in Nat
  BY RequestsAssumption
<1>2. PICK s : First(s, ListLength, S) /\ BestFirst(s, BetterThan(R, S), S) /\ stored = Listed(s)
  BY <1>1, RankedIsTop
<1>3. IsFiniteSet(S) /\ \A x \in S : x.game \in candidates \ owned /\ x = item(x.game)
  BY WorthyItems
<1>4. \A g \in candidates \ owned : Score(item(g)) > 0 => item(g) \in S /\ item(g).game = g
  BY DEF Worthy, ScoredGame
<1>5. \A x \in S : Score(x) > 0
  BY DEF Worthy
<1> HIDE DEF S, item, stored
<1>6. DOMAIN stored = DOMAIN s /\ \A i \in DOMAIN s : stored[i].game = s[i].game
  BY <1>2 DEF Listed
<1>7. \A i \in DOMAIN s : s[i] \in S
  BY <1>2 DEF First
<1>8. \A x, y \in S : x \in BetterThan(R, S)[y] => Better(R, x, y)
  BY DEF BetterThan
<1>9. \A i \in DOMAIN s : s[i] = item(stored[i].game)
  BY <1>3, <1>6, <1>7
<1>10. \A i \in DOMAIN stored : stored[i].game \in candidates \ owned /\ Score(item(stored[i].game)) > 0
  BY <1>3, <1>5, <1>6, <1>7, <1>9
<1>11. \A i, j \in DOMAIN stored : i < j => Better(R, item(stored[i].game), item(stored[j].game))
  BY <1>2, <1>6, <1>7, <1>8, <1>9 DEF BestFirst
<1>12. ASSUME NEW g \in candidates \ owned, Score(item(g)) > 0, \A i \in DOMAIN stored : stored[i].game # g
       PROVE  Len(stored) = ListLength /\ \A i \in DOMAIN stored : Better(R, item(stored[i].game), item(g))
  <2>1. item(g) \in S /\ \A i \in DOMAIN s : s[i] # item(g)
    BY <1>4, <1>6, <1>12
  <2>2. \A i \in DOMAIN stored : Better(R, item(stored[i].game), item(g))
    BY <1>2, <1>6, <1>7, <1>8, <1>9, <2>1 DEF BestFirst
  <2>3. Range(s) # S
    BY <2>1 DEF Range
  <2>4. Cardinality(S) \in Nat /\ ~ (Cardinality(S) <= ListLength)
    BY <1>1, <1>2, <1>3, <2>3, FirstRange, FS_CardinalityType
  <2>5. Len(s) = ListLength
    BY <1>1, <1>2, <2>4 DEF First
  <2>6. Len(stored) = Len(s)
    BY <1>2, <1>6 DEF First, Listed
  <2> QED
    BY <2>2, <2>5, <2>6
<1>13. \A g \in Games : item(g).game = g
  BY DEF item, ScoredGame
<1>14. \A i \in DOMAIN stored : stored[i].game \in Games
  BY <1>10
<1>15. \A g, h \in Games : Better(R, item(g), item(h))
                          <=> \/ Score(item(g)) > Score(item(h))
                              \/ Score(item(g)) = Score(item(h)) /\ MorePopular(R, g, h)
  BY <1>13 DEF Better
<1>16. IsBest(stored, t, owned, candidates, counts, R)
  <2> DEFINE worth(g) == Score(item(g))
             Ahead(g, h) == worth(g) > worth(h) \/ (worth(g) = worth(h) /\ MorePopular(R, g, h))
  <2>1. /\ \A i \in DOMAIN stored : stored[i].game \in candidates \ owned /\ worth(stored[i].game) > 0
        /\ \A i, j \in DOMAIN stored : i < j => Ahead(stored[i].game, stored[j].game)
        /\ \A g \in candidates \ owned :
              (worth(g) > 0 /\ \A i \in DOMAIN stored : stored[i].game # g)
                => Len(stored) = ListLength /\ \A i \in DOMAIN stored : Ahead(stored[i].game, g)
    BY <1>10, <1>11, <1>12, <1>14, <1>15
  <2> QED
    BY <2>1 DEF IsBest, item
<1> QED
  BY <1>16 DEF stored

-----------------------------------------------------------------------------
(* The inductive invariant.                                                *)

Sources == {"CONTENT", "COLLAB", "HYBRID", "FALLBACK"}

\* What a client is told: games, no more than asked for, each once.
Fits(items, limit) ==
    /\ items \in Seq(Games)
    /\ Len(items) <= limit
    /\ \A i, j \in DOMAIN items : items[i] = items[j] => i = j

\* An entry answers the question its key asks.
EntryOK(k) ==
    cache[k] # NoEntry =>
        /\ cache[k].source \in Sources
        /\ Fits(cache[k].items, k[3])
        /\ k[1] = "similar" => k[2] \notin Range(cache[k].items)

Steps == {"idle", "cache", "list", "preference", "candidates", "similar", "store", "done"}

Request ==
    [pc : Steps, route : {"mine", "theirs", "similar"}, subject : Users \cup Games \cup {NoEntry},
     limit : Nat, keep : BOOLEAN, hit : BOOLEAN, began : SUBSET Games, owned : SUBSET Games,
     source : Sources, items : Seq(Games)]

\* The answer of a request that has one.
AnswerOK(r) ==
    /\ Fits(r.items, r.limit)
    /\ r.route = "similar" => r.subject \notin Range(r.items)
    /\ r.source = "FALLBACK" /\ r.route # "similar" /\ ~ r.hit => Range(r.items) \cap r.began = {}

\* A request in its place: its subject is one that its route is about and its key, if it uses the cache,
\* one of the keys; what it has read of a library includes what was there when it came in.
RequestOK(r) ==
    /\ r \in Request
    /\ r.pc # "idle" =>
          /\ r.limit \in Limits
          /\ IF r.route = "similar" THEN r.subject \in Subjects
             ELSE r.subject \in Users /\ r.began \subseteq Library(r.subject)
    /\ r.pc = "idle" => ~ r.keep
    /\ r.pc = "cache" \/ r.keep => <<r.route, r.subject, r.limit>> \in Keys
    /\ r.pc = "similar" => r.route = "similar"
    /\ r.pc \in {"list", "preference", "candidates"} => r.route # "similar"
    /\ r.pc = "candidates" => r.began \subseteq r.owned /\ r.owned \subseteq Library(r.subject)
    /\ r.pc = "store" => r.keep
    /\ r.pc \in {"store", "done"} => AnswerOK(r)

TablesOK ==
    /\ published \subseteq Games
    /\ rows \subseteq Users \X Games
    /\ taste \in [Users -> [Features -> Int]]
    /\ changes \in 0 .. MaxChanges

ListsOK ==
    /\ list = [u \in Users |-> list[u]]
    /\ \A u \in Users : ListOK(list[u])

CacheOK ==
    /\ cache = [k \in Keys |-> cache[k]]
    /\ \A k \in Keys : EntryOK(k)

RequestsOK ==
    /\ request = [c \in Clients |-> request[c]]
    /\ \A c \in Clients : RequestOK(request[c])

ServingInv == TablesOK /\ ListsOK /\ CacheOK /\ RequestsOK

LEMMA ServingInvMeans == ServingInv => TypeOK /\ AnswersFit
<1> SUFFICES ASSUME ServingInv PROVE TypeOK /\ AnswersFit
  OBVIOUS
<1>1. ASSUME NEW u \in Users
      PROVE  /\ Len(list[u]) <= ListLength
             /\ \A i, j \in DOMAIN list[u] :
                   list[u][i] \in Recommendation /\ (list[u][i].game = list[u][j].game => i = j)
  <2>1. ListOK(list[u])
    BY DEF ServingInv, ListsOK
  <2> QED
    BY <2>1 DEF ListOK
<1>2. ASSUME NEW c \in Clients
      PROVE  request[c].pc \in Steps /\ request[c].subject \in Users \cup Games \cup {NoEntry}
  BY DEF ServingInv, RequestsOK, RequestOK, Request
<1>3. DOMAIN cache = Keys /\ \A k \in Keys : cache[k] # NoEntry => Len(cache[k].items) <= k[3]
  BY DEF ServingInv, CacheOK, EntryOK, Fits
<1>4. TypeOK
  BY <1>1, <1>2, <1>3 DEF ServingInv, TablesOK, TypeOK, Steps
<1>5. ASSUME NEW c \in Clients, At(c, "done") PROVE AnswerOK(request[c])
  BY <1>5 DEF ServingInv, RequestsOK, RequestOK, At
<1> QED
  BY <1>4, <1>5 DEF AnswersFit, AnswerOK, Fits, Personal

LEMMA FinitePairs == ASSUME NEW R \in SUBSET (Users \X Games), NEW u, NEW owned
                     PROVE  CoPurchases(R, u, owned) \in [Games -> Nat]
<1>1. ASSUME NEW g \in Games
      PROVE  Cardinality({pair[2][1] : pair \in {p \in Joined(R, u, owned) : p[2][2] = g}}) \in Nat
  <2>1. {pair[2][1] : pair \in {p \in Joined(R, u, owned) : p[2][2] = g}} \in SUBSET Users
    BY DEF Joined
  <2> QED
    BY <2>1, GamesAssumption, FS_Subset, FS_CardinalityType
<1>2. Neighbours(R, u, owned) \in [Games -> Nat]
  BY <1>1 DEF Neighbours
<1> QED
  BY <1>2 DEF CoPurchases

LEMMA GeneratedFits == ASSUME TablesOK, NEW u \in Users PROVE ListOK(Generated(u))
<1> DEFINE owned == Owned(rows, u)
           candidates == Recommendable(published, rows, CatalogueLimit)
           counts == CoPurchases(rows, u, owned)
<1>1. CASE taste[u] = NoTaste
  <2>1. ListOK(<< >>)
    BY RequestsAssumption DEF ListOK
  <2> QED
    BY <1>1, <2>1 DEF Generated
<1>2. CASE taste[u] # NoTaste
  <2>1. candidates \in SUBSET Games
    BY RecommendableFirst, RequestsAssumption DEF TablesOK
  <2>2. counts \in [Games -> Nat] /\ taste[u] \in [Features -> Int]
    BY FinitePairs DEF TablesOK
  <2>3. Generated(u) = Ranked(taste[u], owned, candidates, counts, rows, ListLength)
    BY <1>2 DEF Generated
  <2> HIDE DEF owned, candidates, counts
  <2> QED
    BY <2>1, <2>2, <2>3, RankedFits
<1> QED
  BY <1>1, <1>2

LEMMA NoRequestOK == RequestOK(NoRequest)
<1>1. << >> \in Seq(Games)
  OBVIOUS
<1>2. NoRequest \in Request
  BY <1>1 DEF NoRequest, Request, Steps, Sources
<1> QED
  BY <1>2 DEF RequestOK, NoRequest

LEMMA ServingInitInv == Init => ServingInv
<1> SUFFICES ASSUME Init PROVE ServingInv
  OBVIOUS
<1>1. rows \subseteq Users \X Games /\ published = Games /\ changes = 0
  BY RequestsAssumption DEF Init
<1>2. ASSUME NEW u \in Users, NEW f \in Features
      PROVE  Weight.PURCHASE * Cardinality({g \in Owned(rows, u) : f \in Labels[g]}) \in Int
  <2>1. {g \in Owned(rows, u) : f \in Labels[g]} \in SUBSET Games
    BY DEF Owned
  <2>2. Cardinality({g \in Owned(rows, u) : f \in Labels[g]}) \in Nat
    BY <2>1, GamesAssumption, FS_Subset, FS_CardinalityType
  <2> QED
    BY <2>2 DEF Weight
<1>3. taste \in [Users -> [Features -> Int]]
  BY <1>2 DEF Init
<1>4. TablesOK
  BY <1>1, <1>3, RequestsAssumption DEF TablesOK
<1>5. ListsOK
  BY RequestsAssumption DEF Init, ListsOK, ListOK
<1>6. CacheOK
  BY DEF Init, CacheOK, EntryOK
<1>7. RequestsOK
  BY NoRequestOK DEF Init, RequestsOK
<1> QED
  BY <1>4, <1>5, <1>6, <1>7 DEF ServingInv

-----------------------------------------------------------------------------
(* What the requests run beside.                                           *)

\* Libraries only grow, so what was read of one stays in it.
LEMMA Beside ==
    ASSUME ServingInv, TablesOK', ListsOK', rows \subseteq rows', UNCHANGED <<cache, request>>
    PROVE  ServingInv'
<1>1. CacheOK'
  BY DEF ServingInv, CacheOK, EntryOK
<1>2. ASSUME NEW c \in Clients PROVE RequestOK(request[c])'
  <2>1. RequestOK(request[c]) /\ \A u : Library(u) \subseteq Library(u)'
    BY DEF ServingInv, RequestsOK, Library, Owned
  <2> QED
    BY <2>1 DEF RequestOK
<1>3. RequestsOK'
  BY <1>2 DEF ServingInv, RequestsOK
<1> QED
  BY <1>1, <1>3 DEF ServingInv

LEMMA TasteType == ASSUME TablesOK, NEW u \in Users, NEW g, NEW weight \in Int,
                          taste' = [taste EXCEPT ![u] = Plus(@, g, weight)]
                   PROVE  taste' \in [Users -> [Features -> Int]]
<1>1. Plus(taste[u], g, weight) \in [Features -> Int]
  BY DEF Plus, TablesOK
<1> QED
  BY <1>1 DEF TablesOK

LEMMA Changes == ASSUME TablesOK, Change PROVE changes' \in 0 .. MaxChanges
BY RequestsAssumption DEF TablesOK, Change

LEMMA PurchaseTables == ASSUME TablesOK, NEW u \in Users, NEW g \in Games, Purchase(u, g) PROVE TablesOK'
<1>1. Weight.PURCHASE \in Int
  BY DEF Weight
<1>2. taste' \in [Users -> [Features -> Int]]
  BY <1>1, TasteType DEF Purchase
<1>3. rows' \subseteq Users \X Games
  BY DEF TablesOK, Purchase
<1> QED
  BY <1>2, <1>3, Changes DEF TablesOK, Purchase

LEMMA ReviewTables == ASSUME TablesOK, NEW u \in Users, NEW g,
                             NEW kind \in {"REVIEW_LIKE", "REVIEW_DISLIKE"}, Review(u, g, kind)
                      PROVE  TablesOK'
<1>1. Weight[kind] \in Int
  BY DEF Weight
<1> QED
  BY <1>1, TasteType, Changes DEF TablesOK, Review

LEMMA EditTables == ASSUME TablesOK, NEW g \in Games, Edit(g) PROVE TablesOK'
BY Changes DEF TablesOK, Edit

LEMMA PurchaseInv == ASSUME ServingInv, NEW u \in Users, NEW g \in Games, Purchase(u, g) PROVE ServingInv'
BY PurchaseTables, Beside DEF Purchase, ServingInv, ListsOK

LEMMA ReviewInv == ASSUME ServingInv, NEW u \in Users, NEW g,
                          NEW kind \in {"REVIEW_LIKE", "REVIEW_DISLIKE"}, Review(u, g, kind)
                   PROVE  ServingInv'
BY ReviewTables, Beside DEF Review, ServingInv, ListsOK

LEMMA EditInv == ASSUME ServingInv, NEW g \in Games, Edit(g) PROVE ServingInv'
BY EditTables, Beside DEF Edit, ServingInv, ListsOK

LEMMA GenerateInv == ASSUME ServingInv, NEW u \in Users, Generate(u) PROVE ServingInv'
<1>1. TablesOK'
  BY DEF ServingInv, TablesOK, Generate
<1>2. ASSUME NEW v \in Users PROVE ListOK(list'[v])
  <2>1. ListOK(Generated(u))
    BY GeneratedFits DEF ServingInv
  <2>2. list'[v] = IF v = u THEN Generated(u) ELSE list[v]
    BY DEF Generate, ServingInv, ListsOK
  <2> QED
    BY <2>1, <2>2 DEF ServingInv, ListsOK
<1>3. list' = [v \in Users |-> list'[v]]
  BY DEF Generate, ServingInv, ListsOK
<1>4. ListsOK'
  BY <1>2, <1>3 DEF ListsOK
<1> QED
  BY <1>1, <1>4, Beside DEF Generate, ServingInv

-----------------------------------------------------------------------------
(* Requests.                                                               *)

\* A step of one request has only that one to answer for.
LEMMA OneRequest ==
    ASSUME ServingInv, NEW c \in Clients, NEW r, RequestOK(r), request' = [request EXCEPT ![c] = r],
           UNCHANGED Tables, CacheOK'
    PROVE  ServingInv'
<1>1. TablesOK' /\ ListsOK'
  BY DEF ServingInv, TablesOK, ListsOK, Tables
<1>2. ASSUME NEW v \in Clients PROVE RequestOK(request[v])'
  <2>1. PICK q : q = IF v = c THEN r ELSE request[v]
    OBVIOUS
  <2>2. RequestOK(q) /\ request'[v] = q
    BY <2>1 DEF ServingInv, RequestsOK
  <2>3. rows' = rows
    BY DEF Tables
  <2> QED
    BY <2>2, <2>3 DEF RequestOK, Library
<1>3. RequestsOK'
  BY <1>2 DEF ServingInv, RequestsOK
<1> QED
  BY <1>1, <1>3 DEF ServingInv

LEMMA CacheKept == ASSUME ServingInv, UNCHANGED cache PROVE CacheOK'
BY DEF ServingInv, CacheOK, EntryOK

LEMMA AskInv ==
    ASSUME ServingInv, NEW c \in Clients, NEW route, NEW subject, NEW limit \in Limits, NEW step,
           Ask(c, route, subject, limit, step),
           \/ route = "mine" /\ subject \in Actors /\ step = "cache"
           \/ route = "theirs" /\ subject \in Users /\ step = "list"
           \/ route = "similar" /\ subject \in Subjects /\ step = "cache"
    PROVE  ServingInv'
<1> DEFINE began == IF route = "similar" THEN {} ELSE Owned(rows, subject)
           r == [NoRequest EXCEPT !.pc = step, !.route = route, !.subject = subject, !.limit = limit,
                                  !.began = began]
<1>1. began \in SUBSET Games /\ limit \in Nat /\ subject \in Users \cup Games
  BY RequestsAssumption DEF Owned
<1>2. r \in Request
  <2>1. NoRequest \in Request /\ step \in Steps /\ route \in {"mine", "theirs", "similar"}
    BY NoRequestOK DEF RequestOK, Steps
  <2> HIDE DEF began
  <2> QED
    BY <1>1, <2>1 DEF Request
<1>3. <<route, subject, limit>> \in Keys \/ step = "list"
  BY DEF Keys
<1>4. RequestOK(r)
  BY <1>2, <1>3, RequestsAssumption DEF RequestOK, NoRequest, Library
<1> QED
  BY <1>4, OneRequest, CacheKept DEF Ask

LEMMA CacheHitInv == ASSUME ServingInv, NEW c \in Clients, CacheHit(c) PROVE ServingInv'
<1> DEFINE q == request[c]
           entry == cache[Key(c)]
           r == [q EXCEPT !.pc = "done", !.hit = TRUE, !.source = entry.source, !.items = entry.items]
<1>1. RequestOK(q) /\ q.pc = "cache"
  BY DEF ServingInv, RequestsOK, CacheHit, At
<1>2. Key(c) \in Keys /\ Key(c) = <<q.route, q.subject, q.limit>>
  BY <1>1 DEF RequestOK, Key
<1>3. /\ entry.source \in Sources
      /\ Fits(entry.items, q.limit)
      /\ q.route = "similar" => q.subject \notin Range(entry.items)
  <2>1. EntryOK(Key(c)) /\ entry # NoEntry
    BY <1>2 DEF ServingInv, CacheOK, CacheHit
  <2>2. PICK key : key = Key(c)
    OBVIOUS
  <2>3. key[1] = q.route /\ key[2] = q.subject /\ key[3] = q.limit
    BY <1>2, <2>2
  <2> QED
    BY <2>1, <2>2, <2>3 DEF EntryOK
<1> HIDE DEF entry
<1>4. r \in Request
  BY <1>1, <1>3 DEF RequestOK, Request, Steps, Fits
<1>5. AnswerOK(r)
  BY <1>1, <1>3 DEF AnswerOK, RequestOK, Request
<1>6. RequestOK(r)
  BY <1>1, <1>4, <1>5 DEF RequestOK, Request
<1>7. request' = [request EXCEPT ![c] = r]
  BY DEF CacheHit, ServingInv, RequestsOK, entry
<1> HIDE DEF r
<1> QED
  BY <1>6, <1>7, OneRequest, CacheKept DEF CacheHit

\* A request that goes on to the tables.
LEMMA MissInv ==
    ASSUME ServingInv, NEW c \in Clients, CacheMiss(c) \/ CacheReadFails(c) PROVE ServingInv'
<1> DEFINE q == request[c]
<1>1. RequestOK(q) /\ q.pc = "cache"
  BY DEF ServingInv, RequestsOK, CacheMiss, CacheReadFails, At
<1>2. PICK keep \in BOOLEAN : request' = [request EXCEPT ![c] = [q EXCEPT !.pc = FirstStep(c), !.keep = keep]]
  <2>1. CASE CacheMiss(c)
    <3>1. request' = [request EXCEPT ![c] = [q EXCEPT !.pc = FirstStep(c), !.keep = TRUE]]
      BY <2>1 DEF CacheMiss
    <3> QED
      BY <3>1
  <2>2. CASE CacheReadFails(c)
    <3>1. request' = [request EXCEPT ![c] = [q EXCEPT !.pc = FirstStep(c)]]
      BY <2>2 DEF CacheReadFails
    <3>2. q.keep \in BOOLEAN /\ [q EXCEPT !.pc = FirstStep(c)] = [q EXCEPT !.pc = FirstStep(c), !.keep = q.keep]
      BY <1>1 DEF RequestOK, Request
    <3> QED
      BY <3>1, <3>2
  <2> QED
    BY <2>1, <2>2
<1> DEFINE r == [q EXCEPT !.pc = FirstStep(c), !.keep = keep]
<1>3. FirstStep(c) = IF q.route = "similar" THEN "similar" ELSE "list"
  BY DEF FirstStep
<1>4. r \in Request
  BY <1>1, <1>3 DEF RequestOK, Request, Steps
<1>5. RequestOK(r)
  BY <1>1, <1>3, <1>4 DEF RequestOK, Request
<1> HIDE DEF r
<1>6. request' = [request EXCEPT ![c] = r]
  BY <1>2 DEF r
<1> QED
  BY <1>5, <1>6, OneRequest, CacheKept DEF CacheMiss, CacheReadFails

\* An answer that was computed.
LEMMA AnswerInv ==
    ASSUME ServingInv, NEW c \in Clients, NEW source \in Sources, NEW items, Answer(c, source, items),
           request[c].pc # "idle",
           Fits(items, request[c].limit),
           request[c].route = "similar" => request[c].subject \notin Range(items),
           source = "FALLBACK" => Range(items) \cap request[c].began = {}
    PROVE  ServingInv'
<1> DEFINE q == request[c]
           r == [q EXCEPT !.pc = IF q.keep THEN "store" ELSE "done", !.source = source, !.items = items]
<1>1. RequestOK(q)
  BY DEF ServingInv, RequestsOK
<1>2. r \in Request
  BY <1>1 DEF RequestOK, Request, Steps, Fits
<1>3. AnswerOK(r)
  BY <1>1 DEF AnswerOK, RequestOK, Request
<1>4. RequestOK(r)
  BY <1>1, <1>2, <1>3 DEF RequestOK, Request
<1>5. request' = [request EXCEPT ![c] = r]
  BY DEF Answer
<1> HIDE DEF r
<1> QED
  BY <1>4, <1>5, OneRequest, CacheKept DEF Answer

\* The first games of a list, and where most of them came from.
LEMMA StoredAnswer ==
    ASSUME NEW stored, ListOK(stored), NEW limit \in Nat, NEW n \in 0 .. Len(stored), n <= limit,
           NEW shown, shown = SubSeq(stored, 1, n), shown # << >>
    PROVE  /\ Fits(GamesIn(shown), limit)
           /\ DominantSource(shown) \in {"CONTENT", "COLLAB", "HYBRID"}
<1>1. stored \in Seq(Recommendation) /\ Len(stored) \in Nat /\ DOMAIN stored = 1 .. Len(stored)
  BY DEF ListOK
<1>2. \A i \in 1 .. n : stored[i] \in Recommendation
  BY <1>1
<1>3. shown \in Seq(Recommendation) /\ Len(shown) = n /\ \A i \in 1 .. n : shown[i] = stored[i]
  BY <1>2, SubSeqProperties
<1>4. DOMAIN shown = 1 .. n /\ \A i \in 1 .. n : shown[i] \in Recommendation
  BY <1>2, <1>3
<1>5. GamesIn(shown) \in [1 .. n -> Games]
  BY <1>4 DEF GamesIn, Recommendation
<1>6. GamesIn(shown) \in Seq(Games) /\ Len(GamesIn(shown)) = n /\ DOMAIN GamesIn(shown) = 1 .. n
  BY <1>5
<1>7. \A i, j \in 1 .. n : GamesIn(shown)[i] = GamesIn(shown)[j] => i = j
  <2> TAKE i \in 1 .. n, j \in 1 .. n
  <2> HAVE GamesIn(shown)[i] = GamesIn(shown)[j]
  <2>1. stored[i].game = stored[j].game /\ i \in DOMAIN stored /\ j \in DOMAIN stored
    BY <1>1, <1>2, <1>3, <1>4 DEF GamesIn
  <2> QED
    BY <2>1 DEF ListOK
<1>8. 1 \in 1 .. n
  <2>1. n # 0
    BY <1>3
  <2> QED
    BY <2>1
<1>9. DominantSource(shown) \in {"CONTENT", "COLLAB", "HYBRID"}
  <2> DEFINE sources == {shown[i].source : i \in DOMAIN shown}
  <2>1. sources # {} /\ sources \subseteq {"CONTENT", "COLLAB", "HYBRID"}
    <3>1. shown[1].source \in sources
      BY <1>4, <1>8
    <3>2. \A i \in DOMAIN shown : shown[i].source \in {"CONTENT", "COLLAB", "HYBRID"}
      BY <1>4 DEF Recommendation
    <3> QED
      BY <3>1, <3>2
  <2>2. DominantSource(shown) = IF Cardinality(sources) > 1 THEN "HYBRID" ELSE CHOOSE source \in sources : TRUE
    BY DEF DominantSource
  <2> HIDE DEF sources
  <2> QED
    BY <2>1, <2>2
<1> QED
  BY <1>2, <1>6, <1>7, <1>9 DEF Fits

LEMMA ReadListInv == ASSUME ServingInv, NEW c \in Clients, ReadList(c) PROVE ServingInv'
<1> DEFINE q == request[c]
<1>1. RequestOK(q) /\ q.pc = "list"
  BY DEF ServingInv, RequestsOK, ReadList, At
<1>2. q.limit \in Nat /\ q.subject \in Users /\ q.route # "similar" /\ ListOK(list[q.subject])
  BY <1>1 DEF RequestOK, Request, ServingInv, ListsOK
<1>3. PICK shown : shown = SubSeq(list[q.subject], 1, Min({q.limit, Len(list[q.subject])}))
  OBVIOUS
<1>4. CASE shown # << >>
  <2>1. Answer(c, DominantSource(shown), GamesIn(shown))
    BY <1>3, <1>4 DEF ReadList
  <2>2. Fits(GamesIn(shown), q.limit) /\ DominantSource(shown) \in {"CONTENT", "COLLAB", "HYBRID"}
    <3> DEFINE n == IF q.limit <= Len(list[q.subject]) THEN q.limit ELSE Len(list[q.subject])
    <3>1. Len(list[q.subject]) \in Nat
      BY <1>2 DEF ListOK
    <3>2. shown = SubSeq(list[q.subject], 1, n)
      BY <1>2, <1>3, <3>1, MinOfTwo
    <3>3. n \in 0 .. Len(list[q.subject]) /\ n <= q.limit
      BY <1>2, <3>1
    <3> HIDE DEF n
    <3> QED
      BY <1>2, <1>4, <3>2, <3>3, StoredAnswer
  <2>3. DominantSource(shown) \in Sources /\ DominantSource(shown) # "FALLBACK"
    BY <2>2 DEF Sources
  <2> QED
    BY <1>1, <1>2, <2>1, <2>2, <2>3, AnswerInv
<1>5. CASE shown = << >>
  <2> DEFINE r == [q EXCEPT !.pc = "preference"]
  <2>1. r \in Request
    BY <1>1 DEF RequestOK, Request, Steps
  <2>2. RequestOK(r)
    BY <1>1, <2>1 DEF RequestOK, Request
  <2>3. request' = [request EXCEPT ![c] = r] /\ UNCHANGED <<Tables, cache>>
    BY <1>3, <1>5 DEF ReadList
  <2> HIDE DEF r
  <2> QED
    BY <2>2, <2>3, OneRequest, CacheKept
<1> QED
  BY <1>4, <1>5

LEMMA ReadPreferenceInv == ASSUME ServingInv, NEW c \in Clients, ReadPreference(c) PROVE ServingInv'
<1> DEFINE q == request[c]
           library == Owned(rows, q.subject)
           r == [q EXCEPT !.pc = "candidates", !.owned = library]
<1>1. RequestOK(q) /\ q.pc = "preference"
  BY DEF ServingInv, RequestsOK, ReadPreference, At
<1>2. library \in SUBSET Games /\ library = Library(q.subject)
  BY DEF Owned, Library
<1> HIDE DEF library
<1>3. r \in Request
  BY <1>1, <1>2 DEF RequestOK, Request, Steps
<1>4. RequestOK(r)
  BY <1>1, <1>2, <1>3 DEF RequestOK, Request
<1>5. request' = [request EXCEPT ![c] = r]
  BY DEF ReadPreference, library
<1> HIDE DEF r
<1> QED
  BY <1>4, <1>5, OneRequest, CacheKept DEF ReadPreference

\* What TopSellers returns are games that the user did not have when the profile was read.
LEMMA ReadCandidatesInv == ASSUME ServingInv, NEW c \in Clients, ReadCandidates(c) PROVE ServingInv'
<1> DEFINE q == request[c]
           candidates == Shortlist(q.limit)
           items == TopSellers(candidates, q.owned, rows, q.limit)
<1>1. RequestOK(q) /\ q.pc = "candidates"
  BY DEF ServingInv, RequestsOK, ReadCandidates, At
<1>2. q.limit \in Nat /\ FallbackFactor * q.limit \in Nat /\ q.began \subseteq q.owned /\ q.route # "similar"
  <2>1. q.limit \in Nat /\ FallbackFactor \in Nat
    BY <1>1, RequestsAssumption DEF RequestOK, Request
  <2> QED
    BY <1>1, <2>1 DEF RequestOK
<1>3. candidates \in SUBSET Games
  BY <1>2, RecommendableFirst DEF Shortlist, ServingInv, TablesOK
<1> HIDE DEF candidates
<1>4. First(items, q.limit, candidates \ q.owned) /\ IsFiniteSet(candidates \ q.owned)
  BY <1>2, <1>3, TopSellersFirst, GamesAssumption, FS_Subset
<1> HIDE DEF items
<1>5. Range(items) \subseteq candidates \ q.owned
  BY <1>2, <1>4, FirstRange
<1>6. Fits(items, q.limit)
  <2>1. Cardinality(candidates \ q.owned) \in Nat
    BY <1>4, FS_CardinalityType
  <2>2. items \in Seq(Games)
    BY <1>3, <1>4 DEF First
  <2> QED
    BY <1>2, <1>4, <2>1, <2>2 DEF First, Fits
<1>7. Answer(c, "FALLBACK", items)
  BY DEF ReadCandidates, items, candidates
<1>8. "FALLBACK" \in Sources /\ Range(items) \cap q.began = {}
  BY <1>2, <1>5 DEF Sources
<1> QED
  BY <1>1, <1>2, <1>6, <1>7, <1>8, AnswerInv

LEMMA ReadSimilarInv == ASSUME ServingInv, NEW c \in Clients, ReadSimilar(c) PROVE ServingInv'
<1> DEFINE q == request[c]
           candidates == Recommendable(published, rows, CatalogueLimit)
           items == Similar(q.subject, candidates, rows, q.limit)
           related == Related(q.subject, candidates)
<1>1. RequestOK(q) /\ q.pc = "similar"
  BY DEF ServingInv, RequestsOK, ReadSimilar, At
<1>2. q.limit \in Nat /\ q.subject \in Games
  BY <1>1, RequestsAssumption DEF RequestOK, Request
<1>3. candidates \in SUBSET Games
  BY RequestsAssumption, RecommendableFirst DEF ServingInv, TablesOK
<1> HIDE DEF candidates
<1>4. First(items, q.limit, related)
  BY <1>2, <1>3, SimilarFirst
<1>5. related \in SUBSET Games /\ q.subject \notin related /\ IsFiniteSet(related)
  BY <1>3, GamesAssumption, FS_Subset DEF Related
<1> HIDE DEF items, related
<1>6. Range(items) \subseteq related
  BY <1>2, <1>4, <1>5, FirstRange
<1>7. Fits(items, q.limit)
  <2>1. Cardinality(related) \in Nat
    BY <1>5, FS_CardinalityType
  <2>2. items \in Seq(Games)
    BY <1>4, <1>5 DEF First
  <2> QED
    BY <1>2, <1>4, <2>1, <2>2 DEF First, Fits
<1>8. Answer(c, "CONTENT", items)
  BY DEF ReadSimilar, items, candidates
<1>9. "CONTENT" \in Sources /\ q.subject \notin Range(items)
  BY <1>5, <1>6 DEF Sources
<1> QED
  BY <1>1, <1>7, <1>8, <1>9, AnswerInv

LEMMA CacheWriteInv == ASSUME ServingInv, NEW c \in Clients, CacheWrite(c) PROVE ServingInv'
<1> DEFINE q == request[c]
           entry == [source |-> q.source, items |-> q.items]
           r == [q EXCEPT !.pc = "done"]
<1>1. RequestOK(q) /\ q.pc = "store"
  BY DEF ServingInv, RequestsOK, CacheWrite, At
<1>2. AnswerOK(q) /\ q.source \in Sources
  BY <1>1 DEF RequestOK, Request
<1>3. r \in Request
  BY <1>1 DEF RequestOK, Request, Steps
<1>4. RequestOK(r)
  BY <1>1, <1>2, <1>3 DEF RequestOK, Request, AnswerOK
<1>5. request' = [request EXCEPT ![c] = r] /\ UNCHANGED Tables
  BY DEF CacheWrite
<1>6. ASSUME NEW k \in Keys PROVE EntryOK(k)'
  <2>1. CASE k = Key(c)
    <3>1. cache'[k] = entry
      BY <2>1 DEF CacheWrite, ServingInv, CacheOK
    <3>2. k[1] = q.route /\ k[2] = q.subject /\ k[3] = q.limit
      BY <2>1 DEF Key
    <3> QED
      BY <1>2, <3>1, <3>2 DEF EntryOK, AnswerOK
  <2>2. CASE k # Key(c)
    <3>1. cache'[k] = cache[k]
      BY <2>2 DEF CacheWrite, ServingInv, CacheOK
    <3> QED
      BY <3>1 DEF EntryOK, ServingInv, CacheOK
  <2> QED
    BY <2>1, <2>2
<1>7. CacheOK'
  BY <1>6 DEF CacheWrite, ServingInv, CacheOK
<1> HIDE DEF r
<1> QED
  BY <1>4, <1>5, <1>7, OneRequest

LEMMA CacheWriteFailsInv == ASSUME ServingInv, NEW c \in Clients, CacheWriteFails(c) PROVE ServingInv'
<1> DEFINE q == request[c]
           r == [q EXCEPT !.pc = "done"]
<1>1. RequestOK(q) /\ q.pc = "store"
  BY DEF ServingInv, RequestsOK, CacheWriteFails, At
<1>2. r \in Request
  BY <1>1 DEF RequestOK, Request, Steps
<1>3. RequestOK(r)
  BY <1>1, <1>2 DEF RequestOK, Request, AnswerOK
<1>4. request' = [request EXCEPT ![c] = r]
  BY DEF CacheWriteFails
<1> HIDE DEF r
<1> QED
  BY <1>3, <1>4, OneRequest, CacheKept DEF CacheWriteFails

LEMMA RespondInv == ASSUME ServingInv, NEW c \in Clients, Respond(c) PROVE ServingInv'
BY NoRequestOK, OneRequest, CacheKept DEF Respond

LEMMA ExpireInv == ASSUME ServingInv, NEW k \in Keys, Expire(k) PROVE ServingInv'
<1>1. TablesOK' /\ ListsOK'
  BY DEF ServingInv, TablesOK, ListsOK, Tables, Expire
<1>2. CacheOK'
  BY DEF ServingInv, CacheOK, EntryOK, Expire
<1>3. RequestsOK'
  <2>1. request' = request /\ rows' = rows
    BY DEF Expire, Tables
  <2> QED
    BY <2>1 DEF ServingInv, RequestsOK, RequestOK, Library
<1> QED
  BY <1>1, <1>2, <1>3 DEF ServingInv

LEMMA RequestStepInv == ASSUME ServingInv, NEW c \in Clients, RequestStep(c) PROVE ServingInv'
BY CacheHitInv, MissInv, ReadListInv, ReadPreferenceInv, ReadCandidatesInv, ReadSimilarInv,
   CacheWriteInv, CacheWriteFailsInv, RespondInv DEF RequestStep

LEMMA ServingNextInv == ServingInv /\ [Next]_vars => ServingInv'
<1> SUFFICES ASSUME ServingInv, [Next]_vars PROVE ServingInv'
  OBVIOUS
<1>1. CASE UNCHANGED vars
  BY <1>1, Beside DEF vars, ServingInv, TablesOK, ListsOK
<1>2. CASE \E sale \in Sales : Purchase(sale[1], sale[2])
  BY <1>2, PurchaseInv, RequestsAssumption
<1>3. CASE \E review \in Reviews : Review(review[1], review[2], review[3])
  <2>1. PICK review \in Reviews : Review(review[1], review[2], review[3])
    BY <1>3
  <2>2. review[1] \in Users /\ review[2] \in Games /\ review[3] \in {"REVIEW_LIKE", "REVIEW_DISLIKE"}
    BY RequestsAssumption
  <2> QED
    BY <2>1, <2>2, ReviewInv
<1>4. CASE \E g \in Editions : Edit(g)
  BY <1>4, EditInv, RequestsAssumption
<1>5. CASE \E u \in Users : Generate(u)
  BY <1>5, GenerateInv
<1>6. ASSUME NEW c \in Clients, NEW limit \in Limits,
             \/ \E actor \in Actors : \/ MyRecommendations(c, actor, limit)
                                      \/ \E u \in Users : RecommendationsFor(c, actor, u, limit)
             \/ \E g \in Subjects : SimilarGames(c, g, limit)
      PROVE  ServingInv'
  BY <1>6, AskInv DEF MyRecommendations, RecommendationsFor, SimilarGames
<1>7. CASE \E c \in Clients : RequestStep(c)
  BY <1>7, RequestStepInv
<1>8. CASE \E k \in Keys : Expire(k)
  BY <1>8, ExpireInv
<1> QED
  BY <1>1, <1>2, <1>3, <1>4, <1>5, <1>6, <1>7, <1>8 DEF Next

LEMMA ServingInvariant == Spec => []ServingInv
BY ServingInitInv, ServingNextInv, PTL DEF Spec

\* The tables need nothing of the scores.
LEMMA TablesInvariant == Spec => []TablesOK
<1>1. Init => TablesOK
  BY ServingInitInv DEF ServingInv
<1>2. TablesOK /\ [Next]_vars => TablesOK'
  <2> SUFFICES ASSUME TablesOK, [Next]_vars, ~ UNCHANGED <<published, rows, taste, changes>> PROVE TablesOK'
    BY DEF TablesOK
  <2>1. ~ \E c, step, route, subject, limit : Ask(c, route, subject, limit, step)
    BY DEF Ask, Tables
  <2>2. ~ \E c : RequestStep(c)
    BY DEF RequestStep, CacheHit, CacheMiss, CacheReadFails, ReadList, ReadPreference, ReadCandidates,
       ReadSimilar, Answer, CacheWrite, CacheWriteFails, Respond, Tables
  <2>3. ~ (\E u : Generate(u)) /\ ~ (\E k : Expire(k)) /\ ~ UNCHANGED vars
    BY DEF Generate, Expire, Tables, vars
  <2>4. \/ \E sale \in Sales : Purchase(sale[1], sale[2])
        \/ \E review \in Reviews : Review(review[1], review[2], review[3])
        \/ \E g \in Editions : Edit(g)
    BY <2>1, <2>2, <2>3 DEF Next, MyRecommendations, RecommendationsFor, SimilarGames
  <2>5. ASSUME NEW sale \in Sales, Purchase(sale[1], sale[2]) PROVE TablesOK'
    BY <2>5, PurchaseTables, RequestsAssumption
  <2>6. ASSUME NEW review \in Reviews, Review(review[1], review[2], review[3]) PROVE TablesOK'
    <3>1. review[1] \in Users /\ review[3] \in {"REVIEW_LIKE", "REVIEW_DISLIKE"}
      BY RequestsAssumption
    <3> QED
      BY <2>6, <3>1, ReviewTables
  <2>7. ASSUME NEW g \in Editions, Edit(g) PROVE TablesOK'
    BY <2>7, EditTables, RequestsAssumption
  <2> QED
    BY <2>4, <2>5, <2>6, <2>7
<1> QED
  BY <1>1, <1>2, PTL DEF Spec

-----------------------------------------------------------------------------
(* The theorems.                                                           *)

\* Lists, entries and requests keep their shapes: no list names a game twice or outgrows its length, and
\* no entry of the cache is longer than its key asks for.
THEOREM TypeCorrect == Spec => []TypeOK
<1>1. ServingInv => TypeOK
  BY ServingInvMeans
<1> QED
  BY <1>1, ServingInvariant, PTL

\* Whatever is bought, edited, generated, cached or expires between the statements of a request, its
\* answer is no longer than asked for, names nothing twice, leaves out the game it is about, and as a
\* fallback leaves out what the user had when the request came in (serve.py, response_cache.py).
THEOREM EveryAnswerFits == Spec => []AnswersFit
<1>1. ServingInv => AnswersFit
  BY ServingInvMeans
<1> QED
  BY <1>1, ServingInvariant, PTL

\* Whatever a sweep stores for a user is the best there was to offer at that moment, best first: games
\* that are published, that the user did not own and that have a score, in the total order of
\* HybridRanker (scoring.py:119-152), with no better one left out; and nothing, if the user has no history
\* (generate.py).  No other step touches a list.
THEOREM ListsAreTheBest ==
    Spec => [][\A u \in Users : list'[u] # list[u] =>
                  IF taste[u] = NoTaste
                  THEN list'[u] = << >>
                  ELSE IsBest(list'[u], taste[u], Owned(rows, u),
                              Recommendable(published, rows, CatalogueLimit),
                              CoPurchases(rows, u, Owned(rows, u)), rows)]_vars
<1> DEFINE Best(u) == IF taste[u] = NoTaste
                      THEN list'[u] = << >>
                      ELSE IsBest(list'[u], taste[u], Owned(rows, u),
                                  Recommendable(published, rows, CatalogueLimit),
                                  CoPurchases(rows, u, Owned(rows, u)), rows)
<1>1. ASSUME ServingInv, [Next]_vars, NEW u \in Users, list'[u] # list[u] PROVE Best(u)
  <2>1. \A c, route, subject, limit, step : ~ Ask(c, route, subject, limit, step)
    BY <1>1 DEF Ask, Tables
  <2>2. \A c : ~ RequestStep(c)
    BY <1>1 DEF RequestStep, CacheHit, CacheMiss, CacheReadFails, ReadList, ReadPreference, ReadCandidates,
       ReadSimilar, Answer, CacheWrite, CacheWriteFails, Respond, Tables
  <2>3. PICK v \in Users : Generate(v)
    BY <1>1, <2>1, <2>2 DEF Next, vars, Purchase, Review, Edit, Expire, Tables, MyRecommendations,
       RecommendationsFor, SimilarGames
  <2>4. v = u /\ list'[u] = Generated(u)
    BY <1>1, <2>3 DEF Generate, ServingInv, ListsOK
  <2>5. CASE taste[u] = NoTaste
    BY <2>4, <2>5 DEF Generated
  <2>6. CASE taste[u] # NoTaste
    <3> DEFINE owned == Owned(rows, u)
               candidates == Recommendable(published, rows, CatalogueLimit)
               counts == CoPurchases(rows, u, owned)
    <3>1. candidates \in SUBSET Games
      BY <1>1, RecommendableFirst, RequestsAssumption DEF ServingInv, TablesOK
    <3>2. counts \in [Games -> Nat] /\ taste[u] \in [Features -> Int]
      BY <1>1, FinitePairs DEF ServingInv, TablesOK
    <3>3. list'[u] = Ranked(taste[u], owned, candidates, counts, rows, ListLength)
      BY <2>4, <2>6 DEF Generated
    <3> HIDE DEF owned, candidates, counts
    <3>4. IsBest(list'[u], taste[u], owned, candidates, counts, rows)
      BY <3>1, <3>2, <3>3, RankedIsBest
    <3> QED
      BY <2>6, <3>4 DEF owned, candidates, counts
  <2> QED
    BY <2>5, <2>6
<1>2. ServingInv /\ [Next]_vars => [\A u \in Users : list'[u] # list[u] => Best(u)]_vars
  BY <1>1
<1> QED
  BY <1>2, ServingInvariant, PTL DEF Spec

\* Whoever is asked for, the self-join of the SQL repository and the loop of the in-memory one count the
\* same neighbours (repositories.py:195-200).
THEOREM SameNeighbours == Spec => []StoresAgree
<1>1. ASSUME TablesOK, NEW u \in Users
      PROVE  Neighbours(rows, u, Library(u)) = NeighboursInMemory(rows, u, Library(u))
  <2> DEFINE owned == Library(u)
             theirs == {v \in Users : \E g \in owned : <<v, g>> \in rows} \ {u}
             ByJoin(g) == {pair[2][1] : pair \in {p \in Joined(rows, u, owned) : p[2][2] = g}}
             ByLoop(g) == {v \in theirs : g \in Owned(rows, v) \ owned}
  <2>1. ASSUME NEW g \in Games PROVE ByJoin(g) = ByLoop(g)
    <3>1. ASSUME NEW v \in ByJoin(g) PROVE v \in ByLoop(g)
      <4>1. PICK pair \in Joined(rows, u, owned) : pair[2][2] = g /\ v = pair[2][1]
        OBVIOUS
      <4>2. PICK r1 \in rows, r2 \in rows :
                r1[1] = r2[1] /\ r1[1] # u /\ r1[2] \in owned /\ r2[2] \notin owned /\ r2[2] = g /\ v = r2[1]
        BY <4>1 DEF Joined
      <4>3. v \in Users /\ r1 = <<v, r1[2]>> /\ r2 = <<v, g>> /\ v # u /\ g \notin owned
        BY <1>1, <4>2 DEF TablesOK
      <4> QED
        BY <4>2, <4>3 DEF Owned
    <3>2. ASSUME NEW v \in ByLoop(g) PROVE v \in ByJoin(g)
      <4>1. v \in Users /\ v # u /\ <<v, g>> \in rows /\ g \notin owned
        BY DEF Owned
      <4>2. PICK h \in owned : <<v, h>> \in rows
        OBVIOUS
      <4>3. PICK pair : pair = <<<<v, h>>, <<v, g>>>>
        OBVIOUS
      <4>4. pair \in Joined(rows, u, owned) /\ pair[2][2] = g /\ pair[2][1] = v
        BY <4>1, <4>2, <4>3 DEF Joined
      <4> QED
        BY <4>4
    <3> QED
      BY <3>1, <3>2
  <2>2. Neighbours(rows, u, owned) = [g \in Games |-> Cardinality(ByJoin(g))]
    BY DEF Neighbours
  <2>3. NeighboursInMemory(rows, u, owned) = [g \in Games |-> Cardinality(ByLoop(g))]
    BY DEF NeighboursInMemory
  <2> HIDE DEF owned, theirs, ByJoin, ByLoop
  <2>4. Neighbours(rows, u, owned) = NeighboursInMemory(rows, u, owned)
    BY <2>1, <2>2, <2>3
  <2> QED
    BY <2>4 DEF owned
<1>2. TablesOK => StoresAgree
  BY <1>1 DEF StoresAgree
<1> QED
  BY <1>2, TablesInvariant, PTL

\* The fallback comes back empty only to a user who owns every published game, or as many of them as it
\* looks at: that is how far "no failure mode returns nothing" goes (serve.py:28-30).
THEOREM NothingOnlyForOwners == Spec => NeverEmptyHanded
<1> DEFINE Explained(c) ==
              (At(c, "candidates") /\ ~ At(c, "candidates")' /\ request'[c].items = << >>)
                 => LET u == request[c].subject
                    IN  \/ published \subseteq Library(u)
                        \/ Cardinality(Library(u) \cap published) >= FallbackFactor * request[c].limit
<1>1. ASSUME ServingInv, [Next]_vars, NEW c \in Clients, At(c, "candidates"), ~ At(c, "candidates")',
             request'[c].items = << >>
      PROVE  \/ published \subseteq Library(request[c].subject)
             \/ Cardinality(Library(request[c].subject) \cap published) >= FallbackFactor * request[c].limit
  <2> DEFINE q == request[c]
             n == FallbackFactor * q.limit
             shortlist == Recommendable(published, rows, n)
             library == Library(q.subject)
             items == TopSellers(shortlist, q.owned, rows, q.limit)
  <2>1. RequestOK(q) /\ request' # request
    BY <1>1 DEF ServingInv, RequestsOK, At
  <2>2. q.limit \in Nat \ {0} /\ n \in Nat /\ q.owned \subseteq library
    <3>1. q.limit \in Nat \ {0} /\ FallbackFactor \in Nat
      BY <1>1, <2>1, RequestsAssumption DEF RequestOK, At
    <3> QED
      BY <1>1, <2>1, <3>1 DEF RequestOK, At
  <2>3. ReadCandidates(c)
    <3>1. \A v \in Clients : RequestStep(v) => v = c
      BY <1>1 DEF ServingInv, RequestsOK, RequestStep, At, CacheHit, CacheMiss, CacheReadFails, ReadList,
         ReadPreference, ReadCandidates, ReadSimilar, Answer, CacheWrite, CacheWriteFails, Respond
    <3>2. \A v \in Clients : \A route, subject, limit, step : ~ Ask(v, route, subject, limit, step)
      BY <1>1 DEF Ask, At, ServingInv, RequestsOK
    <3>3. ~ UNCHANGED vars /\ ~ UNCHANGED request
      BY <2>1 DEF vars
    <3>4. \E v \in Clients : RequestStep(v)
      BY <1>1, <3>2, <3>3 DEF Next, Purchase, Review, Edit, Generate, Expire, MyRecommendations,
         RecommendationsFor, SimilarGames
    <3>5. RequestStep(c)
      BY <3>1, <3>4
    <3> QED
      BY <1>1, <3>5 DEF RequestStep, At, CacheHit, CacheMiss, CacheReadFails, ReadList, ReadPreference,
         ReadSimilar, CacheWrite, CacheWriteFails, Respond
  <2>4. items = << >>
    BY <1>1, <2>1, <2>3 DEF ReadCandidates, Shortlist, Answer, ServingInv, RequestsOK, RequestOK, Request
  <2>5. published \in SUBSET Games /\ IsFiniteSet(published)
    BY <1>1, GamesAssumption, FS_Subset DEF ServingInv, TablesOK
  <2> HIDE DEF n, library
  <2>6. /\ shortlist \subseteq published
        /\ Cardinality(shortlist) = IF n <= Cardinality(published) THEN n ELSE Cardinality(published)
        /\ Cardinality(published) <= n => shortlist = published
    BY <2>2, <2>5, RecommendableFirst
  <2> HIDE DEF shortlist
  <2>7. shortlist \subseteq library
    <3>1. First(items, q.limit, shortlist \ q.owned) /\ IsFiniteSet(shortlist \ q.owned)
      BY <2>2, <2>5, <2>6, TopSellersFirst, GamesAssumption, FS_Subset
    <3>2. Cardinality(shortlist \ q.owned) \in Nat /\ Len(items) = 0
      BY <2>4, <3>1, FS_CardinalityType
    <3>3. Cardinality(shortlist \ q.owned) = 0
      BY <2>2, <3>1, <3>2 DEF First
    <3>4. shortlist \ q.owned = {}
      BY <3>1, <3>3, FS_EmptySet
    <3> QED
      BY <2>2, <3>4
  <2>8. Cardinality(published) \in Nat
    BY <2>5, FS_CardinalityType
  <2>9. CASE Cardinality(published) <= n
    BY <2>6, <2>7, <2>9 DEF library
  <2>10. CASE n <= Cardinality(published)
    <3>1. shortlist \in SUBSET (library \cap published) /\ IsFiniteSet(library \cap published)
      BY <2>5, <2>6, <2>7, FS_Intersection
    <3>2. Cardinality(shortlist) <= Cardinality(library \cap published) /\ Cardinality(shortlist) = n
      BY <2>6, <2>10, <3>1, FS_Subset
    <3>3. Cardinality(library \cap published) >= n
      BY <2>2, <3>1, <3>2, FS_CardinalityType
    <3> QED
      BY <3>3 DEF library, n
  <2> QED
    BY <2>2, <2>8, <2>9, <2>10
<1>2. ServingInv /\ [Next]_vars => \A c \in Clients : Explained(c)
  BY <1>1
<1>3. ServingInv /\ [Next]_vars => [\A c \in Clients : Explained(c)]_vars
  BY <1>2
<1> QED
  BY <1>3, ServingInvariant, PTL DEF Spec, NeverEmptyHanded

=============================================================================
