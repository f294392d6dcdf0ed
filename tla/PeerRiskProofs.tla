----------------------------- MODULE PeerRiskProofs -----------------------------
(***************************************************************************)
(* Theorems about PeerRisk: for any institutions, complaints and windows,  *)
(* one more complaint never makes an institution look better.  A sum is    *)
(* the number of numbered pairs, so that it splits by its keys; the z-score*)
(* of at most four peers stays below 2 by the Cauchy-Schwarz inequality,   *)
(* that of five or more grows with every complaint.  The lemmas about      *)
(* least numbers, parts and sums serve the other modules of theorems too.  *)
(***************************************************************************)
EXTENDS PeerRisk, FiniteSetTheorems, SequenceTheorems, WellFoundedInduction, TLAPS

-----------------------------------------------------------------------------
(* Numbers, parts and sums *)

\* Some number is the least of a set of them.
LEMMA LeastOf ==
  ASSUME NEW S, S \subseteq Nat, S # {}
  PROVE  \E m \in S : \A k \in S : m <= k
<1>1. PICK m \in S : \A k \in S : ~ (<<k, m>> \in OpToRel(<, Nat))
  BY NatLessThanWellFounded, WFMin
<1>2. \A k \in S : m <= k
  <2> SUFFICES ASSUME NEW k \in S PROVE m <= k
    OBVIOUS
  <2>1. m \in Nat /\ k \in Nat
    OBVIOUS
  <2>2. ~ (k < m)
    BY <1>1, <2>1 DEF OpToRel
  <2> QED
    BY <2>1, <2>2
<1> QED
  BY <1>2

\* The greatest place of a sequence among some is one of them.
LEMMA GreatestOf ==
  ASSUME NEW n \in Nat, NEW S, S \subseteq 1..n, S # {}
  PROVE  Max(S) \in S /\ \A k \in S : k <= Max(S)
<1> DEFINE back == {n - k : k \in S}
<1>1. \A k \in S : k \in Nat /\ n - k \in Nat
  OBVIOUS
<1>5. back \subseteq Nat /\ back # {}
  BY <1>1
<1>2. PICK m \in back : \A k \in back : m <= k
  <2> HIDE DEF back
  <2> QED
    BY <1>5, LeastOf
<1>3. PICK x \in S : m = n - x
  BY <1>2, Zenon
<1>4. \A k \in S : x >= k
  <2> SUFFICES ASSUME NEW k \in S PROVE x >= k
    OBVIOUS
  <2>1. n - k \in back
    OBVIOUS
  <2>2. m <= n - k
    BY <1>2, <2>1
  <2> QED
    BY <1>1, <1>3, <2>2
<1> QED
  BY <1>3, <1>4 DEF Max

\* A part is no larger than the whole.
LEMMA PartOf ==
  ASSUME NEW S, IsFiniteSet(S), NEW T, T \subseteq S
  PROVE  /\ IsFiniteSet(T)
         /\ Cardinality(T) \in Nat /\ Cardinality(S) \in Nat
         /\ Cardinality(T) <= Cardinality(S)
BY FS_Subset, FS_CardinalityType

\* Parts that share nothing add up.
LEMMA DisjointUnion ==
  ASSUME NEW S, IsFiniteSet(S), NEW T, IsFiniteSet(T), S \cap T = {}
  PROVE  IsFiniteSet(S \cup T) /\ Cardinality(S \cup T) = Cardinality(S) + Cardinality(T)
<1>1. Cardinality(S \cap T) = 0
  BY FS_EmptySet
<1>2. /\ IsFiniteSet(S \cup T)
      /\ Cardinality(S \cup T) = Cardinality(S) + Cardinality(T) - Cardinality(S \cap T)
  BY FS_Union
<1>3. Cardinality(S) \in Nat /\ Cardinality(T) \in Nat
  BY FS_CardinalityType
<1> QED
  BY <1>1, <1>2, <1>3

\* The counts of a table's rows by a key sum to the number of its rows.
LEMMA CountsSum ==
  ASSUME NEW D, IsFiniteSet(D), NEW key, NEW counts,
         \A c \in D : key[c] \in DOMAIN counts,
         \A k \in DOMAIN counts : counts[k] = Cardinality({c \in D : key[c] = k})
  PROVE  Sum(counts) = Cardinality(D)
<1> DEFINE fibre(k) == {c \in D : key[c] = k}
           number   == [k \in DOMAIN counts |-> CHOOSE b : b \in Bijection(1..counts[k], fibre(k))]
           pairs    == UNION {{k} \X (1..counts[k]) : k \in DOMAIN counts}
           named    == [p \in pairs |-> number[p[1]][p[2]]]
<1>1. ASSUME NEW k \in DOMAIN counts
      PROVE  number[k] \in Bijection(1..counts[k], fibre(k))
  <2>1. IsFiniteSet(fibre(k))
    BY FS_Subset
  <2>2. ExistsBijection(1..counts[k], fibre(k))
    BY <2>1, FS_CardinalityType
  <2> QED
    BY <2>2 DEF ExistsBijection
<1>2. \A p \in pairs : /\ p[1] \in DOMAIN counts /\ p[2] \in 1..counts[p[1]]
                       /\ p = <<p[1], p[2]>>
  OBVIOUS
<1>3. \A k \in DOMAIN counts : \A i \in 1..counts[k] : <<k, i>> \in pairs
  OBVIOUS
<1>4. \A p \in pairs : named[p] \in D /\ key[named[p]] = p[1]
  BY <1>1, <1>2 DEF Bijection, Injection
<1>5. \A p \in pairs : named[p] = number[p[1]][p[2]]
  OBVIOUS
<1>6. named \in [pairs -> D]
  BY <1>4
<1> HIDE DEF named, pairs, number
<1>7. named \in Injection(pairs, D)
  <2> SUFFICES ASSUME NEW p \in pairs, NEW q \in pairs, named[p] = named[q]
               PROVE  p = q
    BY <1>6 DEF Injection, IsInjective
  <2>1. p[1] = q[1]
    BY <1>4
  <2>2. p[2] = q[2]
    <3>1. number[p[1]] \in Injection(1..counts[p[1]], fibre(p[1]))
      BY <1>1, <1>2 DEF Bijection
    <3>2. \A i, j \in 1..counts[p[1]] : number[p[1]][i] = number[p[1]][j] => i = j
      BY <3>1 DEF Injection, IsInjective
    <3>3. p[2] \in 1..counts[p[1]] /\ q[2] \in 1..counts[p[1]]
      BY <1>2, <2>1
    <3>4. number[p[1]][p[2]] = number[p[1]][q[2]]
      BY <1>5, <2>1
    <3> QED
      BY <3>2, <3>3, <3>4
  <2> QED
    BY <1>2, <2>1, <2>2
<1>8. \A c \in D : \E p \in pairs : named[p] = c
  <2> SUFFICES ASSUME NEW c \in D PROVE \E p \in pairs : named[p] = c
    OBVIOUS
  <2>1. number[key[c]] \in Bijection(1..counts[key[c]], fibre(key[c])) /\ c \in fibre(key[c])
    BY <1>1
  <2>2. PICK i \in 1..counts[key[c]] : number[key[c]][i] = c
    BY <2>1 DEF Bijection, Surjection
  <2>3. <<key[c], i>> \in pairs /\ named[<<key[c], i>>] = c
    BY <1>3, <1>5, <2>2
  <2> QED
    BY <2>3
<1>9. named \in Surjection(pairs, D)
  BY <1>6, <1>8 DEF Surjection
<1> QED
  BY <1>7, <1>9, FS_Injection DEF Sum, pairs


\* A sum splits into one count and the rest, and is a number.
LEMMA SumFinite ==
  ASSUME NEW f, IsFiniteSet(DOMAIN f), \A d \in DOMAIN f : f[d] \in Nat
  PROVE  IsFiniteSet(UNION {{k} \X (1..f[k]) : k \in DOMAIN f}) /\ Sum(f) \in Nat
<1> DEFINE D == DOMAIN f
           column == [k \in D |-> {k} \X (1..f[k])]
           columns == {column[k] : k \in D}
<1>1. IsFiniteSet(columns)
  <2>1. column \in Surjection(D, columns)
    BY DEF Surjection
  <2> HIDE DEF columns, column
  <2> QED
    BY <2>1, FS_Surjection
<1>2. ASSUME NEW k \in D PROVE IsFiniteSet(column[k])
  <2>1. 1 \in Int /\ f[k] \in Int
    OBVIOUS
  <2>2. IsFiniteSet({k}) /\ IsFiniteSet(1..f[k])
    BY <2>1, FS_Singleton, FS_Interval
  <2> QED
    BY <2>2, FS_Product
<1>3. \A T \in columns : IsFiniteSet(T)
  BY <1>2
<1>4. UNION columns = UNION {{k} \X (1..f[k]) : k \in D}
  OBVIOUS
<1> HIDE DEF columns
<1>5. IsFiniteSet(UNION columns)
  BY <1>1, <1>3, FS_UNION
<1> QED
  BY <1>4, <1>5, FS_CardinalityType DEF Sum

LEMMA SumSplit ==
  ASSUME NEW f, IsFiniteSet(DOMAIN f), \A d \in DOMAIN f : f[d] \in Nat,
         NEW e \in DOMAIN f, NEW rest, rest = [d \in DOMAIN f \ {e} |-> f[d]]
  PROVE  Sum(f) = f[e] + Sum(rest) /\ Sum(rest) \in Nat
<1> DEFINE pairs(g) == UNION {{k} \X (1..g[k]) : k \in DOMAIN g}
           column == {e} \X (1..f[e])
<1>1. IsFiniteSet(DOMAIN rest) /\ \A d \in DOMAIN rest : rest[d] \in Nat
  BY FS_RemoveElement
<1>2. IsFiniteSet(pairs(rest)) /\ Sum(rest) \in Nat
  BY <1>1, SumFinite
<1>3. pairs(f) = pairs(rest) \cup column
  OBVIOUS
<1>4. pairs(rest) \cap column = {}
  OBVIOUS
<1>5. IsFiniteSet(column) /\ Cardinality(column) = f[e]
  <2>1. IsFiniteSet({e}) /\ Cardinality({e}) = 1
    BY FS_Singleton
  <2>2. IsFiniteSet(1..f[e]) /\ Cardinality(1..f[e]) = f[e]
    BY FS_Interval
  <2>3. IsFiniteSet(column) /\ Cardinality(column) = 1 * f[e]
    BY <2>1, <2>2, FS_Product
  <2> QED
    BY <2>3
<1> HIDE DEF pairs, column
<1>6. Cardinality(pairs(f)) = Cardinality(pairs(rest)) + Cardinality(column)
  BY <1>2, <1>3, <1>4, <1>5, DisjointUnion
<1>7. Sum(f) = Cardinality(pairs(f)) /\ Sum(rest) = Cardinality(pairs(rest))
  BY DEF Sum, pairs
<1> QED
  BY <1>2, <1>5, <1>6, <1>7

\* Nothing sums to nothing.
LEMMA SumNothing == ASSUME NEW f, DOMAIN f = {} PROVE Sum(f) = 0
BY FS_EmptySet DEF Sum

\* What one more in one place adds.
LEMMA SumMoves ==
  ASSUME NEW f, NEW g, IsFiniteSet(DOMAIN f), DOMAIN g = DOMAIN f, NEW e \in DOMAIN f,
         \A d \in DOMAIN f : f[d] \in Nat /\ g[d] \in Nat,
         \A d \in DOMAIN f \ {e} : g[d] = f[d]
  PROVE  Sum(f) \in Nat /\ Sum(g) - g[e] = Sum(f) - f[e] /\ Sum(g) \in Nat
<1> DEFINE rest == [d \in DOMAIN f \ {e} |-> f[d]]
<1>1. rest = [d \in DOMAIN g \ {e} |-> g[d]]
  OBVIOUS
<1> HIDE DEF rest
<1>2. Sum(f) = f[e] + Sum(rest) /\ Sum(rest) \in Nat
  BY SumSplit DEF rest
<1>3. Sum(g) = g[e] + Sum(rest)
  BY <1>1, SumSplit
<1> QED
  BY <1>2, <1>3

-----------------------------------------------------------------------------
(* The z-score *)

\* One more value and its square.
LEMMA CauchyStep ==
  ASSUME NEW m \in Int, m >= 1, NEW Q \in Int, NEW T \in Int, NEW a \in Int, m * Q >= T * T
  PROVE  (m + 1) * (Q + a * a) >= (T + a) * (T + a)
<1> DEFINE u == T - m * a
           e == Q + m * (a * a) - 2 * (T * a)
<1>1. u * u >= 0
  <2>1. \A v \in Int : v * v >= 0
    OBVIOUS
  <2>2. u \in Int
    OBVIOUS
  <2> HIDE DEF u
  <2> QED
    BY <2>1, <2>2
<1>2. m * e = (m * Q - T * T) + u * u
  OBVIOUS
<1>3. e >= 0
  <2>1. e \in Int /\ m * e >= 0
    <3>1. e \in Int /\ u * u \in Int /\ m * Q \in Int /\ T * T \in Int
      OBVIOUS
    <3> HIDE DEF e, u
    <3> QED
      BY <1>1, <1>2, <3>1
  <2>2. \A x \in Int : m * x >= 0 => x >= 0
    OBVIOUS
  <2> HIDE DEF e
  <2> QED
    BY <2>1, <2>2
<1>4. (m + 1) * (Q + a * a) - (T + a) * (T + a) = (m * Q - T * T) + e
  OBVIOUS
<1>5. /\ (m + 1) * (Q + a * a) \in Int /\ (T + a) * (T + a) \in Int
      /\ m * Q - T * T \in Int /\ m * Q - T * T >= 0 /\ e \in Int
  OBVIOUS
<1> HIDE DEF e
<1> QED
  BY <1>3, <1>4, <1>5

\* The squares of some of the counts.
Squares(f) == [d \in DOMAIN f |-> f[d] * f[d]]
On(f, S) == [d \in S |-> f[d]]

\* Cauchy-Schwarz: of m counts, m times the sum of the squares is at least the
\* square of the sum.
LEMMA Cauchy ==
  ASSUME NEW f, IsFiniteSet(DOMAIN f), \A d \in DOMAIN f : f[d] \in Nat
  PROVE  Cardinality(DOMAIN f) * Sum(Squares(f)) >= Sum(f) * Sum(f)
<1> DEFINE D == DOMAIN f
           Fair(S) == Cardinality(S) * Sum(Squares(On(f, S))) >= Sum(On(f, S)) * Sum(On(f, S))
           Bad == {m \in Nat : \E S \in SUBSET D : Cardinality(S) = m /\ ~Fair(S)}
<1>1. ASSUME NEW S \in SUBSET D
      PROVE  /\ IsFiniteSet(S) /\ Cardinality(S) \in Nat
             /\ DOMAIN On(f, S) = S /\ \A d \in S : On(f, S)[d] = f[d] /\ f[d] \in Nat
             /\ DOMAIN Squares(On(f, S)) = S
             /\ \A d \in S : Squares(On(f, S))[d] = f[d] * f[d] /\ f[d] * f[d] \in Nat
             /\ Sum(On(f, S)) \in Nat /\ Sum(Squares(On(f, S))) \in Nat
  <2>1. IsFiniteSet(S) /\ Cardinality(S) \in Nat
    BY FS_Subset, FS_CardinalityType
  <2>2. DOMAIN On(f, S) = S /\ \A d \in S : On(f, S)[d] = f[d] /\ f[d] \in Nat
    BY DEF On
  <2>3. /\ DOMAIN Squares(On(f, S)) = S
        /\ \A d \in S : Squares(On(f, S))[d] = f[d] * f[d] /\ f[d] * f[d] \in Nat
    <3>1. \A x \in Nat : x * x \in Nat
      OBVIOUS
    <3> QED
      BY <2>2, <3>1 DEF Squares
  <2>4. Sum(On(f, S)) \in Nat
    BY <2>1, <2>2, SumFinite
  <2>5. Sum(Squares(On(f, S))) \in Nat
    BY <2>1, <2>3, SumFinite
  <2> QED
    BY <2>1, <2>2, <2>3, <2>4, <2>5
<1>2. Bad = {}
  <2> SUFFICES ASSUME Bad # {} PROVE FALSE
    OBVIOUS
  <2>1. PICK m \in Bad : \A k \in Bad : m <= k
    <3>1. Bad \subseteq Nat
      OBVIOUS
    <3> HIDE DEF Bad
    <3> QED
      BY <3>1, LeastOf
  <2>2. PICK S \in SUBSET D : Cardinality(S) = m /\ ~Fair(S)
    OBVIOUS
  <2>3. m \in Nat
    OBVIOUS
  <2>4. S # {}
    <3> SUFFICES ASSUME S = {} PROVE FALSE
      OBVIOUS
    <3>1. Sum(On(f, S)) = 0 /\ Sum(Squares(On(f, S))) = 0 /\ Cardinality(S) = 0
      BY <1>1, SumNothing, FS_EmptySet
    <3> QED
      BY <2>2, <3>1
  <2>5. PICK e \in S : TRUE
    BY <2>4
  <2> DEFINE R == S \ {e}
             a == f[e]
             T == Sum(On(f, R))
             Q == Sum(Squares(On(f, R)))
  <2>6. R \in SUBSET D /\ Cardinality(R) = m - 1 /\ Cardinality(R) \in Nat
    BY <1>1, <2>2, FS_RemoveElement
  <2>7. Sum(On(f, S)) = a + T
    <3> DEFINE g == On(f, S)
               rest == On(f, R)
    <3>1. rest = [d \in DOMAIN g \ {e} |-> g[d]]
      BY DEF On
    <3>2. IsFiniteSet(DOMAIN g) /\ \A d \in DOMAIN g : g[d] \in Nat
      BY <1>1
    <3>3. e \in DOMAIN g /\ g[e] = a
      BY <1>1
    <3> HIDE DEF g, rest
    <3>4. Sum(g) = g[e] + Sum(rest)
      BY <3>1, <3>2, <3>3, SumSplit
    <3> QED
      BY <3>3, <3>4 DEF g, rest
  <2>8. Sum(Squares(On(f, S))) = a * a + Q
    <3> DEFINE g == Squares(On(f, S))
               rest == Squares(On(f, R))
    <3>1. rest = [d \in DOMAIN g \ {e} |-> g[d]]
      BY DEF On, Squares
    <3>2. IsFiniteSet(DOMAIN g) /\ \A d \in DOMAIN g : g[d] \in Nat
      BY <1>1
    <3>3. e \in DOMAIN g /\ g[e] = a * a
      BY <1>1
    <3> HIDE DEF g, rest
    <3>4. Sum(g) = g[e] + Sum(rest)
      BY <3>1, <3>2, <3>3, SumSplit
    <3> QED
      BY <3>3, <3>4 DEF g, rest
  <2>9. Fair(R)
    <3>1. m - 1 \in Nat /\ m - 1 \notin Bad
      BY <2>1, <2>3, <2>6
    <3> HIDE DEF Fair, R
    <3> QED
      BY <2>6, <3>1
  <2>10. a \in Nat /\ T \in Nat /\ Q \in Nat
    BY <1>1, <2>6
  <2>11. (m - 1) * Q >= T * T
    BY <2>6, <2>9
  <2> HIDE DEF R, T, Q, a
  <2>12. m * (a * a + Q) >= (a + T) * (a + T)
    <3>1. CASE m = 1
      <4>1. R = {}
        BY <1>1, <2>6, <3>1, FS_EmptySet
      <4>2. T = 0 /\ Q = 0
        BY <1>1, <2>6, <4>1, SumNothing DEF T, Q
      <4> QED
        BY <2>10, <3>1, <4>2
    <3>2. CASE m # 1
      <4>1. m - 1 \in Int /\ m - 1 >= 1
        BY <2>3, <2>6, <3>2
      <4>2. ((m - 1) + 1) * (Q + a * a) >= (T + a) * (T + a)
        BY <2>10, <2>11, <4>1, CauchyStep
      <4>3. (m - 1) + 1 = m /\ Q + a * a = a * a + Q /\ T + a = a + T
        BY <2>3, <2>10
      <4> QED
        BY <4>2, <4>3
    <3> QED
      BY <3>1, <3>2
  <2> QED
    BY <2>2, <2>7, <2>8, <2>12
<1>3. Cardinality(D) \in Nat /\ Cardinality(D) \notin Bad
  BY <1>1, <1>2
<1>4. Fair(D)
  BY <1>3
<1>5. Sum(On(f, D)) = Sum(f) /\ Sum(Squares(On(f, D))) = Sum(Squares(f))
  BY DEF Sum, On, Squares
<1> QED
  BY <1>4, <1>5

\* The deviation of one of at most four counts is below twice sigma.
LEMMA FewDeviate ==
  ASSUME NEW m \in Int, 0 <= m, m <= 3, NEW x \in Int, NEW T \in Int, NEW Q \in Int,
         m * Q >= T * T,
         NEW V \in Int, V = (m + 1) * (x * x + Q) - (x + T) * (x + T), V > 0,
         NEW D \in Int, D = (m + 1) * x - (x + T)
  PROVE  ~(D * D >= 2 * 2 * V)
<1>1. m * V - D * D = (m + 1) * (m * Q - T * T)
  OBVIOUS
<1>2. (m + 1) * (m * Q - T * T) >= 0
  <2>1. \A a, b \in Int : a >= 0 /\ b >= 0 => a * b >= 0
    OBVIOUS
  <2>2. m + 1 \in Int /\ m * Q - T * T \in Int /\ m + 1 >= 0 /\ m * Q - T * T >= 0
    OBVIOUS
  <2> QED
    BY <2>1, <2>2
<1>3. m * V <= 3 * V
  <2>1. m = 0 \/ m = 1 \/ m = 2 \/ m = 3
    OBVIOUS
  <2> QED
    BY <2>1
<1>4. m * V \in Int /\ D * D \in Int
  OBVIOUS
<1> QED
  BY <1>1, <1>2, <1>3, <1>4

\* The deviation of one of five counts or more, with one more to it.
LEMMA ManyDeviate ==
  ASSUME NEW n \in Int, n >= 5, NEW D \in Int, D >= 0, NEW V \in Int, V > 0,
         D * D >= 2 * 2 * V
  PROVE  /\ V + 2 * D + n - 1 > 0 /\ D + n - 1 >= 0
         /\ (D + n - 1) * (D + n - 1) >= 2 * 2 * (V + 2 * D + n - 1)
<1>1. (D + n - 1) * (D + n - 1)
        = D * D + 2 * (D * (n - 5)) + (n - 1) * (n - 5) + 4 * (2 * D + n - 1)
  OBVIOUS
<1>2. D * (n - 5) >= 0 /\ (n - 1) * (n - 5) >= 0
  <2>1. \A a, b \in Int : a >= 0 /\ b >= 0 => a * b >= 0
    OBVIOUS
  <2> QED
    BY <2>1
<1>3. D * D \in Int /\ D * (n - 5) \in Int /\ (n - 1) * (n - 5) \in Int
  OBVIOUS
<1>4. V + 2 * D + n - 1 > 0 /\ D + n - 1 >= 0
  OBVIOUS
<1>5. 2 * 2 * (V + 2 * D + n - 1) = 2 * 2 * V + 4 * (2 * D + n - 1)
  OBVIOUS
<1> QED
  BY <1>1, <1>2, <1>3, <1>4, <1>5

\* The counts of some institutions, and those with one more for one of them.
AreCounts(counts) == IsFiniteSet(DOMAIN counts) /\ \A j \in DOMAIN counts : counts[j] \in Nat
OneMore(counts, more, id) ==
  /\ DOMAIN more = DOMAIN counts /\ id \in DOMAIN counts
  /\ \A j \in DOMAIN counts : more[j] = IF j = id THEN counts[id] + 1 ELSE counts[j]

LEMMA OneMoreCounts ==
  ASSUME NEW counts, AreCounts(counts), NEW more, NEW id, OneMore(counts, more, id)
  PROVE  AreCounts(more)
BY DEF AreCounts, OneMore

\* A sum of squares is a sum of counts.
LEMMA SquaresCount == ASSUME NEW counts, AreCounts(counts) PROVE AreCounts(Squares(counts))
<1>1. \A x \in Nat : x * x \in Nat
  OBVIOUS
<1> QED
  BY <1>1 DEF AreCounts, Squares

LEMMA Moments ==
  ASSUME NEW counts, AreCounts(counts), NEW id
  PROVE  /\ Cardinality(DOMAIN counts) \in Nat
         /\ Sum(counts) \in Nat /\ Sum(Squares(counts)) \in Nat
         /\ Deviation(counts, id) = Cardinality(DOMAIN counts) * counts[id] - Sum(counts)
         /\ Variance(counts) = Cardinality(DOMAIN counts) * Sum(Squares(counts))
                                 - Sum(counts) * Sum(counts)
<1>1. Cardinality(DOMAIN counts) \in Nat
  BY FS_CardinalityType DEF AreCounts
<1>2. Sum(counts) \in Nat
  BY SumFinite DEF AreCounts
<1>3. Sum(Squares(counts)) \in Nat
  BY SquaresCount, SumFinite DEF AreCounts
<1> QED
  BY <1>1, <1>2, <1>3 DEF Deviation, Variance, Squares

\* With at most four peers nobody is two sigmas away.
LEMMA FewAreNear ==
  ASSUME NEW counts, AreCounts(counts), NEW id \in DOMAIN counts,
         Cardinality(DOMAIN counts) <= 4
  PROVE  ~ZScoreAtLeast(counts, id, 2)
<1> DEFINE m == Cardinality(DOMAIN counts) - 1
           rest == [d \in DOMAIN counts \ {id} |-> counts[d]]
           x == counts[id]
           T == Sum(rest)
           Q == Sum(Squares(rest))
<1>1. IsFiniteSet(DOMAIN counts) /\ \A d \in DOMAIN counts : counts[d] \in Nat
  BY DEF AreCounts
<1>2. /\ AreCounts(rest) /\ Cardinality(DOMAIN rest) = m /\ m \in Nat /\ m <= 3
  <2>1. DOMAIN rest = DOMAIN counts \ {id}
    OBVIOUS
  <2>2. IsFiniteSet(DOMAIN rest) /\ Cardinality(DOMAIN rest) = m
    BY <1>1, <2>1, FS_RemoveElement
  <2>3. Cardinality(DOMAIN counts) \in Nat /\ Cardinality(DOMAIN rest) \in Nat
    BY <1>1, <2>2, FS_CardinalityType
  <2> QED
    BY <1>1, <2>2, <2>3 DEF AreCounts
<1>3. T \in Nat /\ Q \in Nat /\ x \in Nat
  <2> HIDE DEF rest
  <2> QED
    BY <1>1, <1>2, Moments
<1>4. m * Q >= T * T
  <2> HIDE DEF rest
  <2> QED
    BY <1>2, Cauchy DEF AreCounts
<1>5. Sum(counts) = x + T
  <2> HIDE DEF T
  <2> QED
    BY <1>1, SumSplit DEF T
<1>6. Sum(Squares(counts)) = x * x + Q
  <2> DEFINE g == Squares(counts)
             r == Squares(rest)
  <2>1. r = [d \in DOMAIN g \ {id} |-> g[d]]
    BY DEF Squares
  <2>2. IsFiniteSet(DOMAIN g) /\ \A d \in DOMAIN g : g[d] \in Nat
    BY SquaresCount DEF AreCounts
  <2>3. id \in DOMAIN g /\ g[id] = x * x
    BY DEF Squares
  <2> HIDE DEF g, r, rest
  <2>4. Sum(g) = g[id] + Sum(r)
    BY <2>1, <2>2, <2>3, SumSplit
  <2> QED
    BY <2>3, <2>4 DEF g, r
<1>7. /\ Deviation(counts, id) = (m + 1) * x - (x + T)
      /\ Variance(counts) = (m + 1) * (x * x + Q) - (x + T) * (x + T)
  <2>1. m + 1 = Cardinality(DOMAIN counts)
    BY <1>1, FS_CardinalityType
  <2> HIDE DEF m, T, Q, x
  <2> QED
    BY <1>5, <1>6, <2>1, Moments DEF x
<1> HIDE DEF m, T, Q, x, rest
<1> SUFFICES ASSUME ZScoreAtLeast(counts, id, 2) PROVE FALSE
  OBVIOUS
<1>8. Deviation(counts, id) \in Int /\ Variance(counts) \in Int
  BY <1>2, <1>3, <1>7
<1>9. Variance(counts) > 0 /\ Deviation(counts, id) * Deviation(counts, id) >= 2 * 2 * Variance(counts)
  BY DEF ZScoreAtLeast
<1> QED
  BY <1>2, <1>3, <1>4, <1>7, <1>8, <1>9, FewDeviate

\* One more complaint never lowers a z-score that has reached two.
LEMMA ZScoreGrows ==
  ASSUME NEW counts, AreCounts(counts), NEW more, NEW id, OneMore(counts, more, id),
         ZScoreAtLeast(counts, id, 2)
  PROVE  ZScoreAtLeast(more, id, 2)
<1> DEFINE n == Cardinality(DOMAIN counts)
           x == counts[id]
           T == Sum(counts)
           Q == Sum(Squares(counts))
           D == Deviation(counts, id)
           V == Variance(counts)
<1>1. n \in Nat /\ T \in Nat /\ Q \in Nat /\ D = n * x - T /\ V = n * Q - T * T
  BY Moments
<1>2. x \in Nat /\ id \in DOMAIN counts
  BY DEF AreCounts, OneMore
<1>3. n >= 5
  BY <1>1, <1>2, FewAreNear
<1>4. V > 0 /\ D >= 0 /\ D * D >= 2 * 2 * V
  BY DEF ZScoreAtLeast
<1>5. AreCounts(more)
  BY OneMoreCounts
<1>6. Sum(more) = T + 1
  <2>1. Sum(more) - more[id] = T - x
    BY <1>2, <1>5, SumMoves DEF AreCounts, OneMore
  <2>2. more[id] = x + 1 /\ Sum(more) \in Nat
    BY <1>2, <1>5, Moments DEF OneMore
  <2>3. \A a, b, c, d \in Int : c = b + 1 /\ a - c = d - b => a = d + 1
    OBVIOUS
  <2>4. T \in Int /\ x \in Int /\ more[id] \in Int /\ Sum(more) \in Int
    BY <1>1, <1>2, <2>2
  <2> HIDE DEF T, x
  <2> QED
    BY <2>1, <2>2, <2>3, <2>4
<1>7. Sum(Squares(more)) = Q + 2 * x + 1
  <2> DEFINE f == Squares(counts)
             g == Squares(more)
  <2>1. AreCounts(f) /\ AreCounts(g)
    BY <1>5, SquaresCount
  <2>2. DOMAIN g = DOMAIN f /\ id \in DOMAIN f /\ \A d \in DOMAIN f \ {id} : g[d] = f[d]
    BY DEF Squares, OneMore
  <2>3. f[id] = x * x /\ g[id] = (x + 1) * (x + 1)
    BY <1>2 DEF Squares, OneMore
  <2> HIDE DEF f, g
  <2>4. Sum(g) - g[id] = Sum(f) - f[id] /\ Sum(g) \in Nat
    BY <2>1, <2>2, SumMoves DEF AreCounts
  <2>5. Q = Sum(f) /\ Sum(Squares(more)) = Sum(g)
    BY DEF f, g
  <2> HIDE DEF x, Q
  <2>6. (x + 1) * (x + 1) = x * x + 2 * x + 1 /\ x * x \in Int
    BY <1>2
  <2> QED
    BY <1>1, <1>2, <2>3, <2>4, <2>5, <2>6
<1>8. /\ Deviation(more, id) = n * (x + 1) - (T + 1)
      /\ Variance(more) = n * (Q + 2 * x + 1) - (T + 1) * (T + 1)
  <2>1. DOMAIN more = DOMAIN counts /\ more[id] = x + 1
    BY <1>2 DEF OneMore
  <2> HIDE DEF n, x, T, Q
  <2> QED
    BY <1>5, <1>6, <1>7, <2>1, Moments DEF n
<1> HIDE DEF n, x, T, Q, D, V
<1>9. Deviation(more, id) = D + n - 1 /\ Variance(more) = V + 2 * D + n - 1
  BY <1>1, <1>2, <1>8
<1>10. D \in Int /\ V \in Int
  BY <1>1, <1>2
<1>11. /\ V + 2 * D + n - 1 > 0 /\ D + n - 1 >= 0
       /\ (D + n - 1) * (D + n - 1) >= 2 * 2 * (V + 2 * D + n - 1)
  BY <1>1, <1>3, <1>4, <1>10, ManyDeviate
<1> QED
  BY <1>9, <1>11 DEF ZScoreAtLeast

\* One more complaint never lowers a percentile.
LEMMA PercentileGrows ==
  ASSUME NEW counts, AreCounts(counts), NEW more, NEW id, OneMore(counts, more, id),
         NEW percent \in Int, PercentileAtLeast(counts, id, percent)
  PROVE  PercentileAtLeast(more, id, percent)
<1> DEFINE P == DOMAIN counts
           Less(c) == {j \in P : c[j] < c[id]}
           Same(c) == {j \in P : c[j] = c[id]}
<1>1. /\ DOMAIN more = P /\ IsFiniteSet(P) /\ id \in P
      /\ \A j \in P : counts[j] \in Nat /\ more[j] \in Nat
      /\ more[id] = counts[id] + 1 /\ \A j \in P : j # id => more[j] = counts[j]
  BY DEF AreCounts, OneMore
<1>2. /\ IsFiniteSet(Less(counts)) /\ IsFiniteSet(Same(counts))
      /\ IsFiniteSet(Less(more)) /\ IsFiniteSet(Same(more))
  BY <1>1, FS_Subset
<1>3. /\ Less(counts) \cap Same(counts) = {} /\ Less(more) \cap Same(more) = {}
      /\ Less(counts) \subseteq Less(more)
      /\ Less(counts) \cup Same(counts) \subseteq Less(more) \cup Same(more)
  BY <1>1
<1> DEFINE b == Cardinality(Less(counts))
           e == Cardinality(Same(counts))
           b2 == Cardinality(Less(more))
           e2 == Cardinality(Same(more))
<1>4. 50 * (2 * b + e) >= percent * Cardinality(P)
  BY DEF PercentileAtLeast
<1>5. PercentileAtLeast(more, id, percent) <=> 50 * (2 * b2 + e2) >= percent * Cardinality(P)
  BY <1>1 DEF PercentileAtLeast
<1> HIDE DEF Less, Same
<1>6. b \in Nat /\ e \in Nat /\ b2 \in Nat /\ e2 \in Nat /\ b <= b2
  BY <1>2, <1>3, PartOf, FS_CardinalityType
<1>7. b + e <= b2 + e2
  <2>1. /\ Cardinality(Less(counts) \cup Same(counts)) = b + e
        /\ Cardinality(Less(more) \cup Same(more)) = b2 + e2
        /\ IsFiniteSet(Less(more) \cup Same(more))
    BY <1>2, <1>3, DisjointUnion
  <2> QED
    BY <1>3, <2>1, PartOf
<1>8. 50 * (2 * b + e) <= 50 * (2 * b2 + e2)
  <2> HIDE DEF b, e, b2, e2
  <2> QED
    BY <1>6, <1>7
<1>9. percent * Cardinality(P) \in Int
  BY <1>1, FS_CardinalityType
<1> HIDE DEF b, e, b2, e2, P
<1> QED
  BY <1>4, <1>5, <1>6, <1>8, <1>9

-----------------------------------------------------------------------------
(* Counts of complaints *)

\* What one more complaint does to a count.
LEMMA CountGrows ==
  ASSUME NEW C, NEW complaints \in Seq(C), NEW r \in C, NEW j, NEW from, NEW to
  PROVE  /\ CountOf(complaints, j, from, to) \in Nat
         /\ CountOf(Append(complaints, r), j, from, to)
              = CountOf(complaints, j, from, to)
                + (IF r.institution = j /\ r.age >= from /\ r.age < to THEN 1 ELSE 0)
<1> DEFINE more == Append(complaints, r)
           n == Len(complaints)
           Is(c) == c.institution = j /\ c.age >= from /\ c.age < to
           Old == {k \in DOMAIN complaints : Is(complaints[k])}
           New == {k \in DOMAIN more : Is(more[k])}
<1>1. /\ n \in Nat /\ DOMAIN complaints = 1..n /\ DOMAIN more = 1..(n + 1)
      /\ \A k \in 1..n : more[k] = complaints[k]
      /\ more[n + 1] = r
  BY AppendProperties
<1>2. IsFiniteSet(Old) /\ Cardinality(Old) \in Nat
  <2>1. IsFiniteSet(1..n)
    BY <1>1, FS_Interval
  <2> QED
    BY <1>1, <2>1, FS_Subset, FS_CardinalityType
<1>3. CountOf(complaints, j, from, to) = Cardinality(Old) /\ CountOf(more, j, from, to) = Cardinality(New)
  BY DEF CountOf
<1>4. n + 1 \notin Old /\ \A k : k \in 1..(n + 1) <=> k \in 1..n \/ k = n + 1
  BY <1>1
<1> HIDE DEF more, n
<1>5. CASE Is(r)
  <2>1. New = Old \cup {n + 1}
    BY <1>1, <1>4, <1>5
  <2> HIDE DEF Old, New
  <2>2. Cardinality(New) = Cardinality(Old) + 1
    BY <1>2, <1>4, <2>1, FS_AddElement
  <2> QED
    BY <1>2, <1>3, <1>5, <2>2 DEF more
<1>6. CASE ~Is(r)
  <2>1. New = Old
    BY <1>1, <1>4, <1>6
  <2> HIDE DEF Old, New
  <2>2. Cardinality(New) = Cardinality(Old) + 0
    BY <1>2, <2>1
  <2> QED
    BY <1>2, <1>3, <1>6, <2>2 DEF more
<1> QED
  BY <1>5, <1>6

\* Every count is at most the sum, so that one is the greatest.
LEMMA GreatestCount ==
  ASSUME NEW counts, AreCounts(counts), DOMAIN counts # {}
  PROVE  \E e \in DOMAIN counts : \A h \in DOMAIN counts : counts[h] <= counts[e]
<1> DEFINE B == Sum(counts)
           back == {B - counts[h] : h \in DOMAIN counts}
<1>1. ASSUME NEW h \in DOMAIN counts PROVE counts[h] \in Nat /\ B \in Nat /\ counts[h] <= B
  <2> DEFINE rest == [d \in DOMAIN counts \ {h} |-> counts[d]]
  <2>1. IsFiniteSet(DOMAIN counts) /\ \A d \in DOMAIN counts : counts[d] \in Nat
    BY DEF AreCounts
  <2> HIDE DEF rest
  <2>2. Sum(counts) = counts[h] + Sum(rest) /\ Sum(rest) \in Nat
    BY <2>1, SumSplit DEF rest
  <2> QED
    BY <2>1, <2>2
<1> HIDE DEF B
<1>2. back \subseteq Nat /\ back # {}
  BY <1>1
<1>3. PICK m \in back : \A k \in back : m <= k
  <2> HIDE DEF back
  <2> QED
    BY <1>2, LeastOf
<1>4. PICK e \in DOMAIN counts : m = B - counts[e]
  OBVIOUS
<1>5. ASSUME NEW h \in DOMAIN counts PROVE counts[h] <= counts[e]
  <2>1. m <= B - counts[h]
    BY <1>3
  <2> QED
    BY <1>1, <1>4, <2>1
<1> QED
  BY <1>5

\* The k-th smallest of k counts or more is one of them.
LEMMA RankedIs ==
  ASSUME NEW counts, AreCounts(counts), DOMAIN counts # {}, NEW k \in Int,
         k <= Cardinality(DOMAIN counts)
  PROVE  Ranked(counts, k) \in Nat
<1> DEFINE UpTo(j) == {h \in DOMAIN counts : counts[h] <= counts[j]}
           enough == {counts[id] : id \in {j \in DOMAIN counts : Cardinality(UpTo(j)) >= k}}
<1>1. PICK e \in DOMAIN counts : \A h \in DOMAIN counts : counts[h] <= counts[e]
  BY GreatestCount
<1>2. UpTo(e) = DOMAIN counts
  BY <1>1
<1>3. enough # {}
  BY <1>2
<1>4. enough \subseteq Nat
  BY DEF AreCounts
<1>5. Ranked(counts, k) = Min(enough)
  BY DEF Ranked
<1> HIDE DEF enough
<1>6. \E x \in enough : \A y \in enough : x <= y
  BY <1>3, <1>4, LeastOf
<1>7. Min(enough) \in enough
  BY <1>6 DEF Min
<1> QED
  BY <1>4, <1>5, <1>7

\* Whether a count is above the 90th percentile of some depends on one bound.
LEMMA P90Is ==
  ASSUME NEW counts, AreCounts(counts), DOMAIN counts # {}
  PROVE  \E bound \in Int : \A v : AboveP90(counts, v) <=> 10 * v > bound
<1> DEFINE n == Cardinality(DOMAIN counts)
           low == (9 * (n - 1)) \div 10
           rest == (9 * (n - 1)) % 10
           next == IF low + 2 <= n THEN Ranked(counts, low + 2) ELSE Ranked(counts, n)
           bound == (10 - rest) * Ranked(counts, low + 1) + rest * next
<1>1. n \in Nat /\ n >= 1
  <2>1. n \in Nat /\ n # 0
    BY FS_EmptySet, FS_CardinalityType DEF AreCounts
  <2> QED
    BY <2>1
<1> HIDE DEF n
<1>2. low \in Nat /\ low + 1 <= n /\ rest \in Int
  BY <1>1
<1>3. \A v : AboveP90(counts, v) <=> 10 * v > bound
  BY DEF AboveP90, n
<1> HIDE DEF low, rest
<1>4. Ranked(counts, low + 1) \in Nat /\ next \in Nat
  <2>1. low + 1 \in Int /\ low + 2 \in Int /\ n \in Int
    BY <1>1, <1>2
  <2>2. Ranked(counts, low + 1) \in Nat
    BY <1>2, <2>1, RankedIs DEF n
  <2>3. low + 2 <= n => Ranked(counts, low + 2) \in Nat
    BY <2>1, RankedIs DEF n
  <2>4. n <= n
    BY <1>1
  <2>5. Ranked(counts, n) \in Nat
    BY <2>1, <2>4, RankedIs DEF n
  <2> QED
    BY <2>2, <2>3, <2>5
<1> HIDE DEF next
<1>5. bound \in Int
  BY <1>2, <1>4
<1> QED
  BY <1>3, <1>5

-----------------------------------------------------------------------------
(* One more complaint *)

\* Over any days, an institution's counts are as they were but its own, which
\* grows by one if the complaint came in them.
LEMMA CountsOneMore ==
  ASSUME NEW C, NEW complaints \in Seq(C), NEW r \in C, NEW S, IsFiniteSet(S),
         NEW from, NEW to
  PROVE  LET before == [j \in S |-> CountOf(complaints, j, from, to)]
             after  == [j \in S |-> CountOf(Append(complaints, r), j, from, to)]
         IN  AreCounts(before) /\ (after = before \/ OneMore(before, after, r.institution))
<1> DEFINE before == [j \in S |-> CountOf(complaints, j, from, to)]
           after  == [j \in S |-> CountOf(Append(complaints, r), j, from, to)]
<1>1. \A j \in S : /\ before[j] \in Nat
                   /\ after[j] = before[j] + (IF r.institution = j /\ r.age >= from /\ r.age < to
                                              THEN 1 ELSE 0)
  BY CountGrows
<1>2. DOMAIN before = S /\ DOMAIN after = S
  OBVIOUS
<1>3. AreCounts(before)
  BY <1>1, <1>2 DEF AreCounts
<1>4. (\A j \in S : after[j] = before[j]) => after = before
  BY Zenon
<1> HIDE DEF before, after
<1>5. CASE r.institution \in S /\ r.age >= from /\ r.age < to
  <2>1. \A j \in S : after[j] = IF j = r.institution THEN before[j] + 1 ELSE before[j]
    BY <1>1, <1>5
  <2>2. OneMore(before, after, r.institution)
    BY <1>2, <1>5, <2>1 DEF OneMore
  <2> QED
    BY <1>3, <1>5, <2>2 DEF before, after
<1>6. CASE ~(r.institution \in S /\ r.age >= from /\ r.age < to)
  <2>1. \A j \in S : after[j] = before[j]
    BY <1>1, <1>6
  <2> QED
    BY <1>3, <1>4, <2>1 DEF before, after
<1> QED
  BY <1>5, <1>6

\* An outlier stays one.
LEMMA OutlierStays ==
  ASSUME NEW C, NEW complaints \in Seq(C), NEW r \in C, NEW peers, IsFiniteSet(peers),
         r.institution \in peers, NEW windowDays \in Nat,
         IsOutlier(complaints, peers, r.institution, windowDays)
  PROVE  IsOutlier(Append(complaints, r), peers, r.institution, windowDays)
<1> DEFINE before == Counts(complaints, peers, windowDays)
           after == Counts(Append(complaints, r), peers, windowDays)
           id == r.institution
<1>1. AreCounts(before) /\ (after = before \/ OneMore(before, after, id))
  BY CountsOneMore DEF Counts
<1>2. PercentileAtLeast(before, id, 90) \/ ZScoreAtLeast(before, id, 2)
  BY DEF IsOutlier
<1>3. IsOutlier(Append(complaints, r), peers, id, windowDays)
        <=> PercentileAtLeast(after, id, 90) \/ ZScoreAtLeast(after, id, 2)
  BY DEF IsOutlier
<1> HIDE DEF before, after, id
<1>4. 90 \in Int
  OBVIOUS
<1>5. OneMore(before, after, id) => PercentileAtLeast(after, id, 90) \/ ZScoreAtLeast(after, id, 2)
  BY <1>1, <1>2, <1>4, PercentileGrows, ZScoreGrows
<1>6. PercentileAtLeast(after, id, 90) \/ ZScoreAtLeast(after, id, 2)
  BY <1>1, <1>2, <1>5
<1> QED
  BY <1>3, <1>6 DEF id

\* Days above the cohort stay above it.
LEMMA DaysStay ==
  ASSUME NEW C, NEW complaints \in Seq(C), NEW r \in C, NEW peers, IsFiniteSet(peers),
         NEW days \in Nat
  PROVE  SustainedDays(complaints, peers, r.institution, days)
           <= SustainedDays(Append(complaints, r), peers, r.institution, days)
<1> DEFINE id == r.institution
           others == peers \ {id}
           counts(c, S, day) ==
             [j \in S |-> CountOf(c, j, day * HoursPerDay, (day + 1) * HoursPerDay)]
           own(c, day) == CountOf(c, id, day * HoursPerDay, (day + 1) * HoursPerDay)
           Above(c) == {day \in 0..(days - 1) :
             others # {} /\ own(c, day) > 0 /\ AboveP90(counts(c, others, day), own(c, day))}
           more == Append(complaints, r)
<1>1. ASSUME NEW day \in Above(complaints) PROVE day \in Above(more)
  <2>1. AreCounts(counts(complaints, others, day))
        /\ counts(more, others, day) = counts(complaints, others, day)
    <3>1. IsFiniteSet(others) /\ id \notin others
      BY FS_RemoveElement
    <3> DEFINE from == day * HoursPerDay
               to == (day + 1) * HoursPerDay
    <3>2. \A j \in others :
            /\ CountOf(complaints, j, from, to) \in Nat
            /\ CountOf(more, j, from, to) = CountOf(complaints, j, from, to)
      BY CountGrows
    <3> HIDE DEF others, more, from, to
    <3>3. /\ AreCounts([j \in others |-> CountOf(complaints, j, from, to)])
          /\ [j \in others |-> CountOf(more, j, from, to)]
               = [j \in others |-> CountOf(complaints, j, from, to)]
      BY <3>1, <3>2 DEF AreCounts
    <3> QED
      BY <3>3 DEF from, to
  <2>2. /\ own(complaints, day) \in Nat
        /\ own(more, day) = own(complaints, day) \/ own(more, day) = own(complaints, day) + 1
    BY CountGrows
  <2>3. /\ others # {} /\ own(complaints, day) > 0 /\ day \in 0..(days - 1)
        /\ AboveP90(counts(complaints, others, day), own(complaints, day))
    OBVIOUS
  <2>4. DOMAIN counts(complaints, others, day) = others
    OBVIOUS
  <2> HIDE DEF counts, own, others
  <2>5. PICK bound \in Int : \A v : AboveP90(counts(complaints, others, day), v) <=> 10 * v > bound
    BY <2>1, <2>3, <2>4, P90Is
  <2>6. 10 * own(complaints, day) > bound
    BY <2>3, <2>5
  <2>7. own(more, day) > 0 /\ 10 * own(more, day) > bound
    BY <2>2, <2>3, <2>6
  <2>8. AboveP90(counts(more, others, day), own(more, day))
    BY <2>1, <2>5, <2>7
  <2> QED
    BY <2>3, <2>7, <2>8
<1>2. IsFiniteSet(Above(more))
  <2>1. IsFiniteSet(0..(days - 1))
    BY FS_Interval
  <2> QED
    BY <2>1, FS_Subset
<1>3. \A c : SustainedDays(c, peers, id, days) = Cardinality(Above(c))
  BY DEF SustainedDays
<1> HIDE DEF Above
<1>4. Cardinality(Above(complaints)) <= Cardinality(Above(more))
  BY <1>1, <1>2, FS_Subset
<1> QED
  BY <1>3, <1>4

\* The days of a series sum to its window.
LEMMA SeriesSums ==
  ASSUME NEW C, \A c \in C : c.age \in Int, NEW complaints \in Seq(C), NEW id,
         NEW days \in Nat
  PROVE  Sum(DailyCounts(complaints, id, days)) = CountOf(complaints, id, 0, days * HoursPerDay)
<1> DEFINE n == Len(complaints)
           age(k) == complaints[k].age
           D == {k \in DOMAIN complaints :
                   complaints[k].institution = id /\ age(k) >= 0 /\ age(k) < days * HoursPerDay}
           key == [k \in D |-> days - (age(k) \div 24)]
           series == DailyCounts(complaints, id, days)
<1>1. DOMAIN complaints = 1..n /\ n \in Nat /\ \A k \in DOMAIN complaints : age(k) \in Int
  OBVIOUS
<1>2. IsFiniteSet(D)
  <2>1. IsFiniteSet(1..n)
    BY <1>1, FS_Interval
  <2> QED
    BY <1>1, <2>1, FS_Subset
<1>3. DOMAIN series = 1..days
  BY DEF DailyCounts
<1>4. \A a \in Int : a >= 0 /\ a < days * 24 => days - (a \div 24) \in 1..days
  OBVIOUS
<1>5. \A a \in Int, d \in 1..days :
        (a >= 0 /\ a < days * 24 /\ days - (a \div 24) = d)
          <=> (a >= (days - d) * 24 /\ a < (days - d + 1) * 24)
  OBVIOUS
<1>6. \A k \in D : key[k] \in DOMAIN series
  BY <1>1, <1>3, <1>4 DEF HoursPerDay
<1>7. ASSUME NEW d \in DOMAIN series
      PROVE  series[d] = Cardinality({k \in D : key[k] = d})
  <2>1. series[d] = Cardinality({k \in DOMAIN complaints :
           complaints[k].institution = id
             /\ age(k) >= (days - d) * 24 /\ age(k) < (days - d + 1) * 24})
    BY <1>3 DEF DailyCounts, CountOf, HoursPerDay
  <2>2. {k \in D : key[k] = d} = {k \in DOMAIN complaints :
           complaints[k].institution = id
             /\ age(k) >= (days - d) * 24 /\ age(k) < (days - d + 1) * 24}
    BY <1>1, <1>3, <1>5 DEF HoursPerDay
  <2> QED
    BY <2>1, <2>2
<1>8. CountOf(complaints, id, 0, days * HoursPerDay) = Cardinality(D)
  BY DEF CountOf
<1> HIDE DEF D, key, series
<1>9. Sum(series) = Cardinality(D)
  BY <1>2, <1>6, <1>7, CountsSum
<1> QED
  BY <1>8, <1>9 DEF series

\* Of any institutions and complaints: one more complaint never takes its
\* institution off the outliers nor shortens its days above the cohort, and
\* the days of its forecast sum to the complaints of the window.
THEOREM NeverBetter ==
  ASSUME NEW institutions, IsFiniteSet(institutions), NEW i,
         NEW C, \A c \in C : c.age \in Int, NEW complaints \in Seq(C),
         NEW windowDays \in Nat, NEW days \in Nat
  PROVE  MoreComplaintsNeverBetter(institutions, i, complaints, windowDays, days)
<1> DEFINE peers == Peers(institutions, i)
<1>1. IsFiniteSet(peers) /\ i.id \in peers
  <2> DEFINE like == {k \in institutions : Assignable(k) /\ Cohort(k) = Cohort(i)}
             ids == {j.id : j \in like}
             name == [j \in like |-> j.id]
  <2>1. IsFiniteSet(like)
    BY FS_Subset
  <2>2. name \in Surjection(like, ids)
    BY DEF Surjection
  <2> HIDE DEF like, ids, name
  <2>3. IsFiniteSet(ids)
    BY <2>1, <2>2, FS_Surjection
  <2>4. peers = ids \cup {i.id}
    BY DEF Peers, ids, like
  <2> QED
    BY <2>3, <2>4, FS_AddElement
<1> HIDE DEF peers
<1>2. ASSUME NEW age \in 0..(days * HoursPerDay - 1)
      PROVE  LET more == Append(complaints, [institution |-> i.id, age |-> age]) IN
             /\ IsOutlier(complaints, peers, i.id, windowDays) =>
                  IsOutlier(more, peers, i.id, windowDays)
             /\ SustainedDays(complaints, peers, i.id, days)
                  <= SustainedDays(more, peers, i.id, days)
             /\ Forecast(more, i, days) # <<>> =>
                  Sum(Forecast(more, i, days))
                    = 1 + CountOf(complaints, i.id, 0, days * HoursPerDay)
  <2> DEFINE r == [institution |-> i.id, age |-> age]
             C2 == C \cup {r}
             more == Append(complaints, r)
  <2>1. r.institution = i.id /\ r.age = age /\ age \in Int /\ age >= 0 /\ age < days * HoursPerDay
    BY DEF HoursPerDay
  <2>2. r \in C2 /\ complaints \in Seq(C2) /\ \A c \in C2 : c.age \in Int
    <3>1. C \subseteq C2
      OBVIOUS
    <3>2. complaints \in Seq(C2)
      BY <3>1
    <3> QED
      BY <2>1, <3>2
  <2> HIDE DEF r, C2
  <2>3. more \in Seq(C2)
    BY <2>2, AppendProperties
  <2>4. IsOutlier(complaints, peers, i.id, windowDays) => IsOutlier(more, peers, i.id, windowDays)
    BY <1>1, <2>1, <2>2, OutlierStays
  <2>5. SustainedDays(complaints, peers, i.id, days) <= SustainedDays(more, peers, i.id, days)
    BY <1>1, <2>1, <2>2, DaysStay
  <2>6. Forecast(more, i, days) # <<>> =>
          Sum(Forecast(more, i, days)) = CountOf(more, i.id, 0, days * HoursPerDay)
    <3>1. Forecast(more, i, days) # <<>> => Forecast(more, i, days) = DailyCounts(more, i.id, days)
      BY DEF Forecast
    <3> HIDE DEF more
    <3> QED
      BY <2>2, <2>3, <3>1, SeriesSums
  <2>7. CountOf(more, i.id, 0, days * HoursPerDay)
          = 1 + CountOf(complaints, i.id, 0, days * HoursPerDay)
    <3>1. /\ CountOf(complaints, i.id, 0, days * HoursPerDay) \in Nat
          /\ CountOf(more, i.id, 0, days * HoursPerDay)
               = CountOf(complaints, i.id, 0, days * HoursPerDay) + 1
      BY <2>1, <2>2, CountGrows
    <3> QED
      BY <3>1
  <2> QED
    BY <2>4, <2>5, <2>6, <2>7 DEF more, r
<1> QED
  BY <1>2 DEF MoreComplaintsNeverBetter, peers

================================================================================
