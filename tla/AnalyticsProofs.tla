--------------------------- MODULE AnalyticsProofs ---------------------------
(***************************************************************************)
(* Theorems about Analytics: what every analysis accounts for, that its     *)
(* statistics are in order, and that its levels of confidence, its prices   *)
(* and its comparisons have the evidence they need.  For any inputs.        *)
(***************************************************************************)
EXTENDS Analytics, Sums

-----------------------------------------------------------------------------
(* Confidence levels. *)

(* The lowest of a set of levels is one of them and not above any. *)
LEMMA LowestSound ==
    ASSUME NEW L \in SUBSET Levels, L # {}
    PROVE  Lowest(L) \in L /\ \A l \in L : AtMost(Lowest(L), l)
<1>1. \A l \in Levels : Rank[l] = CASE l = "low" -> 0 [] l = "medium" -> 1 [] l = "high" -> 2
  BY DEF Rank
<1>2. Rank["low"] = 0 /\ Rank["medium"] = 1 /\ Rank["high"] = 2
  BY <1>1 DEF Levels
<1>3. \E l \in L : \A other \in L : AtMost(l, other)
  <2>1. CASE "low" \in L
    BY <1>2, <2>1 DEF Levels, AtMost
  <2>2. CASE "low" \notin L /\ "medium" \in L
    BY <1>2, <2>2 DEF Levels, AtMost
  <2>3. CASE "low" \notin L /\ "medium" \notin L
    <3>1. L = {"high"}
      BY <2>3 DEF Levels
    <3>. QED
      BY <1>2, <3>1 DEF AtMost
  <2>. QED
    BY <2>1, <2>2, <2>3
<1>. QED
  BY <1>3 DEF Lowest

-----------------------------------------------------------------------------
(* Fractions and order statistics. *)

Fractions == {v \in Int \X Int : v[2] > 0}

(* The parts of a fraction. *)
LEMMA FractionParts ==
    ASSUME NEW v \in Fractions
    PROVE  v = <<v[1], v[2]>> /\ v[1] \in Int /\ v[2] \in Int /\ v[2] > 0
BY DEF Fractions

(* A pair of integers, the second of them positive, is a fraction. *)
LEMMA MakeFraction ==
    ASSUME NEW a \in Int, NEW b \in Int, b > 0
    PROVE  <<a, b>> \in Fractions /\ <<a, b>>[1] = a /\ <<a, b>>[2] = b
BY DEF Fractions

(* What comparisons of fractions come to, once multiplied out. *)
LEMMA Products ==
    /\ \A a, b, c \in Int : c > 0 => (a <= b <=> a * c <= b * c)
    /\ \A a, b, c \in Int : c > 0 => (a < b <=> a * c < b * c)
  OBVIOUS

(* Fractions are totally ordered. *)
LEMMA Order ==
    ASSUME NEW u \in Fractions, NEW v \in Fractions
    PROVE  /\ NotAbove(u, v) <=> u[1] * v[2] <= v[1] * u[2]
           /\ Less(u, v) <=> ~NotAbove(v, u)
           /\ Less(u, v) => NotAbove(u, v)
           /\ NotAbove(u, u)
<1>1. /\ u[1] \in Int /\ u[2] \in Int /\ v[1] \in Int /\ v[2] \in Int
      /\ u[1] * v[2] \in Int /\ v[1] * u[2] \in Int
  BY FractionParts
<1>. QED
  BY <1>1 DEF NotAbove, Less

(* The order of fractions is transitive. *)
LEMMA Transitive ==
    ASSUME NEW u \in Fractions, NEW v \in Fractions, NEW w \in Fractions,
           NotAbove(u, v), NotAbove(v, w)
    PROVE  NotAbove(u, w)
<1> DEFINE a == u[1]  b == u[2]  c == v[1]  d == v[2]  e == w[1]  f == w[2]
<1>1. /\ a \in Int /\ b \in Int /\ b > 0 /\ c \in Int /\ d \in Int /\ d > 0
      /\ e \in Int /\ f \in Int /\ f > 0
  BY FractionParts
<1>2. a * d <= c * b /\ c * f <= e * d
  BY Order
<1> HIDE DEF a, b, c, d, e, f
<1>3. (a * d) * f <= (c * b) * f /\ (c * f) * b <= (e * d) * b
  <2>1. a * d \in Int /\ c * b \in Int /\ c * f \in Int /\ e * d \in Int
    BY <1>1
  <2>. QED
    BY <1>1, <1>2, <2>1, Products
<1>4. (a * f) * d <= (e * b) * d
  <2>1. /\ (a * f) * d = (a * d) * f /\ (e * b) * d = (e * d) * b
        /\ (c * b) * f = (c * f) * b
        /\ (a * f) * d \in Int /\ (e * b) * d \in Int /\ (c * f) * b \in Int
    BY <1>1
  <2>. QED
    BY <1>3, <2>1
<1>5. a * f <= e * b
  <2>1. a * f \in Int /\ e * b \in Int
    BY <1>1
  <2>. QED
    BY <1>1, <1>4, <2>1, Products
<1>. QED
  BY <1>5, Order DEF a, b, e, f

(* The last of a nonempty finite set of fractions, and the first. *)
LEMMA FractionExtremes ==
    ASSUME NEW V \in SUBSET Fractions, IsFiniteSet(V), V # {}
    PROVE  /\ \E m \in V : \A v \in V : NotAbove(m, v)
           /\ \E m \in V : \A v \in V : NotAbove(v, m)
<1> DEFINE R == {p \in V \X V : NotAbove(p[1], p[2])}
           Q == {p \in V \X V : NotAbove(p[2], p[1])}
<1>1. \A x, y \in V : (<<x, y>> \in R <=> NotAbove(x, y)) /\ (<<x, y>> \in Q <=> NotAbove(y, x))
  OBVIOUS
<1>2. \A x, y \in V : NotAbove(x, y) \/ NotAbove(y, x)
  BY Order
<1>3. \A x, y, z \in V : NotAbove(x, y) /\ NotAbove(y, z) => NotAbove(x, z)
  BY Transitive
<1> HIDE DEF R, Q
<1>4. \E m \in V : \A v \in V : <<m, v>> \in R
  BY <1>1, <1>2, <1>3, Extreme
<1>5. \E m \in V : \A v \in V : <<m, v>> \in Q
  BY <1>1, <1>2, <1>3, Extreme
<1>. QED
  BY <1>1, <1>4, <1>5

Below(f, v) == {x \in DOMAIN f : Less(f[x], v)}
UpTo(f, v) == {x \in DOMAIN f : NotAbove(f[x], v)}

(* v is in the k-th place of the values of f in ascending order. *)
InPlace(f, k, v) == /\ v \in Range(f)
                    /\ Cardinality(Below(f, v)) < k
                    /\ k <= Cardinality(UpTo(f, v))

Ascending(n, s) == \A i, j \in 1..n : i <= j => NotAbove(s[i], s[j])

(* How many elements the subsets of a finite set have. *)
LEMMA SmallerSet ==
    ASSUME NEW S, IsFiniteSet(S), NEW A \in SUBSET S, NEW B \in SUBSET S, A \subseteq B
    PROVE  /\ Cardinality(A) \in Nat /\ Cardinality(B) \in Nat
           /\ Cardinality(A) <= Cardinality(B)
           /\ (A # {} <=> Cardinality(A) > 0)
<1>1. IsFiniteSet(B) /\ IsFiniteSet(A)
  BY FS_Subset
<1>2. Cardinality(A) = 0 <=> A = {}
  BY <1>1, FS_EmptySet
<1>. QED
  BY <1>1, <1>2, FS_Subset, FS_CardinalityType

(* Every place is taken. *)
LEMMA PlaceTaken ==
    ASSUME NEW S, IsFiniteSet(S), NEW f \in [S -> Fractions], NEW k \in 1..Cardinality(S)
    PROVE  \E v : InPlace(f, k, v)
<1> DEFINE V == Range(f)
           G == {v \in V : k <= Cardinality(UpTo(f, v))}
<1>1. /\ \A v \in V : UpTo(f, v) \in SUBSET S /\ Below(f, v) \in SUBSET S
      /\ \A x \in S : f[x] \in V
      /\ \A v \in V : v \in Fractions /\ \E x \in S : v = f[x]
  BY DEF UpTo, Below, Range
<1>2. IsFiniteSet(V) /\ S # {}
  <2>1. V = {f[x] : x \in S}
    BY DEF Range
  <2>2. IsFiniteSet({f[x] : x \in S})
    BY ImageFinite
  <2>3. Cardinality(S) # 0
    BY FS_CardinalityType
  <2>. QED
    BY <2>1, <2>2, <2>3, FS_EmptySet
<1>3. V # {} /\ V \in SUBSET Fractions
  BY <1>1, <1>2
<1> HIDE DEF V
<1>4. G # {} /\ G \in SUBSET V
  <2>1. PICK m \in V : \A v \in V : NotAbove(v, m)
    BY <1>2, <1>3, FractionExtremes
  <2>2. UpTo(f, m) = S
    BY <1>1, <2>1 DEF UpTo
  <2>. QED
    BY <2>2
<1>5. PICK v \in G : \A u \in G : NotAbove(v, u)
  <2>1. G \in SUBSET Fractions /\ IsFiniteSet(G)
    BY <1>2, <1>3, <1>4, FS_Subset
  <2> HIDE DEF G
  <2>. QED
    BY <1>4, <2>1, FractionExtremes
<1>6. Cardinality(Below(f, v)) < k
  <2> DEFINE A == Below(f, v)
             W == {f[x] : x \in A}
  <2>1. SUFFICES ASSUME ~(Cardinality(A) < k) PROVE FALSE
    OBVIOUS
  <2>2. A \in SUBSET S /\ IsFiniteSet(A) /\ Cardinality(A) \in Nat
    <3>1. A \in SUBSET S
      BY <1>1
    <3> HIDE DEF A
    <3>. QED
      BY <3>1, FS_Subset, FS_CardinalityType
  <2>3. A # {} /\ Cardinality(A) >= k
    <3>1. Cardinality(A) > 0
      BY <2>1, <2>2
    <3> HIDE DEF A
    <3>. QED
      BY <2>1, <2>2, <3>1, FS_EmptySet
  <2>4. IsFiniteSet(W) /\ W # {} /\ W \in SUBSET V
    <3>1. IsFiniteSet(W)
      <4> HIDE DEF A
      <4>. QED
        BY <2>2, ImageFinite
    <3>. QED
      BY <1>1, <2>2, <2>3, <3>1
  <2>5. PICK w \in W : \A u \in W : NotAbove(u, w)
    <3> HIDE DEF W
    <3>. QED
      BY <1>3, <2>4, FractionExtremes
  <2>6. A \subseteq UpTo(f, w) /\ UpTo(f, w) \in SUBSET S
    BY <1>1, <2>2, <2>4, <2>5 DEF UpTo
  <2>7. k <= Cardinality(UpTo(f, w))
    <3> HIDE DEF A
    <3>1. Cardinality(A) <= Cardinality(UpTo(f, w)) /\ Cardinality(UpTo(f, w)) \in Nat
      BY <2>2, <2>6, SmallerSet
    <3>. QED
      BY <2>2, <2>3, <3>1
  <2>8. NotAbove(v, w) /\ Less(w, v)
    BY <1>5, <2>4, <2>7 DEF Below
  <2>. QED
    BY <1>3, <2>4, <2>8, Order
<1>. QED
  BY <1>5, <1>6 DEF InPlace, V

(* Sorted has every value in its place, in ascending order. *)
LEMMA SortedSound ==
    ASSUME NEW S, IsFiniteSet(S), NEW f \in [S -> Fractions]
    PROVE  /\ \A k \in 1..Cardinality(S) :
                 Sorted(f)[k] \in Fractions /\ \E x \in S : Sorted(f)[k] = f[x]
           /\ Ascending(Cardinality(S), Sorted(f))
<1> DEFINE n == Cardinality(S)
           s == Sorted(f)
<1>1. n \in Nat
  BY FS_CardinalityType
<1>2. \A k \in 1..n : s[k] = CHOOSE v : InPlace(f, k, v)
  <2>1. ASSUME NEW k \in 1..n
        PROVE  s[k] = CHOOSE v \in Range(f) :
                  Cardinality(Below(f, v)) < k /\ k <= Cardinality(UpTo(f, v))
    BY DEF Sorted, Below, UpTo
  <2>. QED
    BY <2>1 DEF InPlace
<1>3. \A k \in 1..n : InPlace(f, k, s[k])
  <2>1. ASSUME NEW k \in 1..n
        PROVE  InPlace(f, k, s[k])
    <3>1. \E v : InPlace(f, k, v)
      BY PlaceTaken
    <3>. QED
      BY <1>2, <3>1
  <2>. QED
    BY <2>1
<1>4. \A k \in 1..n : s[k] \in Fractions /\ \E x \in S : s[k] = f[x]
  BY <1>3 DEF InPlace, Range
<1> HIDE DEF s
<1>5. ASSUME NEW i \in 1..n, NEW j \in 1..n, i <= j, ~NotAbove(s[i], s[j])
      PROVE  FALSE
  <2>1. Less(s[j], s[i])
    BY <1>4, <1>5, Order
  <2>2. UpTo(f, s[j]) \in SUBSET S /\ Below(f, s[i]) \in SUBSET S
    BY DEF UpTo, Below
  <2>3. UpTo(f, s[j]) \subseteq Below(f, s[i])
    <3>1. ASSUME NEW x \in S, NotAbove(f[x], s[j])
          PROVE  Less(f[x], s[i])
      <4>1. f[x] \in Fractions /\ s[i] \in Fractions /\ s[j] \in Fractions
        BY <1>4
      <4>2. NotAbove(s[i], f[x]) => NotAbove(s[i], s[j])
        BY <3>1, <4>1, Transitive
      <4>. QED
        BY <1>5, <4>1, <4>2, Order
    <3>. QED
      BY <3>1 DEF UpTo, Below
  <2>4. Cardinality(UpTo(f, s[j])) <= Cardinality(Below(f, s[i]))
        /\ Cardinality(UpTo(f, s[j])) \in Nat /\ Cardinality(Below(f, s[i])) \in Nat
    BY <2>2, <2>3, SmallerSet
  <2>5. Cardinality(Below(f, s[i])) < i /\ j <= Cardinality(UpTo(f, s[j]))
    BY <1>3 DEF InPlace
  <2>. QED
    BY <1>1, <1>5, <2>4, <2>5
<1>. QED
  BY <1>4, <1>5 DEF Ascending, s

(* A weighted mean of two fractions lies between them. *)
Mean(u, v, p, q) == <<u[1] * v[2] * p + v[1] * u[2] * q, (p + q) * u[2] * v[2]>>

(* A weighted mean is between the two fractions it is of. *)
LEMMA MeanBetween ==
    ASSUME NEW u \in Fractions, NEW v \in Fractions, NotAbove(u, v),
           NEW p \in Nat, NEW q \in Nat, p + q > 0
    PROVE  /\ Mean(u, v, p, q) \in Fractions
           /\ NotAbove(u, Mean(u, v, p, q)) /\ NotAbove(Mean(u, v, p, q), v)
<1> DEFINE a == u[1]  b == u[2]  c == v[1]  d == v[2]
           x == a * d  y == c * b  m == x * p + y * q  e == (p + q) * b * d
<1>1. /\ a \in Int /\ b \in Int /\ b > 0 /\ c \in Int /\ d \in Int /\ d > 0
  BY FractionParts
<1>2. x \in Int /\ y \in Int /\ x <= y
  BY <1>1, Order
<1>3. Mean(u, v, p, q) = <<m, e>>
  BY DEF Mean
<1> HIDE DEF a, b, c, d
<1>4. m \in Int /\ e \in Int /\ e > 0
  <2> DEFINE k == p + q
  <2>1. k \in Int /\ k > 0
    OBVIOUS
  <2> HIDE DEF k
  <2>2. k * b \in Int /\ k * b > 0
    BY <1>1, <2>1
  <2>3. (k * b) * d \in Int /\ (k * b) * d > 0
    BY <1>1, <2>2
  <2>4. x * p \in Int /\ y * q \in Int
    <3> HIDE DEF x, y
    <3>. QED
      BY <1>2
  <2>. QED
    BY <2>3, <2>4 DEF k
<1>5. <<m, e>> \in Fractions /\ <<m, e>>[1] = m /\ <<m, e>>[2] = e
  BY <1>4, MakeFraction
<1>6. a * e <= m * b
  <2>1. a * e = (x * p) * b + x * (q * b)
    BY <1>1
  <2>2. m * b = (x * p) * b + y * (q * b)
    <3> HIDE DEF x, y
    <3>. QED
      BY <1>1, <1>2
  <2>3. x * (q * b) <= y * (q * b)
    <3> HIDE DEF x, y
    <3>1. q * b \in Int /\ q * b >= 0
      BY <1>1
    <3> DEFINE r == q * b
    <3> HIDE DEF r
    <3>2. r \in Int /\ r >= 0
      BY <3>1 DEF r
    <3>3. x * r <= y * r
      BY <1>2, <3>2
    <3>. QED
      BY <3>3 DEF r
  <2>4. (x * p) * b \in Int /\ x * (q * b) \in Int /\ y * (q * b) \in Int
    <3> HIDE DEF x, y
    <3>. QED
      BY <1>1, <1>2
  <2> HIDE DEF x, y, m, e
  <2>. QED
    BY <2>1, <2>2, <2>3, <2>4
<1>7. m * d <= c * e
  <2>1. c * e = y * (p * d) + (y * q) * d
    BY <1>1
  <2>2. m * d = x * (p * d) + (y * q) * d
    <3> HIDE DEF x, y
    <3>. QED
      BY <1>1, <1>2
  <2>3. x * (p * d) <= y * (p * d)
    <3> HIDE DEF x, y
    <3>1. p * d \in Int /\ p * d >= 0
      BY <1>1
    <3> DEFINE r == p * d
    <3> HIDE DEF r
    <3>2. r \in Int /\ r >= 0
      BY <3>1 DEF r
    <3>3. x * r <= y * r
      BY <1>2, <3>2
    <3>. QED
      BY <3>3 DEF r
  <2>4. (y * q) * d \in Int /\ x * (p * d) \in Int /\ y * (p * d) \in Int
    <3> HIDE DEF x, y
    <3>. QED
      BY <1>1, <1>2
  <2> HIDE DEF x, y, m, e
  <2>. QED
    BY <2>1, <2>2, <2>3, <2>4
<1> HIDE DEF m, e
<1>. QED
  BY <1>3, <1>5, <1>6, <1>7, Order DEF a, b, c, d

(* The median lies between the two places in the middle. *)
LEMMA MedianBetween ==
    ASSUME NEW S, IsFiniteSet(S), NEW f \in [S -> Fractions], S # {}
    PROVE  LET n == Cardinality(S)
           IN /\ Median(f) \in Fractions
              /\ NotAbove(Sorted(f)[(n + 1) \div 2], Median(f))
              /\ NotAbove(Median(f), Sorted(f)[n \div 2 + 1])
<1> DEFINE n == Cardinality(S)
           s == Sorted(f)
<1>1. n \in Nat \ {0}
  BY FS_CardinalityType, FS_EmptySet
<1>2. /\ \A k \in 1..n : s[k] \in Fractions
      /\ \A i, j \in 1..n : i <= j => NotAbove(s[i], s[j])
  BY SortedSound DEF Ascending
<1>3. Median(f) = IF n % 2 = 1 THEN s[(n + 1) \div 2] ELSE Half(s[n \div 2], s[n \div 2 + 1])
  BY DEF Median
<1> HIDE DEF s, n
<1>4. CASE n % 2 = 1
  <2>1. (n + 1) \div 2 \in 1..n /\ (n + 1) \div 2 = n \div 2 + 1
    BY <1>1, <1>4
  <2>2. Median(f) = s[(n + 1) \div 2]
    BY <1>3, <1>4
  <2>. QED
    BY <1>2, <2>1, <2>2, Order DEF n, s
<1>5. CASE n % 2 # 1
  <2> DEFINE i == n \div 2
  <2>1. i \in 1..n /\ i + 1 \in 1..n /\ i <= i + 1 /\ (n + 1) \div 2 = i
    BY <1>1, <1>5
  <2> HIDE DEF i
  <2>2. s[i] \in Fractions /\ s[i + 1] \in Fractions /\ NotAbove(s[i], s[i + 1])
    BY <1>2, <2>1
  <2>3. Median(f) = Mean(s[i], s[i + 1], 1, 1)
    <3>1. /\ s[i][1] \in Int /\ s[i][2] \in Int /\ s[i + 1][1] \in Int /\ s[i + 1][2] \in Int
      BY <2>2, FractionParts
    <3>2. Half(s[i], s[i + 1]) = Mean(s[i], s[i + 1], 1, 1)
      BY <3>1 DEF Half, Mean
    <3>. QED
      BY <1>3, <1>5, <3>2 DEF i
  <2>4. /\ Mean(s[i], s[i + 1], 1, 1) \in Fractions
        /\ NotAbove(s[i], Mean(s[i], s[i + 1], 1, 1))
        /\ NotAbove(Mean(s[i], s[i + 1], 1, 1), s[i + 1])
    BY <2>2, MeanBetween
  <2>. QED
    BY <2>1, <2>3, <2>4 DEF i, n, s
<1>. QED
  BY <1>4, <1>5

(* Some value is not above the median, and some value is not below it. *)
LEMMA MedianWitness ==
    ASSUME NEW S, IsFiniteSet(S), NEW f \in [S -> Fractions], S # {}
    PROVE  /\ Median(f) \in Fractions
           /\ \E x \in S : NotAbove(f[x], Median(f))
           /\ \E x \in S : NotAbove(Median(f), f[x])
<1> DEFINE n == Cardinality(S)
<1>1. n \in Nat \ {0}
  BY FS_CardinalityType, FS_EmptySet
<1>2. \A k \in 1..n : \E x \in S : Sorted(f)[k] = f[x]
  BY SortedSound
<1>3. /\ Median(f) \in Fractions
      /\ NotAbove(Sorted(f)[(n + 1) \div 2], Median(f))
      /\ NotAbove(Median(f), Sorted(f)[n \div 2 + 1])
  BY MedianBetween
<1> HIDE DEF n
<1>4. (n + 1) \div 2 \in 1..n /\ n \div 2 + 1 \in 1..n
  BY <1>1
<1>. QED
  BY <1>2, <1>3, <1>4

(* Where a percentile lies: between the places i and j. *)
PercentileIn(f, tenths, i, j) ==
    /\ Percentile(f, tenths) \in Fractions
    /\ NotAbove(Sorted(f)[i], Percentile(f, tenths))
    /\ NotAbove(Percentile(f, tenths), Sorted(f)[j])

Weight(n, tenths) == (tenths * (n - 1)) % 10
LowerPlace(n, tenths) == (tenths * (n - 1)) \div 10 + 1
UpperPlace(n, tenths) == IF Weight(n, tenths) = 0 THEN LowerPlace(n, tenths)
                         ELSE LowerPlace(n, tenths) + 1

(* A percentile is between its two neighbours in the ascending order. *)
LEMMA PercentileBetween ==
    ASSUME NEW S, IsFiniteSet(S), NEW f \in [S -> Fractions], S # {}, NEW t \in 1..9,
           NEW n, n = Cardinality(S)
    PROVE  /\ LowerPlace(n, t) \in 1..n /\ UpperPlace(n, t) \in 1..n
           /\ Percentile(f, t) = Mean(Sorted(f)[LowerPlace(n, t)], Sorted(f)[UpperPlace(n, t)],
                                      10 - Weight(n, t), Weight(n, t))
           /\ PercentileIn(f, t, LowerPlace(n, t), UpperPlace(n, t))
<1> DEFINE s == Sorted(f)
           position == t * (n - 1)
           w == Weight(n, t)
           i == LowerPlace(n, t)
           j == UpperPlace(n, t)
<1>0. w = position % 10 /\ i = position \div 10 + 1 /\ j = IF w = 0 THEN i ELSE i + 1
  BY DEF Weight, LowerPlace, UpperPlace
<1> HIDE DEF w, i, j
<1>1. n \in Nat \ {0}
  BY FS_CardinalityType, FS_EmptySet
<1>2. /\ \A k \in 1..n : s[k] \in Fractions
      /\ \A k, l \in 1..n : k <= l => NotAbove(s[k], s[l])
  BY SortedSound DEF Ascending
<1>3. position \in Nat /\ position <= 9 * (n - 1)
  <2> DEFINE r == n - 1
  <2>1. r \in Nat
    BY <1>1
  <2> HIDE DEF r
  <2>2. t * r \in Nat /\ t * r <= 9 * r
    BY <2>1
  <2>. QED
    BY <2>2 DEF r
<1>4. Percentile(f, t) = <<s[i][1] * s[j][2] * (10 - w) + s[j][1] * s[i][2] * w,
                           10 * s[i][2] * s[j][2]>>
  <2>1. s[position \div 10 + 1] = s[i]
    BY <1>0
  <2>2. (IF w = 0 THEN s[i] ELSE s[position \div 10 + 2]) = s[j]
    <3>1. position \div 10 + 2 = i + 1
      <4> HIDE DEF position
      <4>. QED
        BY <1>0, <1>3
    <3>. QED
      BY <1>0, <3>1
  <2>3. Percentile(f, t) =
          LET high == IF w = 0 THEN s[i] ELSE s[position \div 10 + 2]
          IN <<s[i][1] * high[2] * (10 - w) + high[1] * s[i][2] * w, 10 * s[i][2] * high[2]>>
    BY <1>0 DEF Percentile
  <2> HIDE DEF s, position
  <2>. QED
    BY <2>2, <2>3
<1> HIDE DEF position
<1>5. i \in 1..n /\ j \in 1..n /\ i <= j /\ w \in 0..9
  BY <1>0, <1>1, <1>3
<1> HIDE DEF s
<1>6. s[i] \in Fractions /\ s[j] \in Fractions /\ NotAbove(s[i], s[j])
  BY <1>2, <1>5
<1> DEFINE p == 10 - w
<1>7. p \in Nat /\ w \in Nat /\ p + w = 10
  BY <1>5
<1>8. Percentile(f, t) = Mean(s[i], s[j], p, w)
  BY <1>4, <1>7 DEF Mean
<1> HIDE DEF p
<1>9. /\ Mean(s[i], s[j], p, w) \in Fractions
      /\ NotAbove(s[i], Mean(s[i], s[j], p, w)) /\ NotAbove(Mean(s[i], s[j], p, w), s[j])
  BY <1>6, <1>7, MeanBetween
<1>. QED
  BY <1>5, <1>8, <1>9 DEF PercentileIn, s, w, i, j, p

(* Of two values: the tenth percentile, the median, the ninetieth percentile. *)
LEMMA MeansOfTwo ==
    ASSUME NEW u \in Fractions, NEW v \in Fractions, NotAbove(u, v)
    PROVE  /\ NotAbove(Mean(u, v, 9, 1), Mean(u, v, 1, 1))
           /\ NotAbove(Mean(u, v, 1, 1), Mean(u, v, 1, 9))
<1> DEFINE a == u[1]  b == u[2]  c == v[1]  d == v[2]
           x == a * d  y == c * b  e == b * d
<1>1. /\ a \in Int /\ b \in Int /\ b > 0 /\ c \in Int /\ d \in Int /\ d > 0
  BY FractionParts
<1>2. x \in Int /\ y \in Int /\ x <= y
  BY <1>1, Order
<1>3. e \in Int /\ e > 0
  <2> HIDE DEF a, b, c, d
  <2>. QED
    BY <1>1
<1>4. /\ Mean(u, v, 9, 1) = <<9 * x + y, 10 * e>>
      /\ Mean(u, v, 1, 1) = <<x + y, 2 * e>>
      /\ Mean(u, v, 1, 9) = <<x + 9 * y, 10 * e>>
  <2> HIDE DEF a, b, c, d
  <2>1. /\ (9 + 1) * b * d = 10 * e /\ (1 + 1) * b * d = 2 * e /\ (1 + 9) * b * d = 10 * e
        /\ a * d * 9 + c * b * 1 = 9 * x + y /\ a * d * 1 + c * b * 1 = x + y
        /\ a * d * 1 + c * b * 9 = x + 9 * y
    BY <1>1
  <2>. QED
    BY <2>1 DEF Mean, a, b, c, d
<1> HIDE DEF x, y, e
<1>5. x * e <= y * e /\ x * e \in Int /\ y * e \in Int
  BY <1>2, <1>3, Products
<1>6. /\ (9 * x + y) * (2 * e) <= (x + y) * (10 * e)
      /\ (x + y) * (10 * e) <= (x + 9 * y) * (2 * e)
  <2>1. /\ (9 * x + y) * (2 * e) = 18 * (x * e) + 2 * (y * e)
        /\ (x + y) * (10 * e) = 10 * (x * e) + 10 * (y * e)
        /\ (x + 9 * y) * (2 * e) = 2 * (x * e) + 18 * (y * e)
    BY <1>2, <1>3
  <2>. QED
    BY <1>5, <2>1
<1>7. /\ <<9 * x + y, 10 * e>> \in Fractions /\ <<x + y, 2 * e>> \in Fractions
      /\ <<x + 9 * y, 10 * e>> \in Fractions
  BY <1>2, <1>3, MakeFraction
<1>. QED
  BY <1>4, <1>6, <1>7, Order

InOrder(s) == /\ NotAbove(s.minimum, s.p10) /\ NotAbove(s.p10, s.median)
              /\ NotAbove(s.median, s.p90) /\ NotAbove(s.p90, s.maximum)

(* The order statistics of a summary are in order. *)
LEMMA SummaryInOrder ==
    ASSUME NEW S, IsFiniteSet(S), NEW f \in [S -> Fractions], S # {}
    PROVE  InOrder(Summarize(f)) /\ Summarize(f).median \in Fractions
<1> DEFINE n == Cardinality(S)
           s == Sorted(f)
           i == LowerPlace(n, 1)  j == UpperPlace(n, 1)
           k == LowerPlace(n, 9)  l == UpperPlace(n, 9)
           p == Percentile(f, 1)  m == Median(f)  q == Percentile(f, 9)
<1>1. n \in Nat \ {0}
  BY FS_CardinalityType, FS_EmptySet
<1>2. Ascending(n, s) /\ \A x \in 1..n : s[x] \in Fractions
  BY SortedSound
<1>3. /\ m \in Fractions
      /\ NotAbove(s[(n + 1) \div 2], m) /\ NotAbove(m, s[n \div 2 + 1])
  BY MedianBetween
<1>4. /\ i \in 1..n /\ j \in 1..n /\ p \in Fractions /\ NotAbove(s[i], p) /\ NotAbove(p, s[j])
      /\ p = Mean(s[i], s[j], 10 - Weight(n, 1), Weight(n, 1))
  <2>1. 1 \in 1..9
    OBVIOUS
  <2> HIDE DEF n
  <2>. QED
    BY <2>1, PercentileBetween DEF PercentileIn, n
<1>5. /\ k \in 1..n /\ l \in 1..n /\ q \in Fractions /\ NotAbove(s[k], q) /\ NotAbove(q, s[l])
      /\ q = Mean(s[k], s[l], 10 - Weight(n, 9), Weight(n, 9))
  <2>1. 9 \in 1..9
    OBVIOUS
  <2> HIDE DEF n
  <2>. QED
    BY <2>1, PercentileBetween DEF PercentileIn, n
<1>6. Summarize(f).minimum = s[1] /\ Summarize(f).maximum = s[n] /\ Summarize(f).median = m
      /\ Summarize(f).p10 = p /\ Summarize(f).p90 = q
  BY DEF Summarize
<1> HIDE DEF n, s, p, q, m
<1>7. NotAbove(s[1], p) /\ NotAbove(q, s[n])
  <2>1. 1 \in 1..n /\ n \in 1..n /\ 1 <= i /\ l <= n
    BY <1>1, <1>4, <1>5
  <2>2. NotAbove(s[1], s[i]) /\ NotAbove(s[l], s[n])
    BY <1>2, <1>4, <1>5, <2>1 DEF Ascending
  <2>. QED
    BY <1>2, <1>4, <1>5, <2>1, <2>2, Transitive
<1>8. CASE n = 2
  <2>1. /\ i = 1 /\ j = 2 /\ Weight(n, 1) = 1 /\ k = 1 /\ l = 2 /\ Weight(n, 9) = 9
    BY <1>8 DEF LowerPlace, UpperPlace, Weight
  <2>2. p = Mean(s[1], s[2], 9, 1) /\ q = Mean(s[1], s[2], 1, 9)
    BY <1>4, <1>5, <2>1
  <2>3. m = Mean(s[1], s[2], 1, 1)
    <3>1. m = Half(s[1], s[2])
      BY <1>8 DEF m, n, s, Median
    <3>2. s[1] \in Fractions /\ s[2] \in Fractions
      BY <1>2, <1>8
    <3>3. s[1][1] \in Int /\ s[1][2] \in Int /\ s[2][1] \in Int /\ s[2][2] \in Int
      BY <3>2, FractionParts
    <3>. QED
      BY <3>1, <3>3 DEF Half, Mean
  <2>4. s[1] \in Fractions /\ s[2] \in Fractions /\ NotAbove(s[1], s[2])
    BY <1>2, <1>8 DEF Ascending
  <2>5. NotAbove(p, m) /\ NotAbove(m, q)
    BY <2>2, <2>3, <2>4, MeansOfTwo
  <2>. QED
    BY <1>3, <1>6, <1>7, <2>5 DEF InOrder
<1>9. CASE n # 2
  <2> DEFINE lo == (n + 1) \div 2  hi == n \div 2 + 1
  <2>1. lo \in 1..n /\ hi \in 1..n
    BY <1>1
  <2>2. j <= lo /\ hi <= k
    BY <1>1, <1>9 DEF LowerPlace, UpperPlace, Weight
  <2> HIDE DEF lo, hi
  <2>3. NotAbove(s[j], s[lo]) /\ NotAbove(s[hi], s[k])
    BY <1>2, <1>4, <1>5, <2>1, <2>2 DEF Ascending
  <2>4. NotAbove(s[lo], m) /\ NotAbove(m, s[hi])
    BY <1>3 DEF lo, hi
  <2>5. s[j] \in Fractions /\ s[lo] \in Fractions /\ s[hi] \in Fractions /\ s[k] \in Fractions
    BY <1>2, <1>4, <1>5, <2>1
  <2>6. NotAbove(p, s[lo]) /\ NotAbove(s[hi], q)
    BY <1>4, <1>5, <2>3, <2>5, Transitive
  <2>7. NotAbove(p, m) /\ NotAbove(m, q)
    BY <1>3, <1>4, <1>5, <2>4, <2>5, <2>6, Transitive
  <2>. QED
    BY <1>3, <1>6, <1>7, <2>7 DEF InOrder
<1>. QED
  BY <1>8, <1>9

-----------------------------------------------------------------------------
(* Cohorts and their reports. *)

ReportsOf(samples) == {CohortReport(c) : c \in BuildCohorts(samples)}

(* A cohort is the nonempty set of the samples of its key. *)
IsCohort(c, S) == /\ c.samples \in SUBSET S /\ IsFiniteSet(c.samples) /\ c.samples # {}
                  /\ \A s \in S : s \in c.samples <=> CohortKey(s) = c.key

(* build_cohorts makes cohorts. *)
LEMMA CohortShape ==
    ASSUME NEW S \in SUBSET Samples, IsFiniteSet(S), NEW c \in BuildCohorts(S)
    PROVE  IsCohort(c, S)
<1>1. PICK t \in S : c = [key |-> CohortKey(t), samples |-> {s \in S : CohortKey(s) = CohortKey(t)}]
  BY DEF BuildCohorts
<1> HIDE DEF BuildCohorts
<1>2. c.key = CohortKey(t) /\ c.samples = {s \in S : CohortKey(s) = CohortKey(t)}
  BY <1>1
<1>3. c.samples \in SUBSET S /\ t \in c.samples
  BY <1>2
<1>4. IsFiniteSet(c.samples)
  BY <1>3, FS_Subset
<1>. QED
  BY <1>2, <1>3, <1>4 DEF IsCohort

(* Every sample has its cohort, and cohorts of one key are one. *)
LEMMA CohortOfSample ==
    ASSUME NEW S, NEW s \in S
    PROVE  \E c \in BuildCohorts(S) : c.key = CohortKey(s) /\ s \in c.samples
<1> DEFINE c == [key |-> CohortKey(s), samples |-> {t \in S : CohortKey(t) = CohortKey(s)}]
<1>1. c \in BuildCohorts(S)
  BY DEF BuildCohorts
<1>2. c.key = CohortKey(s) /\ s \in c.samples
  OBVIOUS
<1>. QED
  BY <1>1, <1>2

(* Cohorts of one key are one. *)
LEMMA CohortOfKey ==
    ASSUME NEW S, NEW c \in BuildCohorts(S), NEW d \in BuildCohorts(S), c.key = d.key
    PROVE  c = d
BY DEF BuildCohorts

(* The first sample and the times of a cohort. *)
LEMMA CohortTimes ==
    ASSUME NEW S \in SUBSET Samples, NEW c, IsCohort(c, S)
    PROVE  /\ First(c) \in c.samples
           /\ \A s \in c.samples : First(c).created <= s.created
           /\ \E s \in c.samples : EndedAt(c) = s.created
           /\ \A s \in c.samples : s.created <= EndedAt(c)
<1> DEFINE T == c.samples
           R == {p \in T \X T : p[1].created < p[2].created
                                \/ (p[1].created = p[2].created /\ p[1].id <= p[2].id)}
           Q == {p \in T \X T : p[2].created <= p[1].created}
<1>1. IsFiniteSet(T) /\ T # {} /\ \A s \in T : s.created \in Int /\ s.id \in Int
  BY DEF IsCohort, Samples
<1>2. /\ \A s, t \in T : <<s, t>> \in R <=> (s.created < t.created
                                            \/ (s.created = t.created /\ s.id <= t.id))
      /\ \A s, t \in T : <<s, t>> \in Q <=> t.created <= s.created
  OBVIOUS
<1> HIDE DEF R, Q, T
<1>3. PICK s \in T : \A t \in T : <<s, t>> \in R
  <2>1. ASSUME NEW x \in T, NEW y \in T
        PROVE  <<x, y>> \in R \/ <<y, x>> \in R
    <3>1. x.created \in Int /\ y.created \in Int /\ x.id \in Int /\ y.id \in Int
      BY <1>1
    <3>. QED
      BY <1>2, <3>1
  <2>2. \A x, y, z \in T : <<x, y>> \in R /\ <<y, z>> \in R => <<x, z>> \in R
    BY <1>1, <1>2
  <2>. QED
    BY <1>1, <2>1, <2>2, Extreme
<1>4. PICK e \in T : \A t \in T : <<e, t>> \in Q
  <2>1. ASSUME NEW x \in T, NEW y \in T
        PROVE  <<x, y>> \in Q \/ <<y, x>> \in Q
    <3>1. x.created \in Int /\ y.created \in Int /\ x.id \in Int /\ y.id \in Int
      BY <1>1
    <3>. QED
      BY <1>2, <3>1
  <2>2. \A x, y, z \in T : <<x, y>> \in Q /\ <<y, z>> \in Q => <<x, z>> \in Q
    BY <1>1, <1>2
  <2>. QED
    BY <1>1, <2>1, <2>2, Extreme
<1>5. First(c) \in T /\ \A t \in T : First(c).created < t.created
                          \/ (First(c).created = t.created /\ First(c).id <= t.id)
  BY <1>2, <1>3 DEF First, T
<1>6. EndedAt(c) \in {t.created : t \in T} /\ \A t \in T : t.created <= EndedAt(c)
  <2> DEFINE D == {t.created : t \in T}
  <2>1. e.created \in D /\ \A t \in T : t.created <= e.created
    BY <1>2, <1>4
  <2>2. EndedAt(c) = CHOOSE d \in D : \A t \in T : t.created <= d
    BY DEF EndedAt, T
  <2> HIDE DEF D
  <2>3. EndedAt(c) \in D /\ \A t \in T : t.created <= EndedAt(c)
    BY <2>1, <2>2
  <2>. QED
    BY <2>3 DEF D
<1>7. \A t \in T : First(c).created <= t.created
  BY <1>1, <1>5
<1>. QED
  BY <1>5, <1>6, <1>7 DEF T

(* The fields of a cohort report. *)
LEMMA ReportFields ==
    ASSUME NEW c
    PROVE  /\ CohortReport(c).key = c.key /\ CohortReport(c).samples = c.samples
           /\ CohortReport(c).profile = First(c).profile
           /\ CohortReport(c).start = First(c).created /\ CohortReport(c).end = EndedAt(c)
           /\ CohortReport(c).metrics = SummarizeCohort(c)
           /\ CohortReport(c).coverage = Coverage(c, SummarizeCohort(c))
           /\ CohortReport(c).confidence
                 = OverallConfidence(SummarizeCohort(c), Coverage(c, SummarizeCohort(c)))
BY DEF CohortReport, StartedAt

(* A report covers the samples of one key, from the first to the last of them. *)
IsReport(r, S) ==
    /\ r.samples \in SUBSET S /\ IsFiniteSet(r.samples) /\ r.samples # {}
    /\ \A s \in S : s \in r.samples <=> CohortKey(s) = r.key
    /\ \E s \in r.samples : r.start = s.created /\ r.profile = s.profile
    /\ \E s \in r.samples : r.end = s.created
    /\ \A s \in r.samples : r.start <= s.created /\ s.created <= r.end

(* build_cohort_report reports every sample of its cohort, from first to last. *)
LEMMA ReportShape ==
    ASSUME NEW S \in SUBSET Samples, IsFiniteSet(S), NEW r \in ReportsOf(S)
    PROVE  IsReport(r, S)
<1>1. PICK c \in BuildCohorts(S) : r = CohortReport(c)
  BY DEF ReportsOf
<1>2. IsCohort(c, S)
  BY CohortShape
<1>3. /\ First(c) \in c.samples
      /\ \A s \in c.samples : First(c).created <= s.created
      /\ \E s \in c.samples : EndedAt(c) = s.created
      /\ \A s \in c.samples : s.created <= EndedAt(c)
  BY <1>2, CohortTimes
<1>4. /\ r.key = c.key /\ r.samples = c.samples /\ r.profile = First(c).profile
      /\ r.start = First(c).created /\ r.end = EndedAt(c)
  BY <1>1, ReportFields
<1>. QED
  BY <1>2, <1>3, <1>4 DEF IsReport, IsCohort

(* Every sample is in the report of its key. *)
LEMMA ReportOfSample ==
    ASSUME NEW S, NEW s \in S
    PROVE  \E r \in ReportsOf(S) : r.key = CohortKey(s) /\ s \in r.samples
<1>1. PICK c \in BuildCohorts(S) : c.key = CohortKey(s) /\ s \in c.samples
  BY CohortOfSample
<1>2. CohortReport(c) \in ReportsOf(S)
  BY DEF ReportsOf
<1>. QED
  BY <1>1, <1>2, ReportFields

(* Reports of one key are one. *)
LEMMA ReportOfKey ==
    ASSUME NEW S, NEW r \in ReportsOf(S), NEW q \in ReportsOf(S), r.key = q.key
    PROVE  r = q
<1>1. PICK c \in BuildCohorts(S), d \in BuildCohorts(S) : r = CohortReport(c) /\ q = CohortReport(d)
  BY DEF ReportsOf
<1>2. c.key = d.key
  BY <1>1, ReportFields
<1>. QED
  BY <1>1, <1>2, CohortOfKey

(* Finitely many samples have finitely many reports. *)
LEMMA ReportsFinite ==
    ASSUME NEW S, IsFiniteSet(S)
    PROVE  IsFiniteSet(ReportsOf(S))
<1> DEFINE c(s) == [key |-> CohortKey(s), samples |-> {t \in S : CohortKey(t) = CohortKey(s)}]
           f == [s \in S |-> CohortReport(c(s))]
<1>1. \A s \in S : f[s] = CohortReport(c(s))
  OBVIOUS
<1>2. ReportsOf(S) = {CohortReport(c(s)) : s \in S}
  BY DEF ReportsOf, BuildCohorts
<1>3. ReportsOf(S) = {f[s] : s \in S}
  BY <1>1, <1>2
<1> HIDE DEF f
<1>4. IsFiniteSet({f[s] : s \in S})
  BY ImageFinite
<1>. QED
  BY <1>3, <1>4

-----------------------------------------------------------------------------
(* Coverage and confidence. *)

(* Each of the three dimensions of confidence has a level. *)
LEMMA ConfidenceLevels ==
    ASSUME NEW metrics, NEW coverage
    PROVE  /\ MeasurementConfidence(metrics) \in Levels
           /\ StatisticalConfidence(coverage) \in Levels
           /\ CoverageConfidence(coverage) \in Levels
<1>1. MeasurementConfidence(metrics) \in Levels
  BY DEF MeasurementConfidence, Levels
<1>2. StatisticalConfidence(coverage) \in Levels
  BY DEF StatisticalConfidence, Levels
<1>3. CoverageConfidence(coverage) \in Levels
  BY DEF CoverageConfidence, Levels
<1>. QED
  BY <1>1, <1>2, <1>3

(* The order of the levels, case by case. *)
LEMMA Ranks ==
    /\ Rank["low"] = 0 /\ Rank["medium"] = 1 /\ Rank["high"] = 2
    /\ \A l \in Levels : (AtMost("medium", l) => l # "low") /\ (AtMost("high", l) => l = "high")
    /\ \A l \in Levels : AtMost("low", l) /\ AtMost(l, l) /\ AtMost(l, "high")
    /\ AtMost("medium", "high")
<1>1. \A l \in Levels : Rank[l] = CASE l = "low" -> 0 [] l = "medium" -> 1 [] l = "high" -> 2
  BY DEF Rank
<1>2. Rank["low"] = 0 /\ Rank["medium"] = 1 /\ Rank["high"] = 2
  BY <1>1 DEF Levels
<1>. QED
  BY <1>2 DEF Levels, AtMost

(* The overall confidence is not above any of the three. *)
LEMMA OverallSound ==
    ASSUME NEW metrics, NEW coverage
    PROVE  LET overall == OverallConfidence(metrics, coverage)
           IN /\ overall \in Levels
              /\ overall # "low" => /\ MeasurementConfidence(metrics) # "low"
                                    /\ StatisticalConfidence(coverage) # "low"
              /\ overall = "high" => /\ StatisticalConfidence(coverage) = "high"
                                     /\ CoverageConfidence(coverage) = "high"
<1> DEFINE a == MeasurementConfidence(metrics)
           b == StatisticalConfidence(coverage)
           c == CoverageConfidence(coverage)
           L == {a, b, c}
           overall == OverallConfidence(metrics, coverage)
<1>1. a \in Levels /\ b \in Levels /\ c \in Levels
  BY ConfidenceLevels
<1>2. overall = Lowest(L)
  BY DEF OverallConfidence
<1> HIDE DEF a, b, c, overall
<1>3. overall \in L /\ \A l \in L : AtMost(overall, l)
  BY <1>1, <1>2, LowestSound
<1>4. overall \in Levels
  BY <1>1, <1>3
<1>5. AtMost(overall, a) /\ AtMost(overall, b) /\ AtMost(overall, c)
  BY <1>3
<1>. QED
  BY <1>1, <1>4, <1>5, Ranks DEF Levels, a, b, c, overall

(* What confidence that is not low rests on. *)
Evident(r) ==
    /\ r.confidence \in Levels
    /\ r.confidence # "low" =>
          /\ r.coverage.gaps \cap {"insufficient_samples", "short_observation_period"} = {}
          /\ \A m \in r.metrics : m.statistics.variation # "variable"
    /\ r.confidence = "high" => /\ Cardinality(r.samples) >= ManySamples
                                /\ \E s \in r.samples : s.region # None
                                /\ \E s \in r.samples : s.plan # None

(* The confidence of a cohort report is evident (calculate_confidence). *)
LEMMA ReportEvident ==
    ASSUME NEW S \in SUBSET Samples, IsFiniteSet(S), NEW r \in ReportsOf(S)
    PROVE  Evident(r)
<1>1. PICK c \in BuildCohorts(S) : r = CohortReport(c)
  BY DEF ReportsOf
<1> DEFINE metrics == SummarizeCohort(c)
           coverage == Coverage(c, metrics)
           overall == OverallConfidence(metrics, coverage)
<1>2. /\ r.samples = c.samples /\ r.metrics = metrics /\ r.coverage = coverage
      /\ r.confidence = overall
  BY <1>1, ReportFields
<1>3. /\ coverage.samples = Cardinality(c.samples) /\ coverage.days = ObservationDays(c)
      /\ coverage.located = ((\E s \in c.samples : s["region"] # None)
                             /\ (\E s \in c.samples : s["plan"] # None))
      /\ coverage.gaps =
            (IF Cardinality(c.samples) >= SomeSamples THEN {} ELSE {"insufficient_samples"})
            \cup (IF ObservationDays(c) >= SomeDays THEN {} ELSE {"short_observation_period"})
            \cup (UNION {IF \E s \in c.samples : s[field] # None THEN {} ELSE {field} :
                            field \in {"region", "zone", "product", "plan"}})
            \cup (ExpectedMetrics \ {m.name : m \in metrics})
  BY Zenon DEF Coverage
<1> HIDE DEF coverage, metrics
<1>4. /\ overall \in Levels
      /\ overall # "low" => /\ MeasurementConfidence(metrics) # "low"
                            /\ StatisticalConfidence(coverage) # "low"
      /\ overall = "high" => /\ StatisticalConfidence(coverage) = "high"
                             /\ CoverageConfidence(coverage) = "high"
  BY OverallSound
<1> HIDE DEF overall
<1>5. coverage.samples \in Nat /\ coverage.days \in Int
  <2>1. IsCohort(c, S)
    BY CohortShape
  <2>2. First(c) \in c.samples /\ \E s \in c.samples : EndedAt(c) = s.created
    BY <2>1, CohortTimes
  <2>3. First(c).created \in Int /\ EndedAt(c) \in Int
    BY <2>1, <2>2 DEF IsCohort, Samples
  <2>. QED
    BY <1>3, <2>1, <2>3, FS_CardinalityType DEF IsCohort, ObservationDays, StartedAt
<1>6. StatisticalConfidence(coverage) # "low" => coverage.samples >= SomeSamples
                                                 /\ coverage.days >= SomeDays
  BY <1>5, EvidenceAssumption DEF StatisticalConfidence
<1>7. StatisticalConfidence(coverage) = "high" => coverage.samples >= ManySamples
  BY DEF StatisticalConfidence
<1>8. CoverageConfidence(coverage) = "high" => coverage.located
  BY DEF CoverageConfidence
<1>9. ASSUME MeasurementConfidence(metrics) # "low", NEW m \in metrics
      PROVE  m.statistics.variation # "variable"
  <2> DEFINE variations == {x.statistics.variation : x \in metrics} \ {None}
  <2>1. MeasurementConfidence(metrics) =
          CASE variations = {} \/ "variable" \in variations -> "low"
            [] variations # {} /\ variations \subseteq {"stable"} -> "high"
            [] OTHER -> "medium"
    BY DEF MeasurementConfidence
  <2>2. "variable" \notin variations
    <3> HIDE DEF variations
    <3>. QED
      BY <1>9, <2>1
  <2>. QED
    BY <2>2 DEF None
<1>10. ASSUME coverage.samples >= SomeSamples, coverage.days >= SomeDays
       PROVE  coverage.gaps \cap {"insufficient_samples", "short_observation_period"} = {}
  <2>1. coverage.gaps =
            (UNION {IF \E s \in c.samples : s[field] # None THEN {} ELSE {field} :
                       field \in {"region", "zone", "product", "plan"}})
            \cup (ExpectedMetrics \ {m.name : m \in metrics})
    BY <1>3, <1>10
  <2>2. coverage.gaps \subseteq {"region", "zone", "product", "plan"} \cup ExpectedMetrics
    <3> DEFINE F == {"region", "zone", "product", "plan"}
               gap(field) == IF \E s \in c.samples : s[field] # None THEN {} ELSE {field}
               U == UNION {gap(field) : field \in F}
               E == ExpectedMetrics \ {m.name : m \in metrics}
    <3>1. \A field \in F : gap(field) \subseteq F
      OBVIOUS
    <3>2. coverage.gaps = U \cup E
      BY <2>1, Zenon
    <3>5. E \subseteq ExpectedMetrics
      OBVIOUS
    <3> HIDE DEF gap, F, E
    <3>3. U \subseteq F
      BY <3>1
    <3> HIDE DEF U
    <3>4. coverage.gaps \subseteq F \cup ExpectedMetrics
      BY <3>2, <3>3, <3>5
    <3>. QED
      BY <3>4 DEF F
  <2>. QED
    BY <2>2, EvidenceAssumption
<1>11. overall # "low" => coverage.gaps \cap {"insufficient_samples", "short_observation_period"} = {}
  BY <1>4, <1>6, <1>10
<1>12. overall # "low" => \A m \in metrics : m.statistics.variation # "variable"
  BY <1>4, <1>9
<1>13. overall = "high" => Cardinality(c.samples) >= ManySamples
  BY <1>3, <1>4, <1>7
<1>14. overall = "high" => /\ \E s \in c.samples : s.region # None
                           /\ \E s \in c.samples : s.plan # None
  BY <1>3, <1>4, <1>8
<1>. QED
  BY <1>2, <1>4, <1>11, <1>12, <1>13, <1>14 DEF Evident

-----------------------------------------------------------------------------
(* Metrics. *)

(* The observations of a sample are finitely many metric values. *)
LEMMA ObservedTyped ==
    ASSUME NEW s \in Samples
    PROVE  /\ IsFiniteSet(Places(s))
           /\ \A p \in Places(s) : Observed(s)[p] \in MetricValues
           /\ Range(Observed(s)) = {Observed(s)[p] : p \in Places(s)}
<1> DEFINE ms == s.measurements
           I == {i \in DOMAIN ms : ms[i].status = "success"}
           g == [i \in I |-> {i} \X DOMAIN ms[i].metrics]
<1>1. ms \in Seq(Measurements) /\ DOMAIN ms = 1..Len(ms) /\ Len(ms) \in Nat
  BY DEF Samples
<1>2. \A i \in DOMAIN ms : ms[i].metrics \in Seq(MetricValues)
  <2>1. ASSUME NEW i \in DOMAIN ms
        PROVE  ms[i] \in Measurements
    <3> HIDE DEF ms, I, g
    <3>. QED
      BY <1>1
  <2>. QED
    BY <2>1 DEF Measurements
<1>3. \A i \in DOMAIN ms : IsFiniteSet(DOMAIN ms[i].metrics)
  <2>1. ASSUME NEW i \in DOMAIN ms
        PROVE  IsFiniteSet(DOMAIN ms[i].metrics)
    <3>1. DOMAIN ms[i].metrics = 1..Len(ms[i].metrics) /\ Len(ms[i].metrics) \in Nat
      BY <1>2
    <3>. QED
      BY <3>1, FS_Interval
  <2>. QED
    BY <2>1
<1>4. Places(s) = UNION {g[i] : i \in I}
  BY DEF Places
<1>5. IsFiniteSet(I)
  <2>1. IsFiniteSet(DOMAIN ms) /\ I \in SUBSET DOMAIN ms
    BY <1>1, FS_Interval
  <2> HIDE DEF I
  <2>. QED
    BY <2>1, FS_Subset
<1>6. \A i \in I : IsFiniteSet(g[i])
  <2>1. ASSUME NEW i \in I
        PROVE  IsFiniteSet(g[i])
    <3>1. IsFiniteSet({i}) /\ IsFiniteSet(DOMAIN ms[i].metrics)
      BY <1>3, FS_Singleton
    <3>2. IsFiniteSet({i} \X DOMAIN ms[i].metrics)
      BY <3>1, FS_Product
    <3>. QED
      BY <3>2
  <2>. QED
    BY <2>1
<1>7. IsFiniteSet(Places(s))
  <2> HIDE DEF I, g
  <2>. QED
    BY <1>4, <1>5, <1>6, FiniteUnion
<1>8. ASSUME NEW p \in Places(s)
      PROVE  Observed(s)[p] \in MetricValues
  <2>1. PICK i \in I : p \in {i} \X DOMAIN ms[i].metrics
    BY DEF Places
  <2>2. p[1] = i /\ p[2] \in DOMAIN ms[i].metrics
    BY <2>1
  <2>3. ms[i].metrics[p[2]] \in MetricValues
    BY <1>2, <2>2
  <2>. QED
    BY <2>2, <2>3 DEF Observed
<1>. QED
  BY <1>7, <1>8 DEF Range, Observed

(* The values that samples contribute to a metric. *)
Named(s, name) == {p \in Places(s) : Observed(s)[p].name = name}
Contributing(c, name) == {s \in c.samples : Named(s, name) # {}}
Contribution(s, name) == Median([p \in Named(s, name) |-> Whole(Observed(s)[p].value)])
Contributions(c, name) == [s \in Contributing(c, name) |-> Contribution(s, name)]

(* The fields of the summary of a metric. *)
LEMMA SummaryFields ==
    ASSUME NEW c, NEW m
    PROVE  /\ SummarizeMetric(c, m).name = m.name /\ SummarizeMetric(c, m).unit = m.unit
           /\ SummarizeMetric(c, m).direction = m.direction
           /\ SummarizeMetric(c, m).statistics = Summarize(Contributions(c, m.name))
BY DEF SummarizeMetric, Contributions, Contribution, Contributing, Named

(* The contributions to a metric are fractions, one of each sample that has it. *)
LEMMA ContributionsSound ==
    ASSUME NEW S \in SUBSET Samples, NEW c, IsCohort(c, S), NEW o \in AllObserved(c)
    PROVE  /\ IsFiniteSet(Contributing(c, o.name)) /\ Contributing(c, o.name) # {}
           /\ Contributions(c, o.name) \in [Contributing(c, o.name) -> Fractions]
           /\ Contributing(c, o.name)
                 = {x \in c.samples : \E v \in Range(Observed(x)) : v.name = o.name}
           /\ o.direction \in {"lower", "higher", "neutral"}
<1> DEFINE name == o.name
<1>1. c.samples \in SUBSET Samples /\ IsFiniteSet(c.samples)
  BY DEF IsCohort
<1>2. PICK t \in c.samples : o \in Range(Observed(t))
  BY DEF AllObserved
<1>3. PICK q \in Places(t) : o = Observed(t)[q]
  BY <1>1, <1>2, ObservedTyped
<1>4. t \in Contributing(c, name) /\ Contributing(c, name) \in SUBSET c.samples
  BY <1>3 DEF Contributing, Named
<1>5. ASSUME NEW s \in Contributing(c, name)
      PROVE  Contribution(s, name) \in Fractions
  <2>1. s \in Samples /\ Named(s, name) # {} /\ Named(s, name) \in SUBSET Places(s)
    BY <1>1, <1>4, <1>5 DEF Contributing, Named
  <2>2. IsFiniteSet(Named(s, name))
    BY <2>1, ObservedTyped, FS_Subset
  <2>3. [p \in Named(s, name) |-> Whole(Observed(s)[p].value)] \in [Named(s, name) -> Fractions]
    <3>1. ASSUME NEW p \in Named(s, name)
          PROVE  Whole(Observed(s)[p].value) \in Fractions
      <4>1. Observed(s)[p] \in MetricValues
        BY <2>1, ObservedTyped
      <4>2. Observed(s)[p].value \in Int
        BY <4>1 DEF MetricValues
      <4>. QED
        BY <4>2, MakeFraction DEF Whole
    <3>. QED
      BY <3>1
  <2>4. Median([p \in Named(s, name) |-> Whole(Observed(s)[p].value)]) \in Fractions
    BY <2>1, <2>2, <2>3, MedianWitness
  <2>. QED
    BY <2>4 DEF Contribution
<1>6. Contributing(c, name) = {x \in c.samples : \E v \in Range(Observed(x)) : v.name = name}
  <2>1. ASSUME NEW x \in c.samples
        PROVE  Named(x, name) # {} <=> \E v \in Range(Observed(x)) : v.name = name
    <3>1. Range(Observed(x)) = {Observed(x)[p] : p \in Places(x)}
      BY <1>1, ObservedTyped
    <3>. QED
      BY <3>1 DEF Named
  <2>. QED
    BY <2>1 DEF Contributing
<1>7. o.direction \in {"lower", "higher", "neutral"}
  <2>1. o \in MetricValues
    BY <1>1, <1>3, ObservedTyped
  <2>. QED
    BY <2>1 DEF MetricValues
<1>8. IsFiniteSet(Contributing(c, name))
  BY <1>1, <1>4, FS_Subset
<1>. QED
  BY <1>4, <1>5, <1>6, <1>7, <1>8 DEF Contributions

(* What the summary of a metric says of the samples. *)
MetricSound(r, m) ==
    /\ InOrder(m.statistics) /\ m.statistics.median \in Fractions
    /\ m.statistics.count = Cardinality({x \in r.samples :
                                            \E o \in Range(Observed(x)) : o.name = m.name})
    /\ m.direction \in {"lower", "higher", "neutral"}

(* Every metric of a report is sound (summarize_cohort). *)
LEMMA ReportMetrics ==
    ASSUME NEW S \in SUBSET Samples, IsFiniteSet(S), NEW r \in ReportsOf(S)
    PROVE  /\ IsFiniteSet(r.metrics)
           /\ \A m \in r.metrics : MetricSound(r, m)
<1>1. PICK c \in BuildCohorts(S) : r = CohortReport(c)
  BY DEF ReportsOf
<1>2. IsCohort(c, S)
  BY CohortShape
<1>3. r.samples = c.samples /\ r.metrics = SummarizeCohort(c)
  BY <1>1, ReportFields
<1>4. r.metrics = {SummarizeMetric(c, o) : o \in AllObserved(c)}
  BY <1>3 DEF SummarizeCohort
<1>5. ASSUME NEW o \in AllObserved(c)
      PROVE  MetricSound(r, SummarizeMetric(c, o))
  <2> DEFINE m == SummarizeMetric(c, o)
             T == Contributing(c, o.name)
             f == Contributions(c, o.name)
  <2>1. m.name = o.name /\ m.direction = o.direction /\ m.statistics = Summarize(f)
    BY SummaryFields
  <2>2. /\ IsFiniteSet(T) /\ T # {} /\ f \in [T -> Fractions]
        /\ T = {x \in c.samples : \E v \in Range(Observed(x)) : v.name = o.name}
        /\ o.direction \in {"lower", "higher", "neutral"}
    BY <1>2, ContributionsSound
  <2> HIDE DEF T, f, m
  <2>3. InOrder(Summarize(f)) /\ Summarize(f).median \in Fractions
    BY <2>2, SummaryInOrder
  <2>4. Summarize(f).count = Cardinality(T)
    BY <2>2 DEF Summarize
  <2>. QED
    BY <1>3, <2>1, <2>2, <2>3, <2>4 DEF MetricSound, m
<1>6. IsFiniteSet(AllObserved(c))
  <2> DEFINE g == [s \in c.samples |-> Range(Observed(s))]
  <2>1. IsFiniteSet(c.samples) /\ c.samples \in SUBSET Samples
    BY <1>2 DEF IsCohort
  <2>2. AllObserved(c) = UNION {g[s] : s \in c.samples}
    BY DEF AllObserved
  <2>3. ASSUME NEW s \in c.samples
        PROVE  IsFiniteSet(g[s])
    <3>1. IsFiniteSet(Places(s)) /\ Range(Observed(s)) = {Observed(s)[p] : p \in Places(s)}
      BY <2>1, ObservedTyped
    <3> DEFINE h == Observed(s)
    <3> HIDE DEF h
    <3>2. IsFiniteSet({h[p] : p \in Places(s)})
      BY <3>1, ImageFinite
    <3>. QED
      BY <3>1, <3>2 DEF h
  <2> HIDE DEF g
  <2>. QED
    BY <2>1, <2>2, <2>3, FiniteUnion
<1>7. IsFiniteSet(r.metrics)
  <2> DEFINE g == [o \in AllObserved(c) |-> SummarizeMetric(c, o)]
  <2>1. r.metrics = {g[o] : o \in AllObserved(c)}
    BY <1>4
  <2> HIDE DEF g
  <2>. QED
    BY <1>6, <2>1, ImageFinite
<1>. QED
  BY <1>4, <1>5, <1>7

(* Without a clash of contracts a report has one metric of each name. *)
LEMMA MetricOfName ==
    ASSUME NEW S, \A c \in BuildCohorts(S) : ~ContractsClash(c), NEW r \in ReportsOf(S),
           NEW m \in r.metrics, NEW l \in r.metrics, m.name = l.name
    PROVE  m = l
<1>1. PICK c \in BuildCohorts(S) : r = CohortReport(c)
  BY DEF ReportsOf
<1>2. r.metrics = {SummarizeMetric(c, o) : o \in AllObserved(c)}
  BY <1>1, ReportFields DEF SummarizeCohort
<1>3. PICK o \in AllObserved(c), p \in AllObserved(c) :
         m = SummarizeMetric(c, o) /\ l = SummarizeMetric(c, p)
  BY <1>2
<1>4. o.name = p.name
  BY <1>3, SummaryFields
<1>5. o.unit = p.unit /\ o.direction = p.direction
  BY <1>4 DEF ContractsClash
<1>. QED
  BY <1>3, <1>4, <1>5 DEF SummarizeMetric

-----------------------------------------------------------------------------
(* Comparisons. *)

(* Observations as the comparisons take them. *)
ProperObservations(O) ==
    /\ IsFiniteSet(O)
    /\ \A o \in O : o.value \in Fractions /\ o.levels \in SUBSET Levels /\ o.levels # {}

Available(O, key, metric) ==
    {o \in O : /\ Comparable(o.cohort) /\ o.metric.direction # "neutral"
               /\ PeerKey(o.cohort) = key /\ o.metric = metric}
Contenders(A) == {o.cohort.provider : o \in A}
OwnOf(A, provider) == {o \in A : o.cohort.provider = provider}

(* A comparison is that of one contender of one group with the others. *)
LEMMA CompareShape ==
    ASSUME NEW O, NEW sign, NEW c \in Compare(O, sign)
    PROVE  \E key, metric : \E p \in Contenders(Available(O, key, metric)) :
              /\ Cardinality(Contenders(Available(O, key, metric))) >= 2
              /\ metric.direction # "neutral"
              /\ c = Comparison(Available(O, key, metric), p, metric, sign[metric.direction])
              /\ c.peer[1] # 0
<1> DEFINE usable == {o \in O : Comparable(o.cohort) /\ o.metric.direction # "neutral"}
           groups == {<<PeerKey(o.cohort), o.metric>> : o \in usable}
           available(g) == {o \in usable : PeerKey(o.cohort) = g[1] /\ o.metric = g[2]}
           contenders(g) == {o.cohort.provider : o \in available(g)}
           found(g) == {d \in {Comparison(available(g), p, g[2], sign[g[2].direction]) :
                                  p \in contenders(g)} : d.peer[1] # 0}
<1>1. Compare(O, sign) = UNION {found(g) : g \in {g \in groups : Cardinality(contenders(g)) >= 2}}
  BY DEF Compare
<1>2. PICK g \in groups : Cardinality(contenders(g)) >= 2 /\ c \in found(g)
  BY <1>1
<1>3. PICK p \in contenders(g) : c = Comparison(available(g), p, g[2], sign[g[2].direction])
                                 /\ c.peer[1] # 0
  BY <1>2
<1>4. available(g) = Available(O, g[1], g[2])
  BY DEF Available
<1>5. g[2].direction # "neutral"
  BY <1>2
<1>6. contenders(g) = Contenders(Available(O, g[1], g[2]))
  BY <1>4 DEF Contenders
<1> HIDE DEF available, contenders, found, groups
<1>. QED
  BY <1>2, <1>3, <1>4, <1>5, <1>6

(* The values of the providers, and of the baseline, have witnesses. *)
LEMMA ProviderValueWitness ==
    ASSUME NEW A, IsFiniteSet(A), \A o \in A : o.value \in Fractions,
           NEW p \in Contenders(A)
    PROVE  /\ ProviderValue(A, p) \in Fractions
           /\ \E o \in OwnOf(A, p) : NotAbove(o.value, ProviderValue(A, p))
           /\ \E o \in OwnOf(A, p) : NotAbove(ProviderValue(A, p), o.value)
<1> DEFINE T == OwnOf(A, p)
           f == [o \in T |-> o.value]
<1>1. ProviderValue(A, p) = Median(f)
  BY DEF ProviderValue, OwnOf
<1>2. T \in SUBSET A /\ T # {}
  BY DEF OwnOf, Contenders
<1> HIDE DEF T
<1>3. IsFiniteSet(T) /\ f \in [T -> Fractions] /\ \A o \in T : f[o] = o.value
  BY <1>2, FS_Subset
<1> HIDE DEF f
<1>4. /\ Median(f) \in Fractions
      /\ \E o \in T : NotAbove(f[o], Median(f))
      /\ \E o \in T : NotAbove(Median(f), f[o])
  BY <1>2, <1>3, MedianWitness
<1>. QED
  BY <1>1, <1>3, <1>4 DEF T

(* The median over the peers is between two of their observations. *)
LEMMA BaselineWitness ==
    ASSUME NEW A, IsFiniteSet(A), A # {}, \A o \in A : o.value \in Fractions
    PROVE  LET median == Median([p \in Contenders(A) |-> ProviderValue(A, p)])
           IN /\ median \in Fractions
              /\ \E o \in A : NotAbove(o.value, median)
              /\ \E o \in A : NotAbove(median, o.value)
<1> DEFINE P == Contenders(A)
           f == [p \in P |-> ProviderValue(A, p)]
<1>1. IsFiniteSet(P) /\ P # {}
  <2> DEFINE g == [o \in A |-> o.cohort.provider]
  <2>1. P = {g[o] : o \in A}
    BY DEF Contenders
  <2> HIDE DEF P, g
  <2>2. IsFiniteSet(P)
    BY <2>1, ImageFinite
  <2>. QED
    BY <2>1, <2>2
<1>2. \A p \in P : /\ f[p] \in Fractions
                   /\ \E o \in A : NotAbove(o.value, f[p])
                   /\ \E o \in A : NotAbove(f[p], o.value)
  BY ProviderValueWitness DEF OwnOf
<1>3. f \in [P -> Fractions]
  BY <1>2
<1> HIDE DEF P, f
<1>4. /\ Median(f) \in Fractions
      /\ \E p \in P : NotAbove(f[p], Median(f))
      /\ \E p \in P : NotAbove(Median(f), f[p])
  BY <1>1, <1>3, MedianWitness
<1>5. \E o \in A : NotAbove(o.value, Median(f))
  BY <1>2, <1>4, Transitive
<1>6. \E o \in A : NotAbove(Median(f), o.value)
  BY <1>2, <1>4, Transitive
<1>. QED
  BY <1>4, <1>5, <1>6 DEF P, f

(* Ahead and behind are strict, in the direction of the metric. *)
LEMMA RelativeToStrict ==
    ASSUME NEW v \in Fractions, NEW w \in Fractions, w[1] # 0, NEW sign \in {-1, 1}
    PROVE  /\ RelativeTo(v, w, sign) \in {"ahead", "similar", "behind"}
           /\ RelativeTo(v, w, sign) = "ahead" => IF sign = 1 THEN Less(w, v) ELSE Less(v, w)
           /\ RelativeTo(v, w, sign) = "behind" => IF sign = 1 THEN Less(v, w) ELSE Less(w, v)
<1> DEFINE a == v[1]  b == v[2]  c == w[1]  d == w[2]
           x == a * d  y == c * b
           size == IF c < 0 THEN -c ELSE c
           base == size * b
<1>1. a \in Int /\ b \in Int /\ b > 0 /\ c \in Int /\ d \in Int /\ d > 0 /\ c # 0
  BY FractionParts
<1>2. x \in Int /\ y \in Int
  BY <1>1
<1>3. base \in Int /\ base > 0
  <2>1. size \in Int /\ size > 0
    BY <1>1
  <2> HIDE DEF size, b
  <2>. QED
    BY <1>1, <2>1
<1>4. RelativeTo(v, w, sign) = IF 20 * sign * (x - y) >= base THEN "ahead"
                               ELSE IF 20 * sign * (x - y) <= -base THEN "behind" ELSE "similar"
  BY DEF RelativeTo
<1>5. (Less(v, w) <=> x < y) /\ (Less(w, v) <=> y < x)
  BY DEF Less
<1> HIDE DEF x, y, base
<1>6. CASE sign = 1
  <2>1. 20 * sign * (x - y) = 20 * (x - y)
    BY <1>6
  <2>. QED
    BY <1>2, <1>3, <1>4, <1>5, <1>6, <2>1
<1>7. CASE sign = -1
  <2>1. 20 * sign * (x - y) = 20 * (y - x)
    BY <1>2, <1>7
  <2>. QED
    BY <1>2, <1>3, <1>4, <1>5, <1>7, <2>1
<1>. QED
  BY <1>6, <1>7

(* The confidence of a comparison is not above any level it rests on. *)
LEMMA ComparisonConfidenceSound ==
    ASSUME NEW own, NEW others, NEW peers, IsFiniteSet(peers), own # {},
           \A o \in own \cup others : o.levels \in SUBSET Levels /\ o.levels # {}
    PROVE  /\ \A o \in own \cup others : \A l \in o.levels :
                 AtMost(ComparisonConfidence(own, others, peers), l)
           /\ ComparisonConfidence(own, others, peers) = "high" => Cardinality(peers) >= 2
<1> DEFINE L == UNION {o.levels : o \in own \cup others}
           minimum == Lowest(L)
           result == ComparisonConfidence(own, others, peers)
<1>1. result = IF minimum = "high" /\ Cardinality(peers) < 2 THEN "medium" ELSE minimum
  BY DEF ComparisonConfidence
<1>2. L \in SUBSET Levels /\ L # {}
  OBVIOUS
<1> HIDE DEF L
<1>3. minimum \in L /\ \A l \in L : AtMost(minimum, l)
  BY <1>2, LowestSound
<1> HIDE DEF minimum, result
<1>4. \A l \in L : AtMost(result, l)
  <2>1. CASE minimum = "high" /\ Cardinality(peers) < 2
    <3>1. \A l \in L : l = "high"
      BY <1>2, <1>3, <2>1, Ranks
    <3>. QED
      BY <1>1, <2>1, <3>1, Ranks
  <2>2. CASE ~(minimum = "high" /\ Cardinality(peers) < 2)
    BY <1>1, <1>3, <2>2
  <2>. QED
    BY <2>1, <2>2
<1>5. result = "high" => Cardinality(peers) >= 2
  BY <1>1, FS_CardinalityType
<1>. QED
  BY <1>4, <1>5 DEF L, result

ComparisonOf(c, A, p, metric, sign) ==
    /\ c.provider = p /\ c.metric = metric
    /\ c.cohorts = {o.cohort : o \in OwnOf(A, p)}
    /\ c.peerCohorts = {o.cohort : o \in Baseline(A, p)}
    /\ c.peer = Median([q \in Contenders(Baseline(A, p)) |-> ProviderValue(Baseline(A, p), q)])
    /\ c.outcome = RelativeTo(ProviderValue(A, p), c.peer, sign)
    /\ c.confidence = ComparisonConfidence(OwnOf(A, p), Baseline(A, p),
                                           Contenders(Baseline(A, p)))

(* The fields of a comparison. *)
LEMMA ComparisonFields ==
    ASSUME NEW A, NEW p, NEW metric, NEW sign
    PROVE  ComparisonOf(Comparison(A, p, metric, sign), A, p, metric, sign)
<1>1. ProviderValue(OwnOf(A, p), p) = ProviderValue(A, p)
  <2>1. {o \in OwnOf(A, p) : o.cohort.provider = p} = {o \in A : o.cohort.provider = p}
    BY DEF OwnOf
  <2>. QED
    BY <2>1 DEF ProviderValue
<1>2. Comparison(A, p, metric, sign) =
        LET own == OwnOf(A, p)
            others == Baseline(A, p)
            peers == Contenders(others)
            peerMedian == Median([q \in peers |-> ProviderValue(others, q)])
        IN [provider |-> p, metric |-> metric, peers |-> peers,
            value |-> ProviderValue(own, p), peer |-> peerMedian,
            outcome |-> RelativeTo(ProviderValue(own, p), peerMedian, sign),
            confidence |-> ComparisonConfidence(own, others, peers),
            cohorts |-> {o.cohort : o \in own}, peerCohorts |-> {o.cohort : o \in others}]
  BY DEF Comparison, OwnOf, Contenders
<1>. QED
  BY <1>1, <1>2 DEF ComparisonOf

(* The observations of the provider of a comparison, and of its peers. *)
Own(O, c) == {o \in O : o.metric = c.metric /\ o.cohort \in c.cohorts}
Others(O, c) == {o \in O : o.metric = c.metric /\ o.cohort \in c.peerCohorts}

(* A comparison is of one group of cohorts, and of all of them. *)
Grouped(c, O) ==
    /\ c.cohorts # {} /\ c.peerCohorts # {} /\ c.metric.direction # "neutral"
    /\ \A k \in c.cohorts : k.provider = c.provider
    /\ \A k \in c.peerCohorts : k.provider # c.provider
    /\ \A k \in c.cohorts \cup c.peerCohorts :
          Comparable(k) /\ \E o \in O : o.metric = c.metric /\ o.cohort = k
    /\ \A k \in c.cohorts, h \in c.cohorts \cup c.peerCohorts : PeerKey(h) = PeerKey(k)
    /\ \A k \in c.cohorts : \A o \in O :
          o.metric = c.metric /\ PeerKey(o.cohort) = PeerKey(k) /\ o.cohort.provider # Unknown
             => o.cohort \in c.cohorts \cup c.peerCohorts

Above(x, y, sign) == IF sign = 1 THEN Less(y.value, x.value) ELSE Less(x.value, y.value)

(* An outcome has two observations that bear it out. *)
Witnessed(c, O, sign) ==
    /\ c.outcome \in {"ahead", "similar", "behind"}
    /\ c.outcome = "ahead" => \E x \in Own(O, c), y \in Others(O, c) : Above(x, y, sign)
    /\ c.outcome = "behind" => \E x \in Own(O, c), y \in Others(O, c) : Above(y, x, sign)

Confident(c, O) ==
    /\ \A o \in Own(O, c) \cup Others(O, c) : \A l \in o.levels : AtMost(c.confidence, l)
    /\ c.confidence = "high" => Cardinality({k.provider : k \in c.peerCohorts}) >= 2

(* Compare: every comparison is grouped, witnessed and confident as it should be. *)
LEMMA CompareSound ==
    ASSUME NEW O, ProperObservations(O), NEW sign,
           \A o \in O : o.metric.direction # "neutral" => sign[o.metric.direction] \in {-1, 1},
           NEW c \in Compare(O, sign)
    PROVE  Grouped(c, O) /\ Witnessed(c, O, sign[c.metric.direction]) /\ Confident(c, O)
<1>1. PICK key, metric : \E p \in Contenders(Available(O, key, metric)) :
              /\ Cardinality(Contenders(Available(O, key, metric))) >= 2
              /\ metric.direction # "neutral"
              /\ c = Comparison(Available(O, key, metric), p, metric, sign[metric.direction])
              /\ c.peer[1] # 0
  BY CompareShape
<1> DEFINE A == Available(O, key, metric)
<1>2. PICK p \in Contenders(A) : /\ Cardinality(Contenders(A)) >= 2
                                 /\ metric.direction # "neutral"
                                 /\ c = Comparison(A, p, metric, sign[metric.direction])
                                 /\ c.peer[1] # 0
  BY <1>1
<1>3. A \in SUBSET O
  BY DEF Available
<1>4. ASSUME NEW o \in A
       PROVE  /\ Comparable(o.cohort) /\ o.metric.direction # "neutral"
              /\ PeerKey(o.cohort) = key /\ o.metric = metric
  BY Zenon DEF Available
<1>5. ASSUME NEW o \in O, Comparable(o.cohort), o.metric.direction # "neutral",
              PeerKey(o.cohort) = key, o.metric = metric
       PROVE  o \in A
  BY <1>5, Zenon DEF Available
<1> HIDE DEF A
<1> DEFINE own == OwnOf(A, p)
           others == Baseline(A, p)
           s == sign[metric.direction]
<1>6. ComparisonOf(c, A, p, metric, s)
  BY <1>2, ComparisonFields
<1>7. /\ own \in SUBSET A /\ others \in SUBSET A /\ A \subseteq own \cup others
      /\ \A o \in own : o.cohort.provider = p
      /\ \A o \in others : o.cohort.provider # p
      /\ own # {}
  BY <1>2 DEF OwnOf, Baseline, Contenders
<1>8. others # {}
  <2>1. SUFFICES ASSUME others = {} PROVE FALSE
    OBVIOUS
  <2>2. Contenders(A) = {p}
    BY <1>2, <1>7, <2>1 DEF Contenders
  <2>3. Cardinality({p}) = 1
    BY FS_Singleton
  <2>. QED
    BY <1>2, <2>2, <2>3
<1> HIDE DEF own, others, s
<1>9. /\ c.provider = p /\ c.metric = metric
      /\ c.cohorts = {o.cohort : o \in own} /\ c.peerCohorts = {o.cohort : o \in others}
  BY <1>6 DEF ComparisonOf, own, others
<1>10. Own(O, c) = own /\ Others(O, c) = others
  <2>1. ASSUME NEW o \in O, o.metric = metric, NEW q \in A, o.cohort = q.cohort
        PROVE  o \in A
    BY <1>3, <1>4, <1>5, <2>1
  <2>2. own \subseteq Own(O, c) /\ others \subseteq Others(O, c)
    BY <1>3, <1>4, <1>5, <1>7, <1>9 DEF Own, Others
  <2>3. Own(O, c) \subseteq own
    BY <1>7, <1>9, <2>1 DEF Own
  <2>4. Others(O, c) \subseteq others
    BY <1>7, <1>9, <2>1 DEF Others
  <2>. QED
    BY <2>2, <2>3, <2>4
<1>11. IsFiniteSet(A) /\ IsFiniteSet(others)
      /\ \A o \in A : o.value \in Fractions /\ o.levels \in SUBSET Levels /\ o.levels # {}
  BY <1>3, <1>4, <1>5, <1>7, FS_Subset DEF ProperObservations
<1>12. Grouped(c, O)
  <2>1. \A k \in c.cohorts \cup c.peerCohorts : \E o \in A : o.cohort = k
    BY <1>7, <1>9
  <2>2. c.cohorts # {} /\ c.peerCohorts # {} /\ c.metric.direction # "neutral"
    BY <1>2, <1>7, <1>8, <1>9
  <2>3. (\A k \in c.cohorts : k.provider = c.provider)
        /\ (\A k \in c.peerCohorts : k.provider # c.provider)
    BY <1>7, <1>9
  <2>4. \A k \in c.cohorts \cup c.peerCohorts :
           Comparable(k) /\ PeerKey(k) = key /\ \E o \in O : o.metric = c.metric /\ o.cohort = k
    BY <1>3, <1>4, <1>5, <1>9, <2>1
  <2>5. ASSUME NEW k \in c.cohorts, NEW o \in O, o.metric = c.metric,
               PeerKey(o.cohort) = PeerKey(k), o.cohort.provider # Unknown
        PROVE  o.cohort \in c.cohorts \cup c.peerCohorts
    <3>1. PeerKey(o.cohort) = key /\ PeerKey(k) = key /\ k.country # Unknown
      BY <2>4, <2>5 DEF Comparable
    <3>2. o.cohort.country = k.country
      BY <2>5 DEF PeerKey
    <3>3. Comparable(o.cohort)
      BY <2>5, <3>1, <3>2 DEF Comparable
    <3>4. o \in A
      BY <1>2, <1>3, <1>4, <1>5, <1>9, <2>5, <3>1, <3>3
    <3>. QED
      BY <1>7, <1>9, <3>4
  <2>. QED
    BY <2>2, <2>3, <2>4, <2>5 DEF Grouped
<1>13. Witnessed(c, O, s)
  <2> DEFINE value == ProviderValue(A, p)
  <2>1. s \in {-1, 1}
    BY <1>2, <1>3, <1>4, <1>5, <1>7 DEF s
  <2>2. /\ value \in Fractions
        /\ \E o \in own : NotAbove(o.value, value)
        /\ \E o \in own : NotAbove(value, o.value)
    BY <1>11, ProviderValueWitness DEF own
  <2>3. /\ c.peer \in Fractions
        /\ \E o \in others : NotAbove(o.value, c.peer)
        /\ \E o \in others : NotAbove(c.peer, o.value)
    <3>1. c.peer = Median([q \in Contenders(others) |-> ProviderValue(others, q)])
      BY <1>6 DEF ComparisonOf, others
    <3>2. \A o \in others : o.value \in Fractions
      BY <1>7, <1>11
    <3>. QED
      BY <1>8, <1>11, <3>1, <3>2, BaselineWitness
  <2>4. c.outcome = RelativeTo(value, c.peer, s)
    BY <1>6 DEF ComparisonOf
  <2> HIDE DEF value
  <2>5. /\ c.outcome \in {"ahead", "similar", "behind"}
        /\ c.outcome = "ahead" => IF s = 1 THEN Less(c.peer, value) ELSE Less(value, c.peer)
        /\ c.outcome = "behind" => IF s = 1 THEN Less(value, c.peer) ELSE Less(c.peer, value)
    BY <1>2, <2>1, <2>2, <2>3, <2>4, RelativeToStrict
  <2>6. ASSUME Less(c.peer, value)
        PROVE  \E x \in own, y \in others : Less(y.value, x.value)
    <3>1. PICK x \in own : NotAbove(value, x.value)
      BY <2>2
    <3>2. PICK y \in others : NotAbove(y.value, c.peer)
      BY <2>3
    <3>3. x.value \in Fractions /\ y.value \in Fractions
      BY <1>7, <1>11
    <3>4. ~NotAbove(x.value, y.value)
      <4>1. NotAbove(x.value, y.value) => NotAbove(value, c.peer)
        BY <2>2, <2>3, <3>1, <3>2, <3>3, Transitive
      <4>. QED
        BY <2>2, <2>3, <2>6, <4>1, Order
    <3>. QED
      BY <3>3, <3>4, Order
  <2>7. ASSUME Less(value, c.peer)
        PROVE  \E x \in own, y \in others : Less(x.value, y.value)
    <3>1. PICK x \in own : NotAbove(x.value, value)
      BY <2>2
    <3>2. PICK y \in others : NotAbove(c.peer, y.value)
      BY <2>3
    <3>3. x.value \in Fractions /\ y.value \in Fractions
      BY <1>7, <1>11
    <3>4. ~NotAbove(y.value, x.value)
      <4>1. NotAbove(y.value, x.value) => NotAbove(c.peer, value)
        BY <2>2, <2>3, <3>1, <3>2, <3>3, Transitive
      <4>. QED
        BY <2>2, <2>3, <2>7, <4>1, Order
    <3>. QED
      BY <3>3, <3>4, Order
  <2>. QED
    BY <1>10, <2>5, <2>6, <2>7 DEF Witnessed, Above
<1>14. Confident(c, O)
  <2> DEFINE peers == Contenders(others)
  <2>1. c.confidence = ComparisonConfidence(own, others, peers)
    BY <1>6 DEF ComparisonOf, own, others
  <2>2. peers = {k.provider : k \in c.peerCohorts}
    BY <1>9 DEF Contenders
  <2>3. IsFiniteSet(peers)
    <3> DEFINE g == [o \in others |-> o.cohort.provider]
    <3>1. peers = {g[o] : o \in others}
      BY DEF Contenders
    <3> HIDE DEF peers, g
    <3>. QED
      BY <1>11, <3>1, ImageFinite
  <2> HIDE DEF peers
  <2>4. \A o \in own \cup others : o.levels \in SUBSET Levels /\ o.levels # {}
    BY <1>7, <1>11
  <2>5. /\ \A o \in own \cup others : \A l \in o.levels :
                 AtMost(ComparisonConfidence(own, others, peers), l)
        /\ ComparisonConfidence(own, others, peers) = "high" => Cardinality(peers) >= 2
    BY <1>7, <2>3, <2>4, ComparisonConfidenceSound
  <2>. QED
    BY <1>10, <2>1, <2>2, <2>5 DEF Confident
<1>. QED
  BY <1>9, <1>12, <1>13, <1>14 DEF s

-----------------------------------------------------------------------------
(* Prices. *)

InputTyped == input \in Inputs

(* The parts of an input. *)
LEMMA InputParts ==
    ASSUME InputTyped
    PROVE  /\ input.samples \in Seq(Samples) /\ input.quotes \in Seq(Quotes)
           /\ input.now \in Int /\ input.files \in SUBSET {"output", "markdown"}
           /\ DOMAIN input.samples = 1..Len(input.samples) /\ Len(input.samples) \in Nat
           /\ DOMAIN input.quotes = 1..Len(input.quotes) /\ Len(input.quotes) \in Nat
           /\ \A i \in 1..Len(input.samples) : input.samples[i] \in Samples
           /\ \A i \in 1..Len(input.quotes) : input.quotes[i] \in Quotes
<1>1. /\ input.samples \in Seq(Samples) /\ input.quotes \in Seq(Quotes)
      /\ input.now \in Int /\ input.files \in SUBSET {"output", "markdown"}
  BY InputsAssumption DEF InputTyped
<1>. QED
  BY <1>1

(* The quotes selected are finitely many, and of the commitment asked for. *)
LEMMA SelectedTyped ==
    ASSUME InputTyped
    PROVE  /\ IsFiniteSet(SelectedQuotes) /\ SelectedQuotes \in SUBSET Quotes
           /\ \A q \in SelectedQuotes : q.commitment = input.commitment
           /\ IsFiniteSet(Selected) /\ Selected \in SUBSET (1..Len(input.quotes))
<1> DEFINE f == input.quotes
<1>1. Selected \in SUBSET (1..Len(input.quotes))
  BY DEF Selected
<1>2. IsFiniteSet(Selected)
  <2>1. Len(input.quotes) \in Nat /\ 0 \in Int /\ 1 \in Int
    BY InputParts
  <2>2. IsFiniteSet(1..Len(input.quotes))
    BY <2>1, FS_Interval
  <2>. QED
    BY <1>1, <2>2, FS_Subset
<1>3. SelectedQuotes = {f[i] : i \in Selected}
  BY DEF SelectedQuotes
<1> HIDE DEF f
<1>4. IsFiniteSet(SelectedQuotes)
  BY <1>2, <1>3, ImageFinite
<1>5. SelectedQuotes \in SUBSET Quotes
  BY <1>1, <1>3, InputParts DEF f
<1>6. \A q \in SelectedQuotes : q.commitment = input.commitment
  BY <1>3 DEF Selected, f
<1>. QED
  BY <1>1, <1>2, <1>4, <1>5, <1>6

(* The fields of a cohort key. *)
LEMMA KeyFields ==
    ASSUME NEW s
    PROVE  /\ CohortKey(s).provider = Normalize(s.provider)
           /\ CohortKey(s).product = Normalize(s.product)
           /\ CohortKey(s).plan = Normalize(s.plan)
           /\ CohortKey(s).region = Normalize(s.region)
           /\ CohortKey(s).zone = Normalize(s.zone)
           /\ CohortKey(s).profile = Normalize(s.profile)
BY DEF CohortKey

(* The candidates of a report are the selected quotes that price it. *)
LEMMA CandidatesPrice ==
    ASSUME InputTyped, NEW S \in SUBSET Samples, NEW r, IsReport(r, S), NEW q \in SelectedQuotes
    PROVE  q \in Candidates(r) <=> Prices(q, r)
<1>1. q \in Quotes /\ q.commitment = input.commitment
  BY SelectedTyped
<1>2. q.from \in Int /\ q.until \in Int
  BY <1>1 DEF Quotes
<1>3. \A s \in r.samples : s.created \in Int
  BY DEF IsReport, Samples
<1>4. q.from <= r.start <=> \A s \in r.samples : q.from <= s.created
  <2>1. PICK s \in r.samples : r.start = s.created
    BY DEF IsReport
  <2>2. \A t \in r.samples : r.start <= t.created
    BY DEF IsReport
  <2>. QED
    BY <1>2, <1>3, <2>1, <2>2
<1>5. q.until >= r.end <=> \A s \in r.samples : s.created <= q.until
  <2>1. PICK s \in r.samples : r.end = s.created
    BY DEF IsReport
  <2>2. \A t \in r.samples : t.created <= r.end
    BY DEF IsReport
  <2>. QED
    BY <1>2, <1>3, <2>1, <2>2
<1>6. \A s \in r.samples :
         /\ r.key.provider = Normalize(s.provider) /\ r.key.product = Normalize(s.product)
         /\ r.key.plan = Normalize(s.plan) /\ r.key.region = Normalize(s.region)
         /\ r.key.zone = Normalize(s.zone)
  <2>1. ASSUME NEW s \in r.samples
        PROVE  CohortKey(s) = r.key
    BY DEF IsReport
  <2>. QED
    BY <2>1, KeyFields
<1> DEFINE Same(s) == /\ \A field \in {"provider", "product", "plan"} :
                            Normalize(q[field]) = Normalize(s[field])
                      /\ \A field \in {"region", "zone"} :
                            q[field] # None => Normalize(q[field]) = Normalize(s[field])
<1>7. \A s \in r.samples : MatchesIdentity(q, r.key) <=> Same(s)
  <2>1. ASSUME NEW s \in r.samples
        PROVE  MatchesIdentity(q, r.key) <=> Same(s)
    <3>1. Same(s) <=> /\ Normalize(q.provider) = Normalize(s.provider)
                      /\ Normalize(q.product) = Normalize(s.product)
                      /\ Normalize(q.plan) = Normalize(s.plan)
                      /\ q.region # None => Normalize(q.region) = Normalize(s.region)
                      /\ q.zone # None => Normalize(q.zone) = Normalize(s.zone)
      OBVIOUS
    <3> HIDE DEF Same
    <3>. QED
      BY <1>6, <3>1 DEF MatchesIdentity
  <2>. QED
    BY <2>1
<1>8. r.samples # {}
  BY DEF IsReport
<1>9. q \in Candidates(r) <=> /\ q.observed <= input.now /\ MatchesIdentity(q, r.key)
                              /\ q.from <= r.start /\ q.until >= r.end
  BY DEF Candidates, CoversCohort
<1>10. Prices(q, r) <=> /\ q.commitment = input.commitment /\ q.observed <= input.now
                        /\ \A s \in r.samples : q.from <= s.created /\ s.created <= q.until /\ Same(s)
  BY DEF Prices
<1> HIDE DEF Same
<1>. QED
  BY <1>1, <1>4, <1>5, <1>7, <1>8, <1>9, <1>10

(* The rank of a quote is that of its place, and less than one of a better place. *)
LEMMA RankBounds ==
    ASSUME NEW q \in Quotes
    PROVE  /\ QuoteRank(q) \in Int
           /\ LET place == (IF q.region # None THEN 2 ELSE 0) + (IF q.zone # None THEN 1 ELSE 0)
              IN /\ QuoteRank(q) >= place * 1000 + 100
                 /\ QuoteRank(q) <= place * 1000 + 499
<1>1. q.tier \in DOMAIN TierRank /\ q.observed \in 0..LastDay
  BY DEF Quotes
<1>2. TierRank[q.tier] \in 1..4
  <2>1. \A t \in DOMAIN TierRank : TierRank[t] = CASE t = "manual" -> 1 [] t = "reseller" -> 2
                                    [] t = "official_document" -> 3 [] t = "official_api" -> 4
    BY DEF TierRank
  <2>2. DOMAIN TierRank = {"manual", "reseller", "official_document", "official_api"}
    BY DEF TierRank
  <2>. QED
    BY <1>1, <2>1, <2>2
<1> DEFINE t == TierRank[q.tier]
<1>3. t \in 1..4 /\ q.observed \in 0..99
  BY <1>1, <1>2 DEF LastDay
<1>4. QuoteRank(q) = ((IF q.region # None THEN 2 ELSE 0) + (IF q.zone # None THEN 1 ELSE 0)) * 1000
                     + t * 100 + q.observed
  BY DEF QuoteRank
<1> HIDE DEF t
<1>. QED
  BY <1>3, <1>4

(* Candidates are selected quotes. *)
LEMMA CandidatesTyped ==
    ASSUME InputTyped, NEW r
    PROVE  /\ Candidates(r) \in SUBSET SelectedQuotes /\ IsFiniteSet(Candidates(r))
           /\ Candidates(r) \in SUBSET Quotes
           /\ Best(Candidates(r)) \in SUBSET Candidates(r) /\ IsFiniteSet(Best(Candidates(r)))
<1>1. Candidates(r) \in SUBSET SelectedQuotes
  BY DEF Candidates
<1>2. IsFiniteSet(Candidates(r)) /\ Candidates(r) \in SUBSET Quotes
  BY <1>1, SelectedTyped, FS_Subset
<1>3. Best(Candidates(r)) \in SUBSET Candidates(r)
  BY DEF Best
<1>. QED
  BY <1>1, <1>2, <1>3, FS_Subset

(* If there are candidates, one of the best of them has the least ID. *)
LEMMA BestExists ==
    ASSUME InputTyped, NEW r, Candidates(r) # {}
    PROVE  \E q \in Best(Candidates(r)) : \A other \in Best(Candidates(r)) : q.id <= other.id
<1> DEFINE C == Candidates(r)
           R == {p \in C \X C : QuoteRank(p[2]) <= QuoteRank(p[1])}
           B == Best(C)
           Q == {p \in B \X B : p[1].id <= p[2].id}
<1>1. /\ IsFiniteSet(C) /\ C \in SUBSET Quotes /\ C # {}
      /\ B \in SUBSET C /\ IsFiniteSet(B)
  BY CandidatesTyped
<1>2. \A x, y \in C : <<x, y>> \in R <=> QuoteRank(y) <= QuoteRank(x)
  OBVIOUS
<1>3. \A x, y \in B : <<x, y>> \in Q <=> x.id <= y.id
  OBVIOUS
<1>4. \A x \in C : QuoteRank(x) \in Int /\ x.id \in Int
  <2>1. ASSUME NEW x \in C
        PROVE  QuoteRank(x) \in Int /\ x.id \in Int
    <3>1. x \in Quotes
      BY <1>1
    <3>. QED
      BY <3>1, RankBounds DEF Quotes
  <2>. QED
    BY <2>1
<1>5. \E q \in C : \A other \in C : QuoteRank(other) <= QuoteRank(q)
  <2> HIDE DEF R, C
  <2>1. ASSUME NEW x \in C, NEW y \in C
        PROVE  <<x, y>> \in R \/ <<y, x>> \in R
    <3>1. QuoteRank(x) \in Int /\ QuoteRank(y) \in Int
      BY <1>4
    <3>2. QuoteRank(x) <= QuoteRank(y) \/ QuoteRank(y) <= QuoteRank(x)
      BY <3>1
    <3>. QED
      BY <1>2, <3>2
  <2>2. \A x, y, z \in C : <<x, y>> \in R /\ <<y, z>> \in R => <<x, z>> \in R
    BY <1>2, <1>4
  <2>3. \E m \in C : \A x \in C : <<m, x>> \in R
    BY <1>1, <2>1, <2>2, Extreme
  <2>. QED
    BY <1>2, <2>3
<1>6. B # {}
  BY <1>5 DEF Best
<1> HIDE DEF Q, B, C
<1>7. \E q \in B : \A other \in B : q.id <= other.id
  <2>1. ASSUME NEW x \in B, NEW y \in B
        PROVE  <<x, y>> \in Q \/ <<y, x>> \in Q
    <3>1. x.id \in Int /\ y.id \in Int
      BY <1>1, <1>4
    <3>2. x.id <= y.id \/ y.id <= x.id
      BY <3>1
    <3>. QED
      BY <1>3, <3>2
  <2>2. \A x, y, z \in B : <<x, y>> \in Q /\ <<y, z>> \in Q => <<x, z>> \in Q
    BY <1>1, <1>3, <1>4
  <2>3. \E m \in B : \A x \in B : <<m, x>> \in Q
    BY <1>1, <1>6, <2>1, <2>2, Extreme
  <2>. QED
    BY <1>3, <2>3
<1>. QED
  BY <1>7 DEF B, C

(* An assignment gives a cohort one of the best candidates of its report. *)
Assigned(assignment, cohortReports) ==
    \A k \in DOMAIN assignment : \E r \in cohortReports :
        r.key = k /\ assignment[k] \in Best(Candidates(r)) /\ ~Ambiguous(r)

(* Without an ambiguity the assignments are sound (match_pricing_evidence). *)
LEMMA AssignSound ==
    ASSUME InputTyped, NEW R, ~ \E r \in R : Ambiguous(r)
    PROVE  Assigned(Assign(R), R)
<1> DEFINE priced == {r \in R : Candidates(r) # {}}
           quote(r) == CHOOSE q \in Best(Candidates(r)) :
                          \A other \in Best(Candidates(r)) : q.id <= other.id
           choice(k) == CHOOSE r \in priced : r.key = k
<1>1. /\ DOMAIN Assign(R) = {r.key : r \in priced}
      /\ \A k \in {r.key : r \in priced} : Assign(R)[k] = quote(choice(k))
  BY DEF Assign
<1>2. \A r \in priced : quote(r) \in Best(Candidates(r))
  BY BestExists
<1>3. \A k \in {r.key : r \in priced} : choice(k) \in priced /\ choice(k).key = k
  OBVIOUS
<1> HIDE DEF quote, choice
<1>4. ASSUME NEW k \in DOMAIN Assign(R)
      PROVE  \E r \in R : r.key = k /\ Assign(R)[k] \in Best(Candidates(r)) /\ ~Ambiguous(r)
  <2>1. choice(k) \in priced /\ choice(k).key = k /\ Assign(R)[k] = quote(choice(k))
    BY <1>1, <1>3
  <2>2. quote(choice(k)) \in Best(Candidates(choice(k)))
    BY <1>2, <2>1
  <2>. QED
    BY <2>1, <2>2
<1>. QED
  BY <1>4 DEF Assigned

-----------------------------------------------------------------------------
(* The observations that the comparisons are made of. *)

PeerObservations(R) ==
    UNION {{Observation(r, m, m.statistics.median, {r.confidence}) : m \in r.metrics} : r \in R}

(* A peer observation is the median of a metric of a report. *)
IsPeerObservation(o, R) ==
    \E r \in R : \E m \in r.metrics :
        /\ o.cohort = r.key /\ o.metric = Metric(m) /\ o.value = m.statistics.median
        /\ o.levels = {r.confidence}

(* Every peer observation is of a metric of a report, and every metric has one. *)
LEMMA PeerObservationShape ==
    ASSUME NEW R
    PROVE  /\ \A o \in PeerObservations(R) : IsPeerObservation(o, R)
           /\ \A r \in R : \A m \in r.metrics :
                 \E o \in PeerObservations(R) : o.cohort = r.key /\ o.metric = Metric(m)
<1>1. ASSUME NEW o \in PeerObservations(R)
      PROVE  IsPeerObservation(o, R)
  <2>1. PICK r \in R : \E m \in r.metrics :
                           o = Observation(r, m, m.statistics.median, {r.confidence})
    BY DEF PeerObservations
  <2>. QED
    BY <2>1 DEF Observation, IsPeerObservation
<1>2. ASSUME NEW r \in R, NEW m \in r.metrics
      PROVE  \E o \in PeerObservations(R) : o.cohort = r.key /\ o.metric = Metric(m)
  <2> DEFINE o == Observation(r, m, m.statistics.median, {r.confidence})
  <2>1. o \in PeerObservations(R)
    BY DEF PeerObservations
  <2>2. o.cohort = r.key /\ o.metric = Metric(m)
    BY DEF Observation
  <2>. QED
    BY <2>1, <2>2
<1>. QED
  BY <1>1, <1>2

(* The peer observations of reports are proper. *)
LEMMA PeerObservationsProper ==
    ASSUME NEW S \in SUBSET Samples, IsFiniteSet(S)
    PROVE  /\ ProperObservations(PeerObservations(ReportsOf(S)))
           /\ \A o \in PeerObservations(ReportsOf(S)) :
                 o.metric.direction \in {"lower", "higher", "neutral"}
<1> DEFINE R == ReportsOf(S)
           O == PeerObservations(R)
           seen(r) == {Observation(r, m, m.statistics.median, {r.confidence}) : m \in r.metrics}
           f == [r \in R |-> seen(r)]
<1>1. IsFiniteSet(R)
  BY ReportsFinite
<1>2. ASSUME NEW r \in R
      PROVE  IsFiniteSet(f[r])
  <2> DEFINE g == [m \in r.metrics |-> Observation(r, m, m.statistics.median, {r.confidence})]
  <2>1. IsFiniteSet(r.metrics)
    BY ReportMetrics
  <2>2. f[r] = {g[m] : m \in r.metrics}
    OBVIOUS
  <2> HIDE DEF f, g
  <2>. QED
    BY <2>1, <2>2, ImageFinite
<1>3. O = UNION {f[r] : r \in R}
  BY DEF PeerObservations
<1> HIDE DEF f
<1>4. IsFiniteSet(O)
  <2> HIDE DEF O, R
  <2>. QED
    BY <1>1, <1>2, <1>3, FiniteUnion
<1>5. ASSUME NEW o \in O
      PROVE  /\ o.value \in Fractions /\ o.levels \in SUBSET Levels /\ o.levels # {}
             /\ o.metric.direction \in {"lower", "higher", "neutral"}
  <2>1. PICK r \in R : \E m \in r.metrics :
           /\ o.cohort = r.key /\ o.metric = Metric(m) /\ o.value = m.statistics.median
           /\ o.levels = {r.confidence}
    BY PeerObservationShape DEF IsPeerObservation
  <2>2. PICK m \in r.metrics :
           /\ o.cohort = r.key /\ o.metric = Metric(m) /\ o.value = m.statistics.median
           /\ o.levels = {r.confidence}
    BY <2>1
  <2>3. MetricSound(r, m)
    BY ReportMetrics
  <2>4. r.confidence \in Levels
    BY ReportEvident DEF Evident
  <2>5. o.metric.direction = m.direction
    BY <2>2 DEF Metric
  <2>. QED
    BY <2>2, <2>3, <2>4, <2>5 DEF MetricSound
<1>. QED
  BY <1>4, <1>5 DEF ProperObservations

(* What holds of the peer comparisons of reports. *)
LEMMA PeersSound ==
    ASSUME NEW S \in SUBSET Samples, IsFiniteSet(S), NEW c \in PeerComparisons(ReportsOf(S))
    PROVE  LET O == PeerObservations(ReportsOf(S))
           IN Grouped(c, O) /\ Witnessed(c, O, Direction[c.metric.direction]) /\ Confident(c, O)
<1> DEFINE O == PeerObservations(ReportsOf(S))
<1>1. c \in Compare(O, Direction)
  BY DEF PeerComparisons, PeerObservations
<1>2. Direction["lower"] = -1 /\ Direction["higher"] = 1
  BY DEF Direction
<1>3. /\ ProperObservations(O)
      /\ \A o \in O : o.metric.direction \in {"lower", "higher", "neutral"}
  BY PeerObservationsProper
<1> HIDE DEF O
<1>4. \A o \in O : o.metric.direction # "neutral" => Direction[o.metric.direction] \in {-1, 1}
  BY <1>2, <1>3
<1>5. Grouped(c, O) /\ Witnessed(c, O, Direction[c.metric.direction]) /\ Confident(c, O)
  BY <1>1, <1>3, <1>4, CompareSound
<1>. QED
  BY <1>5 DEF O

(* A value observation is the index of a priced metric that can be compared. *)
IsValueObservation(o, R) ==
    \E r \in R : \E m \in r.metrics :
        /\ r.key \in DOMAIN assigned /\ m.direction # "neutral" /\ m.statistics.median[1] > 0
        /\ o.cohort = r.key /\ o.metric = Metric(m)
        /\ o.value = ValueIndex(m.statistics.median, assigned[r.key], m.direction)
        /\ o.levels = {r.confidence, SourceConfidence(assigned[r.key])}

(* Every value observation is of a priced metric. *)
LEMMA ValueObservationShape ==
    ASSUME NEW R, NEW o \in ValueObservations(R)
    PROVE  IsValueObservation(o, R)
<1> DEFINE priced == {r \in R : r.key \in DOMAIN assigned}
           usable(r) == {m \in r.metrics : m.direction # "neutral" /\ m.statistics.median[1] > 0}
           index(r, m) == Observation(r, m,
                              ValueIndex(m.statistics.median, assigned[r.key], m.direction),
                              {r.confidence, SourceConfidence(assigned[r.key])})
<1>1. ValueObservations(R) = UNION {{index(r, m) : m \in usable(r)} : r \in priced}
  BY DEF ValueObservations
<1>2. PICK r \in priced : \E m \in usable(r) : o = index(r, m)
  BY <1>1
<1>3. PICK m \in usable(r) : o = index(r, m)
  BY <1>2
<1>4. /\ o.cohort = r.key /\ o.metric = Metric(m)
      /\ o.value = ValueIndex(m.statistics.median, assigned[r.key], m.direction)
      /\ o.levels = {r.confidence, SourceConfidence(assigned[r.key])}
  BY <1>3 DEF Observation
<1>5. /\ r \in R /\ r.key \in DOMAIN assigned
      /\ m \in r.metrics /\ m.direction # "neutral" /\ m.statistics.median[1] > 0
  OBVIOUS
<1>. QED
  BY <1>4, <1>5 DEF IsValueObservation

(* An assigned quote is a candidate of the report of its cohort. *)
LEMMA AssignedTyped ==
    ASSUME InputTyped, NEW R, Assigned(assigned, R), NEW k \in DOMAIN assigned
    PROVE  /\ assigned[k] \in SelectedQuotes /\ assigned[k] \in Quotes
           /\ \E r \in R : r.key = k /\ assigned[k] \in Candidates(r)
<1>1. PICK r \in R : r.key = k /\ assigned[k] \in Best(Candidates(r))
  BY DEF Assigned
<1>2. assigned[k] \in Candidates(r) /\ assigned[k] \in SelectedQuotes /\ assigned[k] \in Quotes
  BY <1>1, CandidatesTyped
<1>. QED
  BY <1>1, <1>2

(* A value index is a fraction, as prices and medians are positive. *)
LEMMA ValueIndexTyped ==
    ASSUME NEW median \in Fractions, median[1] > 0, NEW q \in Quotes, NEW direction
    PROVE  ValueIndex(median, q, direction) \in Fractions
<1> DEFINE a == median[1]
           b == median[2]
           h == q.hourly
<1>1. a \in Int /\ b \in Int /\ a > 0 /\ b > 0
  BY DEF Fractions
<1>2. h \in Nat \ {0}
  BY DEF Quotes
<1>3. ValueIndex(median, q, direction) = IF direction = "higher" THEN <<a, b * h>> ELSE <<b, a * h>>
  BY DEF ValueIndex
<1> HIDE DEF a, b, h
<1>4. h \in Int /\ h > 0
  BY <1>2
<1>5. b * h \in Int /\ a * h \in Int /\ b * h > 0 /\ a * h > 0
  BY <1>1, <1>4, Products
<1>. QED
  BY <1>1, <1>3, <1>5, MakeFraction

(* The value observations of reports are finitely many. *)
LEMMA ValueObservationsFinite ==
    ASSUME NEW S \in SUBSET Samples, IsFiniteSet(S)
    PROVE  IsFiniteSet(ValueObservations(ReportsOf(S)))
<1> DEFINE R == ReportsOf(S)
           priced == {r \in R : r.key \in DOMAIN assigned}
           usable(r) == {m \in r.metrics : m.direction # "neutral" /\ m.statistics.median[1] > 0}
           index(r, m) == Observation(r, m,
                              ValueIndex(m.statistics.median, assigned[r.key], m.direction),
                              {r.confidence, SourceConfidence(assigned[r.key])})
           f == [r \in priced |-> {index(r, m) : m \in usable(r)}]
<1>1. ValueObservations(R) = UNION {f[r] : r \in priced}
  BY DEF ValueObservations
<1>2. ASSUME NEW r \in priced
      PROVE  IsFiniteSet(f[r])
  <2> DEFINE U == usable(r)
             g == [m \in U |-> index(r, m)]
  <2>1. IsFiniteSet(r.metrics) /\ U \in SUBSET r.metrics
    BY ReportMetrics
  <2>2. IsFiniteSet(U)
    BY <2>1, FS_Subset
  <2>3. f[r] = {g[m] : m \in U}
    OBVIOUS
  <2> HIDE DEF f, g, U
  <2>. QED
    BY <2>2, <2>3, ImageFinite
<1>3. IsFiniteSet(priced)
  <2>1. IsFiniteSet(R) /\ priced \in SUBSET R
    BY ReportsFinite
  <2>. QED
    BY <2>1, FS_Subset
<1> HIDE DEF f, priced, R
<1>4. IsFiniteSet(ValueObservations(R))
  BY <1>1, <1>2, <1>3, FiniteUnion
<1>. QED
  BY <1>4 DEF R

(* What holds of the value comparisons of reports. *)
LEMMA ValuesSound ==
    ASSUME InputTyped, NEW S \in SUBSET Samples, IsFiniteSet(S),
           Assigned(assigned, ReportsOf(S)), NEW c \in ValueComparisons(ReportsOf(S))
    PROVE  LET O == ValueObservations(ReportsOf(S))
           IN Grouped(c, O) /\ Witnessed(c, O, 1) /\ Confident(c, O)
<1> DEFINE R == ReportsOf(S)
           O == ValueObservations(R)
<1>1. c \in Compare(O, Larger)
  BY DEF ValueComparisons
<1>2. Larger["lower"] = 1 /\ Larger["higher"] = 1
  BY DEF Larger
<1>3. ASSUME NEW o \in O
      PROVE  /\ o.value \in Fractions /\ o.levels \in SUBSET Levels /\ o.levels # {}
             /\ o.metric.direction \in {"lower", "higher"}
  <2>1. PICK r \in R : \E m \in r.metrics :
        /\ r.key \in DOMAIN assigned /\ m.direction # "neutral" /\ m.statistics.median[1] > 0
        /\ o.cohort = r.key /\ o.metric = Metric(m)
        /\ o.value = ValueIndex(m.statistics.median, assigned[r.key], m.direction)
        /\ o.levels = {r.confidence, SourceConfidence(assigned[r.key])}
    BY ValueObservationShape DEF IsValueObservation
  <2>2. PICK m \in r.metrics :
        /\ r.key \in DOMAIN assigned /\ m.direction # "neutral" /\ m.statistics.median[1] > 0
        /\ o.cohort = r.key /\ o.metric = Metric(m)
        /\ o.value = ValueIndex(m.statistics.median, assigned[r.key], m.direction)
        /\ o.levels = {r.confidence, SourceConfidence(assigned[r.key])}
    BY <2>1
  <2>3. assigned[r.key] \in Quotes
    BY <2>2, AssignedTyped
  <2>4. MetricSound(r, m)
    BY ReportMetrics
  <2>5. o.value \in Fractions
    BY <2>2, <2>3, <2>4, ValueIndexTyped DEF MetricSound
  <2>6. r.confidence \in Levels
    BY ReportEvident DEF Evident
  <2>7. SourceConfidence(assigned[r.key]) \in Levels
    BY <2>3 DEF Quotes, TierRank, SourceConfidence, Levels
  <2>8. o.metric.direction = m.direction /\ m.direction \in {"lower", "higher"}
    BY <2>2, <2>4 DEF Metric, MetricSound
  <2>. QED
    BY <2>2, <2>5, <2>6, <2>7, <2>8
<1>4. IsFiniteSet(O)
  BY ValueObservationsFinite
<1> HIDE DEF O
<1>5. ProperObservations(O)
  BY <1>3, <1>4 DEF ProperObservations
<1>6. \A o \in O : o.metric.direction # "neutral" => Larger[o.metric.direction] \in {-1, 1}
  BY <1>2, <1>3
<1>7. Grouped(c, O) /\ Witnessed(c, O, Larger[c.metric.direction]) /\ Confident(c, O)
  BY <1>1, <1>5, <1>6, CompareSound
<1>8. Larger[c.metric.direction] = 1
  BY <1>2, <1>3, <1>7 DEF Grouped
<1>. QED
  BY <1>7, <1>8 DEF O

-----------------------------------------------------------------------------
(* The invariant. *)

Stages == {"load", "samples", "compare", "pricing", "value", "assemble", "output", "markdown",
           "done", "failed"}
Causes == {None, "no_samples", "duplicate_quote", "duplicate_sample", "malformed_sample",
           "incompatible_metric", "ambiguous_quotes", "rejected_by_model", "write_failed",
           "print_failed"}
Results == {"absent", "partial", "complete"}

(* A failure has a cause; only a write leaves something of a file, all of it if it *)
(* was the output to the terminal that failed.                                     *)
StageSound ==
    /\ input \in Inputs /\ stage \in Stages /\ error \in Causes
    /\ (stage = "failed") <=> (error # None)
    /\ files \in [{"output", "markdown"} -> Results]
    /\ stage \notin {"markdown", "done", "failed"} => files = Absent
    /\ error \notin {None, "write_failed", "print_failed"} => files = Absent
    /\ stage \in {"markdown", "done"} \/ error = "print_failed" =>
          ("output" \in input.files => files["output"] = "complete")
    /\ stage = "done" \/ error = "print_failed" =>
          ("markdown" \in input.files => files["markdown"] = "complete")

(* The samples read so far, all of them in the later stages. *)
Distinct(f, n) == \A i, j \in 1..n : f[i].id = f[j].id => i = j
ReadSound ==
    /\ next \in 1..(Len(input.samples) + 1)
    /\ stage \notin {"load", "samples", "failed"} => next = Len(input.samples) + 1
    /\ stage \notin {"load", "failed"} => Distinct(input.quotes, Len(input.quotes))
    /\ stage # "failed" => Distinct(input.samples, next - 1)
    /\ accepted \in SUBSET SamplesGiven /\ excluded \in SUBSET {s.id : s \in SamplesGiven}
    /\ stage # "failed" =>
          /\ accepted = {input.samples[i] : i \in {i \in 1..(next - 1) :
                                                     input.samples[i].quality # "invalid"}}
          /\ excluded = {input.samples[i].id : i \in {i \in 1..(next - 1) :
                                                        input.samples[i].quality = "invalid"}}

(* What a stage leaves for the later ones to fill in. *)
Pending ==
    /\ stage \in {"load", "samples"} => reports = {}
    /\ stage \in {"load", "samples", "compare"} => comparisons = {}
    /\ stage \in {"load", "samples", "compare", "pricing"} => DOMAIN assigned = {}
    /\ stage \in {"load", "samples", "compare", "pricing", "value"} => values = {}
    /\ stage \in {"load", "samples", "compare", "pricing", "value", "assemble"} => providers = {}

(* The reports are those of the samples accepted, one metric of each name. *)
Reported == /\ reports = ReportsOf(accepted)
            /\ \A c \in BuildCohorts(accepted) : ~ContractsClash(c)
ReportsSound == reports # {} \/ stage \notin {"load", "samples", "failed"} => Reported

Derived ==
    /\ comparisons # {} => Reported /\ comparisons = PeerComparisons(reports)
    /\ Assigned(assigned, reports)
    /\ values # {} => Reported /\ values = ValueComparisons(reports)

(* An analytics report explains the report of its provider. *)
Dimensions == {"evidence", "consistency", "reliability", "performance", "value"}
IsAnalytics(p) ==
    /\ p.evidence \in ProviderReports(reports) /\ p.provider = p.evidence.provider
    /\ p.pricing = PricingOf(p.evidence)
    /\ DOMAIN p.scorecard = Dimensions /\ p.explanations = Explanations(p.evidence, p.scorecard)

ProvidersSound ==
    /\ \A p \in providers : IsAnalytics(p)
    /\ \A p, q \in providers : p.evidence = q.evidence => p = q
    /\ Analysed => \A r \in ProviderReports(reports) : \E p \in providers : p.evidence = r

IInv == StageSound /\ ReadSound /\ Pending /\ ReportsSound /\ Derived /\ ProvidersSound

(* What the invariant says of the data. *)
LEMMA GivenTyped ==
    ASSUME InputTyped
    PROVE  SamplesGiven \in SUBSET Samples /\ IsFiniteSet(SamplesGiven)
<1> DEFINE f == input.samples
           I == 1..Len(input.samples)
<1>1. SamplesGiven = {f[i] : i \in I}
  BY DEF SamplesGiven
<1>2. IsFiniteSet(I)
  <2>1. Len(input.samples) \in Nat /\ 1 \in Int
    BY InputParts
  <2>. QED
    BY <2>1, FS_Interval
<1>3. \A i \in I : f[i] \in Samples
  BY InputParts
<1> HIDE DEF f, I
<1>4. IsFiniteSet(SamplesGiven)
  BY <1>1, <1>2, ImageFinite
<1>. QED
  BY <1>1, <1>3, <1>4

(* The accepted samples are finitely many samples. *)
LEMMA AcceptedTyped ==
    ASSUME InputTyped, accepted \in SUBSET SamplesGiven
    PROVE  accepted \in SUBSET Samples /\ IsFiniteSet(accepted)
BY GivenTyped, FS_Subset

(* The parts of the invariant that every lemma below needs. *)
LEMMA InvariantParts ==
    ASSUME IInv
    PROVE  /\ InputTyped /\ accepted \in SUBSET Samples /\ IsFiniteSet(accepted)
           /\ \A r \in reports : r \in ReportsOf(accepted) /\ reports = ReportsOf(accepted)
<1>1. InputTyped
  BY DEF IInv, StageSound, InputTyped
<1>2. accepted \in SUBSET SamplesGiven
  BY DEF IInv, ReadSound
<1>3. accepted \in SUBSET Samples /\ IsFiniteSet(accepted)
  BY <1>1, <1>2, AcceptedTyped
<1>4. reports # {} => reports = ReportsOf(accepted)
  BY DEF IInv, ReportsSound, Reported
<1>. QED
  BY <1>1, <1>3, <1>4

(* The comparisons and the values of a state, by their observations. *)
LEMMA ComparisonsKnown ==
    ASSUME IInv
    PROVE  /\ \A c \in comparisons :
                 /\ Reported /\ Grouped(c, PeerObservations(reports))
                 /\ Witnessed(c, PeerObservations(reports), Direction[c.metric.direction])
                 /\ Confident(c, PeerObservations(reports))
           /\ \A c \in values :
                 /\ Reported /\ Grouped(c, ValueObservations(reports))
                 /\ Witnessed(c, ValueObservations(reports), 1)
                 /\ Confident(c, ValueObservations(reports))
<1>1. /\ InputTyped /\ accepted \in SUBSET Samples /\ IsFiniteSet(accepted)
  BY InvariantParts
<1>2. /\ comparisons # {} => Reported /\ comparisons = PeerComparisons(reports)
      /\ Assigned(assigned, reports)
      /\ values # {} => Reported /\ values = ValueComparisons(reports)
  BY DEF IInv, Derived
<1>3. ASSUME NEW c \in comparisons
      PROVE  /\ Reported /\ Grouped(c, PeerObservations(reports))
             /\ Witnessed(c, PeerObservations(reports), Direction[c.metric.direction])
             /\ Confident(c, PeerObservations(reports))
  <2>1. Reported /\ reports = ReportsOf(accepted) /\ c \in PeerComparisons(ReportsOf(accepted))
    BY <1>2 DEF Reported
  <2>. QED
    BY <1>1, <2>1, PeersSound
<1>4. ASSUME NEW c \in values
      PROVE  /\ Reported /\ Grouped(c, ValueObservations(reports))
             /\ Witnessed(c, ValueObservations(reports), 1)
             /\ Confident(c, ValueObservations(reports))
  <2>1. Reported /\ reports = ReportsOf(accepted) /\ c \in ValueComparisons(ReportsOf(accepted))
    BY <1>2 DEF Reported
  <2>2. Assigned(assigned, ReportsOf(accepted))
    BY <1>2, <2>1
  <2>. QED
    BY <1>1, <2>1, <2>2, ValuesSound
<1>. QED
  BY <1>3, <1>4

(* The invariant implies the type invariant. *)
LEMMA InvariantTyped == IInv => TypeOK
<1> SUFFICES ASSUME IInv PROVE TypeOK
  OBVIOUS
<1>1. /\ stage \in Stages /\ error \in Causes /\ ((stage = "failed") <=> (error # None))
      /\ files \in [{"output", "markdown"} -> Results]
  BY DEF IInv, StageSound
<1>2. /\ next \in 1..(Len(input.samples) + 1)
      /\ accepted \in SUBSET SamplesGiven /\ excluded \in SUBSET {s.id : s \in SamplesGiven}
  BY DEF IInv, ReadSound
<1>3. ASSUME NEW r \in reports
      PROVE  r.samples \subseteq accepted /\ r.confidence \in Levels
  <2>1. IsReport(r, accepted) /\ Evident(r)
    BY InvariantParts, ReportShape, ReportEvident
  <2>. QED
    BY <2>1 DEF IsReport, Evident
<1>4. \A c \in comparisons \cup values : c.outcome \in {"ahead", "similar", "behind"}
  BY ComparisonsKnown DEF Witnessed
<1>5. DOMAIN assigned \subseteq {r.key : r \in reports}
  BY DEF IInv, Derived, Assigned
<1>6. ASSUME NEW p \in providers
      PROVE  p.evidence.cohorts \subseteq reports
  <2>1. p.evidence \in ProviderReports(reports)
    BY DEF IInv, ProvidersSound, IsAnalytics
  <2>2. PICK provider : p.evidence = ProviderReport(provider, reports)
    BY <2>1 DEF ProviderReports
  <2>. QED
    BY <2>2 DEF ProviderReport
<1>. QED
  BY <1>1, <1>2, <1>3, <1>4, <1>5, <1>6 DEF TypeOK, Stages, Causes, Results

-----------------------------------------------------------------------------
(* Statistics and confidence. *)

(* The invariant implies that the statistics are sound. *)
LEMMA InvariantStatistics == IInv => StatisticsSound
<1> SUFFICES ASSUME IInv, NEW r \in reports, NEW m \in r.metrics
             PROVE  /\ InOrder(m.statistics)
                    /\ m.statistics.count = Cardinality({x \in r.samples :
                                               \E o \in Range(Observed(x)) : o.name = m.name})
  BY DEF StatisticsSound, InOrder
<1>1. MetricSound(r, m)
  BY InvariantParts, ReportMetrics
<1>. QED
  BY <1>1 DEF MetricSound

(* The report of a provider is over all of its cohorts. *)
IsProvider(q, R) ==
    /\ q.cohorts = {r \in R : r.key.provider = q.provider} /\ q.cohorts # {}
    /\ q.confidence = Lowest({r.confidence : r \in q.cohorts})
    /\ q.gaps = UNION {r.coverage.gaps : r \in q.cohorts}

(* build_provider_reports makes one report of every provider. *)
LEMMA ProviderShape ==
    ASSUME NEW R, NEW q \in ProviderReports(R)
    PROVE  IsProvider(q, R) /\ \A p \in ProviderReports(R) : p.provider = q.provider => p = q
<1>1. PICK x \in {r.key.provider : r \in R} : q = ProviderReport(x, R)
  BY DEF ProviderReports
<1> DEFINE own == {r \in R : r.key.provider = x}
<1>2. /\ q.provider = x /\ q.cohorts = own
      /\ q.confidence = Lowest({r.confidence : r \in own})
      /\ q.gaps = UNION {r.coverage.gaps : r \in own}
  BY <1>1 DEF ProviderReport
<1>3. own # {}
  BY <1>1
<1>4. IsProvider(q, R)
  BY <1>2, <1>3 DEF IsProvider
<1>5. ASSUME NEW p \in ProviderReports(R), p.provider = q.provider
      PROVE  p = q
  <2>1. PICK y : p = ProviderReport(y, R)
    BY DEF ProviderReports
  <2>2. p.provider = y
    BY <2>1 DEF ProviderReport
  <2>. QED
    BY <1>1, <1>2, <1>5, <2>1, <2>2
<1>. QED
  BY <1>4, <1>5

(* Every cohort report is in a provider's report. *)
LEMMA ProviderExists ==
    ASSUME NEW R, NEW r \in R
    PROVE  \E q \in ProviderReports(R) : q.provider = r.key.provider /\ r \in q.cohorts
<1> DEFINE q == ProviderReport(r.key.provider, R)
<1>1. q \in ProviderReports(R)
  BY DEF ProviderReports
<1>2. q.provider = r.key.provider /\ r \in q.cohorts
  BY DEF ProviderReport
<1>. QED
  BY <1>1, <1>2

(* The invariant implies that confidence rests on evidence. *)
LEMMA InvariantEvidence == IInv => ConfidenceNeedsEvidence
<1> SUFFICES ASSUME IInv, NEW p \in providers, p.evidence.confidence # "low"
             PROVE  /\ p.evidence.gaps \cap {"insufficient_samples", "short_observation_period"} = {}
                    /\ \A r \in p.evidence.cohorts :
                          /\ \A m \in r.metrics : m.statistics.variation # "variable"
                          /\ p.evidence.confidence = "high" =>
                                /\ Cardinality(r.samples) >= ManySamples
                                /\ \E s \in r.samples : s.region # None
                                /\ \E s \in r.samples : s.plan # None
  BY DEF ConfidenceNeedsEvidence
<1> DEFINE q == p.evidence
           L == {r.confidence : r \in q.cohorts}
<1>1. q \in ProviderReports(reports)
  BY DEF IInv, ProvidersSound, IsAnalytics
<1>2. /\ q.cohorts \in SUBSET reports /\ q.cohorts # {}
      /\ q.confidence = Lowest(L) /\ q.gaps = UNION {r.coverage.gaps : r \in q.cohorts}
  <2>1. IsProvider(q, reports)
    BY <1>1, ProviderShape
  <2>. QED
    BY <2>1 DEF IsProvider
<1>3. ASSUME NEW r \in q.cohorts
      PROVE  Evident(r)
  <2>1. r \in reports
    BY <1>2
  <2>. QED
    BY <2>1, InvariantParts, ReportEvident
<1>4. L \in SUBSET Levels /\ L # {}
  BY <1>2, <1>3 DEF Evident
<1>5. q.confidence \in L /\ \A l \in L : AtMost(q.confidence, l)
  <2> HIDE DEF L
  <2>. QED
    BY <1>2, <1>4, LowestSound
<1>6. ASSUME NEW r \in q.cohorts
      PROVE  r.confidence # "low" /\ (q.confidence = "high" => r.confidence = "high")
  <2>1. r.confidence \in Levels /\ q.confidence \in Levels /\ AtMost(q.confidence, r.confidence)
    BY <1>4, <1>5
  <2>. QED
    BY <2>1, Ranks DEF Levels
<1>7. ASSUME NEW r \in q.cohorts
      PROVE  r.coverage.gaps \cap {"insufficient_samples", "short_observation_period"} = {}
  BY <1>3, <1>6 DEF Evident
<1>8. q.gaps \cap {"insufficient_samples", "short_observation_period"} = {}
  <2> DEFINE short == {"insufficient_samples", "short_observation_period"}
  <2>1. \A r \in q.cohorts : r.coverage.gaps \cap short = {}
    BY <1>7
  <2> HIDE DEF short
  <2>2. q.gaps \cap short = {}
    BY <1>2, <2>1
  <2>. QED
    BY <2>2 DEF short
<1>9. ASSUME NEW r \in q.cohorts
      PROVE  /\ \A m \in r.metrics : m.statistics.variation # "variable"
             /\ q.confidence = "high" =>
                                /\ Cardinality(r.samples) >= ManySamples
                                /\ \E s \in r.samples : s.region # None
                                /\ \E s \in r.samples : s.plan # None
  BY <1>3, <1>6 DEF Evident
<1>. QED
  BY <1>8, <1>9

(* A report and a metric are known by their key and name. *)
LEMMA ReportKnown ==
    ASSUME IInv, Reported, NEW r \in reports
    PROVE  ReportOf(r.key) = r
<1>1. \A q \in reports : q.key = r.key => q = r
  BY ReportOfKey DEF Reported
<1>. QED
  BY <1>1 DEF ReportOf

(* The median of a metric is that of the only metric of its name. *)
LEMMA MedianKnown ==
    ASSUME IInv, Reported, NEW r \in reports, NEW m \in r.metrics, NEW metric,
           metric = Metric(m)
    PROVE  MedianOf(r.key, metric) = m.statistics.median
<1>1. ReportOf(r.key) = r
  BY ReportKnown
<1>2. \A l \in r.metrics : l.name = m.name => l = m
  BY MetricOfName DEF Reported
<1>3. metric.name = m.name
  BY DEF Metric
<1>. QED
  BY <1>1, <1>2, <1>3 DEF MedianOf

(* The invariant implies that comparisons do not overstate their confidence. *)
LEMMA InvariantBounded == IInv => ConfidenceBounded
<1> SUFFICES ASSUME IInv PROVE ConfidenceBounded
  OBVIOUS
<1>1. ASSUME NEW c \in comparisons
      PROVE  /\ \A k \in c.cohorts \cup c.peerCohorts : AtMost(c.confidence, ReportOf(k).confidence)
             /\ c.confidence = "high" => Cardinality({k.provider : k \in c.peerCohorts}) >= 2
  <2> DEFINE O == PeerObservations(reports)
  <2>1. Reported /\ Grouped(c, O) /\ Confident(c, O)
    BY ComparisonsKnown
  <2>2. ASSUME NEW k \in c.cohorts \cup c.peerCohorts
        PROVE  AtMost(c.confidence, ReportOf(k).confidence)
    <3>1. PICK o \in O : o.metric = c.metric /\ o.cohort = k
      BY <2>1 DEF Grouped
    <3>2. PICK r \in reports : o.cohort = r.key /\ o.levels = {r.confidence}
      BY PeerObservationShape DEF IsPeerObservation
    <3>3. \A l \in o.levels : AtMost(c.confidence, l)
      BY <2>1, <3>1 DEF Confident, Own, Others
    <3>4. ReportOf(k) = r
      BY <2>1, <3>1, <3>2, ReportKnown
    <3>. QED
      BY <3>2, <3>3, <3>4
  <2>. QED
    BY <2>1, <2>2 DEF Confident
<1>2. ASSUME NEW c \in values
      PROVE  /\ \A k \in c.cohorts \cup c.peerCohorts :
                   /\ AtMost(c.confidence, ReportOf(k).confidence)
                   /\ AtMost(c.confidence, SourceConfidence(assigned[k]))
             /\ c.confidence = "high" => Cardinality({k.provider : k \in c.peerCohorts}) >= 2
  <2> DEFINE O == ValueObservations(reports)
  <2>1. Reported /\ Grouped(c, O) /\ Confident(c, O)
    BY ComparisonsKnown
  <2>2. ASSUME NEW k \in c.cohorts \cup c.peerCohorts
        PROVE  /\ AtMost(c.confidence, ReportOf(k).confidence)
               /\ AtMost(c.confidence, SourceConfidence(assigned[k]))
    <3>1. PICK o \in O : o.metric = c.metric /\ o.cohort = k
      BY <2>1 DEF Grouped
    <3>2. PICK r \in reports : /\ o.cohort = r.key
                               /\ o.levels = {r.confidence, SourceConfidence(assigned[r.key])}
      BY ValueObservationShape DEF IsValueObservation
    <3>3. \A l \in o.levels : AtMost(c.confidence, l)
      BY <2>1, <3>1 DEF Confident, Own, Others
    <3>4. ReportOf(k) = r
      BY <2>1, <3>1, <3>2, ReportKnown
    <3>. QED
      BY <3>1, <3>2, <3>3, <3>4
  <2>. QED
    BY <2>1, <2>2 DEF Confident
<1>. QED
  BY <1>1, <1>2 DEF ConfidenceBounded

(* Both, together. *)
LEMMA InvariantConfidence == IInv => ConfidenceSound
BY InvariantEvidence, InvariantBounded DEF ConfidenceSound

-----------------------------------------------------------------------------
(* Comparisons of a state. *)

(* The invariant implies that peers are compatible and complete. *)
LEMMA InvariantCompatible == IInv => PeersCompatible
<1> SUFFICES ASSUME IInv, NEW c \in comparisons
             PROVE  /\ \A k \in c.cohorts : k.provider = c.provider
                    /\ \A k \in c.peerCohorts : k.provider \notin {c.provider, Unknown}
                    /\ c.provider # Unknown /\ c.peerCohorts # {}
                    /\ \A k \in c.cohorts : k.country # Unknown /\
                          {r.key : r \in {x \in reports : /\ PeerKey(x.key) = PeerKey(k)
                                                         /\ x.key.provider # Unknown
                                                         /\ \E m \in x.metrics : Metric(m) = c.metric}}
                             = c.cohorts \cup c.peerCohorts
  BY DEF PeersCompatible
<1> DEFINE O == PeerObservations(reports)
<1>1. Grouped(c, O)
  BY ComparisonsKnown
<1> HIDE DEF O
<1>2. /\ c.cohorts # {} /\ c.peerCohorts # {}
      /\ \A k \in c.cohorts : k.provider = c.provider
      /\ \A k \in c.peerCohorts : k.provider # c.provider
      /\ \A k \in c.cohorts \cup c.peerCohorts : k.provider # Unknown /\ k.country # Unknown
  BY <1>1 DEF Grouped, Comparable
<1>3. ASSUME NEW k \in c.cohorts
      PROVE  {r.key : r \in {x \in reports : /\ PeerKey(x.key) = PeerKey(k)
                                            /\ x.key.provider # Unknown
                                            /\ \E m \in x.metrics : Metric(m) = c.metric}}
                = c.cohorts \cup c.peerCohorts
  <2>1. ASSUME NEW r \in reports, PeerKey(r.key) = PeerKey(k), r.key.provider # Unknown,
               NEW m \in r.metrics, Metric(m) = c.metric
        PROVE  r.key \in c.cohorts \cup c.peerCohorts
    <3>1. PICK o \in O : o.cohort = r.key /\ o.metric = Metric(m)
      BY PeerObservationShape DEF O
    <3>. QED
      BY <1>1, <2>1, <3>1 DEF Grouped
  <2>2. ASSUME NEW h \in c.cohorts \cup c.peerCohorts
        PROVE  \E r \in reports : /\ r.key = h
                                  /\ PeerKey(r.key) = PeerKey(k) /\ r.key.provider # Unknown
                                  /\ \E m \in r.metrics : Metric(m) = c.metric
    <3>1. PICK o \in O : o.metric = c.metric /\ o.cohort = h
      BY <1>1 DEF Grouped
    <3>2. PICK r \in reports : \E m \in r.metrics : o.cohort = r.key /\ o.metric = Metric(m)
      BY PeerObservationShape DEF IsPeerObservation, O
    <3>3. PeerKey(h) = PeerKey(k)
      BY <1>1 DEF Grouped
    <3>. QED
      BY <1>2, <3>1, <3>2, <3>3
  <2>. QED
    BY <2>1, <2>2
<1>. QED
  BY <1>2, <1>3

(* The invariant implies that outcomes have witnesses. *)
LEMMA InvariantOutcomes == IInv => OutcomeHasWitness
<1> SUFFICES ASSUME IInv, NEW c \in comparisons
             PROVE  /\ c.outcome = "ahead" => \E k \in c.cohorts, other \in c.peerCohorts :
                          Better(c.metric, MedianOf(k, c.metric), MedianOf(other, c.metric))
                    /\ c.outcome = "behind" => \E k \in c.cohorts, other \in c.peerCohorts :
                          Better(c.metric, MedianOf(other, c.metric), MedianOf(k, c.metric))
  BY DEF OutcomeHasWitness
<1> DEFINE O == PeerObservations(reports)
           sign == Direction[c.metric.direction]
<1>1. Reported /\ Grouped(c, O) /\ Witnessed(c, O, sign)
  BY ComparisonsKnown
<1>2. ASSUME NEW o \in O, o.metric = c.metric
      PROVE  o.value = MedianOf(o.cohort, c.metric) /\ o.metric.direction \in {"lower", "higher", "neutral"}
  <2>1. PICK r \in reports : \E m \in r.metrics :
           o.cohort = r.key /\ o.metric = Metric(m) /\ o.value = m.statistics.median
    BY PeerObservationShape DEF IsPeerObservation
  <2>2. PICK m \in r.metrics :
           o.cohort = r.key /\ o.metric = Metric(m) /\ o.value = m.statistics.median
    BY <2>1
  <2>3. MedianOf(r.key, c.metric) = m.statistics.median
    BY <1>1, <1>2, <2>2, MedianKnown
  <2>4. m.direction \in {"lower", "higher", "neutral"}
    BY InvariantParts, ReportMetrics DEF MetricSound
  <2>. QED
    BY <2>2, <2>3, <2>4 DEF Metric
<1> HIDE DEF O
<1>3. c.metric.direction \in {"lower", "higher"}
  BY <1>1, <1>2 DEF Grouped
<1>4. sign = IF c.metric.direction = "lower" THEN -1 ELSE 1
  BY <1>3 DEF Direction
<1> HIDE DEF sign
<1>5. ASSUME NEW x \in O, NEW y \in O, x.metric = c.metric, y.metric = c.metric, Above(x, y, sign)
      PROVE  Better(c.metric, MedianOf(x.cohort, c.metric), MedianOf(y.cohort, c.metric))
  BY <1>2, <1>4, <1>5 DEF Above, Better
<1>6. ASSUME c.outcome = "ahead"
      PROVE  \E k \in c.cohorts, other \in c.peerCohorts :
                Better(c.metric, MedianOf(k, c.metric), MedianOf(other, c.metric))
  <2>1. PICK x \in Own(O, c), y \in Others(O, c) : Above(x, y, sign)
    BY <1>1, <1>6 DEF Witnessed
  <2>. QED
    BY <1>5, <2>1 DEF Own, Others
<1>7. ASSUME c.outcome = "behind"
      PROVE  \E k \in c.cohorts, other \in c.peerCohorts :
                Better(c.metric, MedianOf(other, c.metric), MedianOf(k, c.metric))
  <2>1. PICK x \in Own(O, c), y \in Others(O, c) : Above(y, x, sign)
    BY <1>1, <1>7 DEF Witnessed
  <2>. QED
    BY <1>5, <2>1 DEF Own, Others
<1>. QED
  BY <1>6, <1>7

(* More of a metric for the price, or less of it times the price. *)
Cheaper(metric, median, quote, otherMedian, other) ==
    IF metric.direction = "lower"
    THEN Less(<<median[1] * quote.hourly, median[2]>>, <<otherMedian[1] * other.hourly, otherMedian[2]>>)
    ELSE Less(<<otherMedian[1], otherMedian[2] * other.hourly>>, <<median[1], median[2] * quote.hourly>>)

(* A larger value index is the better price (value_index). *)
LEMMA IndexOrder ==
    ASSUME NEW metric, metric.direction \in {"lower", "higher"},
           NEW u \in Fractions, NEW v \in Fractions, NEW p \in Quotes, NEW q \in Quotes,
           Less(ValueIndex(v, q, metric.direction), ValueIndex(u, p, metric.direction))
    PROVE  Cheaper(metric, u, p, v, q)
<1>1. u[1] \in Int /\ u[2] \in Int /\ v[1] \in Int /\ v[2] \in Int
  BY DEF Fractions
<1>2. p.hourly \in Int /\ q.hourly \in Int
  BY DEF Quotes
<1> DEFINE a == u[1]  b == u[2]  c == v[1]  d == v[2]  g == p.hourly  h == q.hourly
<1>3. a \in Int /\ b \in Int /\ c \in Int /\ d \in Int /\ g \in Int /\ h \in Int
  BY <1>1, <1>2
<1>4. CASE metric.direction = "higher"
  <2>1. ValueIndex(v, q, metric.direction) = <<c, d * h>> /\ ValueIndex(u, p, metric.direction) = <<a, b * g>>
    BY <1>4 DEF ValueIndex
  <2>2. Cheaper(metric, u, p, v, q) <=> Less(<<c, d * h>>, <<a, b * g>>)
    BY <1>4 DEF Cheaper
  <2>. QED
    BY <2>1, <2>2
<1>5. CASE metric.direction = "lower"
  <2>1. ValueIndex(v, q, metric.direction) = <<d, c * h>> /\ ValueIndex(u, p, metric.direction) = <<b, a * g>>
    BY <1>5 DEF ValueIndex
  <2>2. Cheaper(metric, u, p, v, q) <=> Less(<<a * g, b>>, <<c * h, d>>)
    BY <1>5 DEF Cheaper
  <2>3. Less(<<d, c * h>>, <<b, a * g>>)
    BY <2>1
  <2> HIDE DEF a, b, c, d, g, h
  <2>4. d * (a * g) < b * (c * h)
    BY <2>3 DEF Less
  <2>5. (a * g) * d < (c * h) * b
    <3> DEFINE x == a * g
               y == c * h
    <3>1. x \in Int /\ y \in Int
      BY <1>3
    <3>2. d * x < b * y
      BY <2>4
    <3> HIDE DEF x, y
    <3>3. x * d < y * b
      BY <1>3, <3>1, <3>2
    <3>. QED
      BY <3>3 DEF x, y
  <2>6. Less(<<a * g, b>>, <<c * h, d>>)
    BY <2>5 DEF Less
  <2>. QED
    BY <2>2, <2>6
<1>. QED
  BY <1>4, <1>5

(* The invariant implies that the outcomes of value comparisons have witnesses. *)
LEMMA InvariantValues == IInv => ValueHasWitness
<1> SUFFICES ASSUME IInv PROVE ValueHasWitness
  OBVIOUS
<1> DEFINE O == ValueObservations(reports)
           better(c, k, other) == Cheaper(c.metric, MedianOf(k, c.metric), assigned[k],
                                          MedianOf(other, c.metric), assigned[other])
<1>1. ASSUME NEW c \in values
      PROVE  Reported /\ Grouped(c, O) /\ Witnessed(c, O, 1)
  BY ComparisonsKnown
<1>2. ASSUME NEW c \in values, NEW o \in O, o.metric = c.metric
      PROVE  /\ o.metric.direction \in {"lower", "higher"} /\ assigned[o.cohort] \in Quotes
             /\ MedianOf(o.cohort, c.metric) \in Fractions
             /\ o.value = ValueIndex(MedianOf(o.cohort, c.metric), assigned[o.cohort],
                                     c.metric.direction)
  <2>1. PICK r \in reports : \E m \in r.metrics :
        /\ r.key \in DOMAIN assigned /\ m.direction # "neutral"
        /\ o.cohort = r.key /\ o.metric = Metric(m)
        /\ o.value = ValueIndex(m.statistics.median, assigned[r.key], m.direction)
    BY ValueObservationShape DEF IsValueObservation
  <2>2. PICK m \in r.metrics :
        /\ r.key \in DOMAIN assigned /\ m.direction # "neutral"
        /\ o.cohort = r.key /\ o.metric = Metric(m)
        /\ o.value = ValueIndex(m.statistics.median, assigned[r.key], m.direction)
    BY <2>1
  <2>3. MedianOf(r.key, c.metric) = m.statistics.median
    BY <1>1, <1>2, <2>2, MedianKnown
  <2>4. m.direction \in {"lower", "higher"} /\ m.statistics.median \in Fractions
    BY <2>2, InvariantParts, ReportMetrics DEF MetricSound
  <2>5. assigned[r.key] \in Quotes
    BY <2>2, InvariantParts, AssignedTyped DEF IInv, Derived
  <2>6. o.metric.direction = m.direction /\ c.metric.direction = m.direction
    BY <1>2, <2>2 DEF Metric
  <2>. QED
    BY <2>2, <2>3, <2>4, <2>5, <2>6
<1> HIDE DEF O
<1>3. ASSUME NEW c \in values, NEW x \in O, NEW y \in O, x.metric = c.metric, y.metric = c.metric,
             Above(x, y, 1)
      PROVE  better(c, x.cohort, y.cohort)
  <2>1. Less(y.value, x.value)
    BY <1>3 DEF Above
  <2>. QED
    BY <1>2, <1>3, <2>1, IndexOrder
<1> HIDE DEF better
<1>4. ASSUME NEW c \in values, c.outcome = "ahead"
      PROVE  \E k \in c.cohorts, o \in c.peerCohorts : better(c, k, o)
  <2>1. PICK x \in Own(O, c), y \in Others(O, c) : Above(x, y, 1)
    BY <1>1, <1>4 DEF Witnessed
  <2>. QED
    BY <1>3, <2>1 DEF Own, Others
<1>5. ASSUME NEW c \in values, c.outcome = "behind"
      PROVE  \E k \in c.cohorts, o \in c.peerCohorts : better(c, o, k)
  <2>1. PICK x \in Own(O, c), y \in Others(O, c) : Above(y, x, 1)
    BY <1>1, <1>5 DEF Witnessed
  <2>. QED
    BY <1>3, <2>1 DEF Own, Others
<1>. QED
  BY <1>4, <1>5 DEF ValueHasWitness, better, Cheaper

(* The three, together. *)
LEMMA InvariantComparisons == IInv => ComparisonsSound
BY InvariantCompatible, InvariantOutcomes, InvariantValues DEF ComparisonsSound

-----------------------------------------------------------------------------
(* Prices of a state. *)

(* A set of at most one element has no two. *)
LEMMA AtMostOne ==
    ASSUME NEW S, IsFiniteSet(S), ~ (Cardinality(S) > 1), NEW a \in S, NEW b \in S
    PROVE  a = b
<1>1. SUFFICES ASSUME a # b PROVE FALSE
  OBVIOUS
<1>2. IsFiniteSet({a}) /\ Cardinality({a}) = 1
  BY FS_Singleton
<1>3. {a, b} = {a} \cup {b} /\ b \notin {a}
  BY <1>1
<1>4. Cardinality({a, b}) = 2
  <2> DEFINE A == {a}
  <2>1. IsFiniteSet(A) /\ Cardinality(A) = 1 /\ {a, b} = A \cup {b} /\ b \notin A
    BY <1>2, <1>3
  <2> HIDE DEF A
  <2>2. Cardinality(A \cup {b}) = 2
    BY <2>1, FS_AddElement
  <2>. QED
    BY <2>1, <2>2
<1>5. {a, b} \in SUBSET S
  OBVIOUS
<1>6. Cardinality({a, b}) <= Cardinality(S) /\ Cardinality(S) \in Nat
  BY <1>5, FS_Subset, FS_CardinalityType
<1>. QED
  BY <1>4, <1>6

(* The report and the candidates of a priced cohort. *)
LEMMA PricedReport ==
    ASSUME IInv, NEW k \in DOMAIN assigned
    PROVE  /\ ReportOf(k) \in reports /\ ReportOf(k).key = k /\ IsReport(ReportOf(k), accepted)
           /\ assigned[k] \in Best(Candidates(ReportOf(k))) /\ ~Ambiguous(ReportOf(k))
<1>1. Assigned(assigned, reports)
  BY DEF IInv, Derived
<1>2. PICK r \in reports : r.key = k /\ assigned[k] \in Best(Candidates(r)) /\ ~Ambiguous(r)
  BY <1>1 DEF Assigned
<1>3. Reported
  BY <1>2 DEF IInv, ReportsSound
<1>4. ReportOf(k) = r
  BY <1>2, <1>3, ReportKnown
<1>5. IsReport(r, accepted)
  BY InvariantParts, ReportShape
<1>. QED
  BY <1>2, <1>4, <1>5

(* The invariant implies that prices cover their cohorts. *)
LEMMA InvariantCovers == IInv => PriceCoversEvidence
<1> SUFFICES ASSUME IInv, NEW k \in DOMAIN assigned
             PROVE  Prices(assigned[k], ReportOf(k))
  BY DEF PriceCoversEvidence
<1>1. /\ IsReport(ReportOf(k), accepted) /\ assigned[k] \in Best(Candidates(ReportOf(k)))
  BY PricedReport
<1>2. InputTyped /\ accepted \in SUBSET Samples
  BY InvariantParts
<1>3. assigned[k] \in Candidates(ReportOf(k)) /\ assigned[k] \in SelectedQuotes
  BY <1>1, <1>2, CandidatesTyped
<1>. QED
  BY <1>1, <1>2, <1>3, CandidatesPrice

(* A quote that names its place more exactly ranks higher. *)
LEMMA PlaceRanks ==
    ASSUME NEW q \in Quotes, NEW mine \in Quotes, QuoteRank(q) <= QuoteRank(mine)
    PROVE  /\ mine.region = None => q.region = None
           /\ mine.region = q.region /\ mine.zone = None => q.zone = None
<1> DEFINE place(x) == (IF x.region # None THEN 2 ELSE 0) + (IF x.zone # None THEN 1 ELSE 0)
           a == QuoteRank(q)
           b == QuoteRank(mine)
           s == place(q)
           t == place(mine)
<1>1. /\ a \in Int /\ a >= s * 1000 + 100 /\ a <= s * 1000 + 499
      /\ b \in Int /\ b >= t * 1000 + 100 /\ b <= t * 1000 + 499
  BY RankBounds
<1>2. s \in 0..3 /\ t \in 0..3
  OBVIOUS
<1>3. a <= b
  OBVIOUS
<1>4. (mine.region = None => t <= 1) /\ (q.region # None => s >= 2)
  OBVIOUS
<1>5. mine.region = q.region /\ mine.zone = None /\ q.zone # None => s = t + 1
  OBVIOUS
<1> HIDE DEF a, b, s, t
<1>6. s <= t
  BY <1>1, <1>2, <1>3
<1>. QED
  BY <1>2, <1>4, <1>5, <1>6

(* The invariant implies that no quote disputes a price. *)
LEMMA InvariantUndisputed == IInv => PriceUndisputed
<1> SUFFICES ASSUME IInv, NEW k \in DOMAIN assigned, NEW q \in SelectedQuotes,
                    Prices(q, ReportOf(k))
             PROVE  LET mine == assigned[k]
                        equal == \A field \in {"region", "zone", "tier", "observed"} :
                                    q[field] = mine[field]
                    IN /\ mine.region = None => q.region = None
                       /\ mine.region = q.region /\ mine.zone = None => q.zone = None
                       /\ equal => q.hourly = mine.hourly
  BY DEF PriceUndisputed
<1> DEFINE r == ReportOf(k)
           mine == assigned[k]
           C == Candidates(r)
<1>1. IsReport(r, accepted) /\ mine \in Best(C) /\ ~Ambiguous(r)
  BY PricedReport
<1>2. InputTyped /\ accepted \in SUBSET Samples
  BY InvariantParts
<1>3. q \in C
  BY <1>1, <1>2, CandidatesPrice
<1>4. C \in SUBSET Quotes /\ IsFiniteSet(Best(C)) /\ mine \in C
  BY <1>1, <1>2, CandidatesTyped
<1>5. \A other \in C : QuoteRank(other) <= QuoteRank(mine)
  BY <1>1 DEF Best
<1>6. /\ mine.region = None => q.region = None
      /\ mine.region = q.region /\ mine.zone = None => q.zone = None
  BY <1>3, <1>4, <1>5, PlaceRanks
<1>7. ASSUME \A field \in {"region", "zone", "tier", "observed"} : q[field] = mine[field]
      PROVE  q.hourly = mine.hourly
  <2>1. /\ q["region"] = mine["region"] /\ q["zone"] = mine["zone"]
        /\ q["tier"] = mine["tier"] /\ q["observed"] = mine["observed"]
    BY <1>7
  <2>2. QuoteRank(q) = QuoteRank(mine)
    BY <2>1 DEF QuoteRank
  <2>3. q \in Best(C)
    BY <1>3, <1>5, <2>2 DEF Best
  <2> DEFINE B == Best(C)
             f == [x \in B |-> x.hourly]
             H == {x.hourly : x \in B}
  <2>4. H = {f[x] : x \in B}
    OBVIOUS
  <2>5. ~ (Cardinality(H) > 1) /\ q.hourly \in H /\ mine.hourly \in H
    BY <1>1, <2>3 DEF Ambiguous
  <2> HIDE DEF f, B, H
  <2>6. IsFiniteSet(H)
    BY <1>4, <2>4, ImageFinite DEF B
  <2>. QED
    BY <2>5, <2>6, AtMostOne
<1>. QED
  BY <1>6, <1>7

(* Both, together. *)
LEMMA InvariantPrices == IInv => PricesSound
BY InvariantCovers, InvariantUndisputed DEF PricesSound

(* What a failure leaves, and what success does. *)
LEMMA InvariantOutputs == IInv => OutputsComplete
<1> SUFFICES ASSUME IInv PROVE OutputsComplete
  OBVIOUS
<1>1. StageSound
  BY DEF IInv
<1>2. input.files \in SUBSET {"output", "markdown"}
  BY InvariantParts, InputParts
<1>. QED
  BY <1>1, <1>2 DEF StageSound, OutputsComplete

-----------------------------------------------------------------------------
(* What a finished analysis accounts for. *)

(* The size of a singleton. *)
LEMMA OneElement ==
    ASSUME NEW S, NEW x
    PROVE  S = {x} => Cardinality(S) = 1
BY FS_Singleton

(* The size of the empty set. *)
LEMMA NoElement ==
    ASSUME NEW S
    PROVE  S = {} => Cardinality(S) = 0
BY FS_EmptySet

(* The samples that a finished analysis accepted and excluded. *)
LEMMA SamplesSorted ==
    ASSUME IInv, Analysed, NEW s \in SamplesGiven
    PROVE  /\ s.id \in excluded <=> s.quality = "invalid"
           /\ s \in accepted <=> s.quality # "invalid"
<1> DEFINE f == input.samples
           n == Len(input.samples)
<1>1. next = n + 1 /\ stage # "failed"
  BY DEF IInv, ReadSound, Analysed
<1>2. n \in Nat
  BY InvariantParts, InputParts
<1>3. next - 1 = n
  BY <1>1, <1>2
<1>4. /\ Distinct(f, n)
      /\ accepted = {f[i] : i \in {i \in 1..n : f[i].quality # "invalid"}}
      /\ excluded = {f[i].id : i \in {i \in 1..n : f[i].quality = "invalid"}}
  BY <1>1, <1>3 DEF IInv, ReadSound
<1>5. PICK i \in 1..n : s = f[i]
  BY DEF SamplesGiven
<1> HIDE DEF f, n
<1>6. s.id \in excluded <=> s.quality = "invalid"
  BY <1>4, <1>5 DEF Distinct
<1>7. s \in accepted <=> s.quality # "invalid"
  BY <1>4, <1>5
<1>. QED
  BY <1>6, <1>7

Homes(s) == {h \in providers \X reports : h[2] \in h[1].evidence.cohorts /\ s \in h[2].samples}

(* A sample is in one cohort of one provider, or excluded. *)
LEMMA SampleHomes ==
    ASSUME IInv, Analysed, NEW s \in SamplesGiven
    PROVE  Cardinality(Homes(s)) = IF s.id \in excluded THEN 0 ELSE 1
<1>1. /\ s.id \in excluded <=> s.quality = "invalid"
      /\ s \in accepted <=> s.quality # "invalid"
  BY SamplesSorted
<1>2. ASSUME NEW r \in reports
      PROVE  /\ r.samples \subseteq accepted /\ r \in ReportsOf(accepted)
             /\ s \in r.samples => CohortKey(s) = r.key
  <2>1. IsReport(r, accepted) /\ r \in ReportsOf(accepted)
    BY InvariantParts, ReportShape
  <2>. QED
    BY <2>1 DEF IsReport
<1>3. Reported
  BY DEF IInv, ReportsSound, Analysed
<1>4. ProvidersSound
  BY DEF IInv
<1>5. CASE s.id \in excluded
  <2>1. Homes(s) = {}
    BY <1>1, <1>2, <1>5 DEF Homes
  <2>. QED
    BY <1>5, <2>1, NoElement
<1>6. CASE s.id \notin excluded
  <2>1. s \in accepted
    BY <1>1, <1>6
  <2>2. PICK r \in reports : r.key = CohortKey(s) /\ s \in r.samples
    BY <1>3, <2>1, ReportOfSample DEF Reported
  <2>3. PICK q \in ProviderReports(reports) : q.provider = r.key.provider /\ r \in q.cohorts
    BY ProviderExists
  <2>4. PICK p \in providers : p.evidence = q
    BY <1>4 DEF ProvidersSound
  <2>5. <<p, r>> \in Homes(s)
    BY <2>2, <2>3, <2>4 DEF Homes
  <2>6. ASSUME NEW h \in Homes(s)
        PROVE  h = <<p, r>>
    <3>1. /\ h = <<h[1], h[2]>> /\ h[1] \in providers /\ h[2] \in reports
          /\ h[2] \in h[1].evidence.cohorts /\ s \in h[2].samples
      BY DEF Homes
    <3>2. h[2] = r
      <4>1. h[2].key = r.key /\ h[2] \in ReportsOf(accepted) /\ r \in ReportsOf(accepted)
        BY <1>2, <2>2, <3>1
      <4>. QED
        BY <4>1, ReportOfKey
    <3>3. h[1].evidence \in ProviderReports(reports)
      BY <1>4, <3>1 DEF ProvidersSound, IsAnalytics
    <3>4. r.key.provider = h[1].evidence.provider
      <4>1. IsProvider(h[1].evidence, reports)
        BY <3>3, ProviderShape
      <4>. QED
        BY <3>1, <3>2, <4>1 DEF IsProvider
    <3>5. h[1].evidence = q
      BY <2>3, <3>3, <3>4, ProviderShape
    <3>6. h[1] = p
      BY <1>4, <2>4, <3>1, <3>5 DEF ProvidersSound
    <3>. QED
      BY <3>1, <3>2, <3>6
  <2>7. Homes(s) = {<<p, r>>}
    BY <2>5, <2>6
  <2>. QED
    BY <1>6, <2>7, OneElement
<1>. QED
  BY <1>5, <1>6

(* Price evidence is of selected quotes, each of the cohorts it prices. *)
LEMMA EvidenceShape ==
    ASSUME NEW e
    PROVE  e \in PricingEvidence <=> \E k \in DOMAIN assigned :
              e = [quote |-> assigned[k], cohorts |-> {h \in DOMAIN assigned : assigned[h] = assigned[k]}]
BY DEF PricingEvidence

(* Price evidence is of a provider that is reported, once for each quote. *)
LEMMA EvidenceKnown ==
    ASSUME IInv, NEW e \in PricingEvidence
    PROVE  /\ e.quote \in SelectedQuotes
           /\ \E r \in reports : r.key.provider = Normalize(e.quote.provider)
           /\ \A f \in PricingEvidence : f.quote = e.quote => f = e
<1>1. PICK k \in DOMAIN assigned :
         e = [quote |-> assigned[k], cohorts |-> {h \in DOMAIN assigned : assigned[h] = assigned[k]}]
  BY EvidenceShape
<1>2. e.quote = assigned[k] /\ e.cohorts = {h \in DOMAIN assigned : assigned[h] = e.quote}
  BY <1>1
<1>3. /\ assigned[k] \in SelectedQuotes
      /\ \E r \in reports : r.key = k /\ assigned[k] \in Candidates(r)
  BY InvariantParts, AssignedTyped DEF IInv, Derived
<1>4. \E r \in reports : r.key.provider = Normalize(e.quote.provider)
  BY <1>2, <1>3 DEF Candidates, MatchesIdentity
<1>5. ASSUME NEW f \in PricingEvidence, f.quote = e.quote
      PROVE  f = e
  <2>1. PICK h \in DOMAIN assigned :
         f = [quote |-> assigned[h], cohorts |-> {j \in DOMAIN assigned : assigned[j] = assigned[h]}]
    BY EvidenceShape
  <2>2. assigned[h] = assigned[k]
    BY <1>1, <1>5, <2>1
  <2>. QED
    BY <1>1, <2>1, <2>2
<1>. QED
  BY <1>2, <1>3, <1>4, <1>5

(* Quotes with one ID are one quote. *)
LEMMA QuoteOfId ==
    ASSUME IInv, stage \notin {"load", "failed"}, NEW q \in SelectedQuotes, NEW u \in SelectedQuotes,
           q.id = u.id
    PROVE  q = u
<1>1. PICK i \in Selected, j \in Selected : q = input.quotes[i] /\ u = input.quotes[j]
  BY DEF SelectedQuotes
<1>2. i \in 1..Len(input.quotes) /\ j \in 1..Len(input.quotes)
  BY DEF Selected
<1>3. Distinct(input.quotes, Len(input.quotes))
  BY DEF IInv, ReadSound
<1>. QED
  BY <1>1, <1>2, <1>3 DEF Distinct

Users(q) == {p \in providers : \E e \in p.pricing : e.quote = q}

(* A quote is evidence of one provider, or unmatched. *)
LEMMA QuoteUsers ==
    ASSUME IInv, Analysed, NEW q \in SelectedQuotes
    PROVE  Cardinality(Users(q)) = IF q.id \in Unmatched THEN 0 ELSE 1
<1>1. ProvidersSound
  BY DEF IInv
<1>2. ASSUME NEW p \in providers
      PROVE  p.evidence \in ProviderReports(reports) /\ p.pricing = PricingOf(p.evidence)
  BY <1>1 DEF ProvidersSound, IsAnalytics
<1>3. q.id \in Unmatched <=> ~ \E e \in PricingEvidence : e.quote.id = q.id
  BY DEF Unmatched
<1>4. \A e, r : e \in PricingOf(r) <=> e \in PricingEvidence /\ Normalize(e.quote.provider) = r.provider
  BY DEF PricingOf
<1>5. CASE q.id \in Unmatched
  <2>1. Users(q) = {}
    BY <1>2, <1>3, <1>4, <1>5 DEF Users
  <2>. QED
    BY <1>5, <2>1, NoElement
<1>6. CASE q.id \notin Unmatched
  <2>1. PICK e \in PricingEvidence : e.quote.id = q.id
    BY <1>3, <1>6
  <2>2. e.quote = q
    BY <2>1, EvidenceKnown, QuoteOfId DEF Analysed
  <2>3. PICK r \in reports : r.key.provider = Normalize(q.provider)
    BY <2>2, EvidenceKnown
  <2>4. PICK x \in ProviderReports(reports) : x.provider = r.key.provider
    BY ProviderExists
  <2>5. PICK p \in providers : p.evidence = x
    BY <1>1 DEF ProvidersSound
  <2>6. e \in p.pricing
    BY <1>2, <1>4, <2>2, <2>3, <2>4, <2>5
  <2>7. p \in Users(q)
    BY <2>2, <2>6 DEF Users
  <2>8. ASSUME NEW u \in Users(q)
        PROVE  u = p
    <3>1. PICK f \in u.pricing : f.quote = q
      BY DEF Users
    <3>2. u \in providers
      BY DEF Users
    <3>3. u.evidence.provider = Normalize(q.provider)
      BY <1>2, <1>4, <3>1, <3>2
    <3>4. u.evidence \in ProviderReports(reports) /\ u.evidence.provider = x.provider
      BY <1>2, <2>3, <2>4, <3>2, <3>3
    <3>5. u.evidence = x
      BY <3>4, ProviderShape
    <3>. QED
      BY <1>1, <2>5, <3>2, <3>5 DEF ProvidersSound
  <2>9. Users(q) = {p}
    BY <2>7, <2>8
  <2>. QED
    BY <1>6, <2>9, OneElement
<1>. QED
  BY <1>5, <1>6

(* The invariant implies that the inputs are accounted for. *)
LEMMA InvariantAccounted == IInv => InputsAccounted
<1> SUFFICES ASSUME IInv, Analysed
             PROVE  /\ \A s \in SamplesGiven :
                          /\ (s.id \in excluded) = (s.quality = "invalid")
                          /\ Cardinality(Homes(s)) = IF s.id \in excluded THEN 0 ELSE 1
                    /\ \A q \in SelectedQuotes :
                          Cardinality(Users(q)) = IF q.id \in Unmatched THEN 0 ELSE 1
  BY DEF InputsAccounted, Homes, Users
<1>1. ASSUME NEW s \in SamplesGiven
      PROVE  (s.id \in excluded) = (s.quality = "invalid")
  BY SamplesSorted
<1>. QED
  BY <1>1, SampleHomes, QuoteUsers

(* build_explanations: one item for each dimension, and the gaps of the report. *)
LEMMA ExplanationShape ==
    ASSUME NEW report, NEW card, DOMAIN card = Dimensions, NEW expl, expl = Explanations(report, card)
    PROVE  /\ \A d \in Dimensions : {e \in expl : e[1] = d} = {<<d, card[d]>>}
           /\ {e[2] : e \in {e \in expl : e[1] = "gap"}} = report.gaps
<1>1. \A e : e \in expl <=> \/ \E d \in Dimensions : e = <<d, card[d]>>
                            \/ \E g \in report.gaps : e = <<"gap", g>>
                            \/ e = <<"universal_score", "not_calculated">>
  BY DEF Explanations
<1>2. "gap" \notin Dimensions /\ "universal_score" \notin Dimensions
  BY DEF Dimensions
<1>3. ASSUME NEW d \in Dimensions
      PROVE  {e \in expl : e[1] = d} = {<<d, card[d]>>}
  BY <1>1, <1>2
<1>4. {e \in expl : e[1] = "gap"} = {<<"gap", g>> : g \in report.gaps}
  BY <1>1, <1>2
<1>5. {e[2] : e \in {e \in expl : e[1] = "gap"}} = report.gaps
  <2> DEFINE G == {<<"gap", g>> : g \in report.gaps}
  <2>1. \A g \in report.gaps : <<"gap", g>> \in G /\ <<"gap", g>>[2] = g
    OBVIOUS
  <2>2. \A e \in G : e[2] \in report.gaps
    OBVIOUS
  <2>3. {e \in expl : e[1] = "gap"} = G
    BY <1>4
  <2> HIDE DEF G
  <2>4. {e[2] : e \in G} \subseteq report.gaps
    BY <2>2
  <2>5. report.gaps \subseteq {e[2] : e \in G}
    BY <2>1
  <2>. QED
    BY <2>3, <2>4, <2>5
<1>. QED
  BY <1>3, <1>5

(* The invariant implies that the explanations are complete. *)
LEMMA InvariantExplained == IInv => ExplanationsComplete
<1> SUFFICES ASSUME IInv, NEW p \in providers
             PROVE  /\ \A d \in Dimensions : Cardinality({e \in p.explanations : e[1] = d}) = 1
                    /\ {e[2] : e \in {e \in p.explanations : e[1] = "gap"}}
                          = UNION {r.coverage.gaps : r \in p.evidence.cohorts}
  BY DEF ExplanationsComplete, Dimensions
<1>1. IsAnalytics(p)
  BY DEF IInv, ProvidersSound
<1>2. DOMAIN p.scorecard = Dimensions /\ p.explanations = Explanations(p.evidence, p.scorecard)
  BY <1>1 DEF IsAnalytics
<1>3. /\ \A d \in Dimensions : {e \in p.explanations : e[1] = d} = {<<d, p.scorecard[d]>>}
      /\ {e[2] : e \in {e \in p.explanations : e[1] = "gap"}} = p.evidence.gaps
  BY <1>2, ExplanationShape
<1>4. p.evidence.gaps = UNION {r.coverage.gaps : r \in p.evidence.cohorts}
  <2>1. IsProvider(p.evidence, reports)
    BY <1>1, ProviderShape DEF IsAnalytics
  <2>. QED
    BY <2>1 DEF IsProvider
<1>5. ASSUME NEW d \in Dimensions
      PROVE  Cardinality({e \in p.explanations : e[1] = d}) = 1
  BY <1>3, OneElement
<1>. QED
  BY <1>3, <1>4, <1>5

(* Both, together. *)
LEMMA InvariantLossless == IInv => EvidenceAccounted
BY InvariantAccounted, InvariantExplained DEF EvidenceAccounted

-----------------------------------------------------------------------------
(* The invariant is inductive. *)

(* The invariant holds at first. *)
LEMMA InitSound == Init => IInv
<1> SUFFICES ASSUME Init PROVE IInv
  OBVIOUS
<1>1. InputTyped
  BY DEF Init, InputTyped
<1>2. Len(input.samples) \in Nat
  BY <1>1, InputParts
<1>3. StageSound
  BY DEF Init, StageSound, Stages, Causes, Results, Absent, None
<1>4. ReadSound
  BY <1>2 DEF Init, ReadSound, Distinct
<1>5. DOMAIN assigned = {}
  BY DEF Init
<1>6. Pending /\ ReportsSound
  BY <1>5 DEF Init, Pending, ReportsSound
<1>7. Derived
  BY <1>5 DEF Init, Derived, Assigned
<1>8. ProvidersSound
  BY DEF Init, ProvidersSound, Analysed
<1>. QED
  BY <1>3, <1>4, <1>6, <1>7, <1>8 DEF IInv

(* What a step leaves alone stays sound. *)
LEMMA ReadKept ==
    ASSUME ReadSound, UNCHANGED <<input, next, accepted, excluded>>,
           stage \notin {"load", "failed"},
           stage' \notin {"load", "samples", "failed"} => next = Len(input.samples) + 1
    PROVE  ReadSound'
<1>1. SamplesGiven' = SamplesGiven
  BY DEF SamplesGiven
<1>. QED
  BY <1>1 DEF ReadSound, Distinct

(* So do the reports, *)
LEMMA ReportsKept ==
    ASSUME ReportsSound, UNCHANGED <<accepted, reports>>,
           stage' \in {"load", "samples", "failed"} \/ stage \notin {"load", "samples", "failed"}
    PROVE  ReportsSound'
<1>1. Reported => Reported'
  BY DEF Reported
<1>. QED
  BY <1>1 DEF ReportsSound

(* the candidates, *)
LEMMA CandidatesKept ==
    ASSUME UNCHANGED input
    PROVE  \A r : Candidates(r)' = Candidates(r)
<1>1. SelectedQuotes' = SelectedQuotes
  BY DEF SelectedQuotes, Selected
<1>. QED
  BY <1>1 DEF Candidates

(* the assignments, *)
LEMMA AssignedKept ==
    ASSUME UNCHANGED input, Assigned(assigned, reports), UNCHANGED <<assigned, reports>>
    PROVE  Assigned(assigned, reports)'
<1>1. \A r : Candidates(r)' = Candidates(r)
  BY CandidatesKept
<1>. QED
  BY <1>1 DEF Assigned, Ambiguous

(* the comparisons, *)
LEMMA DerivedKept ==
    ASSUME Derived, UNCHANGED <<input, accepted, reports, comparisons, assigned, values>>
    PROVE  Derived'
<1>1. Reported => Reported'
  BY DEF Reported
<1>2. Assigned(assigned, reports)'
  BY AssignedKept DEF Derived
<1>3. ValueComparisons(reports)' = ValueComparisons(reports)
  BY DEF ValueComparisons, ValueObservations
<1>4. PeerComparisons(reports)' = PeerComparisons(reports)
  OBVIOUS
<1>. QED
  BY <1>1, <1>2, <1>3, <1>4 DEF Derived

(* and the reports of the providers. *)
LEMMA ProvidersKept ==
    ASSUME ProvidersSound, UNCHANGED <<reports, assigned, providers>>, Analysed' => Analysed
    PROVE  ProvidersSound'
<1>1. \A r : PricingOf(r)' = PricingOf(r)
  BY DEF PricingOf, PricingEvidence
<1>2. \A p : IsAnalytics(p)' <=> IsAnalytics(p)
  BY <1>1 DEF IsAnalytics
<1>. QED
  BY <1>2 DEF ProvidersSound

(* Before there are reports there is nothing to compare, price or assemble. *)
LEMMA NothingDerived ==
    ASSUME comparisons' = {}, DOMAIN assigned' = {}, values' = {}, providers' = {},
           stage' \notin {"output", "markdown", "done"}
    PROVE  Derived' /\ ProvidersSound'
<1>1. Derived'
  BY DEF Derived, Assigned
<1>2. ProvidersSound'
  BY DEF ProvidersSound, Analysed
<1>. QED
  BY <1>1, <1>2

(* run_analyze: the files are read. *)
LEMMA LoadInputsSound == IInv /\ LoadInputs => IInv'
<1> SUFFICES ASSUME IInv, LoadInputs PROVE IInv'
  OBVIOUS
<1>1. /\ stage = "load" /\ error = None /\ files = Absent
      /\ reports = {} /\ comparisons = {} /\ DOMAIN assigned = {} /\ values = {} /\ providers = {}
  BY DEF IInv, StageSound, ReadSound, Pending, LoadInputs
<1>2. UNCHANGED <<input, next, accepted, excluded, reports, comparisons, assigned, values,
                  providers, files>>
  BY DEF LoadInputs
<1>3. \/ stage' = "failed" /\ error' \in {"no_samples", "duplicate_quote"}
      \/ /\ stage' = "samples" /\ error' = error
         /\ IsInjective([i \in 1..Len(input.quotes) |-> input.quotes[i].id])
  BY DEF LoadInputs, Fail
<1>4. StageSound'
  BY <1>1, <1>2, <1>3 DEF IInv, StageSound, Stages, Causes, None
<1>5. ReadSound'
  <2>1. SamplesGiven' = SamplesGiven
    BY <1>2 DEF SamplesGiven
  <2>2. CASE stage' = "failed"
    BY <1>1, <1>2, <2>1, <2>2 DEF IInv, ReadSound
  <2>3. CASE stage' = "samples"
    <3>1. Distinct(input.quotes, Len(input.quotes))
      BY <1>3, <2>3 DEF Distinct, IsInjective
    <3>. QED
      BY <1>1, <1>2, <2>1, <2>3, <3>1 DEF IInv, ReadSound, Distinct
  <2>. QED
    BY <1>3, <2>2, <2>3
<1>6. Pending' /\ ReportsSound'
  BY <1>1, <1>2, <1>3 DEF Pending, ReportsSound
<1>7. Derived' /\ ProvidersSound'
  BY <1>1, <1>2, <1>3, NothingDerived
<1>. QED
  BY <1>4, <1>5, <1>6, <1>7 DEF IInv

(* The samples and the IDs among the first of a list that satisfy a filter. *)
LEMMA OneMore ==
    ASSUME NEW f, NEW n \in Nat, NEW S, S = {i \in 1..n : f[i].quality # "invalid"},
           NEW T, T = {i \in 1..n : f[i].quality = "invalid"}
    PROVE  /\ f[n + 1].quality = "invalid" =>
                 /\ {i \in 1..(n + 1) : f[i].quality # "invalid"} = S
                 /\ {i \in 1..(n + 1) : f[i].quality = "invalid"} = T \cup {n + 1}
           /\ f[n + 1].quality # "invalid" =>
                 /\ {i \in 1..(n + 1) : f[i].quality # "invalid"} = S \cup {n + 1}
                 /\ {i \in 1..(n + 1) : f[i].quality = "invalid"} = T
<1>1. 1..(n + 1) = (1..n) \cup {n + 1}
  OBVIOUS
<1>. QED
  BY <1>1

(* build_analytics_bundle: a sample is accepted, excluded or refused. *)
LEMMA ReadSampleSound == IInv /\ ReadSample => IInv'
<1> SUFFICES ASSUME IInv, ReadSample PROVE IInv'
  OBVIOUS
<1> DEFINE f == input.samples
           s == input.samples[next]
           m == next - 1
           seen == {input.samples[i].id : i \in 1..(next - 1)}
<1>1. /\ stage = "samples" /\ error = None /\ files = Absent
      /\ reports = {} /\ comparisons = {} /\ DOMAIN assigned = {} /\ values = {} /\ providers = {}
  BY DEF IInv, StageSound, Pending, ReadSample
<1>2. /\ UNCHANGED <<input, reports, comparisons, assigned, values, providers, files>>
      /\ next' = next + 1 /\ next <= Len(f)
  BY DEF ReadSample
<1>3. \/ /\ stage' = "failed" /\ error' \in {"duplicate_sample", "malformed_sample"}
         /\ UNCHANGED <<accepted, excluded>>
      \/ /\ UNCHANGED <<stage, error>> /\ s.id \notin seen
         /\ \/ s.quality = "invalid" /\ excluded' = excluded \cup {s.id} /\ accepted' = accepted
            \/ s.quality # "invalid" /\ accepted' = accepted \cup {s} /\ excluded' = excluded
  BY DEF ReadSample, Fail
<1>4. Len(f) \in Nat /\ next \in 1..Len(f)
  BY <1>2, InvariantParts, InputParts DEF IInv, ReadSound
<1>5. m \in Nat /\ m + 1 = next /\ next' - 1 = m + 1 /\ next' \in 1..(Len(f) + 1)
  BY <1>2, <1>4
<1>6. StageSound'
  BY <1>1, <1>2, <1>3 DEF IInv, StageSound, Causes, None, Stages
<1>7. s \in SamplesGiven /\ SamplesGiven' = SamplesGiven
  BY <1>2, <1>4 DEF SamplesGiven
<1>8. ReadSound'
  <2>1. /\ Distinct(input.quotes, Len(input.quotes)) /\ Distinct(f, m)
        /\ accepted = {f[i] : i \in {i \in 1..m : f[i].quality # "invalid"}}
        /\ excluded = {f[i].id : i \in {i \in 1..m : f[i].quality = "invalid"}}
        /\ accepted \in SUBSET SamplesGiven /\ excluded \in SUBSET {t.id : t \in SamplesGiven}
    BY <1>1 DEF IInv, ReadSound
  <2>2. CASE stage' = "failed"
    BY <1>2, <1>3, <1>1, <1>5, <1>7, <2>1, <2>2 DEF ReadSound
  <2>3. CASE stage' = "samples"
    <3>1. s.id \notin seen /\ s = f[m + 1] /\ seen = {f[i].id : i \in 1..m}
      BY <1>1, <1>3, <1>5, <2>3
    <3>2. Distinct(f, m + 1)
      <4>1. 1..(m + 1) = (1..m) \cup {m + 1}
        BY <1>5
      <4> HIDE DEF f, m, s, seen
      <4>. QED
        BY <2>1, <3>1, <4>1 DEF Distinct
    <3> DEFINE S == {i \in 1..m : f[i].quality # "invalid"}
               T == {i \in 1..m : f[i].quality = "invalid"}
               U == {i \in 1..(m + 1) : f[i].quality # "invalid"}
               V == {i \in 1..(m + 1) : f[i].quality = "invalid"}
    <3>3. /\ f[m + 1].quality = "invalid" => U = S /\ V = T \cup {m + 1}
          /\ f[m + 1].quality # "invalid" => U = S \cup {m + 1} /\ V = T
      <4> HIDE DEF f, m
      <4>. QED
        BY <1>5, OneMore
    <3>4. accepted = {f[i] : i \in S} /\ excluded = {f[i].id : i \in T}
      BY <2>1
    <3>5. \/ s.quality = "invalid" /\ excluded' = excluded \cup {s.id} /\ accepted' = accepted
          \/ s.quality # "invalid" /\ accepted' = accepted \cup {s} /\ excluded' = excluded
      BY <1>1, <1>3, <2>3
    <3>6. accepted' = {f[i] : i \in U} /\ excluded' = {f[i].id : i \in V}
      <4> HIDE DEF f, m, s, seen, S, T, U, V
      <4>. QED
        BY <3>1, <3>3, <3>4, <3>5
    <3>7. accepted' \in SUBSET SamplesGiven /\ excluded' \in SUBSET {t.id : t \in SamplesGiven}
      <4> HIDE DEF s
      <4>. QED
        BY <1>7, <2>1, <3>5
    <3>8. /\ accepted' = {input'.samples[i] : i \in {i \in 1..(next' - 1) :
                                                     input'.samples[i].quality # "invalid"}}
          /\ excluded' = {input'.samples[i].id : i \in {i \in 1..(next' - 1) :
                                                        input'.samples[i].quality = "invalid"}}
      BY <1>2, <1>5, <3>6
    <3>9. Distinct(input.samples, next - 1)' /\ Distinct(input.quotes, Len(input.quotes))'
      BY <1>2, <1>5, <2>1, <3>2 DEF Distinct
    <3>. QED
      BY <1>2, <1>5, <1>7, <2>3, <3>7, <3>8, <3>9 DEF ReadSound
  <2>. QED
    BY <1>1, <1>3, <2>2, <2>3
<1>9. Pending' /\ ReportsSound'
  BY <1>1, <1>2, <1>3 DEF Pending, ReportsSound
<1>10. Derived' /\ ProvidersSound'
  BY <1>1, <1>2, <1>3, NothingDerived
<1>. QED
  BY <1>6, <1>8, <1>9, <1>10 DEF IInv

(* build_cohorts and build_provider_reports. *)
LEMMA ReportSound == IInv /\ Report => IInv'
<1> SUFFICES ASSUME IInv, Report PROVE IInv'
  OBVIOUS
<1>1. /\ stage = "samples" /\ error = None /\ files = Absent /\ next = Len(input.samples) + 1
      /\ reports = {} /\ comparisons = {} /\ DOMAIN assigned = {} /\ values = {} /\ providers = {}
  <2>1. next \in 1..(Len(input.samples) + 1) /\ next > Len(input.samples) /\ Len(input.samples) \in Nat
    BY InvariantParts, InputParts DEF IInv, ReadSound, Report
  <2>. QED
    BY <2>1 DEF IInv, StageSound, Pending, Report
<1>2. UNCHANGED <<input, next, accepted, excluded, comparisons, assigned, values, providers, files>>
  BY DEF Report
<1>3. \/ stage' = "failed" /\ error' = "incompatible_metric" /\ reports' = reports
      \/ /\ stage' = "compare" /\ error' = error /\ reports' = ReportsOf(accepted)
         /\ \A c \in BuildCohorts(accepted) : ~ContractsClash(c)
  BY DEF Report, Fail, ReportsOf
<1>4. StageSound'
  BY <1>1, <1>2, <1>3 DEF IInv, StageSound, Stages, Causes, None
<1>5. ReadSound'
  BY <1>1, <1>2, <1>3, ReadKept DEF IInv
<1>6. Pending' /\ ReportsSound'
  BY <1>1, <1>2, <1>3 DEF Pending, ReportsSound, Reported
<1>7. Derived' /\ ProvidersSound'
  BY <1>1, <1>2, <1>3, NothingDerived
<1>. QED
  BY <1>4, <1>5, <1>6, <1>7 DEF IInv

(* build_peer_comparisons. *)
LEMMA ComparePeersSound == IInv /\ ComparePeers => IInv'
<1> SUFFICES ASSUME IInv, ComparePeers PROVE IInv'
  OBVIOUS
<1>1. /\ stage = "compare" /\ stage' = "pricing"
      /\ comparisons' = PeerComparisons(reports)
      /\ UNCHANGED <<input, next, accepted, excluded, reports, assigned, values, providers, error,
                     files>>
  BY DEF ComparePeers
<1>2. DOMAIN assigned = {} /\ values = {} /\ providers = {} /\ next = Len(input.samples) + 1
  BY <1>1 DEF IInv, Pending, ReadSound
<1>3. Reported
  BY <1>1 DEF IInv, ReportsSound
<1>4. StageSound'
  BY <1>1 DEF IInv, StageSound, Stages, None
<1>5. ReadSound'
  BY <1>1, <1>2, ReadKept DEF IInv
<1>6. Pending'
  BY <1>1, <1>2 DEF Pending
<1>7. ReportsSound'
  BY <1>1, ReportsKept DEF IInv
<1>8. Derived'
  <2>1. Reported' /\ Assigned(assigned, reports)'
    BY <1>1, <1>2, <1>3 DEF Reported, Assigned
  <2>2. (comparisons = PeerComparisons(reports))'
    BY <1>1
  <2>. QED
    BY <1>1, <1>2, <2>1, <2>2 DEF Derived
<1>9. ProvidersSound'
  BY <1>1, <1>2 DEF ProvidersSound, Analysed
<1>. QED
  BY <1>4, <1>5, <1>6, <1>7, <1>8, <1>9 DEF IInv

(* match_pricing_evidence. *)
LEMMA MatchPricingSound == IInv /\ MatchPricing => IInv'
<1> SUFFICES ASSUME IInv, MatchPricing PROVE IInv'
  OBVIOUS
<1>1. /\ stage = "pricing"
      /\ UNCHANGED <<input, next, accepted, excluded, reports, comparisons, values, providers,
                     files>>
  BY DEF MatchPricing
<1>2. \/ stage' = "failed" /\ error' = "ambiguous_quotes" /\ assigned' = assigned
      \/ /\ stage' = "value" /\ error' = error /\ assigned' = Assign(reports)
         /\ ~ \E r \in reports : Ambiguous(r)
  BY DEF MatchPricing, Fail
<1>3. /\ values = {} /\ providers = {} /\ next = Len(input.samples) + 1 /\ error = None
      /\ files = Absent
  BY <1>1 DEF IInv, Pending, ReadSound, StageSound
<1>4. StageSound'
  BY <1>1, <1>2, <1>3 DEF IInv, StageSound, Stages, Causes, None
<1>5. ReadSound'
  BY <1>1, <1>2, <1>3, ReadKept DEF IInv
<1>6. Pending'
  BY <1>1, <1>2, <1>3 DEF Pending
<1>7. ReportsSound'
  BY <1>1, <1>2, ReportsKept DEF IInv
<1>8. Derived'
  <2>1. Reported => Reported'
    BY <1>1 DEF Reported
  <2>2. Assigned(assigned, reports)'
    <3>1. CASE assigned' = assigned
      BY <1>1, <3>1, AssignedKept DEF IInv, Derived
    <3>2. CASE assigned' = Assign(reports) /\ ~ \E r \in reports : Ambiguous(r)
      <4>1. Assigned(Assign(reports), reports)
        BY <3>2, InvariantParts, AssignSound
      <4>2. \A r : Candidates(r)' = Candidates(r)
        BY <1>1, CandidatesKept
      <4>3. \A r : Ambiguous(r)' <=> Ambiguous(r)
        BY <4>2 DEF Ambiguous
      <4>. QED
        BY <1>1, <3>2, <4>1, <4>2, <4>3 DEF Assigned
    <3>. QED
      BY <1>2, <3>1, <3>2
  <2>3. (comparisons # {} => Reported /\ comparisons = PeerComparisons(reports))'
    BY <1>1, <2>1 DEF IInv, Derived
  <2>. QED
    BY <1>1, <1>3, <2>2, <2>3 DEF Derived
<1>9. ProvidersSound'
  BY <1>1, <1>2, <1>3 DEF ProvidersSound, Analysed
<1>. QED
  BY <1>4, <1>5, <1>6, <1>7, <1>8, <1>9 DEF IInv

(* build_value_comparisons. *)
LEMMA CompareValueSound == IInv /\ CompareValue => IInv'
<1> SUFFICES ASSUME IInv, CompareValue PROVE IInv'
  OBVIOUS
<1>1. /\ stage = "value" /\ stage' = "assemble"
      /\ values' = ValueComparisons(reports)
      /\ UNCHANGED <<input, next, accepted, excluded, reports, comparisons, assigned, providers,
                     error, files>>
  BY DEF CompareValue
<1>2. providers = {} /\ next = Len(input.samples) + 1
  BY <1>1 DEF IInv, Pending, ReadSound
<1>3. Reported
  BY <1>1 DEF IInv, ReportsSound
<1>4. StageSound'
  BY <1>1 DEF IInv, StageSound, Stages, None
<1>5. ReadSound'
  BY <1>1, <1>2, ReadKept DEF IInv
<1>6. Pending'
  BY <1>1, <1>2 DEF Pending
<1>7. ReportsSound'
  BY <1>1, ReportsKept DEF IInv
<1>8. Derived'
  <2>1. Reported'
    BY <1>1, <1>3 DEF Reported
  <2>2. Assigned(assigned, reports)'
    BY <1>1, AssignedKept DEF IInv, Derived
  <2>3. (comparisons # {} => Reported /\ comparisons = PeerComparisons(reports))'
    BY <1>1, <2>1 DEF IInv, Derived
  <2>4. (values = ValueComparisons(reports))'
    <3>1. ValueComparisons(reports)' = ValueComparisons(reports)
      BY <1>1 DEF ValueComparisons, ValueObservations
    <3>. QED
      BY <1>1, <3>1
  <2>. QED
    BY <2>1, <2>2, <2>3, <2>4 DEF Derived
<1>9. ProvidersSound'
  BY <1>1, <1>2 DEF ProvidersSound, Analysed
<1>. QED
  BY <1>4, <1>5, <1>6, <1>7, <1>8, <1>9 DEF IInv

(* The fields of a provider's analytics. *)
LEMMA AnalyticsFields ==
    ASSUME NEW r
    PROVE  /\ ProviderAnalytics(r).evidence = r
           /\ ProviderAnalytics(r).provider = r.provider
           /\ ProviderAnalytics(r).pricing = PricingOf(r)
           /\ DOMAIN ProviderAnalytics(r).scorecard = Dimensions
           /\ ProviderAnalytics(r).explanations
                 = Explanations(r, ProviderAnalytics(r).scorecard)
<1>1. DOMAIN Scorecard(r) = Dimensions
  BY DEF Scorecard, Dimensions
<1>. QED
  BY <1>1 DEF ProviderAnalytics

(* The reports and the bundle are assembled. *)
LEMMA AssembleSound == IInv /\ Assemble => IInv'
<1> SUFFICES ASSUME IInv, Assemble PROVE IInv'
  OBVIOUS
<1> DEFINE all == {ProviderAnalytics(r) : r \in ProviderReports(reports)}
<1>1. /\ stage = "assemble"
      /\ UNCHANGED <<input, next, accepted, excluded, reports, comparisons, assigned, values, files>>
  BY DEF Assemble
<1>2. \/ stage' = "failed" /\ error' = "rejected_by_model" /\ providers' = providers
      \/ stage' = "output" /\ error' = error /\ providers' = all
  BY DEF Assemble, Fail
<1>3. providers = {} /\ next = Len(input.samples) + 1 /\ error = None /\ files = Absent
  BY <1>1 DEF IInv, Pending, ReadSound, StageSound
<1>4. StageSound'
  BY <1>1, <1>2, <1>3 DEF IInv, StageSound, Stages, Causes, None
<1>5. ReadSound'
  BY <1>1, <1>2, <1>3, ReadKept DEF IInv
<1>6. Pending'
  BY <1>1, <1>2 DEF Pending
<1>7. ReportsSound'
  BY <1>1, <1>2, ReportsKept DEF IInv
<1>8. Derived'
  BY <1>1, DerivedKept DEF IInv
<1>9. ProvidersSound'
  <2>1. CASE providers' = providers /\ stage' = "failed"
    BY <1>3, <2>1 DEF ProvidersSound, Analysed
  <2>2. CASE providers' = all
    <3>1. \A r : PricingOf(r)' = PricingOf(r)
      BY <1>1 DEF PricingOf, PricingEvidence
    <3>2. ASSUME NEW p \in all
          PROVE  p = ProviderAnalytics(p.evidence) /\ p.evidence \in ProviderReports(reports)
      BY AnalyticsFields
    <3>3. ASSUME NEW p \in all
          PROVE  IsAnalytics(p)'
      <4>1. /\ p.provider = p.evidence.provider /\ p.pricing = PricingOf(p.evidence)
            /\ DOMAIN p.scorecard = Dimensions
            /\ p.explanations = Explanations(p.evidence, p.scorecard)
            /\ p.evidence \in ProviderReports(reports)
        BY <3>2, AnalyticsFields
      <4>. QED
        BY <1>1, <3>1, <4>1 DEF IsAnalytics
    <3>4. \A p, q \in all : p.evidence = q.evidence => p = q
      BY <3>2
    <3>5. \A r \in ProviderReports(reports) : \E p \in all : p.evidence = r
      BY AnalyticsFields
    <3> HIDE DEF all
    <3>. QED
      BY <1>1, <2>2, <3>3, <3>4, <3>5 DEF ProvidersSound
  <2>. QED
    BY <1>2, <2>1, <2>2
<1>. QED
  BY <1>4, <1>5, <1>6, <1>7, <1>8, <1>9 DEF IInv

(* A write, and a step that changes nothing, leave the data alone. *)
LEMMA DataKept ==
    ASSUME IInv, UNCHANGED <<input, next, accepted, excluded, reports, comparisons, assigned,
                             values, providers>>,
           stage \notin {"load", "samples", "compare", "pricing", "value", "assemble", "failed"},
           stage' \notin {"load", "samples", "compare", "pricing", "value", "assemble"}
    PROVE  ReadSound' /\ Pending' /\ ReportsSound' /\ Derived' /\ ProvidersSound'
<1>1. stage \in {"output", "markdown", "done"} /\ next = Len(input.samples) + 1
  BY DEF IInv, StageSound, Stages, ReadSound
<1>2. ReadSound'
  BY <1>1, ReadKept DEF IInv
<1>3. Pending'
  BY DEF Pending
<1>4. ReportsSound'
  BY ReportsKept DEF IInv
<1>5. Derived'
  BY DerivedKept DEF IInv
<1>6. ProvidersSound'
  BY <1>1, ProvidersKept DEF IInv, Analysed
<1>. QED
  BY <1>2, <1>3, <1>4, <1>5, <1>6

(* The bundle is written. *)
LEMMA WriteOutputSound == IInv /\ WriteOutput => IInv'
<1> SUFFICES ASSUME IInv, WriteOutput PROVE IInv'
  OBVIOUS
<1>1. /\ stage = "output"
      /\ UNCHANGED <<input, next, accepted, excluded, reports, comparisons, assigned, values,
                     providers>>
  BY DEF WriteOutput
<1>2. \/ /\ files' = IF "output" \in input.files THEN [files EXCEPT !["output"] = "complete"]
                     ELSE files
         /\ stage' = "markdown" /\ error' = error
      \/ /\ \E result \in {"absent", "partial"} : files' = [files EXCEPT !["output"] = result]
         /\ stage' = "failed" /\ error' = "write_failed"
  BY DEF WriteOutput, Write, Written, Fail
<1>3. StageSound'
  BY <1>1, <1>2 DEF IInv, StageSound, Stages, Causes, Results, None
<1>. QED
  BY <1>1, <1>2, <1>3, DataKept DEF IInv

(* The rendering is written. *)
LEMMA WriteMarkdownSound == IInv /\ WriteMarkdown => IInv'
<1> SUFFICES ASSUME IInv, WriteMarkdown PROVE IInv'
  OBVIOUS
<1>1. /\ stage = "markdown"
      /\ UNCHANGED <<input, next, accepted, excluded, reports, comparisons, assigned, values,
                     providers>>
  BY DEF WriteMarkdown
<1>2. \/ /\ files' = IF "markdown" \in input.files THEN [files EXCEPT !["markdown"] = "complete"]
                     ELSE files
         /\ stage' = "done" /\ error' = error
      \/ /\ \E result \in {"absent", "partial"} : files' = [files EXCEPT !["markdown"] = result]
         /\ stage' = "failed" /\ error' = "write_failed"
      \/ /\ files' = IF "markdown" \in input.files THEN [files EXCEPT !["markdown"] = "complete"]
                     ELSE files
         /\ stage' = "failed" /\ error' = "print_failed"
  BY DEF WriteMarkdown, Write, Written, PrintFails, Fail
<1>3. StageSound'
  BY <1>1, <1>2 DEF IInv, StageSound, Stages, Causes, Results, None
<1>. QED
  BY <1>1, <1>2, <1>3, DataKept DEF IInv

(* A step that changes nothing. *)
LEMMA StutterSound == IInv /\ UNCHANGED vars => IInv'
<1> SUFFICES ASSUME IInv, UNCHANGED vars PROVE IInv'
  OBVIOUS
<1>1. UNCHANGED <<input, stage, next, accepted, excluded, reports, comparisons, assigned, values,
                  providers, error, files>>
  BY DEF vars
<1>2. StageSound'
  BY <1>1 DEF IInv, StageSound
<1>3. ReadSound'
  <2>1. SamplesGiven' = SamplesGiven
    BY <1>1 DEF SamplesGiven
  <2>. QED
    BY <1>1, <2>1 DEF IInv, ReadSound, Distinct
<1>4. Pending'
  BY <1>1 DEF IInv, Pending
<1>5. ReportsSound'
  BY <1>1 DEF IInv, ReportsSound, Reported
<1>6. Derived' /\ ProvidersSound'
  BY <1>1, DerivedKept, ProvidersKept DEF IInv, Analysed
<1>. QED
  BY <1>2, <1>3, <1>4, <1>5, <1>6 DEF IInv

(* Every step preserves the invariant. *)
LEMMA NextSound == IInv /\ [Next]_vars => IInv'
BY LoadInputsSound, ReadSampleSound, ReportSound, ComparePeersSound, MatchPricingSound,
   CompareValueSound, AssembleSound, WriteOutputSound, WriteMarkdownSound, StutterSound
   DEF Next, Terminated

-----------------------------------------------------------------------------
(* The theorems. *)

(* The inductive invariant holds at every stage of build_analytics_bundle. *)
THEOREM Safety == Spec => []IInv
BY InitSound, NextSound, PTL DEF Spec

(* Every variable of build_analytics_bundle stays in its domain, whatever the   *)
(* samples and quotes; only a failure has a cause.                              *)
THEOREM TypeCorrect == Spec => []TypeOK
BY Safety, InvariantTyped, PTL

(* summarize_cohort: the order statistics of every metric are in order, and a   *)
(* sample counts once, however many of its measurements repeat the metric.      *)
THEOREM StatisticsHold == Spec => []StatisticsSound
BY Safety, InvariantStatistics, PTL

(* calculate_confidence and _comparison_confidence: no report and no comparison *)
(* is more confident than the weakest evidence that it rests on.                *)
THEOREM ConfidenceHolds == Spec => []ConfidenceSound
BY Safety, InvariantConfidence, PTL

(* build_peer_comparisons and build_value_comparisons: a comparison is between  *)
(* compatible cohorts, all of them, and its outcome has two that bear it out.   *)
THEOREM ComparisonsHold == Spec => []ComparisonsSound
BY Safety, InvariantComparisons, PTL

(* match_pricing_evidence: a price holds for the whole cohort, and no quote     *)
(* that ranks as high says otherwise.                                           *)
THEOREM PricesHold == Spec => []PricesSound
BY Safety, InvariantPrices, PTL

(* build_analytics_bundle: a finished bundle accounts for every sample and for  *)
(* every quote, and explains every gap.                                         *)
THEOREM NothingLost == Spec => []EvidenceAccounted
BY Safety, InvariantLossless, PTL

(* run_analyze: success leaves every requested file complete, and a failure     *)
(* before the writing leaves none.                                              *)
THEOREM OutputsHold == Spec => []OutputsComplete
BY Safety, InvariantOutputs, PTL

-----------------------------------------------------------------------------
(* The constructors of the output models.                                      *)

(* The protocol IDs of the samples are as CohortKey writes them. *)
ProfilesNormal ==
    \A in \in Inputs : \A i \in 1..Len(in.samples) :
        Normalize(in.samples[i].profile) = in.samples[i].profile

(* A cohort that is compared is one of its provider's, of one of its profiles. *)
LEMMA CohortProfile ==
    ASSUME IInv, ProfilesNormal, NEW q \in ProviderReports(reports), NEW r \in reports,
           r.key.provider = q.provider
    PROVE  r.key.profile \in ProviderAnalytics(q).profiles
<1>1. ProviderAnalytics(q).profiles = {x.profile : x \in q.cohorts}
  BY DEF ProviderAnalytics
<1>2. r \in q.cohorts
  <2>1. IsProvider(q, reports)
    BY ProviderShape
  <2>. QED
    BY <2>1 DEF IsProvider
<1>3. IsReport(r, accepted)
  BY InvariantParts, ReportShape
<1>4. PICK s \in r.samples : r.profile = s.profile
  BY <1>3 DEF IsReport
<1>5. s \in accepted /\ CohortKey(s) = r.key
  BY <1>3, <1>4 DEF IsReport
<1>6. s \in SamplesGiven
  BY <1>5 DEF IInv, ReadSound
<1>7. Normalize(s.profile) = s.profile
  BY <1>6 DEF SamplesGiven, ProfilesNormal, IInv, StageSound
<1>8. r.key.profile = r.profile
  BY <1>4, <1>5, <1>7, KeyFields
<1>. QED
  BY <1>1, <1>2, <1>8

(* ProviderAnalyticsReport.__post_init__ accepts what the stages computed. *)
LEMMA ReportsAccepted ==
    ASSUME IInv, ProfilesNormal, NEW q \in ProviderReports(reports)
    PROVE  ReportAccepted(ProviderAnalytics(q))
<1> DEFINE p == ProviderAnalytics(q)
<1>1. /\ p.comparisons = {c \in comparisons : c.provider = q.provider}
      /\ p.values = {c \in values : c.provider = q.provider}
      /\ p.pricing = PricingOf(q)
  BY DEF ProviderAnalytics
<1>2. ASSUME NEW c \in p.comparisons, NEW k \in c.cohorts
      PROVE  k.profile \in p.profiles
  <2>1. Grouped(c, PeerObservations(reports)) /\ c.provider = q.provider
    BY <1>1, ComparisonsKnown
  <2>2. PICK o \in PeerObservations(reports) : o.cohort = k
    BY <2>1 DEF Grouped
  <2>3. PICK r \in reports : r.key = k
    BY <2>2, PeerObservationShape DEF IsPeerObservation
  <2>4. r.key.provider = q.provider
    BY <2>1, <2>3 DEF Grouped
  <2>. QED
    BY <2>3, <2>4, CohortProfile
<1>3. ASSUME NEW c \in p.values, NEW k \in c.cohorts
      PROVE  k.profile \in p.profiles /\ \E e \in p.pricing : k \in e.cohorts
  <2>1. Grouped(c, ValueObservations(reports)) /\ c.provider = q.provider
    BY <1>1, ComparisonsKnown
  <2>2. PICK o \in ValueObservations(reports) : o.cohort = k
    BY <2>1 DEF Grouped
  <2>3. PICK r \in reports : r.key = k /\ k \in DOMAIN assigned
    BY <2>2, ValueObservationShape DEF IsValueObservation
  <2>4. r.key.provider = q.provider
    BY <2>1, <2>3 DEF Grouped
  <2> DEFINE e == [quote |-> assigned[k], cohorts |-> {h \in DOMAIN assigned : assigned[h] = assigned[k]}]
  <2>5. e \in PricingEvidence /\ k \in e.cohorts /\ e.quote = assigned[k]
    BY <2>3, EvidenceShape
  <2>6. Normalize(assigned[k].provider) = q.provider
    <3>1. \E x \in reports : x.key = k /\ assigned[k] \in Candidates(x)
      BY <2>3, InvariantParts, AssignedTyped DEF IInv, Derived
    <3>. QED
      BY <2>3, <2>4, <3>1 DEF Candidates, MatchesIdentity
  <2>7. e \in p.pricing
    BY <1>1, <2>5, <2>6 DEF PricingOf
  <2>. QED
    BY <2>3, <2>4, <2>5, <2>7, CohortProfile
<1> HIDE DEF p
<1>4. ReportAccepted(p)
  BY <1>2, <1>3 DEF ReportAccepted
<1>. QED
  BY <1>4 DEF p

(* Every sample is counted once, accepted or excluded. *)
LEMMA SamplesCounted ==
    ASSUME IInv, stage = "assemble"
    PROVE  Len(input.samples) = Cardinality(accepted) + Cardinality(excluded)
<1> DEFINE f == input.samples
           n == Len(input.samples)
           I == 1..n
           A == {i \in I : f[i].quality # "invalid"}
           B == {i \in I : f[i].quality = "invalid"}
           g == [i \in I |-> f[i].id]
<1>1. n \in Nat
  BY InvariantParts, InputParts
<1>2. next = n + 1
  BY DEF IInv, ReadSound
<1>3. next - 1 = n
  BY <1>1, <1>2
<1>4. /\ Distinct(f, n)
      /\ accepted = {f[i] : i \in A} /\ excluded = {f[i].id : i \in B}
  BY <1>3 DEF IInv, ReadSound
<1>5. A \in SUBSET I /\ B = I \ A
  OBVIOUS
<1>6. excluded = {g[i] : i \in B}
  BY <1>4
<1>7. /\ \A i, j \in A : f[i] = f[j] => i = j
      /\ \A i, j \in B : g[i] = g[j] => i = j
  BY <1>4, <1>5 DEF Distinct
<1>8. IsFiniteSet(I) /\ Cardinality(I) = n
  BY <1>1, FS_Interval
<1> HIDE DEF f, g, I, A, B, n
<1>9. IsFiniteSet(A) /\ IsFiniteSet(B)
  BY <1>5, <1>8, FS_Subset, FS_Difference
<1>10. Cardinality(accepted) = Cardinality(A)
  BY <1>4, <1>7, <1>9, ImageCardinality
<1>11. Cardinality(excluded) = Cardinality(B)
  BY <1>6, <1>7, <1>9, ImageCardinality
<1>12. Cardinality(B) = Cardinality(I) - Cardinality(A)
  <2>1. I \cap A = A
    BY <1>5
  <2>. QED
    BY <1>5, <1>8, <2>1, FS_Difference
<1>13. Cardinality(A) \in Nat
  BY <1>9, FS_CardinalityType
<1>. QED
  BY <1>1, <1>8, <1>10, <1>11, <1>12, <1>13 DEF n

(* Every quote is counted once, as evidence or unmatched. *)
LEMMA QuotesCounted ==
    ASSUME IInv, stage = "assemble"
    PROVE  Cardinality(Selected) = Cardinality(PricingEvidence) + Cardinality(Unmatched)
<1> DEFINE f == input.quotes
           E == PricingEvidence
           Ids == {q.id : q \in SelectedQuotes}
           g == [i \in Selected |-> f[i].id]
           h == [e \in E |-> e.quote.id]
           M == {h[e] : e \in E}
<1>1. InputTyped /\ IsFiniteSet(Selected) /\ Selected \in SUBSET (1..Len(f))
  BY InvariantParts, SelectedTyped
<1>2. \A i, j \in Selected : g[i] = g[j] => i = j
  BY <1>1 DEF IInv, ReadSound, Distinct
<1>3. Ids = {g[i] : i \in Selected}
  BY DEF SelectedQuotes
<1>4. \A e \in E : h[e] = e.quote.id /\ e.quote \in SelectedQuotes
  BY EvidenceKnown
<1>5. \A e, u \in E : h[e] = h[u] => e = u
  <2>1. ASSUME NEW e \in E, NEW u \in E, h[e] = h[u]
        PROVE  e = u
    <3>1. e.quote.id = u.quote.id
      BY <2>1
    <3>2. e.quote = u.quote
      BY <1>4, <3>1, QuoteOfId
    <3>. QED
      BY <3>2, EvidenceKnown
  <2>. QED
    BY <2>1
<1>6. Unmatched = Ids \ M /\ M \in SUBSET Ids
  <2>1. Unmatched = Ids \ {e.quote.id : e \in E}
    BY DEF Unmatched
  <2>2. M = {e.quote.id : e \in E}
    OBVIOUS
  <2>3. {e.quote.id : e \in E} \in SUBSET Ids
    BY <1>4
  <2>. QED
    BY <2>1, <2>2, <2>3
<1>7. h \in Injection(E, Ids)
  <2>1. h \in [E -> Ids]
    BY <1>4
  <2>. QED
    BY <1>5, <2>1 DEF Injection, IsInjective
<1> HIDE DEF f, E, Ids, g, h, M
<1>8. IsFiniteSet(Ids) /\ Cardinality(Ids) = Cardinality(Selected)
  BY <1>1, <1>2, <1>3, ImageFinite, ImageCardinality
<1>9. IsFiniteSet(E)
  BY <1>7, <1>8, FS_Injection
<1>10. Cardinality(M) = Cardinality(E)
  BY <1>5, <1>9, ImageCardinality DEF M
<1>11. Cardinality(Unmatched) = Cardinality(Ids) - Cardinality(M)
  <2>1. Ids \cap M = M
    BY <1>6
  <2>. QED
    BY <1>6, <1>8, <2>1, FS_Difference
<1>12. Cardinality(Ids) \in Nat /\ Cardinality(E) \in Nat
  BY <1>8, <1>9, FS_CardinalityType
<1>. QED
  BY <1>8, <1>10, <1>11, <1>12 DEF E

(* AnalyticsBundle.__post_init__ accepts the reports of all providers. *)
LEMMA BundleIsAccepted ==
    ASSUME IInv, stage = "assemble"
    PROVE  BundleAccepted({ProviderAnalytics(q) : q \in ProviderReports(reports)})
<1> DEFINE Q == ProviderReports(reports)
           all == {ProviderAnalytics(q) : q \in Q}
           cohorts == UNION {p.evidence.cohorts : p \in all}
           analyzed == UNION {r.samples : r \in cohorts}
           priced == UNION {p.pricing : p \in all}
<1>1. Reported
  BY DEF IInv, ReportsSound
<1>2. cohorts = reports
  <2>1. \A p \in all : p.evidence \in Q
    BY AnalyticsFields
  <2>2. ASSUME NEW r \in cohorts
        PROVE  r \in reports
    <3>1. PICK p \in all : r \in p.evidence.cohorts
      OBVIOUS
    <3>2. IsProvider(p.evidence, reports)
      BY <2>1, ProviderShape
    <3>. QED
      BY <3>1, <3>2 DEF IsProvider
  <2>3. ASSUME NEW r \in reports
        PROVE  r \in cohorts
    <3>1. PICK q \in Q : r \in q.cohorts
      BY ProviderExists
    <3>2. ProviderAnalytics(q) \in all /\ ProviderAnalytics(q).evidence = q
      BY AnalyticsFields
    <3>. QED
      BY <3>1, <3>2
  <2>. QED
    BY <2>2, <2>3
<1>3. analyzed = accepted
  <2>1. ASSUME NEW r \in reports
        PROVE  r.samples \in SUBSET accepted
    <3>1. IsReport(r, accepted)
      BY InvariantParts, ReportShape
    <3>. QED
      BY <3>1 DEF IsReport
  <2>2. ASSUME NEW s \in accepted
        PROVE  \E r \in reports : s \in r.samples
    BY <1>1, ReportOfSample DEF Reported
  <2> HIDE DEF cohorts
  <2>. QED
    BY <1>2, <2>1, <2>2
<1>4. priced = PricingEvidence
  <2>1. ASSUME NEW q \in Q
        PROVE  ProviderAnalytics(q).pricing \in SUBSET PricingEvidence
    BY AnalyticsFields DEF PricingOf
  <2>2. ASSUME NEW e \in PricingEvidence
        PROVE  \E q \in Q : e \in ProviderAnalytics(q).pricing
    <3>1. PICK r \in reports : r.key.provider = Normalize(e.quote.provider)
      BY EvidenceKnown
    <3>2. PICK q \in Q : q.provider = r.key.provider
      BY ProviderExists
    <3>3. e \in PricingOf(q)
      BY <3>1, <3>2 DEF PricingOf
    <3>. QED
      BY <3>3, AnalyticsFields
  <2>3. \A e : e \in priced <=> \E q \in Q : e \in ProviderAnalytics(q).pricing
    OBVIOUS
  <2> HIDE DEF priced, Q, all
  <2>. QED
    BY <2>1, <2>2, <2>3
<1>5. /\ Len(input.samples) = Cardinality(analyzed) + Cardinality(excluded)
      /\ Cardinality(Selected) = Cardinality(priced) + Cardinality(Unmatched)
  <2> HIDE DEF analyzed, priced
  <2>. QED
    BY <1>3, <1>4, SamplesCounted, QuotesCounted
<1>6. BundleAccepted(all)
  BY <1>5 DEF BundleAccepted
<1>. QED
  BY <1>6

(* No step rejects them. *)
LEMMA NeverRejected ==
    ASSUME ProfilesNormal
    PROVE  IInv /\ OutputModelsAgree /\ [Next]_vars => OutputModelsAgree'
<1> SUFFICES ASSUME IInv, OutputModelsAgree, [Next]_vars PROVE OutputModelsAgree'
  OBVIOUS
<1>1. CASE Assemble
  <2> DEFINE all == {ProviderAnalytics(r) : r \in ProviderReports(reports)}
  <2>1. stage = "assemble"
    BY <1>1 DEF Assemble
  <2>2. (\A p \in all : ReportAccepted(p)) /\ BundleAccepted(all)
    BY <2>1, ReportsAccepted, BundleIsAccepted
  <2>3. error' = error
    BY <1>1, <2>2 DEF Assemble
  <2>. QED
    BY <2>3 DEF OutputModelsAgree
<1>2. CASE LoadInputs
  BY <1>2 DEF OutputModelsAgree, LoadInputs, Fail
<1>3. CASE ReadSample
  BY <1>3 DEF OutputModelsAgree, ReadSample, Fail
<1>4. CASE Report
  BY <1>4 DEF OutputModelsAgree, Report, Fail
<1>5. CASE ComparePeers \/ CompareValue
  BY <1>5 DEF OutputModelsAgree, ComparePeers, CompareValue
<1>6. CASE MatchPricing
  BY <1>6 DEF OutputModelsAgree, MatchPricing, Fail
<1>7. CASE WriteOutput \/ WriteMarkdown
  BY <1>7 DEF OutputModelsAgree, WriteOutput, WriteMarkdown, Write, PrintFails, Fail
<1>8. CASE Terminated \/ UNCHANGED vars
  BY <1>8 DEF OutputModelsAgree, Terminated, vars
<1>. QED
  BY <1>1, <1>2, <1>3, <1>4, <1>5, <1>6, <1>7, <1>8 DEF Next

(* ProviderAnalyticsReport and AnalyticsBundle never reject what the stages     *)
(* before computed, if protocol IDs are written as CohortKey normalizes them;   *)
(* the run analytics_profile_case shows what happens otherwise.                 *)
THEOREM ModelsAgree ==
    ASSUME ProfilesNormal
    PROVE  Spec => []OutputModelsAgree
<1>1. Init => OutputModelsAgree
  BY DEF Init, OutputModelsAgree, None
<1>2. IInv /\ OutputModelsAgree /\ [Next]_vars => OutputModelsAgree'
  BY NeverRejected
<1>. QED
  BY <1>1, <1>2, Safety, PTL DEF Spec
=============================================================================
