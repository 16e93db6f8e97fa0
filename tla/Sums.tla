-------------------------------- MODULE Sums --------------------------------
(***************************************************************************)
(* Finite sets, and the sum FoldFunction(+, 0, f) of a function's values,   *)
(* as the profiles and the statistics use it: that it is well defined on a  *)
(* finite domain, and how it depends on the values.  Induction over the     *)
(* subsets of the domain is the existence of a minimal counterexample.      *)
(***************************************************************************)
EXTENDS Integers, FiniteSets, Functions, FiniteSetTheorems, TLAPS

Sum(f) == FoldFunction(+, 0, f)

(* The element that the fold takes out of a set first. *)
FirstOf(s) == CHOOSE x \in s : TRUE

(* h is the sum of f over each subset of U. *)
Totals(f, U, h) ==
    h = [s \in SUBSET U |-> IF s = {} THEN 0 ELSE f[FirstOf(s)] + h[s \ {FirstOf(s)}]]

(* The table of partial sums from which the fold is read. *)
Table(f) == CHOOSE h : Totals(f, DOMAIN f, h)

(* Of a nonempty set of subsets of a finite set one is minimal. *)
LEMMA MinimalSubset ==
    ASSUME NEW S, IsFiniteSet(S), NEW B \in SUBSET (SUBSET S), B # {}
    PROVE  \E U \in B : \A V \in B : V \subseteq U => V = U
<1>1. IsWellFoundedOn(StrictSubsetOrdering(S), FiniteSubsetsOf(S))
  BY FS_StrictSubsetOrderingWellFounded
<1>2. FiniteSubsetsOf(S) = SUBSET S
  BY FS_FiniteSubsetsOfFinite
<1>3. \E U \in B : \A V \in B : ~ (<<V, U>> \in StrictSubsetOrdering(S))
  BY <1>1, <1>2, WFMin
<1> QED
  BY <1>3 DEF StrictSubsetOrdering

(* A nonempty set of natural numbers has a least element. *)
LEMMA LeastNatural ==
    ASSUME NEW B \in SUBSET Nat, B # {}
    PROVE  \E m \in B : \A k \in B : m <= k
<1>1. PICK b \in B : TRUE
  OBVIOUS
<1> DEFINE S == 0..b
           F == {0..k : k \in B \cap S}
<1>2. IsFiniteSet(S) /\ F \in SUBSET (SUBSET S) /\ F # {}
  <2>1. IsFiniteSet(S)
    BY FS_Interval
  <2>2. b \in B \cap S /\ 0..b \in F
    OBVIOUS
  <2>3. \A k \in S : 0..k \subseteq S
    OBVIOUS
  <2> QED
    BY <2>1, <2>2, <2>3
<1>3. PICK U \in F : \A V \in F : V \subseteq U => V = U
  <2> HIDE DEF S, F
  <2> QED
    BY <1>2, MinimalSubset
<1>4. PICK m \in B \cap S : U = 0..m
  OBVIOUS
<1>5. ASSUME NEW k \in B, k < m
      PROVE  FALSE
  <2>1. k \in B \cap S /\ 0..k \subseteq U
    BY <1>4, <1>5
  <2>2. 0..k \in F
    BY <2>1
  <2>3. 0..k = U
    BY <1>3, <2>1, <2>2
  <2>4. m \in U
    BY <1>4
  <2> QED
    BY <1>5, <2>3, <2>4
<1> QED
  BY <1>4, <1>5

(* A finite set that a relation orders totally has a first element. *)
LEMMA Extreme ==
    ASSUME NEW S, IsFiniteSet(S), S # {}, NEW R,
           \A x, y \in S : <<x, y>> \in R \/ <<y, x>> \in R,
           \A x, y, z \in S : <<x, y>> \in R /\ <<y, z>> \in R => <<x, z>> \in R
    PROVE  \E m \in S : \A x \in S : <<m, x>> \in R
<1> DEFINE B == {U \in SUBSET S : U # {} /\ ~ \E m \in U : \A x \in U : <<m, x>> \in R}
<1>1. SUFFICES ASSUME B # {} PROVE FALSE
  OBVIOUS
<1>2. PICK U \in B : \A V \in B : V \subseteq U => V = U
  <2>1. B \in SUBSET (SUBSET S)
    OBVIOUS
  <2> HIDE DEF B
  <2> QED
    BY <1>1, <2>1, MinimalSubset
<1>3. PICK p \in U : TRUE
  OBVIOUS
<1> DEFINE V == U \ {p}
<1>4. CASE V = {}
  <2>1. \A x \in U : x = p
    BY <1>4
  <2> QED
    BY <1>3, <2>1
<1>5. CASE V # {}
  <2>1. V \notin B
    <3>1. V \subseteq U /\ V # U
      BY <1>3
    <3> HIDE DEF V, B
    <3> QED
      BY <1>2, <3>1
  <2>2. PICK m \in V : \A x \in V : <<m, x>> \in R
    BY <1>5, <2>1
  <2>3. m \in S /\ p \in S /\ m \in U /\ \A x \in U : x \in S
    BY <1>3
  <2>4. <<m, m>> \in R /\ <<p, p>> \in R
    BY <2>3
  <2>5. CASE <<m, p>> \in R
    <3>1. \A x \in U : <<m, x>> \in R
      BY <2>2, <2>5
    <3> QED
      BY <2>3, <3>1
  <2>6. CASE <<p, m>> \in R
    <3>1. \A x \in U : <<p, x>> \in R
      BY <2>2, <2>3, <2>4, <2>6
    <3> QED
      BY <3>1
  <2> QED
    BY <2>3, <2>5, <2>6
<1> QED
  BY <1>4, <1>5

(* The image of a finite set is finite, and as large if no two elements meet. *)
LEMMA ImageFinite ==
    ASSUME NEW S, IsFiniteSet(S), NEW f
    PROVE  IsFiniteSet({f[x] : x \in S})
<1> DEFINE T == {f[x] : x \in S}
           g == [x \in S |-> f[x]]
<1>1. g \in Surjection(S, T)
  BY DEF Surjection
<1> HIDE DEF T, g
<1>2. IsFiniteSet(T)
  BY <1>1, FS_Surjection
<1>. QED
  BY <1>2 DEF T

LEMMA ImageCardinality ==
    ASSUME NEW S, IsFiniteSet(S), NEW f, \A x, y \in S : f[x] = f[y] => x = y
    PROVE  Cardinality({f[x] : x \in S}) = Cardinality(S)
<1> DEFINE T == {f[x] : x \in S}
           g == [x \in S |-> f[x]]
<1>1. g \in Surjection(S, T) /\ g \in Injection(S, T)
  BY DEF Surjection, Injection, IsInjective
<1> HIDE DEF T, g
<1>2. Cardinality(T) = Cardinality(S)
  BY <1>1, FS_Surjection
<1>. QED
  BY <1>2 DEF T

LEMMA FiniteUnion ==
    ASSUME NEW S, IsFiniteSet(S), NEW f, \A x \in S : IsFiniteSet(f[x])
    PROVE  IsFiniteSet(UNION {f[x] : x \in S})
<1> DEFINE T == {f[x] : x \in S}
<1>1. IsFiniteSet(T) /\ \A t \in T : IsFiniteSet(t)
  BY ImageFinite
<1> HIDE DEF T
<1>2. IsFiniteSet(UNION T)
  BY <1>1, FS_UNION
<1>. QED
  BY <1>2 DEF T

LEMMA FirstIn ==
    ASSUME NEW s, s # {}
    PROVE  FirstOf(s) \in s
BY DEF FirstOf

(* Two tables agree on the sets of which both have the sum. *)
LEMMA TotalsAgree ==
    ASSUME NEW S, IsFiniteSet(S), NEW f, NEW U \in SUBSET S, NEW W \in SUBSET S,
           NEW g, NEW h, Totals(f, U, g), Totals(f, W, h)
    PROVE  \A s \in SUBSET (U \cap W) : g[s] = h[s]
<1> DEFINE B == {s \in SUBSET (U \cap W) : g[s] # h[s]}
<1>1. SUFFICES ASSUME B # {} PROVE FALSE
  OBVIOUS
<1>2. PICK s \in B : \A V \in B : V \subseteq s => V = s
  <2>1. B \in SUBSET (SUBSET S)
    OBVIOUS
  <2> HIDE DEF B
  <2> QED
    BY <1>1, <2>1, MinimalSubset
<1>3. g[s] = (IF s = {} THEN 0 ELSE f[FirstOf(s)] + g[s \ {FirstOf(s)}])
      /\ h[s] = (IF s = {} THEN 0 ELSE f[FirstOf(s)] + h[s \ {FirstOf(s)}])
  BY DEF Totals
<1>4. s # {}
  BY <1>3
<1>5. g[s \ {FirstOf(s)}] = h[s \ {FirstOf(s)}]
  BY <1>2, <1>4, FirstIn
<1> QED
  BY <1>3, <1>5

(* Every subset of a finite domain has a table. *)
LEMMA TotalsExist ==
    ASSUME NEW S, IsFiniteSet(S), NEW f
    PROVE  \A U \in SUBSET S : \E h : Totals(f, U, h)
<1> DEFINE B == {U \in SUBSET S : ~ \E h : Totals(f, U, h)}
           T(s) == CHOOSE h : Totals(f, s, h)
<1>1. SUFFICES ASSUME B # {} PROVE FALSE
  OBVIOUS
<1>2. PICK U \in B : \A V \in B : V \subseteq U => V = U
  <2>1. B \in SUBSET (SUBSET S)
    OBVIOUS
  <2> HIDE DEF B
  <2> QED
    BY <1>1, <2>1, MinimalSubset
<1>3. \A s \in SUBSET U : s # U => Totals(f, s, T(s))
  <2>1. ASSUME NEW s \in SUBSET U, s # U
        PROVE  \E h : Totals(f, s, h)
    BY <1>2, <2>1
  <2> QED
    BY <2>1
<1>4. U # {}
  <2>1. ASSUME U = {}
        PROVE  FALSE
    <3> DEFINE z == [s \in SUBSET U |-> 0]
    <3>1. Totals(f, U, z)
      BY <2>1 DEF Totals
    <3> QED
      BY <3>1
  <2> QED
    BY <2>1
<1> DEFINE x == FirstOf(U)
           h == [s \in SUBSET U |-> IF s = U THEN f[x] + T(U \ {x})[U \ {x}] ELSE T(s)[s]]
<1> HIDE DEF T, B
<1>5. x \in U
  BY <1>4, FirstIn
<1>6. ASSUME NEW s \in SUBSET U
      PROVE  h[s] = IF s = {} THEN 0 ELSE f[FirstOf(s)] + h[s \ {FirstOf(s)}]
  <2>1. CASE s = U
    BY <1>4, <1>5, <2>1
  <2>2. CASE s = {}
    <3>1. Totals(f, s, T(s))
      BY <1>3, <1>4, <2>2
    <3>2. T(s)[s] = 0
      BY <2>2, <3>1 DEF Totals
    <3> QED
      BY <1>4, <2>2, <3>2
  <2>3. CASE s # U /\ s # {}
    <3> DEFINE r == s \ {FirstOf(s)}
    <3>1. FirstOf(s) \in s /\ r \in SUBSET U /\ r # U /\ r \subseteq s
      <4>1. FirstOf(s) \in s
        BY <2>3, FirstIn
      <4> QED
        BY <4>1
    <3>2. Totals(f, s, T(s)) /\ Totals(f, r, T(r))
      BY <1>3, <2>3, <3>1
    <3>3. T(s)[s] = f[FirstOf(s)] + T(s)[r]
      BY <2>3, <3>2 DEF Totals
    <3>4. T(s)[r] = T(r)[r]
      <4>1. s \in SUBSET S /\ r \in SUBSET S /\ r \in SUBSET (s \cap r)
        BY <1>2, <3>1 DEF B
      <4>2. \A q \in SUBSET (s \cap r) : T(s)[q] = T(r)[q]
        <5> HIDE DEF r, h
        <5> QED
          BY <3>2, <4>1, TotalsAgree
      <4> HIDE DEF r, h
      <4> QED
        BY <4>1, <4>2
    <3>5. h[s] = T(s)[s] /\ h[r] = T(r)[r]
      BY <2>3, <3>1
    <3> QED
      BY <2>3, <3>3, <3>4, <3>5
  <2> QED
    BY <2>1, <2>2, <2>3
<1>7. Totals(f, U, h)
  BY <1>6 DEF Totals
<1>8. U \in B => ~ \E g : Totals(f, U, g)
  BY DEF B
<1> QED
  BY <1>7, <1>8

(* The entries of a table: one element, the first, at a time. *)
Entries(S, f, h) ==
    /\ h \in [SUBSET S -> Int]
    /\ h[{}] = 0
    /\ \A s \in SUBSET S : s # {} => h[s] = f[FirstOf(s)] + h[s \ {FirstOf(s)}]

(* Any element may be taken out of a sum first. *)
AnyOrder(S, f, h) == \A s \in SUBSET S : \A x \in s : h[s] = f[x] + h[s \ {x}]

(* The sum of f over S with its partial sums. *)
Parts(S, f, h) ==
    /\ h \in [SUBSET S -> Int]
    /\ Sum(f) = h[S]
    /\ h[{}] = 0
    /\ AnyOrder(S, f, h)

(* Sums of integers are integers. *)
LEMMA TotalsEntries ==
    ASSUME NEW S, IsFiniteSet(S), NEW f \in [S -> Int], NEW h, Totals(f, S, h)
    PROVE  Entries(S, f, h)
<1>1. h[{}] = 0 /\ \A s \in SUBSET S : s # {} => h[s] = f[FirstOf(s)] + h[s \ {FirstOf(s)}]
  BY DEF Totals
<1> DEFINE B == {s \in SUBSET S : h[s] \notin Int}
<1>2. ASSUME B # {}
      PROVE  FALSE
  <2>1. PICK s \in B : \A V \in B : V \subseteq s => V = s
    <3>1. B \in SUBSET (SUBSET S)
      OBVIOUS
    <3> HIDE DEF B
    <3> QED
      BY <1>2, <3>1, MinimalSubset
  <2>2. s # {}
    <3>1. 0 \in Int /\ h[s] \notin Int
      OBVIOUS
    <3> QED
      BY <1>1, <3>1, Zenon
  <2>3. FirstOf(s) \in s /\ h[s \ {FirstOf(s)}] \in Int
    BY <2>1, <2>2, FirstIn
  <2>4. f[FirstOf(s)] \in Int
    BY <2>3
  <2>5. f[FirstOf(s)] + h[s \ {FirstOf(s)}] \in Int /\ h[s] \notin Int
    BY <2>3, <2>4
  <2>6. h[s] = f[FirstOf(s)] + h[s \ {FirstOf(s)}]
    BY <1>1, <2>2
  <2> QED
    BY <2>5, <2>6, Zenon
<1>3. h = [s \in SUBSET S |-> h[s]]
  BY DEF Totals
<1> QED
  BY <1>1, <1>2, <1>3 DEF Entries

(* The order in which the fold takes the elements does not matter. *)
LEMMA AnyElementFirst ==
    ASSUME NEW S, IsFiniteSet(S), NEW f \in [S -> Int], NEW h, Entries(S, f, h)
    PROVE  AnyOrder(S, f, h)
<1> DEFINE B == {s \in SUBSET S : \E x \in s : h[s] # f[x] + h[s \ {x}]}
<1>1. SUFFICES ASSUME B # {} PROVE FALSE
  BY DEF AnyOrder
<1>2. PICK s \in B : \A V \in B : V \subseteq s => V = s
  <2>1. B \in SUBSET (SUBSET S)
    OBVIOUS
  <2> HIDE DEF B
  <2> QED
    BY <1>1, <2>1, MinimalSubset
<1>3. PICK x \in s : h[s] # f[x] + h[s \ {x}]
  OBVIOUS
<1> DEFINE p == FirstOf(s)
           r == s \ {p}
           q == s \ {x}
<1>4. p \in s
  BY <1>3, FirstIn
<1>5. h[s] = f[p] + h[r]
  BY <1>3 DEF Entries
<1>6. p # x
  BY <1>3, <1>5
<1>7. r \notin B /\ q \notin B
  BY <1>2, <1>3, <1>4
<1>8. r \in SUBSET S /\ q \in SUBSET S /\ x \in r /\ p \in q /\ r \ {x} = q \ {p}
  BY <1>3, <1>4, <1>6
<1>9. h[r] = f[x] + h[r \ {x}] /\ h[q] = f[p] + h[q \ {p}]
  BY <1>7, <1>8
<1>10. f[p] \in Int /\ f[x] \in Int /\ h[r \ {x}] \in Int
  <2>1. p \in S /\ x \in S /\ r \ {x} \in SUBSET S
    BY <1>3, <1>4
  <2> QED
    BY <2>1 DEF Entries
<1>11. h[s] = f[x] + h[q]
  <2>1. h[s] = f[p] + (f[x] + h[r \ {x}]) /\ h[q] = f[p] + h[r \ {x}]
    BY <1>5, <1>8, <1>9
  <2> HIDE DEF p, q, r
  <2> QED
    BY <1>10, <2>1
<1> QED
  BY <1>3, <1>11

(* A sum over a finite set has its partial sums. *)
LEMMA SumParts ==
    ASSUME NEW S, IsFiniteSet(S), NEW f \in [S -> Int]
    PROVE  \E h : Parts(S, f, h)
<1> DEFINE h == Table(f)
<1>1. Sum(f) = h[S]
  BY DEF Sum, FoldFunction, FoldFunctionOnSet, MapThenFoldSet, Totals, FirstOf, Table
<1>2. Totals(f, S, h)
  BY TotalsExist DEF Table
<1> HIDE DEF h
<1>3. Entries(S, f, h)
  BY <1>2, TotalsEntries, Zenon
<1>4. AnyOrder(S, f, h)
  BY <1>3, AnyElementFirst, Zenon
<1>5. Parts(S, f, h)
  BY <1>1, <1>3, <1>4 DEF Parts, Entries
<1> QED
  BY <1>5

(* Sums are integers. *)
LEMMA SumType ==
    ASSUME NEW S, IsFiniteSet(S), NEW f \in [S -> Int]
    PROVE  Sum(f) \in Int
<1>1. PICK h : Parts(S, f, h)
  BY SumParts, Zenon
<1> QED
  BY <1>1 DEF Parts

(* Values that differ at one argument differ in the sum by as much. *)
LEMMA SumExcept ==
    ASSUME NEW S, IsFiniteSet(S), NEW f \in [S -> Int], NEW g \in [S -> Int],
           NEW x \in S, \A y \in S : y # x => g[y] = f[y]
    PROVE  Sum(g) = Sum(f) - f[x] + g[x]
<1>1. PICK h : Parts(S, f, h)
  BY SumParts, Zenon
<1>2. PICK k : Parts(S, g, k)
  BY SumParts, Zenon
<1> USE DEF Parts, AnyOrder
<1> DEFINE B == {s \in SUBSET (S \ {x}) : h[s] # k[s]}
<1>3. B = {}
  <2>1. SUFFICES ASSUME B # {} PROVE FALSE
    OBVIOUS
  <2>2. PICK s \in B : \A V \in B : V \subseteq s => V = s
    <3>1. B \in SUBSET (SUBSET S)
      OBVIOUS
    <3> HIDE DEF B
    <3> QED
      BY <2>1, <3>1, MinimalSubset
  <2>3. PICK p : p \in s
    BY <1>1, <1>2
  <2>4. h[s \ {p}] = k[s \ {p}]
    BY <2>2, <2>3
  <2>5. h[s] = f[p] + h[s \ {p}] /\ k[s] = g[p] + k[s \ {p}]
    BY <1>1, <1>2, <2>3
  <2>6. f[p] = g[p]
    BY <2>3
  <2> QED
    BY <2>4, <2>5, <2>6
<1>4. h[S \ {x}] = k[S \ {x}]
  BY <1>3
<1>5. h[S] = f[x] + h[S \ {x}] /\ k[S] = g[x] + k[S \ {x}]
  BY <1>1, <1>2
<1>6. h[S \ {x}] \in Int
  BY <1>1
<1> QED
  BY <1>1, <1>2, <1>4, <1>5, <1>6

(* Smaller values have a smaller sum, and the same sum only if they agree. *)
LEMMA SumMonotone ==
    ASSUME NEW S, IsFiniteSet(S), NEW f \in [S -> Int], NEW g \in [S -> Int],
           \A y \in S : f[y] <= g[y]
    PROVE  /\ Sum(f) <= Sum(g)
           /\ Sum(f) = Sum(g) => f = g
<1>1. PICK h : Parts(S, f, h)
  BY SumParts, Zenon
<1>2. PICK k : Parts(S, g, k)
  BY SumParts, Zenon
<1> USE DEF Parts, AnyOrder
<1> DEFINE Good(s) == h[s] <= k[s] /\ (h[s] = k[s] => \A y \in s : f[y] = g[y])
           B == {s \in SUBSET S : ~Good(s)}
<1>3. B = {}
  <2>1. SUFFICES ASSUME B # {} PROVE FALSE
    OBVIOUS
  <2>2. PICK s \in B : \A V \in B : V \subseteq s => V = s
    <3>1. B \in SUBSET (SUBSET S)
      OBVIOUS
    <3> HIDE DEF B
    <3> QED
      BY <2>1, <3>1, MinimalSubset
  <2>3. Good({})
    BY <1>1, <1>2
  <2>4. PICK p : p \in s
    BY <2>3
  <2> DEFINE r == s \ {p}
  <2>5. Good(r)
    BY <2>2, <2>4
  <2>6. h[s] = f[p] + h[r] /\ k[s] = g[p] + k[r]
    BY <1>1, <1>2, <2>4
  <2>7. h[r] \in Int /\ k[r] \in Int
    BY <1>1, <1>2
  <2>8. f[p] \in Int /\ g[p] \in Int /\ f[p] <= g[p]
    BY <2>4
  <2>9. h[s] <= k[s] /\ (h[s] = k[s] => f[p] = g[p] /\ h[r] = k[r])
    <3>1. h[r] <= k[r]
      BY <2>5
    <3> HIDE DEF r, Good, B
    <3> QED
      BY <2>6, <2>7, <2>8, <3>1
  <2>10. Good(s)
    BY <2>5, <2>9
  <2> QED
    BY <2>10
<1>4. Good(S)
  BY <1>3
<1> QED
  BY <1>1, <1>2, <1>4

(* The sum of a constant. *)
LEMMA SumConstant ==
    ASSUME NEW S, IsFiniteSet(S), NEW c \in Int
    PROVE  Sum([y \in S |-> c]) = Cardinality(S) * c
<1> DEFINE f == [y \in S |-> c]
<1>1. f \in [S -> Int] /\ \A y \in S : f[y] = c
  OBVIOUS
<1> HIDE DEF f
<1>2. PICK h : Parts(S, f, h)
  BY <1>1, SumParts, Zenon
<1> DEFINE B == {s \in SUBSET S : h[s] # Cardinality(s) * c}
<1>3. B = {}
  <2>1. SUFFICES ASSUME B # {} PROVE FALSE
    OBVIOUS
  <2>2. PICK s \in B : \A V \in B : V \subseteq s => V = s
    <3>1. B \in SUBSET (SUBSET S)
      OBVIOUS
    <3> HIDE DEF B
    <3> QED
      BY <2>1, <3>1, MinimalSubset
  <2>3. h[{}] = Cardinality({}) * c
    BY <1>2, FS_EmptySet DEF Parts
  <2>4. PICK p : p \in s
    BY <2>3
  <2> DEFINE r == s \ {p}
             m == Cardinality(s)
  <2>5. h[r] = Cardinality(r) * c
    BY <2>2, <2>4
  <2>6. h[s] = c + h[r]
    <3>1. f[p] = c
      BY <1>1, <2>4
    <3> QED
      BY <1>2, <2>4, <3>1 DEF Parts, AnyOrder
  <2>7. Cardinality(r) = m - 1 /\ m \in Nat
    BY <2>4, FS_RemoveElement, FS_Subset, FS_CardinalityType
  <2>8. h[s] = c + (m - 1) * c
    BY <2>5, <2>6, <2>7
  <2>9. h[s] = m * c
    <3> HIDE DEF m
    <3> QED
      BY <2>7, <2>8
  <2> QED
    BY <2>9
<1>4. h[S] = Cardinality(S) * c
  BY <1>3
<1> QED
  BY <1>2, <1>4 DEF Parts, f

LEMMA SumZero ==
    ASSUME NEW S, IsFiniteSet(S)
    PROVE  Sum([y \in S |-> 0]) = 0
<1>1. Cardinality(S) \in Nat /\ 0 \in Int
  BY FS_CardinalityType
<1>2. Sum([y \in S |-> 0]) = Cardinality(S) * 0
  BY <1>1, SumConstant
<1> QED
  BY <1>1, <1>2

LEMMA SumNat ==
    ASSUME NEW S, IsFiniteSet(S), NEW f \in [S -> Nat]
    PROVE  Sum(f) \in Nat
<1> DEFINE g == [y \in S |-> 0]
<1>1. f \in [S -> Int] /\ g \in [S -> Int] /\ \A y \in S : g[y] <= f[y]
  OBVIOUS
<1>2. Sum(g) = 0
  BY SumZero
<1> HIDE DEF g
<1>3. Sum(g) <= Sum(f) /\ Sum(f) \in Int
  BY <1>1, SumMonotone, SumType
<1> QED
  BY <1>2, <1>3
=============================================================================
