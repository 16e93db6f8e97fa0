----------------------------- MODULE PlanProofs -----------------------------
(***************************************************************************)
(* What holds of the plans of module Profiles for every number of           *)
(* repetitions, operations and tasks: their blocks are well nested, batches *)
(* run inside of a pool, measurements end outside of every block, and how   *)
(* many operations of each kind a plan asks for.                            *)
(***************************************************************************)
EXTENDS Profiles, Sums, SequenceTheorems

Blocks == {"directory", "connection", "transaction", "pool", "file", "socket"}
Kinds == {"check", "serial", "enter", "leave", "batch", "need", "measure", "skip", "end"}

(* What a plan counts: operations under a counter, batches, and the checks   *)
(* that a batch had a success.                                               *)
Tallied == {"download", "upload", "ping", "warmup", "batch", "need"}
Counts == [Tallied -> Nat]
None == [k \in Tallied |-> 0]
Plus(d, e) == [k \in Tallied |-> d[k] + e[k]]
Scale(n, d) == [k \in Tallied |-> n * d[k]]

(* Items as the operators of Profiles make them: at most one block each, and *)
(* no operation holds a pool.                                                *)
Items == {x \in [kind : Kinds, ops : Nat \ {0}, holds : Seq(Blocks), polls : BOOLEAN,
                 inner : BOOLEAN, onError : {"abort", "download", "upload", "ping", "warmup"}] :
            /\ x.kind = "enter" => \E b \in Blocks : x.holds = <<b>>
            /\ x.kind = "serial" =>
                  x.holds = <<>> \/ \E b \in Blocks \ {"pool"} : x.holds = <<b>>
            /\ x.kind \notin {"enter", "serial"} => x.holds = <<>>}
BodyItems == {x \in Items : x.kind \notin {"measure", "skip", "end"}}

Effect(x) == [k \in Tallied |-> IF x.kind = k THEN 1
                                ELSE IF x.kind = "serial" /\ x.onError = k THEN x.ops ELSE 0]

(* A point of a plan: the blocks open there, and what was counted before it. *)
Points == [open : Seq(Blocks), done : Counts]
InPool == {p \in Points : Contains(p.open, "pool")}
Start == [open |-> <<>>, done |-> None]
After(p, d) == [open |-> p.open, done |-> Plus(p.done, d)]
Inside(p, b) == [open |-> p.open \o <<b>>, done |-> p.done]

(* Item x leads from point p to point q, and may stand there. *)
Moves(p, x, q) ==
    /\ x.kind = "enter" => q.open = p.open \o x.holds
    /\ x.kind = "leave" => p.open # <<>> /\ q.open = Front(p.open)
    /\ x.kind \notin {"enter", "leave"} => q.open = p.open
    /\ x.kind = "batch" => Contains(p.open, "pool")
    /\ x.kind \in {"measure", "skip", "end"} => p.open = <<>>
    /\ q.done = Plus(p.done, Effect(x))

(* The items s lead from point p to point q. *)
Trail(s, p, q) ==
    /\ p \in Points /\ q \in Points
    /\ \E f \in [1..(Len(s) + 1) -> Points] :
          /\ f[1] = p /\ f[Len(s) + 1] = q
          /\ \A i \in 1..Len(s) : Moves(f[i], s[i], f[i + 1])

(* From every point of P the items s lead back to its blocks, and count d. *)
Balanced(P, s, d) ==
    /\ s \in Seq(BodyItems) /\ d \in Counts
    /\ \A p \in P : Trail(s, p, After(p, d))

-----------------------------------------------------------------------------
(* Points and counts. *)

LEMMA CountsAdd ==
    ASSUME NEW d \in Counts, NEW e \in Counts
    PROVE  Plus(d, e) \in Counts /\ Plus(d, None) = d /\ Plus(None, d) = d
BY DEF Counts, Plus, None

LEMMA CountsGroup ==
    ASSUME NEW c \in Counts, NEW d \in Counts, NEW e \in Counts
    PROVE  Plus(Plus(c, d), e) = Plus(c, Plus(d, e))
BY DEF Counts, Plus

LEMMA CountsScale ==
    ASSUME NEW d \in Counts, NEW n \in Nat
    PROVE  /\ Scale(n, d) \in Counts /\ Scale(1, d) = d
           /\ Plus(Scale(n, d), d) = Scale(n + 1, d)
<1>1. \A k \in Tallied : d[k] \in Nat /\ n * d[k] \in Nat /\ n * d[k] + d[k] = (n + 1) * d[k]
  BY DEF Counts
<1> QED
  BY <1>1 DEF Counts, Plus, Scale

LEMMA NoneIsCounts == None \in Counts
BY DEF None, Counts

LEMMA EffectType ==
    ASSUME NEW x \in Items
    PROVE  Effect(x) \in Counts
BY DEF Items, Effect, Counts

LEMMA AfterPoint ==
    ASSUME NEW p \in Points, NEW d \in Counts
    PROVE  After(p, d) \in Points /\ After(p, d).open = p.open /\ After(p, None) = p
<1>1. p.done \in Counts /\ p.open \in Seq(Blocks) /\ p = [open |-> p.open, done |-> p.done]
  BY DEF Points
<1>2. Plus(p.done, d) \in Counts /\ Plus(p.done, None) = p.done
  BY <1>1, CountsAdd
<1> QED
  BY <1>1, <1>2 DEF Points, After

LEMMA AfterAfter ==
    ASSUME NEW p \in Points, NEW d \in Counts, NEW e \in Counts
    PROVE  After(After(p, d), e) = After(p, Plus(d, e))
<1>1. p.done \in Counts
  BY DEF Points
<1> QED
  BY <1>1, CountsGroup DEF After

LEMMA InsidePoint ==
    ASSUME NEW p \in Points, NEW b \in Blocks
    PROVE  /\ Inside(p, b) \in Points
           /\ Inside(p, b).open # <<>> /\ Front(Inside(p, b).open) = p.open
           /\ Contains(Inside(p, b).open, b)
<1> DEFINE s == p.open \o <<b>>
<1>1. p.open \in Seq(Blocks)
  BY DEF Points
<1>2. s \in Seq(Blocks) /\ Len(s) = Len(p.open) + 1 /\ s[Len(s)] = b
      /\ \A i \in 1..Len(p.open) : s[i] = p.open[i]
  BY <1>1
<1>3. SubSeq(s, 1, Len(s) - 1) = p.open
  BY <1>1, <1>2
<1>4. s # <<>> /\ Len(s) \in 1..Len(s)
  BY <1>1, <1>2
<1>5. Inside(p, b).open = s /\ Inside(p, b) \in Points
  BY <1>2 DEF Inside, Points
<1> HIDE DEF s
<1> QED
  BY <1>2, <1>3, <1>4, <1>5 DEF Front, Contains

(* The scopes of the parts of a plan. *)
Closed(P) ==
    /\ P \in SUBSET Points
    /\ \A p \in P, d \in Counts : After(p, d) \in P

LEMMA Scopes == Closed(Points) /\ Closed(InPool)
BY AfterPoint DEF Closed, InPool

-----------------------------------------------------------------------------
(* Trails. *)

LEMMA NoItems ==
    ASSUME NEW p \in Points
    PROVE  Trail(<<>>, p, p)
<1> DEFINE f == [i \in 1..1 |-> p]
<1>1. f \in [1..(Len(<<>>) + 1) -> Points] /\ f[1] = p /\ f[Len(<<>>) + 1] = p
  OBVIOUS
<1>2. 1..Len(<<>>) = {}
  OBVIOUS
<1> HIDE DEF f
<1> QED
  BY <1>1, <1>2 DEF Trail

LEMMA OneItem ==
    ASSUME NEW p \in Points, NEW q \in Points, NEW x, Moves(p, x, q)
    PROVE  Trail(<<x>>, p, q)
<1> DEFINE f == [i \in 1..2 |-> IF i = 1 THEN p ELSE q]
<1>1. Len(<<x>>) = 1 /\ <<x>>[1] = x
  OBVIOUS
<1>2. f \in [1..(Len(<<x>>) + 1) -> Points] /\ f[1] = p /\ f[Len(<<x>>) + 1] = q
  BY <1>1
<1>3. \A i \in 1..Len(<<x>>) : Moves(f[i], <<x>>[i], f[i + 1])
  BY <1>1
<1> HIDE DEF f
<1> QED
  BY <1>1, <1>2, <1>3 DEF Trail

LEMMA Concatenation ==
    ASSUME NEW s \in Seq(Items), NEW t \in Seq(Items), NEW p, NEW q, NEW r,
           Trail(s, p, q), Trail(t, q, r)
    PROVE  Trail(s \o t, p, r)
<1>1. p \in Points /\ r \in Points
  BY DEF Trail
<1> DEFINE m == Len(s)
           n == Len(t)
           u == s \o t
<1>2. m \in Nat /\ n \in Nat
  OBVIOUS
<1>3. u \in Seq(Items) /\ Len(u) = m + n
      /\ \A i \in 1..(m + n) : u[i] = IF i <= m THEN s[i] ELSE t[i - m]
  OBVIOUS
<1>4. PICK f \in [1..(m + 1) -> Points] :
        f[1] = p /\ f[m + 1] = q /\ \A i \in 1..m : Moves(f[i], s[i], f[i + 1])
  BY DEF Trail
<1>5. PICK g \in [1..(n + 1) -> Points] :
        g[1] = q /\ g[n + 1] = r /\ \A i \in 1..n : Moves(g[i], t[i], g[i + 1])
  BY DEF Trail
<1> DEFINE h == [i \in 1..(m + n + 1) |-> IF i <= m THEN f[i] ELSE g[i - m]]
<1> HIDE DEF m, n, u
<1>6. h \in [1..(m + n + 1) -> Points]
  BY <1>2, <1>4, <1>5
<1>7. h[1] = p /\ h[m + n + 1] = r
  BY <1>2, <1>4, <1>5
<1>8. ASSUME NEW i \in 1..(m + n)
      PROVE  Moves(h[i], u[i], h[i + 1])
  <2>1. CASE i <= m
    <3>1. u[i] = s[i] /\ h[i] = f[i] /\ i \in 1..m
      BY <1>2, <1>3, <2>1
    <3>2. h[i + 1] = f[i + 1]
      BY <1>2, <1>4, <1>5, <2>1
    <3> QED
      BY <1>4, <3>1, <3>2
  <2>2. CASE ~(i <= m)
    <3>1. /\ i - m \in 1..n /\ u[i] = t[i - m]
          /\ h[i] = g[i - m] /\ h[i + 1] = g[(i - m) + 1]
      <4>1. /\ i - m \in 1..n /\ (i + 1) - m = (i - m) + 1 /\ ~(i + 1 <= m)
            /\ i \in 1..(m + n + 1) /\ i + 1 \in 1..(m + n + 1)
        BY <1>2, <2>2
      <4> QED
        BY <1>3, <2>2, <4>1, Zenon DEF h
    <3> QED
      BY <1>5, <3>1
  <2> QED
    BY <2>1, <2>2
<1> HIDE DEF h
<1>9. \E k \in [1..(Len(u) + 1) -> Points] :
        /\ k[1] = p /\ k[Len(u) + 1] = r
        /\ \A i \in 1..Len(u) : Moves(k[i], u[i], k[i + 1])
  BY <1>2, <1>3, <1>6, <1>7, <1>8
<1> QED
  BY <1>1, <1>9 DEF Trail, u

-----------------------------------------------------------------------------
(* Balanced parts of a plan. *)

LEMMA BalancedNone ==
    ASSUME NEW P, Closed(P)
    PROVE  Balanced(P, <<>>, None)
<1>1. \A p \in P : p \in Points /\ After(p, None) = p
  BY NoneIsCounts, AfterPoint DEF Closed
<1>2. \A p \in P : Trail(<<>>, p, After(p, None))
  BY <1>1, NoItems
<1> QED
  BY <1>2, NoneIsCounts DEF Balanced

LEMMA BalancedItem ==
    ASSUME NEW P, Closed(P), NEW x \in Items,
           x.kind \in {"check", "serial", "need", "batch"}, x.kind = "batch" => P = InPool,
           NEW s, s = <<x>>
    PROVE  Balanced(P, s, Effect(x))
<1>1. Effect(x) \in Counts /\ <<x>> \in Seq(BodyItems)
  <2>1. x \in BodyItems
    BY DEF BodyItems
  <2> QED
    BY <2>1, EffectType
<1>2. ASSUME NEW p \in P
      PROVE  Trail(<<x>>, p, After(p, Effect(x)))
  <2>1. p \in Points /\ After(p, Effect(x)) \in Points
    BY <1>1, AfterPoint DEF Closed
  <2>2. After(p, Effect(x)).open = p.open /\ After(p, Effect(x)).done = Plus(p.done, Effect(x))
    BY DEF After
  <2>3. x.kind = "batch" => Contains(p.open, "pool")
    BY DEF InPool
  <2>4. Moves(p, x, After(p, Effect(x)))
    BY <2>2, <2>3 DEF Moves
  <2> QED
    BY <2>1, <2>4, OneItem
<1> QED
  BY <1>1, <1>2 DEF Balanced

LEMMA BalancedAppend ==
    ASSUME NEW P, Closed(P), NEW s, NEW t, NEW d, NEW e,
           Balanced(P, s, d), Balanced(P, t, e)
    PROVE  Balanced(P, s \o t, Plus(d, e))
<1>1. s \in Seq(BodyItems) /\ t \in Seq(BodyItems) /\ d \in Counts /\ e \in Counts
  BY DEF Balanced
<1>2. s \o t \in Seq(BodyItems) /\ s \in Seq(Items) /\ t \in Seq(Items)
  BY <1>1 DEF BodyItems
<1>3. ASSUME NEW p \in P
      PROVE  Trail(s \o t, p, After(p, Plus(d, e)))
  <2>1. p \in Points /\ After(p, d) \in P
    BY <1>1 DEF Closed
  <2>2. Trail(s, p, After(p, d)) /\ Trail(t, After(p, d), After(After(p, d), e))
    BY <2>1 DEF Balanced
  <2>3. After(After(p, d), e) = After(p, Plus(d, e))
    BY <1>1, <2>1, AfterAfter
  <2> QED
    BY <1>2, <2>2, <2>3, Concatenation
<1> QED
  BY <1>1, <1>2, <1>3, CountsAdd DEF Balanced

LEMMA BalancedAnywhere ==
    ASSUME NEW s, NEW d, Balanced(Points, s, d)
    PROVE  Balanced(InPool, s, d)
BY DEF Balanced, InPool

LEMMA EnterLeave ==
    ASSUME NEW b \in Blocks
    PROVE  /\ Enter(b) \in BodyItems /\ Leave \in BodyItems
           /\ Enter(b).kind = "enter" /\ Enter(b).holds = <<b>> /\ Effect(Enter(b)) = None
           /\ Leave.kind = "leave" /\ Effect(Leave) = None
<1>1. Enter(b) \in Items /\ Leave \in Items
  BY DEF Enter, Leave, Item, Work, Items, Kinds
<1>2. Effect(Enter(b)) = None /\ Effect(Leave) = None
  BY DEF Enter, Leave, Item, Work, Effect, Tallied, None
<1> QED
  BY <1>1, <1>2 DEF BodyItems, Enter, Leave, Item, Work

(* A with statement; a batch may stand in that of a pool. *)
Fits(b, s, d) ==
    \/ Balanced(Points, s, d)
    \/ b = "pool" /\ Balanced(InPool, s, d)

LEMMA BalancedWithin ==
    ASSUME NEW b \in Blocks, NEW s, NEW d,
           Fits(b, s, d)
    PROVE  Balanced(Points, Within(b, s), d)
<1>1. s \in Seq(BodyItems) /\ d \in Counts
  BY DEF Balanced, Fits
<1>2. /\ <<Enter(b)>> \in Seq(BodyItems) /\ <<Leave>> \in Seq(BodyItems)
      /\ <<Enter(b)>> \in Seq(Items) /\ <<Leave>> \in Seq(Items)
  BY EnterLeave DEF BodyItems
<1>3. /\ <<Enter(b)>> \o s \in Seq(BodyItems) /\ Within(b, s) \in Seq(BodyItems)
      /\ s \in Seq(Items) /\ <<Enter(b)>> \o s \in Seq(Items)
  BY <1>1, <1>2 DEF Within, BodyItems
<1>4. ASSUME NEW p \in Points
      PROVE  Trail(Within(b, s), p, After(p, d))
  <2> DEFINE q == Inside(p, b)
             r == After(q, d)
  <2>1. q \in Points /\ (b = "pool" => q \in InPool) /\ r \in Points /\ After(p, d) \in Points
    BY <1>1, InsidePoint, AfterPoint DEF InPool
  <2>2. p.done \in Counts /\ r.done \in Counts /\ r.open = q.open
        /\ r.done = After(p, d).done /\ After(p, d).open = p.open
    BY <2>1 DEF Points, After, Inside
  <2>3. Plus(p.done, None) = p.done /\ Plus(r.done, None) = r.done
    BY <2>2, CountsAdd
  <2>4. q.open = p.open \o <<b>> /\ q.done = p.done
        /\ q.open # <<>> /\ Front(q.open) = p.open
    BY InsidePoint DEF Inside
  <2>5. Trail(s, q, r)
    BY <2>1 DEF Balanced, Fits
  <2> HIDE DEF q, r
  <2>6. Trail(<<Enter(b)>>, p, q)
    <3>1. Moves(p, Enter(b), q)
      BY <2>3, <2>4, EnterLeave DEF Moves
    <3> QED
      BY <2>1, <3>1, OneItem
  <2>7. Trail(<<Leave>>, r, After(p, d))
    <3>1. Moves(r, Leave, After(p, d))
      BY <2>2, <2>3, <2>4, EnterLeave DEF Moves
    <3> QED
      BY <2>1, <3>1, OneItem
  <2>8. Trail(<<Enter(b)>> \o s, p, r)
    BY <1>2, <1>3, <2>5, <2>6, Concatenation
  <2> QED
    BY <1>2, <1>3, <2>7, <2>8, Concatenation DEF Within
<1> QED
  BY <1>1, <1>3, <1>4 DEF Balanced

LEMMA BalancedBlock ==
    ASSUME NEW b \in Blocks, NEW s, NEW d, Balanced(Points, s, d)
    PROVE  Balanced(Points, Within(b, s), d)
<1>1. Fits(b, s, d)
  BY DEF Fits
<1> QED
  BY <1>1, BalancedWithin

LEMMA BalancedPool ==
    ASSUME NEW s, NEW d, Balanced(InPool, s, d)
    PROVE  Balanced(Points, Within("pool", s), d)
<1>1. "pool" \in Blocks /\ Fits("pool", s, d)
  BY DEF Fits, Blocks
<1> QED
  BY <1>1, BalancedWithin

-----------------------------------------------------------------------------
(* Repetitions. *)

(* The parts of Repeat(n, s), as FlattenSeq builds them. *)
Parted(n, s, g) == g = [i \in 1..n |-> IF i = 1 THEN s ELSE g[i - 1] \o s]

LEMMA PartsExist ==
    ASSUME NEW n \in Nat, NEW s
    PROVE  \E g : Parted(n, s, g)
<1> DEFINE B == {k \in Nat : ~ \E g : Parted(k, s, g)}
<1>1. SUFFICES ASSUME B # {} PROVE FALSE
  OBVIOUS
<1>2. B \in SUBSET Nat
  OBVIOUS
<1>3. PICK m \in B : \A k \in B : m <= k
  <2> HIDE DEF B
  <2> QED
    BY <1>1, <1>2, LeastNatural
<1>4. m \in Nat /\ ~ \E g : Parted(m, s, g)
  OBVIOUS
<1>5. m # 0
  <2>1. Parted(0, s, [i \in 1..0 |-> s])
    BY DEF Parted
  <2> QED
    BY <1>4, <2>1
<1>6. PICK h : Parted(m - 1, s, h)
  <2>1. m - 1 \in Nat /\ m - 1 \notin B
    BY <1>3, <1>4, <1>5
  <2> QED
    BY <2>1
<1> DEFINE g == [i \in 1..m |-> IF i = 1 THEN s ELSE h[i - 1] \o s]
<1> HIDE DEF B
<1>7. \A i \in 1..(m - 1) : h[i] = g[i]
  <2>1. \A i \in 1..(m - 1) : i \in 1..m
    BY <1>4
  <2>2. \A i \in 1..(m - 1) : h[i] = IF i = 1 THEN s ELSE h[i - 1] \o s
    BY <1>6 DEF Parted
  <2>3. \A i \in 1..m : g[i] = IF i = 1 THEN s ELSE h[i - 1] \o s
    OBVIOUS
  <2> HIDE DEF g
  <2> QED
    BY <2>1, <2>2, <2>3
<1>8. \A i \in 1..m : i # 1 => i - 1 \in 1..(m - 1)
  BY <1>4
<1>9. \A i \in 1..m : g[i] = IF i = 1 THEN s ELSE g[i - 1] \o s
  BY <1>7, <1>8
<1>10. Parted(m, s, g)
  BY <1>9 DEF Parted
<1> QED
  BY <1>4, <1>10

LEMMA RepeatParts ==
    ASSUME NEW n \in Nat \ {0}, NEW s
    PROVE  \E g : /\ g[1] = s /\ Repeat(n, s) = g[n]
                  /\ \A i \in 2..n : g[i] = g[i - 1] \o s
<1> DEFINE c == [i \in 1..n |-> s]
           g == CHOOSE f : f = [i \in 1..n |-> IF i = 1 THEN c[i] ELSE f[i - 1] \o c[i]]
<1>1. Len(c) = n /\ n # 0
  OBVIOUS
<1>2. Repeat(n, s) = g[n]
  BY <1>1 DEF Repeat, FlattenSeq
<1>3. PICK f : Parted(n, s, f)
  BY PartsExist
<1>4. f = [i \in 1..n |-> IF i = 1 THEN c[i] ELSE f[i - 1] \o c[i]]
  BY <1>3 DEF Parted
<1>5. g = [i \in 1..n |-> IF i = 1 THEN c[i] ELSE g[i - 1] \o c[i]]
  BY <1>4
<1> HIDE DEF g
<1>6. \A i \in 1..n : g[i] = IF i = 1 THEN s ELSE g[i - 1] \o s
  BY <1>5
<1>7. 1 \in 1..n /\ \A i \in 2..n : i \in 1..n /\ i # 1
  OBVIOUS
<1>8. g[1] = s /\ \A i \in 2..n : g[i] = g[i - 1] \o s
  BY <1>6, <1>7
<1> QED
  BY <1>2, <1>8

LEMMA BalancedRepeat ==
    ASSUME NEW P, Closed(P), NEW n \in Nat \ {0}, NEW s, NEW d, Balanced(P, s, d)
    PROVE  Balanced(P, Repeat(n, s), Scale(n, d))
<1>1. PICK g : /\ g[1] = s /\ Repeat(n, s) = g[n]
               /\ \A i \in 2..n : g[i] = g[i - 1] \o s
  BY RepeatParts
<1>2. d \in Counts
  BY DEF Balanced
<1> DEFINE B == {k \in 1..n : ~ Balanced(P, g[k], Scale(k, d))}
<1>3. ASSUME B # {}
      PROVE  FALSE
  <2>1. B \in SUBSET Nat
    OBVIOUS
  <2>2. PICK m \in B : \A k \in B : m <= k
    <3> HIDE DEF B
    <3> QED
      BY <1>3, <2>1, LeastNatural
  <2>3. m \in 1..n /\ ~ Balanced(P, g[m], Scale(m, d))
    OBVIOUS
  <2>4. m # 1
    BY <1>1, <1>2, <2>3, CountsScale
  <2>5. m - 1 \in Nat /\ m - 1 \in 1..n /\ m - 1 \notin B /\ m \in 2..n /\ (m - 1) + 1 = m
    <3> HIDE DEF B
    <3> QED
      BY <2>2, <2>3, <2>4
  <2>6. Balanced(P, g[m - 1], Scale(m - 1, d))
    BY <2>5
  <2> HIDE DEF B
  <2>7. Balanced(P, g[m - 1] \o s, Plus(Scale(m - 1, d), d))
    BY <2>6, BalancedAppend
  <2>8. Plus(Scale(m - 1, d), d) = Scale(m, d)
    BY <1>2, <2>5, CountsScale
  <2>9. g[m] = g[m - 1] \o s
    BY <1>1, <2>5
  <2> QED
    BY <2>3, <2>7, <2>8, <2>9
<1>4. n \in 1..n
  OBVIOUS
<1> QED
  BY <1>1, <1>3, <1>4

-----------------------------------------------------------------------------
(* The items of the profiles. *)

(* n operations under counter k. *)
Of(k, n) == [l \in Tallied |-> IF l = k THEN n ELSE 0]

LEMMA SerialItem ==
    ASSUME NEW n \in Nat \ {0}, NEW h, h = <<>> \/ \E b \in Blocks \ {"pool"} : h = <<b>>,
           NEW e \in {"abort", "download", "upload", "ping", "warmup"}
    PROVE  /\ Loop(n, h, e) \in Items /\ Loop(n, h, e).kind = "serial"
           /\ Effect(Loop(n, h, e)) = Of(e, n)
<1>1. h \in Seq(Blocks)
  <2>1. <<>> \in Seq(Blocks) /\ \A b \in Blocks : <<b>> \in Seq(Blocks)
    OBVIOUS
  <2> QED
    BY <2>1
<1>2. Loop(n, h, e) \in Items
  BY <1>1 DEF Loop, Work, Items, Kinds
<1>3. Loop(n, h, e).kind = "serial" /\ Loop(n, h, e).onError = e /\ Loop(n, h, e).ops = n
  BY DEF Loop, Work
<1>4. Effect(Loop(n, h, e)) = Of(e, n)
  BY <1>3 DEF Effect, Of, Tallied
<1> QED
  BY <1>2, <1>3, <1>4

LEMMA PollingItem ==
    ASSUME NEW x \in Items
    PROVE  /\ Polling(x) \in Items /\ Polling(x).kind = x.kind
           /\ Polling(x).onError = x.onError /\ Polling(x).ops = x.ops
           /\ Polling(x).holds = x.holds /\ Effect(Polling(x)) = Effect(x)
<1>1. /\ Polling(x).kind = x.kind /\ Polling(x).holds = x.holds
      /\ Polling(x).onError = x.onError /\ Polling(x).ops = x.ops
  BY DEF Polling, Items
<1>2. Polling(x) \in Items
  BY DEF Polling, Items
<1> QED
  BY <1>1, <1>2 DEF Effect

LEMMA SingleItem ==
    /\ Check \in Items /\ Check.kind = "check" /\ Effect(Check) = None
    /\ Require \in Items /\ Require.kind = "serial" /\ Effect(Require) = None
    /\ Batch \in Items /\ Batch.kind = "batch" /\ Effect(Batch) = Of("batch", 1)
    /\ SomeCompleted \in Items /\ SomeCompleted.kind = "need"
    /\ Effect(SomeCompleted) = Of("need", 1)
<1>1. Check \in Items /\ Require \in Items /\ Batch \in Items /\ SomeCompleted \in Items
  BY DEF Check, Require, Batch, SomeCompleted, Item, Work, Items, Kinds
<1>2. /\ Check.kind = "check" /\ Require.kind = "serial" /\ Require.onError = "abort"
      /\ Batch.kind = "batch" /\ SomeCompleted.kind = "need"
  BY DEF Check, Require, Batch, SomeCompleted, Item, Work
<1> QED
  BY <1>1, <1>2 DEF Effect, None, Of, Tallied

LEMMA OfCounts ==
    /\ \A k \in Tallied, n \in Nat : Of(k, n) \in Counts
    /\ \A n \in Nat : Of("abort", n) = None
BY DEF Of, Counts, None, Tallied

LEMMA BalancedLoop ==
    ASSUME NEW P, Closed(P), NEW n \in Nat \ {0},
           NEW h, h = <<>> \/ \E b \in Blocks \ {"pool"} : h = <<b>>,
           NEW e \in {"abort", "download", "upload", "ping", "warmup"}
    PROVE  /\ Balanced(P, <<Loop(n, h, e)>>, Of(e, n))
           /\ Balanced(P, <<Polling(Loop(n, h, e))>>, Of(e, n))
<1> DEFINE x == Loop(n, h, e)
           y == Polling(x)
<1>1. x \in Items /\ x.kind = "serial" /\ Effect(x) = Of(e, n)
  BY SerialItem
<1> HIDE DEF x
<1>2. y \in Items /\ y.kind = "serial" /\ Effect(y) = Of(e, n)
  BY <1>1, PollingItem
<1>3. Balanced(P, <<x>>, Effect(x))
  BY <1>1, BalancedItem
<1> HIDE DEF y
<1>4. Balanced(P, <<y>>, Effect(y))
  BY <1>2, BalancedItem
<1> QED
  BY <1>1, <1>2, <1>3, <1>4 DEF x, y

LEMMA BalancedSteps ==
    ASSUME NEW P, Closed(P)
    PROVE  /\ Balanced(P, <<Check>>, None) /\ Balanced(P, <<Require>>, None)
           /\ Balanced(P, <<SomeCompleted>>, Of("need", 1))
           /\ P = InPool => Balanced(P, <<Batch>>, Of("batch", 1))
<1>1. Balanced(P, <<Check>>, Effect(Check))
  BY SingleItem, BalancedItem
<1>2. Balanced(P, <<Require>>, Effect(Require))
  BY SingleItem, BalancedItem
<1>3. Balanced(P, <<SomeCompleted>>, Effect(SomeCompleted))
  BY SingleItem, BalancedItem
<1>4. ASSUME P = InPool
      PROVE  Balanced(P, <<Batch>>, Effect(Batch))
  BY <1>4, SingleItem, BalancedItem
<1> QED
  BY <1>1, <1>2, <1>3, <1>4, SingleItem

(* Parts that count nothing. *)
LEMMA BalancedQuiet ==
    ASSUME NEW P, Closed(P), NEW s, NEW t, NEW d
    PROVE  /\ Balanced(P, s, None) /\ Balanced(P, t, d) => Balanced(P, s \o t, d)
           /\ Balanced(P, s, d) /\ Balanced(P, t, None) => Balanced(P, s \o t, d)
<1>1. ASSUME Balanced(P, s, None), Balanced(P, t, d)
      PROVE  Balanced(P, s \o t, d)
  <2>1. Balanced(P, s \o t, Plus(None, d))
    BY <1>1, BalancedAppend
  <2>2. d \in Counts
    BY <1>1 DEF Balanced
  <2> QED
    BY <2>1, <2>2, CountsAdd
<1>2. ASSUME Balanced(P, s, d), Balanced(P, t, None)
      PROVE  Balanced(P, s \o t, d)
  <2>1. Balanced(P, s \o t, Plus(d, None))
    BY <1>2, BalancedAppend
  <2>2. d \in Counts
    BY <1>2 DEF Balanced
  <2> QED
    BY <2>1, <2>2, CountsAdd
<1> QED
  BY <1>1, <1>2

LEMMA OneMore ==
    ASSUME NEW S, NEW s \in Seq(S), NEW x \in S, NEW t \in Seq(S), Len(t) = Len(s) + 1,
           t[Len(s) + 1] = x, \A i \in 1..Len(s) : t[i] = s[i]
    PROVE  t = s \o <<x>>
<1>1. s \o <<x>> \in Seq(S) /\ Len(s \o <<x>>) = Len(t)
      /\ \A i \in 1..Len(t) : t[i] = (s \o <<x>>)[i]
  OBVIOUS
<1> QED
  BY <1>1, SeqEqual

LEMMA Pair ==
    ASSUME NEW a, NEW x
    PROVE  <<a, x>> = <<a>> \o <<x>>
<1>1. <<a>> \in Seq({a, x}) /\ <<a, x>> \in Seq({a, x}) /\ x \in {a, x}
  OBVIOUS
<1>2. Len(<<a>>) = 1 /\ Len(<<a, x>>) = 2 /\ <<a, x>>[2] = x /\ <<a, x>>[1] = <<a>>[1]
  OBVIOUS
<1>3. /\ Len(<<a, x>>) = Len(<<a>>) + 1 /\ <<a, x>>[Len(<<a>>) + 1] = x
      /\ \A i \in 1..Len(<<a>>) : <<a, x>>[i] = <<a>>[i]
  BY <1>2
<1> QED
  BY <1>1, <1>3, OneMore

LEMMA Triple ==
    ASSUME NEW a, NEW b, NEW x
    PROVE  <<a, b, x>> = <<a, b>> \o <<x>>
<1> DEFINE S == {a, b, x}
           s == <<a, b>>
           t == <<a, b, x>>
<1>1. s \in Seq(S) /\ t \in Seq(S) /\ x \in S
  OBVIOUS
<1>2. Len(t) = Len(s) + 1 /\ t[Len(s) + 1] = x /\ \A i \in 1..Len(s) : t[i] = s[i]
  OBVIOUS
<1> HIDE DEF S, s, t
<1>3. t = s \o <<x>>
  BY <1>1, <1>2, OneMore
<1> QED
  BY <1>3 DEF s, t

LEMMA Quadruple ==
    ASSUME NEW a, NEW b, NEW c, NEW x
    PROVE  <<a, b, c, x>> = <<a, b, c>> \o <<x>>
<1> DEFINE S == {a, b, c, x}
           s == <<a, b, c>>
           t == <<a, b, c, x>>
<1>1. s \in Seq(S) /\ t \in Seq(S) /\ x \in S
  OBVIOUS
<1>2. Len(t) = Len(s) + 1 /\ t[Len(s) + 1] = x /\ \A i \in 1..Len(s) : t[i] = s[i]
  OBVIOUS
<1> HIDE DEF S, s, t
<1>3. t = s \o <<x>>
  BY <1>1, <1>2, OneMore
<1> QED
  BY <1>3 DEF s, t

LEMMA Quintuple ==
    ASSUME NEW a, NEW b, NEW c, NEW e, NEW x
    PROVE  <<a, b, c, e, x>> = <<a, b, c, e>> \o <<x>>
<1> DEFINE S == {a, b, c, e, x}
           s == <<a, b, c, e>>
           t == <<a, b, c, e, x>>
<1>1. s \in Seq(S) /\ t \in Seq(S) /\ x \in S
  OBVIOUS
<1>2. Len(t) = Len(s) + 1 /\ t[Len(s) + 1] = x /\ \A i \in 1..Len(s) : t[i] = s[i]
  OBVIOUS
<1> HIDE DEF S, s, t
<1>3. t = s \o <<x>>
  BY <1>1, <1>2, OneMore
<1> QED
  BY <1>3 DEF s, t

(* Items put one by one behind others that count nothing. *)
LEMMA BalancedTuples ==
    ASSUME NEW P, Closed(P), NEW a, NEW b, NEW c, NEW e, NEW x, NEW d, Balanced(P, <<x>>, d)
    PROVE  /\ Balanced(P, <<a>>, None) => Balanced(P, <<a, x>>, d) /\ Balanced(P, <<x, a>>, d)
           /\ Balanced(P, <<a, b>>, None) => Balanced(P, <<a, b, x>>, d)
           /\ Balanced(P, <<a, b, c>>, None) => Balanced(P, <<a, b, c, x>>, d)
           /\ Balanced(P, <<a, b, c, e>>, None) => Balanced(P, <<a, b, c, e, x>>, d)
<1>1. /\ <<a, x>> = <<a>> \o <<x>> /\ <<x, a>> = <<x>> \o <<a>>
      /\ <<a, b, x>> = <<a, b>> \o <<x>> /\ <<a, b, c, x>> = <<a, b, c>> \o <<x>>
      /\ <<a, b, c, e, x>> = <<a, b, c, e>> \o <<x>>
  <2>1. <<a, x>> = <<a>> \o <<x>>
    BY Pair
  <2>2. <<x, a>> = <<x>> \o <<a>>
    BY Pair
  <2>3. <<a, b, x>> = <<a, b>> \o <<x>>
    BY Triple
  <2>4. <<a, b, c, x>> = <<a, b, c>> \o <<x>>
    BY Quadruple
  <2>5. <<a, b, c, e, x>> = <<a, b, c, e>> \o <<x>>
    BY Quintuple
  <2> QED
    BY <2>1, <2>2, <2>3, <2>4, <2>5
<1>2. ASSUME NEW s, Balanced(P, s, None)
      PROVE  Balanced(P, s \o <<x>>, d) /\ Balanced(P, <<x>> \o s, d)
  BY <1>2, BalancedQuiet
<1> QED
  BY <1>1, <1>2

-----------------------------------------------------------------------------
(* The bodies of the profiles. *)

LEMMA WhenBalanced ==
    ASSUME NEW P, Closed(P), NEW condition, NEW s, NEW d, Balanced(P, s, d)
    PROVE  Balanced(P, When(condition, s), IF condition THEN d ELSE None)
BY BalancedNone DEF When

LEMMA NetworkingBalanced ==
    ASSUME NEW upload
    PROVE  \E d : /\ Balanced(Points, Networking(upload), d)
                  /\ d["download"] = Repetitions
                  /\ d["upload"] = (IF upload THEN Repetitions ELSE 0)
                  /\ d["warmup"] = 0 /\ d["batch"] = 0
<1> DEFINE resolve == Loop(Repetitions, <<>>, "abort")
           first == <<Check, resolve, Require, ConnectAndHandshake, Download>>
           second == When(upload, <<Require, Upload>>)
           third == <<Ping, Check>>
           e == IF upload THEN Of("upload", Repetitions) ELSE None
           d == Plus(Plus(Of("download", Repetitions), e), Of("ping", 1))
<1>1. Closed(Points) /\ Repetitions \in Nat \ {0} /\ 1 \in Nat \ {0}
  BY Scopes, ProfilesAssumption DEF ProfilesAssumption
<1>2. /\ Balanced(Points, <<Check>>, None) /\ Balanced(Points, <<Require>>, None)
      /\ Balanced(Points, <<resolve>>, None)
      /\ Balanced(Points, <<ConnectAndHandshake>>, None)
      /\ Balanced(Points, <<Download>>, Of("download", Repetitions))
      /\ Balanced(Points, <<Upload>>, Of("upload", Repetitions))
      /\ Balanced(Points, <<Ping>>, Of("ping", 1))
  <2>1. Of("abort", Repetitions) = None
    BY <1>1, OfCounts
  <2>2. Balanced(Points, <<Check>>, None) /\ Balanced(Points, <<Require>>, None)
    BY <1>1, BalancedSteps
  <2>3. Balanced(Points, <<resolve>>, None)
    BY <1>1, <2>1, BalancedLoop
  <2>4. Balanced(Points, <<ConnectAndHandshake>>, None)
    BY <1>1, <2>1, BalancedLoop DEF ConnectAndHandshake, Blocks
  <2>5. Balanced(Points, <<Download>>, Of("download", Repetitions))
    BY <1>1, BalancedLoop DEF Download, Blocks
  <2>6. Balanced(Points, <<Upload>>, Of("upload", Repetitions))
    BY <1>1, BalancedLoop DEF Upload, Blocks
  <2>7. Balanced(Points, <<Ping>>, Of("ping", 1))
    BY <1>1, BalancedLoop DEF Ping
  <2> QED
    BY <2>2, <2>3, <2>4, <2>5, <2>6, <2>7
<1> HIDE DEF resolve
<1>3. Balanced(Points, first, Of("download", Repetitions))
  <2>1. Balanced(Points, <<Check, resolve>>, None)
    BY <1>1, <1>2, BalancedTuples
  <2>2. Balanced(Points, <<Check, resolve, Require>>, None)
    BY <1>1, <1>2, <2>1, BalancedTuples
  <2>3. Balanced(Points, <<Check, resolve, Require, ConnectAndHandshake>>, None)
    BY <1>1, <1>2, <2>2, BalancedTuples
  <2> QED
    BY <1>1, <1>2, <2>3, BalancedTuples
<1>4. Balanced(Points, second, e)
  <2>1. Balanced(Points, <<Require, Upload>>, Of("upload", Repetitions))
    BY <1>1, <1>2, BalancedTuples
  <2> QED
    BY <1>1, <2>1, WhenBalanced
<1>5. Balanced(Points, third, Of("ping", 1))
  BY <1>1, <1>2, BalancedTuples
<1>6. Networking(upload) = first \o second \o third
  BY DEF Networking, resolve
<1> HIDE DEF first, second, third, e
<1>7. Balanced(Points, Networking(upload), d)
  <2>1. Balanced(Points, first \o second, Plus(Of("download", Repetitions), e))
    BY <1>1, <1>3, <1>4, BalancedAppend
  <2> QED
    BY <1>1, <1>5, <1>6, <2>1, BalancedAppend
<1>8. /\ d["download"] = Repetitions
      /\ d["upload"] = (IF upload THEN Repetitions ELSE 0)
      /\ d["warmup"] = 0 /\ d["batch"] = 0
  BY <1>1 DEF Plus, Of, None, Tallied, e
<1> QED
  BY <1>7, <1>8

LEMMA WebBalanced ==
    \E d : Balanced(Points, Web, d) /\ d["batch"] = 1 /\ d["need"] = 1 /\ d["download"] = 0
<1> DEFINE warmup == Polling(Loop(Operations, <<"connection">>, "warmup"))
           first == <<Check, Require, warmup, Check>>
           second == Within("pool", <<Batch>>)
           third == <<SomeCompleted>>
           d == Plus(Plus(Of("warmup", Operations), Of("batch", 1)), Of("need", 1))
<1>1. Closed(Points) /\ Closed(InPool) /\ Operations \in Nat \ {0}
  BY Scopes, ProfilesAssumption DEF ProfilesAssumption
<1>2. Balanced(Points, first, Of("warmup", Operations))
  <2>1. Balanced(Points, <<Check>>, None) /\ Balanced(Points, <<Require>>, None)
    BY <1>1, BalancedSteps
  <2>2. Balanced(Points, <<warmup>>, Of("warmup", Operations))
    BY <1>1, BalancedLoop DEF Blocks
  <2> HIDE DEF warmup
  <2>3. Balanced(Points, <<Check, Require>>, None)
    BY <1>1, <2>1, BalancedTuples
  <2>4. Balanced(Points, <<Check, Require, warmup>>, Of("warmup", Operations))
    BY <1>1, <2>2, <2>3, BalancedTuples
  <2>5. Balanced(Points, <<Check, Require, warmup>> \o <<Check>>, Of("warmup", Operations))
    BY <1>1, <2>1, <2>4, BalancedQuiet
  <2> QED
    BY <2>5, Quadruple
<1>3. Balanced(Points, second, Of("batch", 1))
  <2>1. Balanced(InPool, <<Batch>>, Of("batch", 1))
    BY <1>1, BalancedSteps
  <2> QED
    BY <2>1, BalancedPool
<1>4. Balanced(Points, third, Of("need", 1))
  BY <1>1, BalancedSteps
<1>5. Web = first \o second \o third
  BY DEF Web
<1> HIDE DEF first, second, third
<1>6. Balanced(Points, Web, d)
  <2>1. Balanced(Points, first \o second, Plus(Of("warmup", Operations), Of("batch", 1)))
    BY <1>1, <1>2, <1>3, BalancedAppend
  <2> QED
    BY <1>1, <1>4, <1>5, <2>1, BalancedAppend
<1>7. d["batch"] = 1 /\ d["need"] = 1 /\ d["download"] = 0
  BY <1>1 DEF Plus, Of, Tallied
<1> QED
  BY <1>6, <1>7

(* One repetition of the database benchmark. *)
LEMMA RepetitionBalanced ==
    Balanced(Points, DatabaseRepetition, Plus(Of("batch", 1), Of("need", 1)))
<1> DEFINE connect == Loop(Operations, <<"connection">>, "abort")
           point == Within("connection", <<Loop(Operations, <<>>, "abort")>>)
           write == Within("connection", <<Loop(Operations, <<"transaction">>, "abort")>>)
           writes == Repeat(2, write)
           mixed == Within("pool", <<Batch>>)
           need == <<SomeCompleted>>
<1>1. Closed(Points) /\ Closed(InPool) /\ Operations \in Nat \ {0} /\ 2 \in Nat \ {0}
  BY Scopes, ProfilesAssumption DEF ProfilesAssumption
<1>2. Of("abort", Operations) = None
  BY <1>1, OfCounts
<1>3. Balanced(Points, <<Check, connect>>, None)
  <2>1. Balanced(Points, <<Check>>, None)
    BY <1>1, BalancedSteps
  <2>2. Balanced(Points, <<connect>>, None)
    BY <1>1, <1>2, BalancedLoop DEF Blocks
  <2> HIDE DEF connect
  <2> QED
    BY <1>1, <2>1, <2>2, BalancedTuples
<1>4. Balanced(Points, point, None)
  <2>1. Balanced(Points, <<Loop(Operations, <<>>, "abort")>>, None)
    BY <1>1, <1>2, BalancedLoop
  <2> QED
    BY <2>1, BalancedBlock DEF Blocks
<1>5. Balanced(Points, writes, None)
  <2>1. Balanced(Points, <<Loop(Operations, <<"transaction">>, "abort")>>, None)
    BY <1>1, <1>2, BalancedLoop DEF Blocks
  <2>2. Balanced(Points, write, None)
    BY <2>1, BalancedBlock DEF Blocks
  <2>3. Scale(2, None) = None
    BY DEF Scale, None
  <2> HIDE DEF write
  <2> QED
    BY <1>1, <2>2, <2>3, BalancedRepeat
<1>6. Balanced(Points, mixed, Of("batch", 1))
  <2>1. Balanced(InPool, <<Batch>>, Of("batch", 1))
    BY <1>1, BalancedSteps
  <2> QED
    BY <2>1, BalancedPool
<1>7. Balanced(Points, need, Of("need", 1))
  BY <1>1, BalancedSteps
<1>8. DatabaseRepetition = <<Check, connect>> \o point \o writes \o mixed \o need
  BY DEF DatabaseRepetition
<1> HIDE DEF connect, point, writes, mixed, need
<1>9. Balanced(Points, <<Check, connect>> \o point, None)
  BY <1>1, <1>3, <1>4, BalancedQuiet
<1>10. Balanced(Points, <<Check, connect>> \o point \o writes, None)
  BY <1>1, <1>5, <1>9, BalancedQuiet
<1>11. Balanced(Points, <<Check, connect>> \o point \o writes \o mixed, Of("batch", 1))
  BY <1>1, <1>6, <1>10, BalancedQuiet
<1> QED
  BY <1>1, <1>7, <1>8, <1>11, BalancedAppend

LEMMA DatabaseBalanced ==
    \E d : /\ Balanced(Points, Database, d)
           /\ d["batch"] = Repetitions /\ d["need"] = Repetitions
           /\ d["download"] = 0 /\ d["warmup"] = 0
<1> DEFINE load == Within("transaction", <<Loop(Operations, <<>>, "abort")>>)
           first == Within("connection", <<Loop(Operations, <<>>, "abort")>>)
           repetitions == Repeat(Repetitions, DatabaseRepetition)
           last == Within("connection", <<Require>>)
           check == <<Check>>
           body == InitializeDatabase \o first \o repetitions \o check \o last
           d == Scale(Repetitions, Plus(Of("batch", 1), Of("need", 1)))
<1>1. Closed(Points) /\ Operations \in Nat \ {0} /\ Repetitions \in Nat \ {0}
  BY Scopes, ProfilesAssumption DEF ProfilesAssumption
<1>2. /\ Balanced(Points, check, None) /\ Balanced(Points, <<Require>>, None)
      /\ Balanced(Points, <<Loop(Operations, <<>>, "abort")>>, None)
  <2>1. Balanced(Points, check, None) /\ Balanced(Points, <<Require>>, None)
    BY <1>1, BalancedSteps
  <2>2. Of("abort", Operations) = None
    BY <1>1, OfCounts
  <2> QED
    BY <1>1, <2>1, <2>2, BalancedLoop
<1>3. Balanced(Points, load, None) /\ Balanced(Points, first, None) /\ Balanced(Points, last, None)
  <2>1. Balanced(Points, load, None)
    BY <1>2, BalancedBlock DEF Blocks
  <2>2. Balanced(Points, first, None)
    BY <1>2, BalancedBlock DEF Blocks
  <2>3. Balanced(Points, last, None)
    BY <1>2, BalancedBlock DEF Blocks
  <2> QED
    BY <2>1, <2>2, <2>3
<1>4. Balanced(Points, InitializeDatabase, None)
  <2> HIDE DEF load
  <2>1. Balanced(Points, <<Require>> \o load, None)
    BY <1>1, <1>2, <1>3, BalancedQuiet
  <2>2. Balanced(Points, Within("connection", <<Require>> \o load), None)
    BY <2>1, BalancedBlock DEF Blocks
  <2> QED
    BY <2>2 DEF InitializeDatabase, load
<1>5. Balanced(Points, repetitions, d)
  BY <1>1, RepetitionBalanced, BalancedRepeat
<1>6. Database = <<Check, Require>> \o Within("directory", body)
  BY DEF Database
<1> HIDE DEF first, repetitions, last, check, d
<1>7. Balanced(Points, InitializeDatabase \o first, None)
  BY <1>1, <1>3, <1>4, BalancedQuiet
<1>8. Balanced(Points, InitializeDatabase \o first \o repetitions, d)
  BY <1>1, <1>5, <1>7, BalancedQuiet
<1>9. Balanced(Points, InitializeDatabase \o first \o repetitions \o check, d)
  BY <1>1, <1>2, <1>8, BalancedQuiet
<1>10. Balanced(Points, body, d)
  BY <1>1, <1>3, <1>9, BalancedQuiet
<1> HIDE DEF body
<1>11. Balanced(Points, Within("directory", body), d)
  BY <1>10, BalancedBlock DEF Blocks
<1>12. Balanced(Points, <<Check, Require>>, None)
  <2>1. Balanced(Points, <<Check>>, None)
    BY <1>2 DEF check
  <2> QED
    BY <1>1, <1>2, <2>1, BalancedTuples
<1>13. Balanced(Points, Database, d)
  BY <1>1, <1>6, <1>11, <1>12, BalancedQuiet
<1>14. /\ d["batch"] = Repetitions /\ d["need"] = Repetitions
       /\ d["download"] = 0 /\ d["warmup"] = 0
  BY <1>1 DEF d, Scale, Plus, Of, Tallied
<1> QED
  BY <1>13, <1>14

LEMMA KernelsBalanced ==
    ASSUME NEW n \in Nat \ {0}
    PROVE  Balanced(Points, <<Kernels(n)>>, None)
<1>1. Closed(Points) /\ Of("abort", n) = None
  BY Scopes, OfCounts
<1> QED
  BY <1>1, BalancedLoop DEF Kernels

LEMMA ComputeBalanced ==
    ASSUME NEW workers
    PROVE  \E d : /\ Balanced(Points, Compute(workers), d)
                  /\ d["warmup"] = 0 /\ d["download"] = 0
<1> DEFINE single == <<Check, Kernels(Operations), Kernels(Repetitions)>>
           again == <<Check, Batch>>
           batches == <<Batch>> \o Repeat(Repetitions, again)
           last == <<Kernels(3 * Repetitions)>>
           e == Plus(Of("batch", 1), Scale(Repetitions, Of("batch", 1)))
           d == IF workers THEN e ELSE None
<1>1. /\ Closed(Points) /\ Closed(InPool) /\ Operations \in Nat \ {0}
      /\ Repetitions \in Nat \ {0} /\ 3 * Repetitions \in Nat \ {0}
  BY Scopes, ProfilesAssumption DEF ProfilesAssumption
<1>2. Balanced(Points, single, None)
  <2>1. Balanced(Points, <<Check>>, None)
    BY <1>1, BalancedSteps
  <2>2. /\ Balanced(Points, <<Kernels(Operations)>>, None)
        /\ Balanced(Points, <<Kernels(Repetitions)>>, None)
    BY <1>1, KernelsBalanced
  <2>3. Balanced(Points, <<Check, Kernels(Operations)>>, None)
    BY <1>1, <2>1, <2>2, BalancedTuples
  <2> QED
    BY <1>1, <2>2, <2>3, BalancedTuples
<1>3. Balanced(Points, Within("pool", batches), e)
  <2>1. Balanced(InPool, <<Batch>>, Of("batch", 1)) /\ Balanced(InPool, <<Check>>, None)
    BY <1>1, BalancedSteps
  <2>2. Balanced(InPool, again, Of("batch", 1))
    BY <1>1, <2>1, BalancedTuples
  <2> HIDE DEF again
  <2>3. Balanced(InPool, Repeat(Repetitions, again), Scale(Repetitions, Of("batch", 1)))
    BY <1>1, <2>2, BalancedRepeat
  <2>4. Balanced(InPool, batches, e)
    BY <1>1, <2>1, <2>3, BalancedAppend
  <2> QED
    BY <2>4, BalancedPool
<1>4. Balanced(Points, MultiCore(workers), d)
  <2>1. CASE workers
    BY <1>3, <2>1 DEF MultiCore
  <2>2. CASE ~workers
    <3>1. Balanced(Points, <<Kernels(Repetitions)>>, None)
      BY <1>1, KernelsBalanced
    <3> QED
      BY <2>2, <3>1 DEF MultiCore
  <2> QED
    BY <2>1, <2>2
<1>5. Balanced(Points, last, None)
  BY <1>1, KernelsBalanced
<1>6. Compute(workers) = single \o MultiCore(workers) \o last
  BY DEF Compute
<1>7. d["warmup"] = 0 /\ d["download"] = 0
  BY <1>1 DEF Plus, Scale, Of, None, Tallied
<1> HIDE DEF single, last, d
<1>8. Balanced(Points, single \o MultiCore(workers), d)
  BY <1>1, <1>2, <1>4, BalancedQuiet
<1>9. Balanced(Points, Compute(workers), d)
  BY <1>1, <1>5, <1>6, <1>8, BalancedQuiet
<1> QED
  BY <1>7, <1>9

LEMMA StorageBalanced == Balanced(Points, Storage, None)
<1> DEFINE files == Polling(Loop(2, <<"file">>, "abort"))
           random == Polling(Loop(Operations, <<"file">>, "abort"))
           repetitions == Repeat(Repetitions, StorageRepetition)
           body == <<files>> \o repetitions \o <<Check>>
<1>1. /\ Closed(Points) /\ Operations \in Nat \ {0} /\ Repetitions \in Nat \ {0}
      /\ 2 \in Nat \ {0} /\ Of("abort", 2) = None /\ Of("abort", Operations) = None
  BY Scopes, OfCounts, ProfilesAssumption DEF ProfilesAssumption
<1>2. Balanced(Points, <<Check>>, None) /\ Balanced(Points, <<Require>>, None)
  BY <1>1, BalancedSteps
<1>3. Balanced(Points, <<files>>, None)
  BY <1>1, BalancedLoop DEF Blocks
<1>4. Balanced(Points, <<random>>, None)
  BY <1>1, BalancedLoop DEF Blocks
<1>5. Balanced(Points, repetitions, None)
  <2> HIDE DEF random
  <2>1. Balanced(Points, StorageRepetition, None)
    BY <1>1, <1>2, <1>4, BalancedTuples DEF StorageRepetition, random
  <2>2. Scale(Repetitions, None) = None
    BY <1>1 DEF Scale, None
  <2> QED
    BY <1>1, <2>1, <2>2, BalancedRepeat
<1>6. Storage = <<Check, Require>> \o Within("directory", body)
  BY DEF Storage
<1> HIDE DEF files, repetitions
<1>7. Balanced(Points, <<files>> \o repetitions, None)
  BY <1>1, <1>3, <1>5, BalancedQuiet
<1>8. Balanced(Points, body, None)
  BY <1>1, <1>2, <1>7, BalancedQuiet
<1> HIDE DEF body
<1>9. Balanced(Points, Within("directory", body), None)
  BY <1>8, BalancedBlock DEF Blocks
<1>10. Balanced(Points, <<Check, Require>>, None)
  BY <1>1, <1>2, BalancedTuples
<1> QED
  BY <1>1, <1>6, <1>9, <1>10, BalancedQuiet

-----------------------------------------------------------------------------
(* Whole plans. *)

End_ == Item("end")
Measured == Item("measure")
Skipped == Item("skip")

(* f gives the point before every item of plan s, and the one after the last. *)
Annotates(f, s) ==
    /\ f \in [1..(Len(s) + 1) -> Points] /\ f[1] = Start
    /\ \A i \in 1..Len(s) : Moves(f[i], s[i], f[i + 1])

(* A measurement that fails has an end to go on after. *)
Closing(s) ==
    \E m \in 1..Len(s) : /\ s[m].kind = "measure"
                         /\ \A i \in (m + 1)..Len(s) : s[i].kind \in {"skip", "end"}

OnlyEndEnds(s) ==
    /\ Len(s) > 1 /\ \A i \in 1..Len(s) : s[i].kind = "end" <=> i = Len(s)

(* The plans of all profiles but general make one measurement, at their end. *)
MeasuresOnce(s) ==
    \A i \in 1..Len(s) : s[i].kind \in {"measure", "skip"} => i = Len(s) - 1

(* From the first item with a block on, only the last but one measures. *)
HoldsLast(s) ==
    \A i \in 1..Len(s) : s[i].holds # <<>> =>
        \A j \in i..(Len(s) - 2) : s[j].kind # "measure"

(* Items of the general profile. *)
PlainItems == {x \in Items : x.kind # "batch" /\ x.onError = "abort"}

LEMMA LastItems ==
    /\ End_ \in Items /\ End_.kind = "end" /\ Effect(End_) = None
    /\ Measured \in Items /\ Measured.kind = "measure" /\ Effect(Measured) = None
    /\ Skipped \in Items /\ Skipped.kind = "skip" /\ Effect(Skipped) = None
<1>1. End_ \in Items /\ Measured \in Items /\ Skipped \in Items
  BY DEF End_, Measured, Skipped, Item, Work, Items, Kinds
<1>2. End_.kind = "end" /\ Measured.kind = "measure" /\ Skipped.kind = "skip"
  BY DEF End_, Measured, Skipped, Item, Work
<1> QED
  BY <1>1, <1>2 DEF Effect, None, Tallied

LEMMA StandingStill ==
    ASSUME NEW p \in Points, p.open = <<>>, NEW x,
           x.kind \in {"measure", "skip", "end"}, Effect(x) = None
    PROVE  Moves(p, x, p) /\ Trail(<<x>>, p, p)
<1>1. Plus(p.done, None) = p.done
  BY CountsAdd DEF Points
<1>2. Moves(p, x, p)
  BY <1>1 DEF Moves
<1> QED
  BY <1>2, OneItem

LEMMA StartPoint == Start \in Points /\ Start.open = <<>>
BY NoneIsCounts DEF Start, Points

(* Plans of one measurement. *)
LEMMA MeasuredPlan ==
    ASSUME NEW body, NEW d, Balanced(Points, body, d),
           NEW s, s = <<Check>> \o Measure(body) \o <<End_>>
    PROVE  /\ s \in Seq(Items) /\ OnlyEndEnds(s) /\ Closing(s) /\ MeasuresOnce(s)
           /\ \E f : Annotates(f, s) /\ f[Len(s)].done = d
<1> DEFINE steps == <<Check, Require, Check>>
           front == <<Check>> \o body
           prefix == front \o steps
           t == prefix \o <<Measured>>
           n == Len(prefix)
<1>1. body \in Seq(BodyItems) /\ d \in Counts /\ Closed(Points) /\ BodyItems \subseteq Items
  BY Scopes DEF Balanced, BodyItems
<1>2. Balanced(Points, <<Check>>, None) /\ Balanced(Points, <<Require>>, None)
  BY <1>1, BalancedSteps
<1>3. Balanced(Points, steps, None)
  <2>1. Balanced(Points, <<Check, Require>>, None)
    BY <1>1, <1>2, BalancedTuples
  <2> QED
    BY <1>1, <1>2, <2>1, BalancedTuples
<1>4. Balanced(Points, front, d)
  BY <1>1, <1>2, BalancedQuiet
<1>5. Balanced(Points, prefix, d)
  <2> HIDE DEF front, steps
  <2> QED
    BY <1>1, <1>3, <1>4, BalancedQuiet
<1>6. prefix \in Seq(BodyItems) /\ prefix \in Seq(Items)
  BY <1>1, <1>5 DEF Balanced, BodyItems
<1>7. s = t \o <<End_>>
  <2> DEFINE all == <<Check, Require, Check, Measured>>
  <2>1. all = steps \o <<Measured>>
    BY Quadruple
  <2>2. /\ <<Check>> \in Seq(Items) /\ body \in Seq(Items) /\ steps \in Seq(Items)
        /\ <<Measured>> \in Seq(Items)
    BY <1>1, <1>2, <1>3, LastItems DEF Balanced, BodyItems
  <2>3. Measure(body) = body \o all
    BY DEF Measure, Measured
  <2> HIDE DEF all, steps
  <2>4. <<Check>> \o (body \o (steps \o <<Measured>>)) = t
    <3>1. body \o (steps \o <<Measured>>) = (body \o steps) \o <<Measured>>
      BY <2>2, ConcatAssociative
    <3>2. <<Check>> \o ((body \o steps) \o <<Measured>>) = (<<Check>> \o (body \o steps)) \o <<Measured>>
      BY <2>2, ConcatAssociative
    <3>3. <<Check>> \o (body \o steps) = (<<Check>> \o body) \o steps
      BY <2>2, ConcatAssociative
    <3> QED
      BY <3>1, <3>2, <3>3
  <2> QED
    BY <2>1, <2>3, <2>4
<1> HIDE DEF prefix
<1>8. /\ t \in Seq(Items) /\ Len(t) = n + 1 /\ n \in Nat
      /\ t[n + 1] = Measured /\ \A i \in 1..n : t[i] = prefix[i]
  BY <1>6, LastItems
<1> HIDE DEF t, n
<1>9. /\ s \in Seq(Items) /\ Len(s) = n + 2
      /\ s[n + 2] = End_ /\ \A i \in 1..(n + 1) : s[i] = t[i]
  <2>1. <<End_>> \in Seq(Items) /\ Len(<<End_>>) = 1 /\ <<End_>>[1] = End_
    BY LastItems
  <2>2. /\ t \o <<End_>> \in Seq(Items) /\ Len(t \o <<End_>>) = Len(t) + 1
        /\ (t \o <<End_>>)[Len(t) + 1] = End_
        /\ \A i \in 1..Len(t) : (t \o <<End_>>)[i] = t[i]
    BY <1>8, <2>1
  <2>3. Len(t) + 1 = n + 2
    BY <1>8
  <2> QED
    BY <1>7, <1>8, <2>2, <2>3
<1>10. \A i \in 1..n : s[i].kind \notin {"measure", "skip", "end"}
  <2>1. \A i \in 1..n : s[i] = prefix[i] /\ prefix[i] \in BodyItems
    BY <1>6, <1>8, <1>9 DEF n
  <2> QED
    BY <2>1 DEF BodyItems
<1>11. s[n + 1].kind = "measure" /\ s[n + 2].kind = "end"
  <2>1. s[n + 1] = t[n + 1]
    BY <1>8, <1>9
  <2> QED
    BY <1>8, <1>9, <2>1, LastItems
<1> DEFINE p == After(Start, d)
<1>12. Trail(s, Start, p) /\ p.open = <<>> /\ p.done = d
  <2>1. p \in Points /\ p.open = <<>> /\ p.done = d
    BY <1>1, StartPoint, AfterPoint, CountsAdd DEF After, Start
  <2>2. Trail(prefix, Start, p)
    BY <1>5, StartPoint DEF Balanced
  <2> HIDE DEF p
  <2>3. Trail(<<Measured>>, p, p) /\ Trail(<<End_>>, p, p)
    BY <2>1, LastItems, StandingStill
  <2>4. Trail(t, Start, p)
    <3>1. <<Measured>> \in Seq(Items)
      BY LastItems
    <3> QED
      BY <1>6, <2>2, <2>3, <3>1, Concatenation DEF t
  <2>5. <<End_>> \in Seq(Items)
    BY LastItems
  <2> QED
    BY <1>7, <1>8, <2>1, <2>3, <2>4, <2>5, Concatenation
<1> HIDE DEF p
<1>13. PICK f \in [1..(Len(s) + 1) -> Points] :
         /\ f[1] = Start /\ f[Len(s) + 1] = p
         /\ \A i \in 1..Len(s) : Moves(f[i], s[i], f[i + 1])
  BY <1>12 DEF Trail
<1>14. f[Len(s)].done = d
  <2>1. Len(s) \in 1..Len(s) /\ s[Len(s)] = End_
    BY <1>8, <1>9
  <2>2. Moves(f[Len(s)], End_, p) /\ f[Len(s)] \in Points
    BY <1>13, <2>1
  <2>3. p.done = Plus(f[Len(s)].done, None) /\ f[Len(s)].done \in Counts
    BY <2>2, LastItems DEF Moves, Points
  <2> QED
    BY <1>12, <2>3, CountsAdd
<1>15. Annotates(f, s)
  BY <1>13 DEF Annotates
<1>16. OnlyEndEnds(s)
  BY <1>8, <1>9, <1>10, <1>11 DEF OnlyEndEnds
<1>17. MeasuresOnce(s)
  BY <1>8, <1>9, <1>10, <1>11 DEF MeasuresOnce
<1>18. Closing(s)
  <2>1. n + 1 \in 1..Len(s) /\ \A i \in (n + 2)..Len(s) : i = n + 2
    BY <1>8, <1>9
  <2> QED
    BY <1>8, <1>11, <2>1 DEF Closing
<1> QED
  BY <1>9, <1>14, <1>15, <1>16, <1>17, <1>18

(* Parts of the general plan lead from its start to its start. *)
Aside(s) == s \in Seq(PlainItems) /\ Trail(s, Start, Start)

LEMMA AsideAppend ==
    ASSUME NEW s, NEW t, Aside(s), Aside(t)
    PROVE  Aside(s \o t)
<1>1. s \in Seq(PlainItems) /\ t \in Seq(PlainItems) /\ s \in Seq(Items) /\ t \in Seq(Items)
  BY DEF Aside, PlainItems
<1> QED
  BY <1>1, Concatenation DEF Aside

LEMMA AsideBody ==
    ASSUME NEW s \in Seq(PlainItems), Balanced(Points, s, None)
    PROVE  Aside(s)
<1>1. After(Start, None) = Start
  BY StartPoint, AfterPoint, NoneIsCounts
<1> QED
  BY <1>1, StartPoint DEF Aside, Balanced

LEMMA AsideLast ==
    Aside(<<Measured>>) /\ Aside(<<Skipped>>) /\ Aside(<<End_>>)
<1>1. Measured \in PlainItems /\ Skipped \in PlainItems /\ End_ \in PlainItems
  BY LastItems DEF PlainItems, Measured, Skipped, End_, Item, Work
<1>2. Trail(<<Measured>>, Start, Start) /\ Trail(<<Skipped>>, Start, Start)
      /\ Trail(<<End_>>, Start, Start)
  BY LastItems, StartPoint, StandingStill
<1> QED
  BY <1>1, <1>2 DEF Aside

LEMMA ClosingBefore ==
    ASSUME NEW s \in Seq(Items), NEW t \in Seq(Items), Closing(t)
    PROVE  Closing(s \o t)
<1> DEFINE u == s \o t
           k == Len(s)
<1>1. PICK m \in 1..Len(t) : /\ t[m].kind = "measure"
                             /\ \A i \in (m + 1)..Len(t) : t[i].kind \in {"skip", "end"}
  BY DEF Closing
<1>2. k \in Nat /\ Len(t) \in Nat /\ Len(u) = k + Len(t)
      /\ \A i \in (k + 1)..(k + Len(t)) : u[i] = t[i - k]
  OBVIOUS
<1> HIDE DEF k, u
<1>3. k + m \in 1..Len(u) /\ u[k + m].kind = "measure"
  <2>1. k + m \in (k + 1)..(k + Len(t)) /\ (k + m) - k = m
    BY <1>2
  <2> QED
    BY <1>1, <1>2, <2>1
<1>4. \A i \in ((k + m) + 1)..Len(u) : u[i].kind \in {"skip", "end"}
  <2>1. \A i \in ((k + m) + 1)..Len(u) :
           i \in (k + 1)..(k + Len(t)) /\ i - k \in (m + 1)..Len(t)
    BY <1>2
  <2> QED
    BY <1>1, <1>2, <2>1
<1>5. Closing(u)
  BY <1>3, <1>4 DEF Closing
<1> QED
  BY <1>5 DEF u

LEMMA ClosingAfter ==
    ASSUME NEW s \in Seq(Items), Closing(s), NEW x \in Items, x.kind \in {"skip", "end"}
    PROVE  Closing(s \o <<x>>)
<1> DEFINE u == s \o <<x>>
           k == Len(s)
<1>1. PICK m \in 1..k : /\ s[m].kind = "measure"
                        /\ \A i \in (m + 1)..k : s[i].kind \in {"skip", "end"}
  BY DEF Closing
<1>2. k \in Nat /\ Len(u) = k + 1 /\ u[k + 1] = x /\ \A i \in 1..k : u[i] = s[i]
  OBVIOUS
<1> HIDE DEF k, u
<1>3. m \in 1..Len(u) /\ u[m].kind = "measure"
  BY <1>1, <1>2
<1>4. \A i \in (m + 1)..Len(u) : u[i].kind \in {"skip", "end"}
  <2>1. \A i \in (m + 1)..Len(u) : i = k + 1 \/ (i \in 1..k /\ i \in (m + 1)..k)
    BY <1>2
  <2> QED
    BY <1>1, <1>2, <2>1
<1>5. Closing(u)
  BY <1>3, <1>4 DEF Closing
<1> QED
  BY <1>5 DEF u

LEMMA ClosingMeasured == Closing(<<Measured>>)
<1>1. Len(<<Measured>>) = 1 /\ <<Measured>>[1] = Measured /\ 1 \in 1..1
  OBVIOUS
<1>2. \A i \in (1 + 1)..1 : <<Measured>>[i].kind \in {"skip", "end"}
  OBVIOUS
<1> QED
  BY <1>1, <1>2, LastItems DEF Closing

(* No item before the last one ends the plan. *)
NoEnd(s) == \A i \in 1..Len(s) : s[i].kind # "end"

LEMMA NoEndAppend ==
    ASSUME NEW s \in Seq(Items), NEW t \in Seq(Items), NoEnd(s), NoEnd(t)
    PROVE  NoEnd(s \o t)
<1>1. \A i \in 1..Len(s \o t) : \/ i \in 1..Len(s) /\ (s \o t)[i] = s[i]
                                \/ i - Len(s) \in 1..Len(t) /\ (s \o t)[i] = t[i - Len(s)]
  OBVIOUS
<1> HIDE DEF NoEnd
<1> QED
  BY <1>1 DEF NoEnd

(* A part of the general plan. *)
GeneralPart(s) == Aside(s) /\ NoEnd(s) /\ s \in Seq(Items)

LEMMA PartAppend ==
    ASSUME NEW s, NEW t, GeneralPart(s), GeneralPart(t)
    PROVE  GeneralPart(s \o t)
<1>1. s \in Seq(Items) /\ t \in Seq(Items) /\ NoEnd(s) /\ NoEnd(t) /\ Aside(s) /\ Aside(t)
  BY DEF GeneralPart
<1>2. s \o t \in Seq(Items)
  BY <1>1
<1> QED
  BY <1>1, <1>2, NoEndAppend, AsideAppend DEF GeneralPart

LEMMA BodyPart ==
    ASSUME NEW s \in Seq(PlainItems), Balanced(Points, s, None)
    PROVE  GeneralPart(s)
<1>1. s \in Seq(BodyItems) /\ s \in Seq(Items)
  BY DEF Balanced, BodyItems
<1>2. \A i \in 1..Len(s) : s[i] \in BodyItems
  BY <1>1
<1>3. NoEnd(s)
  BY <1>2 DEF NoEnd, BodyItems
<1> QED
  BY <1>1, <1>3, AsideBody DEF GeneralPart

LEMMA MeasuredPart ==
    GeneralPart(<<Measured>>) /\ GeneralPart(<<Skipped>>) /\ Closing(<<Measured>>)
<1>1. <<Measured>> \in Seq(Items) /\ <<Skipped>> \in Seq(Items)
  BY LastItems
<1>2. NoEnd(<<Measured>>) /\ NoEnd(<<Skipped>>)
  BY LastItems DEF NoEnd
<1> QED
  BY <1>1, <1>2, AsideLast, ClosingMeasured DEF GeneralPart

LEMMA CheckPart ==
    /\ GeneralPart(<<Check>>) /\ GeneralPart(<<Require>>)
    /\ Check \in PlainItems /\ Require \in PlainItems
<1>1. Balanced(Points, <<Check>>, None) /\ Balanced(Points, <<Require>>, None)
  BY Scopes, BalancedSteps
<1>2. Check.kind # "batch" /\ Require.kind # "batch"
      /\ Check.onError = "abort" /\ Require.onError = "abort"
  BY DEF Check, Require, Item, Work
<1>3. Check \in PlainItems /\ Require \in PlainItems
  BY <1>2, SingleItem DEF PlainItems
<1>4. <<Check>> \in Seq(PlainItems) /\ <<Require>> \in Seq(PlainItems)
  BY <1>3
<1> QED
  BY <1>1, <1>3, <1>4, BodyPart

(* A part, and one more that ends with a measurement. *)
LEMMA ClosingPart ==
    ASSUME NEW s, NEW t, GeneralPart(s), GeneralPart(t), Closing(t)
    PROVE  GeneralPart(s \o t) /\ Closing(s \o t)
BY PartAppend, ClosingBefore DEF GeneralPart

LEMMA GeneralStoragePart == GeneralPart(GeneralStorage) /\ Closing(GeneralStorage)
<1> DEFINE files == Polling(Loop(2, <<"file">>, "abort"))
           block == Within("directory", <<files, Check>>)
           last == <<Require, Measured>>
<1>1. Closed(Points) /\ 2 \in Nat \ {0} /\ Of("abort", 2) = None
  BY Scopes, OfCounts
<1>2. Balanced(Points, <<files>>, None)
  BY <1>1, BalancedLoop DEF Blocks
<1>3. files \in PlainItems
  <2>1. "file" \in Blocks \ {"pool"}
    BY DEF Blocks
  <2>2. Loop(2, <<"file">>, "abort") \in Items
    BY <1>1, <2>1, SerialItem
  <2>3. /\ Loop(2, <<"file">>, "abort").kind = "serial"
        /\ Loop(2, <<"file">>, "abort").onError = "abort"
    BY DEF Loop, Work
  <2> QED
    BY <2>2, <2>3, PollingItem DEF PlainItems
<1> HIDE DEF files
<1>4. GeneralPart(block)
  <2> DEFINE inner == <<files, Check>>
  <2>1. Balanced(Points, <<Check>>, None)
    BY <1>1, BalancedSteps
  <2>2. Balanced(Points, inner, None)
    BY <1>1, <1>2, <2>1, BalancedTuples
  <2>3. Balanced(Points, block, None)
    BY <2>2, BalancedBlock DEF Blocks
  <2>4. Enter("directory") \in PlainItems /\ Leave \in PlainItems
    <3>1. Enter("directory") \in Items /\ Leave \in Items
      BY EnterLeave DEF Blocks, BodyItems
    <3>2. /\ Enter("directory").kind # "batch" /\ Enter("directory").onError = "abort"
          /\ Leave.kind # "batch" /\ Leave.onError = "abort"
      BY DEF Enter, Leave, Item, Work
    <3> QED
      BY <3>1, <3>2 DEF PlainItems
  <2>5. /\ <<Enter("directory")>> \in Seq(PlainItems) /\ <<Leave>> \in Seq(PlainItems)
        /\ inner \in Seq(PlainItems)
    BY <1>3, <2>4, CheckPart
  <2> HIDE DEF inner
  <2>6. <<Enter("directory")>> \o inner \o <<Leave>> \in Seq(PlainItems)
    BY <2>5
  <2> QED
    BY <2>3, <2>6, BodyPart DEF Within, inner
<1>5. GeneralPart(last) /\ Closing(last)
  <2>1. last = <<Require>> \o <<Measured>>
    BY Pair
  <2> QED
    BY <2>1, CheckPart, MeasuredPart, ClosingPart
<1>6. GeneralStorage = <<Check>> \o block \o last
  BY DEF GeneralStorage, Measured, files
<1> HIDE DEF block, last
<1>7. GeneralPart(<<Check>> \o block)
  BY <1>4, CheckPart, PartAppend
<1> QED
  BY <1>5, <1>6, <1>7, ClosingPart

LEMMA GeneralPlan ==
    ASSUME NEW storage, NEW s, s = <<Check>> \o General(storage) \o <<End_>>
    PROVE  /\ s \in Seq(PlainItems) /\ OnlyEndEnds(s) /\ Closing(s)
           /\ \E f : Annotates(f, s) /\ f[Len(s)].done = None
<1> DEFINE kernel == <<Kernels(1), Measured>>
           two == Repeat(2, kernel)
           third == IF storage THEN GeneralStorage ELSE <<Skipped>>
           t == <<Check>> \o General(storage)
<1>1. GeneralPart(kernel) /\ Closing(kernel)
  <2>1. kernel = <<Kernels(1)>> \o <<Measured>>
    BY Pair
  <2>2. GeneralPart(<<Kernels(1)>>)
    <3>1. 1 \in Nat \ {0}
      OBVIOUS
    <3>2. Balanced(Points, <<Kernels(1)>>, None)
      BY <3>1, KernelsBalanced
    <3>3. Loop(1, <<>>, "abort") \in Items
      BY <3>1, SerialItem
    <3>4. Loop(1, <<>>, "abort").kind = "serial" /\ Loop(1, <<>>, "abort").onError = "abort"
      BY DEF Loop, Work
    <3>5. Kernels(1) \in PlainItems
      BY <3>3, <3>4, PollingItem DEF Kernels, PlainItems
    <3>6. <<Kernels(1)>> \in Seq(PlainItems)
      BY <3>5
    <3> QED
      BY <3>2, <3>6, BodyPart
  <2> QED
    BY <2>1, <2>2, MeasuredPart, ClosingPart
<1> HIDE DEF kernel
<1>2. two = kernel \o kernel
  <2>1. 2 \in Nat \ {0} /\ 2 \in 2..2 /\ 2 - 1 = 1
    OBVIOUS
  <2>2. PICK g : g[1] = kernel /\ Repeat(2, kernel) = g[2]
                 /\ \A i \in 2..2 : g[i] = g[i - 1] \o kernel
    BY <2>1, RepeatParts
  <2> QED
    BY <2>1, <2>2
<1> HIDE DEF two
<1>3. GeneralPart(two) /\ Closing(two)
  BY <1>1, <1>2, ClosingPart
<1>4. General(storage) = two \o third
  BY DEF General, two, kernel, Measured, Skipped
<1>5. GeneralPart(General(storage)) /\ Closing(General(storage))
  <2>1. CASE storage
    BY <1>3, <1>4, <2>1, GeneralStoragePart, ClosingPart
  <2>2. CASE ~storage
    <3>1. GeneralPart(two \o <<Skipped>>)
      BY <1>3, MeasuredPart, PartAppend
    <3>2. Closing(two \o <<Skipped>>)
      BY <1>3, LastItems, ClosingAfter DEF GeneralPart
    <3> QED
      BY <1>4, <2>2, <3>1, <3>2
  <2> QED
    BY <2>1, <2>2
<1>6. GeneralPart(t) /\ Closing(t)
  BY <1>5, CheckPart, ClosingPart
<1>7. t \in Seq(Items) /\ Len(t) > 0 /\ NoEnd(t) /\ Aside(t)
  <2>1. <<Check>> \in Seq(Items) /\ General(storage) \in Seq(Items)
    BY <1>5, CheckPart DEF GeneralPart
  <2>2. Len(t) > 0
    BY <2>1
  <2> QED
    BY <1>6, <2>2 DEF GeneralPart
<1> HIDE DEF t
<1>8. s = t \o <<End_>>
  BY DEF t
<1>9. Closing(s)
  BY <1>6, <1>7, <1>8, LastItems, ClosingAfter
<1>10. Aside(s)
  BY <1>7, <1>8, AsideLast, AsideAppend
<1>11. OnlyEndEnds(s)
  <2> DEFINE n == Len(t)
             u == t \o <<End_>>
  <2>1. n \in Nat \ {0} /\ \A i \in 1..n : t[i].kind # "end"
    BY <1>7 DEF NoEnd
  <2>2. Len(u) = n + 1 /\ u[n + 1] = End_ /\ \A i \in 1..n : u[i] = t[i]
    BY <1>7, LastItems
  <2> HIDE DEF n, u
  <2>3. \A i \in 1..Len(u) : i \in 1..n \/ i = n + 1
    BY <2>1, <2>2
  <2>4. \A i \in 1..Len(u) : u[i].kind = "end" <=> i = Len(u)
    BY <2>1, <2>2, <2>3, LastItems
  <2> QED
    BY <1>8, <2>1, <2>2, <2>4 DEF OnlyEndEnds, u
<1>12. PICK f \in [1..(Len(s) + 1) -> Points] :
         /\ f[1] = Start /\ f[Len(s) + 1] = Start
         /\ \A i \in 1..Len(s) : Moves(f[i], s[i], f[i + 1])
  BY <1>10 DEF Aside, Trail
<1>13. Annotates(f, s)
  BY <1>12 DEF Annotates
<1>14. f[Len(s)].done = None
  <2>1. Len(s) \in 1..Len(s) /\ s[Len(s)] = End_
    BY <1>7, <1>8, LastItems
  <2>2. Moves(f[Len(s)], End_, Start) /\ f[Len(s)] \in Points
    BY <1>12, <2>1
  <2>3. Start.done = Plus(f[Len(s)].done, None) /\ f[Len(s)].done \in Counts
    BY <2>2, LastItems DEF Moves, Points
  <2> QED
    BY <2>3, CountsAdd DEF Start
<1> QED
  BY <1>9, <1>10, <1>11, <1>13, <1>14 DEF Aside

(* Items with no block. *)
BareItems == {x \in Items : x.holds = <<>>}

LEMMA BareFront ==
    /\ Repeat(2, <<Kernels(1), Measured>>) \in Seq(BareItems)
    /\ <<Check>> \in Seq(BareItems)
<1>1. Check \in BareItems /\ Measured \in BareItems
  <2>1. Check.holds = <<>> /\ Measured.holds = <<>>
    BY DEF Check, Measured, Item, Work
  <2> QED
    BY <2>1, CheckPart, LastItems DEF PlainItems, BareItems
<1>2. Kernels(1) \in BareItems
  <2>1. Loop(1, <<>>, "abort") \in Items
    BY SerialItem
  <2>2. Loop(1, <<>>, "abort").kind = "serial" /\ Loop(1, <<>>, "abort").holds = <<>>
    BY DEF Loop, Work
  <2>3. Kernels(1) \in Items
    BY <2>1, <2>2, PollingItem DEF Kernels
  <2>4. Kernels(1).holds = <<>>
    BY DEF Kernels, Polling, Loop, Work
  <2> QED
    BY <2>3, <2>4 DEF BareItems
<1>3. <<Kernels(1), Measured>> \in Seq(BareItems) /\ <<Check>> \in Seq(BareItems)
  BY <1>1, <1>2
<1>4. ASSUME NEW kernel \in Seq(BareItems)
      PROVE  Repeat(2, kernel) \in Seq(BareItems)
  <2>1. 2 \in Nat \ {0} /\ 2 \in 2..2 /\ 2 - 1 = 1
    OBVIOUS
  <2>2. PICK g : g[1] = kernel /\ Repeat(2, kernel) = g[2]
                 /\ \A i \in 2..2 : g[i] = g[i - 1] \o kernel
    BY <2>1, RepeatParts
  <2>3. Repeat(2, kernel) = kernel \o kernel
    BY <2>1, <2>2
  <2>4. kernel \o kernel \in Seq(BareItems)
    BY ConcatProperties, Zenon
  <2> QED
    BY <2>3, <2>4, Zenon
<1> QED
  BY <1>3, <1>4, Zenon

LEMMA StorageBody ==
    \E body \in Seq(BodyItems) : GeneralStorage = body \o <<Measured>>
<1> DEFINE files == Polling(Loop(2, <<"file">>, "abort"))
           block == Within("directory", <<files, Check>>)
           body == <<Check>> \o block \o <<Require>>
<1>1. Closed(Points) /\ 2 \in Nat \ {0} /\ Of("abort", 2) = None
  BY Scopes, OfCounts
<1>2. Balanced(Points, <<files>>, None)
  BY <1>1, BalancedLoop DEF Blocks
<1>3. Balanced(Points, <<Check>>, None) /\ Balanced(Points, <<Require>>, None)
  BY <1>1, BalancedSteps
<1> HIDE DEF files
<1>4. Balanced(Points, <<files, Check>>, None)
  BY <1>1, <1>2, <1>3, BalancedTuples
<1>5. Balanced(Points, block, None)
  BY <1>4, BalancedBlock DEF Blocks
<1>6. GeneralStorage = <<Check>> \o block \o <<Require, Measured>>
  BY DEF GeneralStorage, Measured, files
<1> HIDE DEF block
<1>7. block \in Seq(BodyItems) /\ <<Check>> \in Seq(BodyItems) /\ <<Require>> \in Seq(BodyItems)
  BY <1>3, <1>5 DEF Balanced
<1>8. <<Require, Measured>> = <<Require>> \o <<Measured>>
  BY Pair
<1>9. body \in Seq(BodyItems) /\ GeneralStorage = body \o <<Measured>>
  <2>1. <<Measured>> \in Seq(Items) /\ BodyItems \subseteq Items
    BY LastItems DEF BodyItems
  <2>2. ASSUME NEW a \in Seq(Items), NEW b \in Seq(Items), NEW c \in Seq(Items),
               NEW e \in Seq(Items)
        PROVE  a \o b \o (c \o e) = (a \o b \o c) \o e
    OBVIOUS
  <2>3. /\ block \in Seq(Items) /\ <<Check>> \in Seq(Items) /\ <<Require>> \in Seq(Items)
    BY <1>7, <2>1
  <2>4. <<Check>> \o block \o (<<Require>> \o <<Measured>>)
          = (<<Check>> \o block \o <<Require>>) \o <<Measured>>
    BY <2>1, <2>2, <2>3
  <2>5. <<Check>> \o block \in Seq(BodyItems)
    BY <1>7
  <2>6. body \in Seq(BodyItems)
    BY <1>7, <2>5
  <2> QED
    BY <1>6, <1>8, <2>4, <2>6
<1> QED
  BY <1>9

LEMMA BareHolds ==
    ASSUME NEW s \in Seq(BareItems)
    PROVE  HoldsLast(s)
BY DEF HoldsLast, BareItems

LEMMA JoinedHolds ==
    ASSUME NEW front \in Seq(BareItems), NEW body \in Seq(BodyItems),
           NEW s, s = (front \o body) \o <<Measured, End_>>
    PROVE  HoldsLast(s)
<1> DEFINE n == Len(front)
           m == Len(body)
           last == <<Measured, End_>>
<1>1. front \in Seq(Items) /\ body \in Seq(Items) /\ last \in Seq(Items) /\ Len(last) = 2
  BY LastItems DEF BareItems, BodyItems
<1>2. /\ \A i \in 1..n : front[i].holds = <<>>
      /\ \A i \in 1..m : body[i].kind # "measure"
  BY DEF BareItems, BodyItems
<1> HIDE DEF last
<1>3. /\ n \in Nat /\ m \in Nat /\ Len(s) = n + m + 2
      /\ \A i \in 1..n : s[i] = front[i]
      /\ \A i \in 1..m : s[n + i] = body[i]
  BY <1>1 DEF last
<1> HIDE DEF n, m
<1>4. SUFFICES ASSUME NEW i \in 1..Len(s), s[i].holds # <<>>, NEW j \in i..(Len(s) - 2)
               PROVE  s[j].kind # "measure"
  BY DEF HoldsLast
<1>5. i \notin 1..n
  BY <1>2, <1>3, <1>4
<1>6. j - n \in 1..m /\ j = n + (j - n)
  BY <1>3, <1>5
<1> QED
  BY <1>2, <1>3, <1>6

LEMMA Regroup == \A x, y, z \in Seq(Items) : (x \o y) \o z = x \o (y \o z)
OBVIOUS

LEMMA StorageHolds ==
    ASSUME NEW a \in Seq(BareItems), NEW b \in Seq(BareItems), NEW c \in Seq(BodyItems),
           NEW s, s = (a \o (b \o (c \o <<Measured>>))) \o <<End_>>
    PROVE  HoldsLast(s)
<1> DEFINE d == <<Measured>>
           e == <<End_>>
<1>1. /\ a \in Seq(Items) /\ b \in Seq(Items) /\ c \in Seq(Items)
      /\ d \in Seq(Items) /\ e \in Seq(Items) /\ <<Measured, End_>> = d \o e
  BY LastItems, Pair DEF BareItems, BodyItems
<1>2. s = (a \o (b \o (c \o d))) \o e
  OBVIOUS
<1> HIDE DEF d, e
<1>3. b \o c \in Seq(Items) /\ a \o b \in Seq(Items) /\ a \o b \in Seq(BareItems)
  BY <1>1
<1>4. (a \o b) \o c = a \o (b \o c)
  BY <1>1, Regroup, Zenon
<1>5. b \o (c \o d) = (b \o c) \o d
  BY <1>1, Regroup, Zenon
<1>6. (a \o (b \o c)) \o d = a \o ((b \o c) \o d)
  <2>1. \A y \in Seq(Items) : (a \o y) \o d = a \o (y \o d)
    BY <1>1, Regroup, Zenon
  <2> QED
    BY <1>3, <2>1, Zenon
<1>7. \A x \in Seq(Items) : (x \o d) \o e = x \o (d \o e)
  BY <1>1, Regroup, Zenon
<1>8. s = (((a \o b) \o c) \o d) \o e
  BY <1>2, <1>4, <1>5, <1>6, Zenon
<1>9. s = ((a \o b) \o c) \o <<Measured, End_>>
  <2>1. (a \o b) \o c \in Seq(Items)
    BY <1>1
  <2> QED
    BY <1>1, <1>7, <1>8, <2>1, Zenon
<1> QED
  BY <1>3, <1>9, JoinedHolds, Zenon

(* The general profile opens a block in its third measurement only. *)
LEMMA GeneralHolds ==
    ASSUME NEW storage, NEW s, s = <<Check>> \o General(storage) \o <<End_>>
    PROVE  HoldsLast(s)
<1> DEFINE two == Repeat(2, <<Kernels(1), Measured>>)
           check == <<Check>>
           measured_ == <<Measured>>
           end == <<End_>>
           skip == <<Skipped>>
<1>1. two \in Seq(BareItems) /\ check \in Seq(BareItems) /\ BareItems \subseteq Items
      /\ BodyItems \subseteq Items
  BY BareFront DEF BareItems, BodyItems
<1>2. measured_ \in Seq(Items) /\ end \in Seq(Items)
      /\ <<Measured, End_>> = measured_ \o end
  BY LastItems, Pair
<1>3. General(storage) = two \o (IF storage THEN GeneralStorage ELSE skip)
  BY DEF General, Measured, Skipped
<1> HIDE DEF two, check, measured_, end, skip
<1>4. check \o two \in Seq(BareItems)
  BY <1>1
<1>5. CASE storage
  <2>1. PICK body \in Seq(BodyItems) : GeneralStorage = body \o measured_
    BY StorageBody DEF measured_
  <2>2. s = (check \o (two \o (body \o <<Measured>>))) \o <<End_>>
    BY <1>3, <1>5, <2>1 DEF check, end, measured_
  <2> QED
    BY <1>1, <2>2, StorageHolds, Zenon
<1>6. CASE ~storage
  <2>1. skip \in Seq(BareItems) /\ end \in Seq(BareItems)
    <3>1. Skipped \in BareItems /\ End_ \in BareItems
      BY LastItems DEF BareItems, Skipped, End_, Item, Work
    <3> QED
      BY <3>1 DEF skip, end
  <2>2. s = (check \o (two \o skip)) \o end
    BY <1>3, <1>6 DEF check, end
  <2>3. s \in Seq(BareItems)
    <3>1. two \o skip \in Seq(BareItems)
      BY <1>1, <2>1, ConcatProperties, Zenon
    <3>2. check \o (two \o skip) \in Seq(BareItems)
      BY <1>1, <3>1, ConcatProperties, Zenon
    <3>3. (check \o (two \o skip)) \o end \in Seq(BareItems)
      BY <2>1, <3>2, ConcatProperties, Zenon
    <3> QED
      BY <2>2, <3>3, Zenon
  <2> QED
    BY <2>3, BareHolds, Zenon
<1> QED
  BY <1>5, <1>6

-----------------------------------------------------------------------------
(* The plans without a block whose clean-up may fail. *)
NoCleanUp == {"connection", "transaction", "pool", "socket"}
LightItems == {x \in Items : x.holds \in Seq(NoCleanUp)}
Light(s) == s \in Seq(LightItems)

LEMMA LightAppend ==
    ASSUME NEW s, NEW t, Light(s), Light(t)
    PROVE  Light(s \o t)
BY ConcatProperties DEF Light

LEMMA LightRepeat ==
    ASSUME NEW n \in Nat \ {0}, NEW s, Light(s)
    PROVE  Light(Repeat(n, s))
<1>1. PICK g : /\ g[1] = s /\ Repeat(n, s) = g[n]
               /\ \A i \in 2..n : g[i] = g[i - 1] \o s
  BY RepeatParts
<1> DEFINE B == {k \in 1..n : ~ Light(g[k])}
<1>2. ASSUME B # {}
      PROVE  FALSE
  <2>1. B \in SUBSET Nat
    OBVIOUS
  <2>2. PICK m \in B : \A k \in B : m <= k
    <3> HIDE DEF B
    <3> QED
      BY <1>2, <2>1, LeastNatural
  <2>3. m \in 1..n /\ ~ Light(g[m])
    OBVIOUS
  <2>4. m # 1
    BY <1>1, <2>3
  <2>5. m - 1 \in 1..n /\ m - 1 \notin B /\ m \in 2..n
    <3> HIDE DEF B
    <3> QED
      BY <2>2, <2>3, <2>4
  <2>6. Light(g[m - 1])
    BY <2>5
  <2> HIDE DEF B
  <2>7. g[m] = g[m - 1] \o s
    BY <1>1, <2>5
  <2> QED
    BY <2>3, <2>6, <2>7, LightAppend
<1>3. n \in 1..n
  OBVIOUS
<1> QED
  BY <1>1, <1>2, <1>3

LEMMA LightLoop ==
    ASSUME NEW n \in Nat \ {0}, NEW h, h = <<>> \/ h = <<"connection">> \/ h = <<"socket">>,
           NEW e \in {"abort", "download", "upload", "ping", "warmup"}
    PROVE  Loop(n, h, e) \in LightItems /\ Polling(Loop(n, h, e)) \in LightItems
<1>1. Loop(n, h, e) \in Items
  BY SerialItem DEF Blocks
<1>2. Loop(n, h, e).holds = h
  BY DEF Loop, Work
<1>3. h \in Seq(NoCleanUp)
  <2>1. <<>> \in Seq(NoCleanUp) /\ \A b \in NoCleanUp : <<b>> \in Seq(NoCleanUp)
    OBVIOUS
  <2>2. "connection" \in NoCleanUp /\ "socket" \in NoCleanUp
    BY DEF NoCleanUp
  <2> QED
    BY <2>1, <2>2
<1> QED
  BY <1>1, <1>2, <1>3, PollingItem DEF LightItems

LEMMA LightSteps ==
    /\ Check \in LightItems /\ Require \in LightItems /\ Batch \in LightItems
    /\ SomeCompleted \in LightItems /\ Enter("pool") \in LightItems /\ Leave \in LightItems
    /\ Measured \in LightItems /\ End_ \in LightItems
<1>1. /\ Check.holds = <<>> /\ Require.holds = <<>> /\ Batch.holds = <<>>
      /\ SomeCompleted.holds = <<>> /\ Leave.holds = <<>>
      /\ Measured.holds = <<>> /\ End_.holds = <<>> /\ Enter("pool").holds = <<"pool">>
  BY DEF Check, Require, Batch, SomeCompleted, Leave, Measured, End_, Enter, Item, Work
<1>2. Enter("pool") \in Items /\ Leave \in Items
  BY EnterLeave DEF Blocks, BodyItems
<1>3. <<>> \in Seq(NoCleanUp) /\ <<"pool">> \in Seq(NoCleanUp)
  BY DEF NoCleanUp
<1> QED
  BY <1>1, <1>2, <1>3, SingleItem, LastItems DEF LightItems

LEMMA LightNetworking ==
    ASSUME NEW upload
    PROVE  Light(Networking(upload))
<1> DEFINE resolve == Loop(Repetitions, <<>>, "abort")
           first == <<Check, resolve, Require, ConnectAndHandshake, Download>>
           second == When(upload, <<Require, Upload>>)
           third == <<Ping, Check>>
<1>1. Repetitions \in Nat \ {0} /\ 1 \in Nat \ {0}
  BY ProfilesAssumption DEF ProfilesAssumption
<1>2. /\ resolve \in LightItems /\ ConnectAndHandshake \in LightItems
      /\ Download \in LightItems /\ Upload \in LightItems /\ Ping \in LightItems
  BY <1>1, LightLoop DEF ConnectAndHandshake, Download, Upload, Ping
<1> HIDE DEF resolve
<1>3. Light(first) /\ Light(third)
  BY <1>2, LightSteps DEF Light
<1>4. Light(second)
  <2>1. <<Require, Upload>> \in Seq(LightItems) /\ <<>> \in Seq(LightItems)
    BY <1>2, LightSteps
  <2> QED
    BY <2>1 DEF Light, When
<1>5. Networking(upload) = first \o second \o third
  BY DEF Networking, resolve
<1> HIDE DEF first, second, third
<1> QED
  BY <1>3, <1>4, <1>5, LightAppend

LEMMA LightWeb == Light(Web)
<1> DEFINE warmup == Polling(Loop(Operations, <<"connection">>, "warmup"))
           first == <<Check, Require, warmup, Check>>
           pool == Within("pool", <<Batch>>)
           last == <<SomeCompleted>>
<1>1. Operations \in Nat \ {0}
  BY ProfilesAssumption DEF ProfilesAssumption
<1>2. warmup \in LightItems
  BY <1>1, LightLoop
<1> HIDE DEF warmup
<1>3. Light(first) /\ Light(last)
  BY <1>2, LightSteps DEF Light
<1>4. Light(pool)
  <2>1. Light(<<Enter("pool")>>) /\ Light(<<Batch>>) /\ Light(<<Leave>>)
    BY LightSteps DEF Light
  <2> QED
    BY <2>1, LightAppend DEF Within
<1>5. Web = first \o pool \o last
  BY DEF Web, warmup
<1> HIDE DEF first, pool, last
<1> QED
  BY <1>3, <1>4, <1>5, LightAppend

LEMMA LightKernels ==
    ASSUME NEW n \in Nat \ {0}
    PROVE  Kernels(n) \in LightItems
BY LightLoop DEF Kernels

LEMMA LightCompute ==
    ASSUME NEW workers
    PROVE  Light(Compute(workers))
<1> DEFINE first == <<Check, Kernels(Operations), Kernels(Repetitions)>>
           last == <<Kernels(3 * Repetitions)>>
           again == <<Check, Batch>>
<1>1. /\ Operations \in Nat \ {0} /\ Repetitions \in Nat \ {0}
      /\ 3 * Repetitions \in Nat \ {0}
  BY ProfilesAssumption DEF ProfilesAssumption
<1>2. /\ Kernels(Operations) \in LightItems /\ Kernels(Repetitions) \in LightItems
      /\ Kernels(3 * Repetitions) \in LightItems
  BY <1>1, LightKernels
<1>3. Light(first) /\ Light(last) /\ Light(again) /\ Light(<<Kernels(Repetitions)>>)
  BY <1>2, LightSteps DEF Light
<1>4. Light(<<Enter("pool")>>) /\ Light(<<Batch>>) /\ Light(<<Leave>>)
  BY LightSteps DEF Light
<1>5. Compute(workers) = first \o MultiCore(workers) \o last
  BY DEF Compute
<1> HIDE DEF first, last, again
<1>6. Light(MultiCore(workers))
  <2>1. Light(<<Batch>> \o Repeat(Repetitions, again))
    BY <1>1, <1>3, <1>4, LightRepeat, LightAppend
  <2>2. Light(Within("pool", <<Batch>> \o Repeat(Repetitions, again)))
    BY <1>4, <2>1, LightAppend DEF Within
  <2> QED
    BY <1>3, <2>2 DEF MultiCore, again
<1> QED
  BY <1>3, <1>5, <1>6, LightAppend

LEMMA LightMeasured ==
    ASSUME NEW body, Light(body), NEW s, s = <<Check>> \o Measure(body) \o <<End_>>
    PROVE  Light(s)
<1> DEFINE tail == <<Check, Require, Check, Measured>>
<1>1. Light(tail) /\ Light(<<Check>>) /\ Light(<<End_>>)
  BY LightSteps DEF Light
<1>2. s = <<Check>> \o (body \o tail) \o <<End_>>
  BY DEF Measure, Measured
<1> HIDE DEF tail
<1>3. Light(body \o tail)
  BY <1>1, LightAppend
<1>4. Light(<<Check>> \o (body \o tail))
  BY <1>1, <1>3, LightAppend
<1> QED
  BY <1>1, <1>2, <1>4, LightAppend

-----------------------------------------------------------------------------
(* What a plan has counted at its end, by profile. *)
Promised(c, d) ==
    /\ c.profile = "networking" =>
          /\ d["download"] = Repetitions
          /\ d["upload"] = (IF c.optional THEN Repetitions ELSE 0)
          /\ d["warmup"] = 0 /\ d["batch"] = 0
    /\ c.profile = "web" => d["batch"] = 1 /\ d["need"] = 1 /\ d["download"] = 0
    /\ c.profile = "database" =>
          /\ d["batch"] = Repetitions /\ d["need"] = Repetitions
          /\ d["download"] = 0 /\ d["warmup"] = 0
    /\ c.profile \in {"general", "storage", "compute"} =>
          d["download"] = 0 /\ d["warmup"] = 0
    /\ c.profile \in {"general", "storage"} => d["batch"] = 0

WellFormed(c) ==
    /\ Plans[c] \in Seq(Items) /\ OnlyEndEnds(Plans[c]) /\ Closing(Plans[c])
    /\ HoldsLast(Plans[c])
    /\ c.profile \in {"networking", "web", "compute"} => Light(Plans[c])
    /\ c.profile # "general" => MeasuresOnce(Plans[c])
    /\ c.profile = "general" => Plans[c] \in Seq(PlainItems)
    /\ \E f : Annotates(f, Plans[c]) /\ Promised(c, f[Len(Plans[c])].done)

LEMMA MeasuredWellFormed ==
    ASSUME NEW c \in Configurations, c.profile # "general", NEW body, NEW d,
           Balanced(Points, body, d), Promised(c, d),
           c.profile \in {"networking", "web", "compute"} => Light(body),
           Plans[c] = <<Check>> \o Measure(body) \o <<End_>>
    PROVE  WellFormed(c)
<1> DEFINE s == Plans[c]
<1>1. s = <<Check>> \o Measure(body) \o <<End_>>
  OBVIOUS
<1> HIDE DEF s
<1>2. /\ s \in Seq(Items) /\ OnlyEndEnds(s) /\ Closing(s) /\ MeasuresOnce(s)
      /\ \E f : Annotates(f, s) /\ f[Len(s)].done = d
  BY <1>1, MeasuredPlan
<1>3. HoldsLast(s)
  <2>1. SUFFICES ASSUME NEW i \in 1..Len(s), NEW j \in i..(Len(s) - 2), s[j].kind = "measure"
                 PROVE  FALSE
    BY DEF HoldsLast
  <2>2. Len(s) \in Nat
    BY <1>2
  <2>3. j \in 1..Len(s) /\ j # Len(s) - 1
    BY <2>2
  <2> QED
    BY <1>2, <2>1, <2>3 DEF MeasuresOnce
<1>4. c.profile \in {"networking", "web", "compute"} => Light(s)
  BY <1>1, LightMeasured
<1> QED
  BY <1>2, <1>3, <1>4 DEF WellFormed, s

(***************************************************************************)
(* The plan of every configuration, for every number of repetitions and     *)
(* operations: __enter__ and __exit__ are well nested on the way through    *)
(* the profile, every batch is submitted inside of a pool, measurements and *)
(* the sample are made outside of every block, an error always has a        *)
(* measurement to end, and the operations are as many as configured.        *)
(***************************************************************************)
THEOREM PlansWellFormed == \A c \in Configurations : WellFormed(c)
<1>1. SUFFICES ASSUME NEW c \in Configurations
               PROVE  WellFormed(c)
  OBVIOUS
<1>2. c.profile \in ProfileNames
  BY ProfilesAssumption DEF ProfilesAssumption
<1>3. None["download"] = 0 /\ None["warmup"] = 0 /\ None["batch"] = 0
  BY DEF None, Tallied
<1>4. CASE c.profile = "general"
  <2> DEFINE s == Plans[c]
  <2>1. s = <<Check>> \o General(c.optional) \o <<End_>>
    BY <1>4 DEF Plans, End_
  <2> HIDE DEF s
  <2>2. /\ s \in Seq(PlainItems) /\ OnlyEndEnds(s) /\ Closing(s)
        /\ \E f : Annotates(f, s) /\ f[Len(s)].done = None
    BY <2>1, GeneralPlan
  <2>3. s \in Seq(Items)
    BY <2>2 DEF PlainItems
  <2>4. Promised(c, None)
    BY <1>3, <1>4 DEF Promised
  <2>5. HoldsLast(s)
    BY <2>1, GeneralHolds
  <2> QED
    BY <1>4, <2>2, <2>3, <2>4, <2>5 DEF WellFormed, s
<1>5. CASE c.profile = "storage"
  <2>1. Plans[c] = <<Check>> \o Measure(Storage) \o <<End_>>
    BY <1>5 DEF Plans, End_
  <2>2. Promised(c, None)
    BY <1>3, <1>5 DEF Promised
  <2> QED
    BY <1>5, <2>1, <2>2, StorageBalanced, MeasuredWellFormed
<1>6. CASE c.profile = "networking"
  <2>1. Plans[c] = <<Check>> \o Measure(Networking(c.optional)) \o <<End_>>
    BY <1>6 DEF Plans, End_
  <2>2. PICK d : /\ Balanced(Points, Networking(c.optional), d)
                 /\ d["download"] = Repetitions
                 /\ d["upload"] = (IF c.optional THEN Repetitions ELSE 0)
                 /\ d["warmup"] = 0 /\ d["batch"] = 0
    BY NetworkingBalanced
  <2>3. Promised(c, d)
    BY <1>6, <2>2 DEF Promised
  <2> QED
    BY <1>6, <2>1, <2>2, <2>3, LightNetworking, MeasuredWellFormed
<1>7. CASE c.profile = "web"
  <2>1. Plans[c] = <<Check>> \o Measure(Web) \o <<End_>>
    BY <1>7 DEF Plans, End_
  <2>2. PICK d : Balanced(Points, Web, d) /\ d["batch"] = 1 /\ d["need"] = 1
                 /\ d["download"] = 0
    BY WebBalanced
  <2>3. Promised(c, d)
    BY <1>7, <2>2 DEF Promised
  <2> QED
    BY <1>7, <2>1, <2>2, <2>3, LightWeb, MeasuredWellFormed
<1>8. CASE c.profile = "database"
  <2>1. Plans[c] = <<Check>> \o Measure(Database) \o <<End_>>
    BY <1>8 DEF Plans, End_
  <2>2. PICK d : /\ Balanced(Points, Database, d)
                 /\ d["batch"] = Repetitions /\ d["need"] = Repetitions
                 /\ d["download"] = 0 /\ d["warmup"] = 0
    BY DatabaseBalanced
  <2>3. Promised(c, d)
    BY <1>8, <2>2 DEF Promised
  <2> QED
    BY <1>8, <2>1, <2>2, <2>3, MeasuredWellFormed
<1>9. CASE c.profile = "compute"
  <2>1. Plans[c] = <<Check>> \o Measure(Compute(c.optional)) \o <<End_>>
    BY <1>9 DEF Plans, End_
  <2>2. PICK d : /\ Balanced(Points, Compute(c.optional), d)
                 /\ d["warmup"] = 0 /\ d["download"] = 0
    BY ComputeBalanced
  <2>3. Promised(c, d)
    BY <1>9, <2>2 DEF Promised
  <2> QED
    BY <1>9, <2>1, <2>2, <2>3, LightCompute, MeasuredWellFormed
<1> QED
  BY <1>2, <1>4, <1>5, <1>6, <1>7, <1>8, <1>9 DEF ProfileNames
=============================================================================
