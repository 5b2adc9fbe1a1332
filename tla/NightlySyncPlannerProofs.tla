---------------------- MODULE NightlySyncPlannerProofs ----------------------
(***************************************************************************)
(* Proofs about the planner and the scheduler for every set of endpoints,  *)
(* selection, coverage, target and budget.  A dispatch numbers its tasks   *)
(* by rank, and a rank counts what is queued no later: most of what the    *)
(* policy promises is that both queues are total orders.                   *)
(***************************************************************************)
EXTENDS NightlySyncPlannerCheck, FiniteSetTheorems, SequenceTheorems, WellFoundedInduction, TLAPS

(***************************************************************************)
(* Finite sets: one that is numbered without repetition from 1 to n has at *)
(* most n elements, and a non-empty set of dates has its ends.             *)
(***************************************************************************)
LEMMA Numbered ==
  ASSUME NEW T, NEW n \in Nat, NEW f \in [T -> 1 .. n],
         \A x, y \in T : f[x] = f[y] => x = y
  PROVE  IsFiniteSet(T) /\ Cardinality(T) <= n /\ Cardinality(T) \in Nat
<1> DEFINE S == {f[x] : x \in T}
<1>1. IsFiniteSet(1 .. n) /\ Cardinality(1 .. n) = n
  BY FS_Interval
<1>2. S \in SUBSET (1 .. n)
  OBVIOUS
<1>3. IsFiniteSet(S) /\ Cardinality(S) <= n /\ Cardinality(S) \in Nat
  BY <1>1, <1>2, FS_Subset, FS_CardinalityType
<1> DEFINE g == [k \in S |-> CHOOSE x \in T : f[x] = k]
<1>4. \A k \in S : g[k] \in T /\ f[g[k]] = k
  OBVIOUS
<1>5. \A x \in T : f[x] \in S /\ g[f[x]] = x
  BY <1>4
<1>6. g \in [S -> T]
  BY <1>4
<1> HIDE DEF g, S
<1>7. g \in Surjection(S, T)
  BY <1>5, <1>6 DEF Surjection
<1>8. IsFiniteSet(T) /\ Cardinality(T) <= Cardinality(S)
  BY <1>3, <1>7, FS_Surjection
<1> QED  BY <1>3, <1>8, FS_CardinalityType

LEMMA AllNumbersUsed ==
  ASSUME NEW T, IsFiniteSet(T), NEW n \in Nat, NEW f, \A k \in 1 .. n : \E x \in T : f[x] = k
  PROVE  n <= Cardinality(T)
<1> DEFINE U == {x \in T : f[x] \in 1 .. n}
           g == [x \in U |-> f[x]]
<1>1. U \in SUBSET T
  OBVIOUS
<1>2. g \in [U -> 1 .. n] /\ \A k \in 1 .. n : \E x \in U : g[x] = k
  OBVIOUS
<1> HIDE DEF g, U
<1>3. g \in Surjection(U, 1 .. n)
  BY <1>2 DEF Surjection
<1>4. IsFiniteSet(U) /\ Cardinality(U) <= Cardinality(T)
  BY <1>1, FS_Subset
<1>5. Cardinality(1 .. n) <= Cardinality(U)
  BY <1>3, <1>4, FS_Surjection
<1>6. Cardinality(1 .. n) = n
  BY FS_Interval
<1>7. Cardinality(U) \in Nat /\ Cardinality(T) \in Nat
  BY <1>4, FS_CardinalityType
<1> QED  BY <1>4, <1>5, <1>6, <1>7

LEMMA Oldest ==
  ASSUME NEW S \in SUBSET Nat, S # {}
  PROVE  \E d \in S : \A x \in S : d <= x
<1> DEFINE Less == OpToRel(<, Nat)
<1>1. PICK d \in S : \A x \in S : ~ (<<x, d>> \in Less)
  BY NatLessThanWellFounded, WFMin, Zenon
<1>2. \A x \in S : d <= x
  <2> TAKE x \in S
  <2>1. ~ (x < d)
    BY <1>1 DEF OpToRel
  <2> QED  BY <2>1
<1> QED  BY <1>2

LEMMA Newest ==
  ASSUME NEW S \in SUBSET Date, S # {}
  PROVE  \E d \in S : \A x \in S : x <= d
<1> DEFINE Age == {LastDate - d : d \in S}
<1>1. \A d \in S : d \in Int /\ LastDate \in Int /\ LastDate - d \in Nat
  BY PlannerAssumption DEF Date
<1>2. Age \in SUBSET Nat /\ Age # {}
  BY <1>1
<1>3. PICK a \in Age : \A b \in Age : a <= b
  BY <1>2, Oldest
<1>4. PICK m \in S : a = LastDate - m
  OBVIOUS
<1>5. \A x \in S : x <= m
  <2> TAKE x \in S
  <2>1. a <= LastDate - x
    BY <1>3
  <2> QED  BY <1>1, <1>4, <2>1
<1> QED  BY <1>5

-----------------------------------------------------------------------------
(***************************************************************************)
(* The order of a selection.                                               *)
(***************************************************************************)
Place(o, e) == CHOOSE i \in DOMAIN o : o[i] = e

LEMMA PlaceOrder ==
  ASSUME NEW o, IsSelection(o)
  PROVE  /\ \A e \in Selected(o) : Place(o, e) \in Nat
         /\ \A e, f \in Selected(o) : Place(o, e) = Place(o, f) => e = f
         /\ \A e, f \in Selected(o) : NotAfter(o, f, e) <=> Place(o, f) <= Place(o, e)
<1>1. o \in Seq(Endpoint) /\ DOMAIN o \subseteq Nat
  BY DEF IsSelection
<1>2. ASSUME NEW e \in Selected(o)
      PROVE  /\ Place(o, e) \in DOMAIN o /\ o[Place(o, e)] = e
             /\ \A i \in DOMAIN o : o[i] = e => i = Place(o, e)
  <2>1. Place(o, e) \in DOMAIN o /\ o[Place(o, e)] = e
    BY DEF Selected, Place
  <2> QED  BY <2>1 DEF IsSelection
<1> QED  BY <1>1, <1>2 DEF NotAfter

LEMMA SelectedFinite ==
  ASSUME NEW o, IsSelection(o)
  PROVE  IsFiniteSet(Selected(o)) /\ Selected(o) \subseteq Endpoint
<1>1. o \in Seq(Endpoint) /\ DOMAIN o = 1 .. Len(o) /\ Len(o) \in Nat
  BY DEF IsSelection
<1>2. o \in [DOMAIN o -> Selected(o)]
  BY <1>1 DEF Selected
<1>3. o \in Surjection(DOMAIN o, Selected(o))
  BY <1>2 DEF Surjection, Selected
<1>4. IsFiniteSet(DOMAIN o)
  BY <1>1, FS_Interval
<1>5. Selected(o) \subseteq Endpoint
  BY <1>1 DEF Selected
<1> QED  BY <1>3, <1>4, <1>5, FS_Surjection

(***************************************************************************)
(* Ranks.  below[x] holds what is queued no later than x; when that is a   *)
(* total order, its size numbers the queue without repetition, and in its  *)
(* order.                                                                  *)
(***************************************************************************)
LEMMA RankOrder ==
  ASSUME NEW D, IsFiniteSet(D), NEW below \in [D -> SUBSET D],
         \A x \in D : x \in below[x],
         \A x, y \in D : x \in below[y] => below[x] \subseteq below[y],
         \A x, y \in D : x \in below[y] /\ y \in below[x] => x = y,
         \A x, y \in D : x \in below[y] \/ y \in below[x]
  PROVE  /\ \A x \in D : Cardinality(below[x]) \in 1 .. Cardinality(D)
         /\ \A x, y \in D : x \in below[y] /\ x # y
                              => Cardinality(below[x]) < Cardinality(below[y])
         /\ \A x, y \in D : Cardinality(below[x]) = Cardinality(below[y]) => x = y
         /\ \A k \in 1 .. Cardinality(D) : \E x \in D : Cardinality(below[x]) = k
<1>1. \A x \in D : /\ IsFiniteSet(below[x]) /\ Cardinality(below[x]) \in Nat
                   /\ Cardinality(below[x]) <= Cardinality(D)
                   /\ Cardinality(D) \in Nat
  BY FS_Subset, FS_CardinalityType
<1>2. \A x \in D : Cardinality(below[x]) # 0
  BY <1>1, FS_EmptySet
<1>3. ASSUME NEW x \in D, NEW y \in D, x \in below[y], x # y
      PROVE  Cardinality(below[x]) < Cardinality(below[y])
  <2>1. below[x] \subseteq below[y] /\ below[x] # below[y]
    BY <1>3
  <2>2. /\ Cardinality(below[x]) <= Cardinality(below[y])
        /\ Cardinality(below[y]) = Cardinality(below[x]) => below[y] = below[x]
    BY <1>1, <2>1, FS_Subset
  <2> QED  BY <1>1, <2>1, <2>2
<1>4. ASSUME NEW x \in D, NEW y \in D, Cardinality(below[x]) = Cardinality(below[y])
      PROVE  x = y
  BY <1>1, <1>3, <1>4
<1>5. \A x \in D : Cardinality(below[x]) \in 1 .. Cardinality(D)
  BY <1>1, <1>2
<1>6. ASSUME NEW k \in 1 .. Cardinality(D)  PROVE \E x \in D : Cardinality(below[x]) = k
  <2> DEFINE N == Cardinality(D)
             rank == [x \in D |-> Cardinality(below[x])]
  <2>1. N \in Nat /\ IsFiniteSet(1 .. N) /\ Cardinality(1 .. N) = N
    BY FS_CardinalityType, FS_Interval
  <2>2. rank \in Injection(D, 1 .. N)
    BY <1>4, <1>5 DEF Injection, IsInjective
  <2> HIDE DEF rank
  <2>3. rank \in Surjection(D, 1 .. N)
    BY <2>1, <2>2, FS_Injection
  <2>4. \E x \in D : rank[x] = k
    BY <2>3 DEF Surjection
  <2> QED  BY <2>4 DEF rank
<1> QED  BY <1>3, <1>4, <1>5, <1>6

-----------------------------------------------------------------------------
(***************************************************************************)
(* The two queues.                                                         *)
(***************************************************************************)
Coverage == [Endpoint -> SUBSET Date]

LEMMA OlderMissingType ==
  ASSUME NEW S, NEW t \in Date
  PROVE  OlderMissing(S, t) \subseteq Date /\ t \notin OlderMissing(S, t)
BY PlannerAssumption DEF OlderMissing, Missing, Expected, Date

LEMMA StaleRank ==
  ASSUME NEW c, NEW o, IsSelection(o), NEW t
  PROVE  /\ IsFiniteSet(Stale(c, o, t)) /\ Stale(c, o, t) \subseteq Endpoint
         /\ \A e \in Stale(c, o, t) :
              CurrentnessRank(c, o, t, e) \in 1 .. Cardinality(Stale(c, o, t))
         /\ \A e, f \in Stale(c, o, t) :
              CurrentnessRank(c, o, t, e) = CurrentnessRank(c, o, t, f) => e = f
         /\ \A k \in 1 .. Cardinality(Stale(c, o, t)) :
              \E e \in Stale(c, o, t) : CurrentnessRank(c, o, t, e) = k
<1> DEFINE D == Stale(c, o, t)
           below == [e \in D |-> {f \in D : NotAfter(o, f, e)}]
<1>1. D \subseteq Selected(o)
  BY DEF Stale
<1>2. IsFiniteSet(D) /\ D \subseteq Endpoint
  BY <1>1, SelectedFinite, FS_Subset
<1>3. /\ \A e \in D : Place(o, e) \in Nat
      /\ \A e, f \in D : Place(o, e) = Place(o, f) => e = f
      /\ \A e, f \in D : NotAfter(o, f, e) <=> Place(o, f) <= Place(o, e)
  BY <1>1, PlaceOrder
<1> HIDE DEF D
<1>4. below \in [D -> SUBSET D]
      /\ \A x, y \in D : x \in below[y] <=> Place(o, x) <= Place(o, y)
  BY <1>3
<1>5. \A e \in D : below[e] = {f \in D : NotAfter(o, f, e)}
  OBVIOUS
<1> HIDE DEF below
<1>6. /\ \A x \in D : x \in below[x]
      /\ \A x, y \in D : x \in below[y] /\ y \in below[x] => x = y
      /\ \A x, y \in D : x \in below[y] \/ y \in below[x]
  BY <1>3, <1>4
<1>7. ASSUME NEW x \in D, NEW y \in D, x \in below[y]  PROVE below[x] \subseteq below[y]
  <2> SUFFICES ASSUME NEW z \in below[x]  PROVE z \in below[y]
    OBVIOUS
  <2>1. z \in D
    BY <1>4
  <2> QED  BY <1>3, <1>4, <1>7, <2>1
<1>8. /\ \A x \in D : Cardinality(below[x]) \in 1 .. Cardinality(D)
      /\ \A x, y \in D : Cardinality(below[x]) = Cardinality(below[y]) => x = y
      /\ \A k \in 1 .. Cardinality(D) : \E x \in D : Cardinality(below[x]) = k
  BY <1>2, <1>4, <1>6, <1>7, RankOrder
<1>9. \A e \in D : CurrentnessRank(c, o, t, e) = Cardinality(below[e])
  BY <1>5 DEF CurrentnessRank, D
<1> QED  BY <1>2, <1>8, <1>9 DEF D

(* An older gap of an endpoint lies deeper.                                *)
LEMMA DepthOrder ==
  ASSUME NEW c, NEW t \in Date, NEW e
  PROVE  /\ \A d : Depth(c, t, <<e, d>>) \in Nat
         /\ \A d, x \in OlderMissing(c[e], t) :
              x < d => Depth(c, t, <<e, d>>) < Depth(c, t, <<e, x>>)
<1> DEFINE M == OlderMissing(c[e], t)
           From(d) == {y \in M : y >= d}
<1>1. M \subseteq Date /\ M \subseteq Nat
  BY OlderMissingType, PlannerAssumption DEF Date
<1>2. IsFiniteSet(M)
  <2>1. IsFiniteSet(Date)
    BY FS_Interval, PlannerAssumption DEF Date
  <2> QED  BY <1>1, <2>1, FS_Subset
<1> HIDE DEF M
<1>3. \A d : IsFiniteSet(From(d)) /\ Cardinality(From(d)) \in Nat
  <2> TAKE d
  <2>1. From(d) \in SUBSET M
    OBVIOUS
  <2>2. IsFiniteSet(From(d))
    BY <1>2, <2>1, FS_Subset
  <2> QED  BY <2>2, FS_CardinalityType
<1>4. \A d : Depth(c, t, <<e, d>>) = Cardinality(From(d))
  BY DEF Depth, M
<1>5. ASSUME NEW d \in M, NEW x \in M, x < d
      PROVE  Cardinality(From(d)) < Cardinality(From(x))
  <2>1. From(d) \subseteq From(x) /\ x \in From(x) /\ x \notin From(d)
    <3>1. d \in Nat /\ x \in Nat
      BY <1>1
    <3>2. \A y \in M : y \in Nat /\ (y >= d => y >= x)
      BY <1>1, <1>5, <3>1
    <3>3. From(d) \subseteq From(x)
      BY <3>2
    <3>4. x \in From(x) /\ ~ (x >= d)
      BY <1>5, <3>1
    <3> QED  BY <3>3, <3>4
  <2> HIDE DEF From
  <2>2. /\ Cardinality(From(d)) <= Cardinality(From(x))
        /\ Cardinality(From(x)) = Cardinality(From(d)) => From(x) = From(d)
    BY <1>3, <2>1, FS_Subset
  <2>3. Cardinality(From(d)) \in Nat /\ Cardinality(From(x)) \in Nat
    BY <1>3
  <2> QED  BY <2>1, <2>2, <2>3
<1> QED  BY <1>3, <1>4, <1>5 DEF M

LEMMA GapsAre ==
  ASSUME NEW c, NEW o, IsSelection(o), NEW t \in Date
  PROVE  /\ IsFiniteSet(Gaps(c, o, t))
         /\ \A g \in Gaps(c, o, t) :
              /\ g = <<g[1], g[2]>> /\ g[1] \in Selected(o) \ Profile /\ g[1] \in Endpoint
              /\ g[2] \in Date /\ g[2] \in OlderMissing(c[g[1]], t)
         /\ \A e \in Selected(o) \ Profile : \A d \in OlderMissing(c[e], t) :
              <<e, d>> \in Gaps(c, o, t)
<1>1. IsFiniteSet(Selected(o)) /\ Selected(o) \subseteq Endpoint
  BY SelectedFinite
<1>2. IsFiniteSet(Date)
  BY FS_Interval, PlannerAssumption DEF Date
<1>3. IsFiniteSet(Selected(o) \X Date)
  BY <1>1, <1>2, FS_Product
<1>4. Gaps(c, o, t) \in SUBSET (Selected(o) \X Date)
  BY DEF Gaps
<1>5. IsFiniteSet(Gaps(c, o, t))
  BY <1>3, <1>4, FS_Subset
<1>6. \A e \in Selected(o) \ Profile : \A d \in OlderMissing(c[e], t) : <<e, d>> \in Gaps(c, o, t)
  BY OlderMissingType DEF Gaps
<1>7. \A g \in Gaps(c, o, t) :
        /\ g = <<g[1], g[2]>> /\ g[1] \in Selected(o) \ Profile
        /\ g[2] \in Date /\ g[2] \in OlderMissing(c[g[1]], t)
  BY DEF Gaps
<1> QED  BY <1>1, <1>5, <1>6, <1>7

LEMMA GapRank ==
  ASSUME NEW c, NEW o, IsSelection(o), NEW t \in Date
  PROVE  /\ \A g \in Gaps(c, o, t) : BackfillRank(c, o, t, g) \in Nat \ {0}
         /\ \A g, h \in Gaps(c, o, t) :
              BackfillRank(c, o, t, g) = BackfillRank(c, o, t, h) => g = h
         /\ \A g, h \in Gaps(c, o, t) : Depth(c, t, h) < Depth(c, t, g)
              => BackfillRank(c, o, t, h) < BackfillRank(c, o, t, g)
         /\ \A g \in Gaps(c, o, t) : BackfillRank(c, o, t, g) <= Cardinality(Gaps(c, o, t))
         /\ \A k \in 1 .. Cardinality(Gaps(c, o, t)) :
              \E g \in Gaps(c, o, t) : BackfillRank(c, o, t, g) = k
         /\ Cardinality(Gaps(c, o, t)) \in Nat
<1> DEFINE D == Gaps(c, o, t)
           Before(h, g) == QueuedNotAfter(c, o, t, h, g)
           below == [g \in D |-> {h \in D : Before(h, g)}]
           Deep(g) == Depth(c, t, g)
           At(g) == Place(o, g[1])
<1>1. /\ IsFiniteSet(D) /\ Cardinality(D) \in Nat
      /\ \A g \in D : g = <<g[1], g[2]>> /\ g[1] \in Selected(o) /\ g[2] \in Date
                      /\ g[2] \in OlderMissing(c[g[1]], t)
  BY GapsAre, FS_CardinalityType
<1>2. /\ \A g \in D : Deep(g) \in Nat
      /\ \A g, h \in D : g[1] = h[1] /\ h[2] < g[2] => Deep(g) < Deep(h)
  BY <1>1, DepthOrder
<1>3. /\ \A g \in D : At(g) \in Nat
      /\ \A g, h \in D : At(g) = At(h) => g[1] = h[1]
      /\ \A g, h \in D : NotAfter(o, h[1], g[1]) <=> At(h) <= At(g)
  BY <1>1, PlaceOrder
<1>4. \A g, h \in D : Before(h, g) <=> Deep(h) < Deep(g) \/ (Deep(h) = Deep(g) /\ At(h) <= At(g))
  <2> SUFFICES ASSUME NEW g \in D, NEW h \in D
               PROVE  Before(h, g) <=> Deep(h) < Deep(g) \/ (Deep(h) = Deep(g) /\ At(h) <= At(g))
    OBVIOUS
  <2>1. NotAfter(o, h[1], g[1]) <=> At(h) <= At(g)
    BY <1>3
  <2> HIDE DEF D, At
  <2> QED  BY <2>1 DEF QueuedNotAfter
<1>5. \A g, h \in D : Deep(g) = Deep(h) /\ At(g) = At(h) => g = h
  <2> SUFFICES ASSUME NEW g \in D, NEW h \in D, Deep(g) = Deep(h), At(g) = At(h)
               PROVE  g = h
    OBVIOUS
  <2>1. g[1] = h[1] /\ g[2] \in Nat /\ h[2] \in Nat
    BY <1>1, <1>3, PlannerAssumption DEF Date
  <2>2. ~ (g[2] < h[2]) /\ ~ (h[2] < g[2])
    BY <1>2, <2>1
  <2>3. g[2] = h[2]
    BY <2>1, <2>2
  <2> QED  BY <1>1, <2>1, <2>3
<1>6. \A g \in D : BackfillRank(c, o, t, g) = Cardinality({h \in D : Before(h, g)})
  BY DEF BackfillRank
<1> HIDE DEF D, Before, Deep, At
<1>7. below \in [D -> SUBSET D]
      /\ \A x, y \in D : x \in below[y] <=> Deep(x) < Deep(y) \/ (Deep(x) = Deep(y) /\ At(x) <= At(y))
  BY <1>4
<1>8. \A g \in D : BackfillRank(c, o, t, g) = Cardinality(below[g])
  BY <1>6
<1> HIDE DEF below
<1>9. /\ \A x \in D : x \in below[x]
      /\ \A x, y \in D : x \in below[y] /\ y \in below[x] => x = y
      /\ \A x, y \in D : x \in below[y] \/ y \in below[x]
  <2>1. \A x \in D : x \in below[x]
    BY <1>2, <1>3, <1>7
  <2>2. ASSUME NEW x \in D, NEW y \in D
        PROVE  /\ x \in below[y] \/ y \in below[x]
               /\ x \in below[y] /\ y \in below[x] => Deep(x) = Deep(y) /\ At(x) = At(y)
    <3>1. Deep(x) \in Nat /\ Deep(y) \in Nat /\ At(x) \in Nat /\ At(y) \in Nat
      BY <1>2, <1>3
    <3> QED  BY <1>7, <3>1
  <2> QED  BY <1>5, <2>1, <2>2
<1>10. ASSUME NEW x \in D, NEW y \in D, x \in below[y]  PROVE below[x] \subseteq below[y]
  <2> SUFFICES ASSUME NEW z \in below[x]  PROVE z \in below[y]
    OBVIOUS
  <2>1. z \in D
    BY <1>7
  <2> QED  BY <1>2, <1>3, <1>7, <1>10, <2>1
<1>11. /\ \A x \in D : Cardinality(below[x]) \in 1 .. Cardinality(D)
       /\ \A x, y \in D : x \in below[y] /\ x # y => Cardinality(below[x]) < Cardinality(below[y])
       /\ \A x, y \in D : Cardinality(below[x]) = Cardinality(below[y]) => x = y
       /\ \A k \in 1 .. Cardinality(D) : \E x \in D : Cardinality(below[x]) = k
  BY <1>1, <1>7, <1>9, <1>10, RankOrder
<1>12. \A g, h \in D : Deep(h) < Deep(g) => h \in below[g] /\ h # g
  <2> SUFFICES ASSUME NEW g \in D, NEW h \in D, Deep(h) < Deep(g)
               PROVE  h \in below[g] /\ h # g
    OBVIOUS
  <2>1. h \in below[g]
    BY <1>7
  <2>2. h # g
    BY <1>2
  <2> QED  BY <2>1, <2>2
<1>13. \A g \in D : BackfillRank(c, o, t, g) \in Nat \ {0}
  BY <1>1, <1>8, <1>11
<1>14. \A g \in D : BackfillRank(c, o, t, g) <= Cardinality(D)
  BY <1>1, <1>8, <1>11
<1> QED  BY <1>1, <1>8, <1>11, <1>12, <1>13, <1>14 DEF D, Deep

-----------------------------------------------------------------------------
(***************************************************************************)
(* What the scheduler answers: the endpoints it keeps current, the budget  *)
(* that leaves for history, and the tasks of both.                         *)
(***************************************************************************)
Owed(q)       == Stale(q.covered, q.order, q.target)
Now(q)        == DispatchedStale(q.covered, q.order, q.target, q.maxTasks)
RankNow(q, e) == CurrentnessRank(q.covered, q.order, q.target, e)
Holes(q)      == Gaps(q.covered, q.order, q.target)
RankGap(q, g) == BackfillRank(q.covered, q.order, q.target, g)
Budget(q)     == BackfillBudget(q.covered, q.order, q.target, q.maxTasks, q.maxBackfill)

NowTask(q, e) == [seq |-> RankNow(q, e), priority |-> "currentness", endpoint |-> e,
                  date |-> q.target]
GapTask(q, g) == [seq |-> Cardinality(Now(q)) + RankGap(q, g), priority |-> "backfill",
                  endpoint |-> g[1], date |-> g[2]]

LEMMA PlanForIs ==
  ASSUME NEW q
  PROVE  PlanFor(q) = {NowTask(q, e) : e \in Now(q)}
                        \cup {GapTask(q, g) : g \in {h \in Holes(q) : RankGap(q, h) <= Budget(q)}}
BY DEF PlanFor, Dispatch, Now, RankNow, Holes, RankGap, Budget, NowTask, GapTask

LEMMA QuestionIs ==
  ASSUME NEW q \in Question
  PROVE  /\ q.covered \in Coverage /\ IsSelection(q.order) /\ q.target \in Date
         /\ q.maxTasks \in Nat /\ q.maxBackfill \in Nat \cup {NoBudget}
BY PlannerCheckAssumption DEF Question, Coverage

LEMMA NowIs ==
  ASSUME NEW q \in Question
  PROVE  /\ Now(q) \subseteq Owed(q) /\ Owed(q) \subseteq Endpoint
         /\ \A e \in Owed(q) : RankNow(q, e) \in Nat \ {0}
         /\ \A e, f \in Owed(q) : RankNow(q, e) = RankNow(q, f) => e = f
         /\ Cardinality(Now(q)) \in Nat /\ Cardinality(Now(q)) <= q.maxTasks
         /\ \A e \in Now(q) : RankNow(q, e) <= q.maxTasks
         /\ Now(q) = Owed(q) => \A e \in Owed(q) : RankNow(q, e) <= Cardinality(Now(q))
         /\ \A e \in Owed(q) : RankNow(q, e) <= q.maxTasks => e \in Now(q)
         /\ \A k \in 1 .. Cardinality(Owed(q)) : \E e \in Owed(q) : RankNow(q, e) = k
         /\ \A e \in Owed(q) : RankNow(q, e) <= Cardinality(Owed(q))
         /\ Cardinality(Owed(q)) \in Nat
<1> DEFINE f == [e \in Now(q) |-> RankNow(q, e)]
<1>1. IsSelection(q.order) /\ q.maxTasks \in Nat
  BY QuestionIs
<1>2. /\ IsFiniteSet(Owed(q)) /\ Owed(q) \subseteq Endpoint
      /\ \A e \in Owed(q) : RankNow(q, e) \in 1 .. Cardinality(Owed(q))
      /\ \A e, x \in Owed(q) : RankNow(q, e) = RankNow(q, x) => e = x
      /\ \A k \in 1 .. Cardinality(Owed(q)) : \E e \in Owed(q) : RankNow(q, e) = k
  BY <1>1, StaleRank DEF Owed, RankNow
<1>3. Cardinality(Owed(q)) \in Nat
  BY <1>2, FS_CardinalityType
<1>4. /\ Now(q) \subseteq Owed(q) /\ \A e \in Now(q) : RankNow(q, e) <= q.maxTasks
      /\ \A e \in Owed(q) : RankNow(q, e) <= q.maxTasks => e \in Now(q)
  BY DEF Now, Owed, DispatchedStale, RankNow
<1>5. \A e \in Owed(q) : RankNow(q, e) \in Nat \ {0} /\ RankNow(q, e) <= Cardinality(Owed(q))
  BY <1>2, <1>3
<1>6. f \in [Now(q) -> 1 .. q.maxTasks] /\ \A x, y \in Now(q) : f[x] = f[y] => x = y
  BY <1>1, <1>2, <1>4, <1>5
<1> HIDE DEF f
<1>7. Cardinality(Now(q)) \in Nat /\ Cardinality(Now(q)) <= q.maxTasks
  BY <1>1, <1>6, Numbered
<1> QED  BY <1>2, <1>3, <1>4, <1>5, <1>7

(* The budget: nothing is left for history while currentness is owed, and  *)
(* without a budget of its own history gets what currentness leaves.       *)
LEMMA BudgetIs ==
  ASSUME NEW q \in Question
  PROVE  /\ Budget(q) \in Nat
         /\ Budget(q) > 0 => Now(q) = Owed(q)
         /\ q.maxBackfill # NoBudget => Budget(q) <= q.maxBackfill
         /\ q.maxBackfill = NoBudget /\ Budget(q) > 0
              => Cardinality(Now(q)) + Budget(q) = q.maxTasks
         /\ Now(q) = Owed(q) =>
              IF q.maxBackfill # NoBudget THEN Budget(q) = q.maxBackfill
              ELSE Cardinality(Now(q)) + Budget(q) = q.maxTasks
<1>1. q.maxTasks \in Nat /\ q.maxBackfill \in Nat \cup {NoBudget}
  BY QuestionIs
<1>2. Cardinality(Now(q)) \in Nat /\ Cardinality(Now(q)) <= q.maxTasks
  BY NowIs
<1>3. Budget(q) = IF Now(q) # Owed(q) THEN 0
                  ELSE IF q.maxBackfill # NoBudget THEN q.maxBackfill
                  ELSE q.maxTasks - Cardinality(Now(q))
  BY DEF Budget, BackfillBudget, Now, Owed
<1> QED  BY <1>1, <1>2, <1>3 DEF NoBudget

LEMMA HolesAre ==
  ASSUME NEW q \in Question
  PROVE  /\ \A g \in Holes(q) :
              /\ g = <<g[1], g[2]>> /\ g[1] \in Selected(q.order) \ Profile /\ g[1] \in Endpoint
              /\ g[2] \in OlderMissing(q.covered[g[1]], q.target) /\ g[2] \in Nat
              /\ g[2] < q.target /\ g[2] \notin q.covered[g[1]]
              /\ RankGap(q, g) \in Nat \ {0}
         /\ \A g, h \in Holes(q) : RankGap(q, g) = RankGap(q, h) => g = h
         /\ \A g, h \in Holes(q) : Depth(q.covered, q.target, h) < Depth(q.covered, q.target, g)
              => RankGap(q, h) < RankGap(q, g)
         /\ \A e \in Selected(q.order) \ Profile :
              \A d \in OlderMissing(q.covered[e], q.target) : <<e, d>> \in Holes(q)
<1>1. IsSelection(q.order) /\ q.target \in Date
  BY QuestionIs
<1>2. /\ \A g \in Holes(q) :
              /\ g = <<g[1], g[2]>> /\ g[1] \in Selected(q.order) \ Profile /\ g[1] \in Endpoint
              /\ g[2] \in Date /\ g[2] \in OlderMissing(q.covered[g[1]], q.target)
      /\ \A e \in Selected(q.order) \ Profile :
           \A d \in OlderMissing(q.covered[e], q.target) : <<e, d>> \in Holes(q)
  BY <1>1, GapsAre DEF Holes
<1>3. /\ \A g \in Holes(q) : RankGap(q, g) \in Nat \ {0}
      /\ \A g, h \in Holes(q) : RankGap(q, g) = RankGap(q, h) => g = h
      /\ \A g, h \in Holes(q) : Depth(q.covered, q.target, h) < Depth(q.covered, q.target, g)
              => RankGap(q, h) < RankGap(q, g)
  BY <1>1, GapRank DEF Holes, RankGap
<1>4. \A g \in Holes(q) : g[2] < q.target /\ g[2] \notin q.covered[g[1]] /\ g[2] \in Nat
  BY <1>2, PlannerAssumption DEF OlderMissing, Missing, Date
<1> QED  BY <1>2, <1>3, <1>4

(* Every task of the answer is one of the two kinds.                       *)
LEMMA TasksAre ==
  ASSUME NEW q \in Question, NEW k \in PlanFor(q)
  PROVE  \/ /\ k.priority = "currentness" /\ k.endpoint \in Now(q)
            /\ k = NowTask(q, k.endpoint) /\ k.date = q.target
            /\ k.seq = RankNow(q, k.endpoint)
         \/ /\ k.priority = "backfill" /\ <<k.endpoint, k.date>> \in Holes(q)
            /\ RankGap(q, <<k.endpoint, k.date>>) <= Budget(q)
            /\ k = GapTask(q, <<k.endpoint, k.date>>)
            /\ k.seq = Cardinality(Now(q)) + RankGap(q, <<k.endpoint, k.date>>)
            /\ Budget(q) > 0
<1>1. CASE k \in {NowTask(q, e) : e \in Now(q)}
  <2>1. PICK e \in Now(q) : k = NowTask(q, e)
    BY <1>1
  <2> QED  BY <2>1 DEF NowTask
<1>2. CASE k \in {GapTask(q, g) : g \in {h \in Holes(q) : RankGap(q, h) <= Budget(q)}}
  <2>1. PICK g \in Holes(q) : RankGap(q, g) <= Budget(q) /\ k = GapTask(q, g)
    BY <1>2
  <2>2. g = <<g[1], g[2]>> /\ RankGap(q, g) \in Nat \ {0}
    BY HolesAre
  <2>3. /\ k.priority = "backfill" /\ k.endpoint = g[1] /\ k.date = g[2]
        /\ k.seq = Cardinality(Now(q)) + RankGap(q, g)
    BY <2>1 DEF GapTask
  <2>4. <<k.endpoint, k.date>> = g
    BY <2>2, <2>3
  <2>5. Budget(q) > 0
    BY <2>1, <2>2, BudgetIs
  <2> QED  BY <2>1, <2>3, <2>4, <2>5
<1> QED  BY <1>1, <1>2, PlanForIs

\* the dispatched backfill tasks of an answer
History(q) == {k \in PlanFor(q) : k.priority = "backfill"}

(* A gap queued before a dispatched one is dispatched, and runs first.     *)
LEMMA QueuedBefore ==
  ASSUME NEW q \in Question, NEW k \in History(q), NEW g \in Holes(q),
         Depth(q.covered, q.target, g) < Depth(q.covered, q.target, <<k.endpoint, k.date>>)
  PROVE  GapTask(q, g) \in History(q) /\ GapTask(q, g).seq < k.seq
<1> DEFINE h == <<k.endpoint, k.date>>
<1>1. /\ h \in Holes(q) /\ RankGap(q, h) <= Budget(q)
      /\ k.seq = Cardinality(Now(q)) + RankGap(q, h)
  BY TasksAre DEF History
<1>2. /\ RankGap(q, g) < RankGap(q, h) /\ RankGap(q, g) \in Nat /\ RankGap(q, h) \in Nat
      /\ Budget(q) \in Nat /\ Cardinality(Now(q)) \in Nat
  BY <1>1, HolesAre, BudgetIs, NowIs
<1>3. GapTask(q, g) \in PlanFor(q)
  BY <1>1, <1>2, PlanForIs
<1>4. GapTask(q, g).priority = "backfill" /\ GapTask(q, g).seq = Cardinality(Now(q)) + RankGap(q, g)
  BY DEF GapTask
<1> QED  BY <1>1, <1>2, <1>3, <1>4 DEF History

-----------------------------------------------------------------------------
(***************************************************************************)
(* Distinct tasks differ in number and in what they ask for, and within    *)
(* the budgets the numbers run out.                                        *)
(***************************************************************************)
LEMMA TasksDiffer ==
  ASSUME NEW q \in Question, NEW j \in PlanFor(q), NEW k \in PlanFor(q),
         j.seq = k.seq \/ (j.endpoint = k.endpoint /\ j.date = k.date)
  PROVE  j = k
<1> DEFINE n == Cardinality(Now(q))
           Current(u) == /\ u.priority = "currentness" /\ u.endpoint \in Now(q)
                         /\ u = NowTask(q, u.endpoint) /\ u.date = q.target
                         /\ u.seq = RankNow(q, u.endpoint)
           Gap(u) == /\ u.priority = "backfill" /\ <<u.endpoint, u.date>> \in Holes(q)
                     /\ RankGap(q, <<u.endpoint, u.date>>) <= Budget(q)
                     /\ u = GapTask(q, <<u.endpoint, u.date>>)
                     /\ u.seq = n + RankGap(q, <<u.endpoint, u.date>>)
                     /\ Budget(q) > 0
<1>1. (Current(j) \/ Gap(j)) /\ (Current(k) \/ Gap(k))
  BY TasksAre
<1>2. n \in Nat /\ \A g \in Holes(q) : RankGap(q, g) \in Nat \ {0}
  BY NowIs, HolesAre
<1>3. CASE Current(j) /\ Current(k)
  <2>1. j.endpoint = k.endpoint
    BY <1>3, NowIs
  <2> QED  BY <1>3, <2>1
<1>4. CASE Gap(j) /\ Gap(k)
  <2>1. <<j.endpoint, j.date>> = <<k.endpoint, k.date>>
    <3>1. CASE j.seq = k.seq
      <4>1. RankGap(q, <<j.endpoint, j.date>>) = RankGap(q, <<k.endpoint, k.date>>)
        BY <1>2, <1>4, <3>1
      <4> QED  BY <1>4, <4>1, HolesAre
    <3>2. CASE j.endpoint = k.endpoint /\ j.date = k.date
      BY <3>2
    <3> QED  BY <3>1, <3>2
  <2> QED  BY <1>4, <2>1
<1>5. ASSUME NEW u \in PlanFor(q), NEW v \in PlanFor(q), Current(u), Gap(v)
      PROVE  u.seq # v.seq /\ u.date # v.date
  <2>1. RankNow(q, u.endpoint) <= n /\ RankNow(q, u.endpoint) \in Nat
    BY <1>5, NowIs, BudgetIs
  <2>2. u.seq < v.seq
    BY <1>2, <1>5, <2>1
  <2>3. v.date < q.target
    <3> DEFINE g == <<v.endpoint, v.date>>
    <3>1. g \in Holes(q) /\ g[2] = v.date
      BY <1>5
    <3> HIDE DEF g
    <3>2. g[2] < q.target
      BY <3>1, HolesAre
    <3> QED  BY <3>1, <3>2
  <2>4. q.target \in Nat /\ v.date \in Nat /\ u.seq \in Nat /\ v.seq \in Nat
    <3> DEFINE g == <<v.endpoint, v.date>>
    <3>1. g \in Holes(q) /\ g[2] = v.date /\ v.seq = n + RankGap(q, g)
      BY <1>5
    <3> HIDE DEF g
    <3>2. g[2] \in Nat /\ RankGap(q, g) \in Nat
      BY <3>1, HolesAre
    <3> QED  BY <1>2, <1>5, <2>1, <3>1, <3>2, QuestionIs, PlannerAssumption DEF Date
  <2> QED  BY <1>5, <2>2, <2>3, <2>4
<1> QED  BY <1>1, <1>3, <1>4, <1>5

LEMMA CurrentCount ==
  ASSUME NEW q \in Question
  PROVE  /\ IsFiniteSet(PlanFor(q) \ History(q))
         /\ Cardinality(PlanFor(q) \ History(q)) <= q.maxTasks
<1> DEFINE T == PlanFor(q) \ History(q)
           f == [u \in T |-> u.seq]
<1>1. q.maxTasks \in Nat
  BY QuestionIs
<1>2. \A u \in T : u.seq \in 1 .. q.maxTasks
  <2> TAKE u \in T
  <2>1. u.endpoint \in Now(q) /\ u.seq = RankNow(q, u.endpoint)
    BY TasksAre DEF History
  <2> QED  BY <1>1, <2>1, NowIs
<1>3. f \in [T -> 1 .. q.maxTasks]
  BY <1>2
<1>4. \A x, y \in T : f[x] = f[y] => x = y
  BY TasksDiffer
<1> HIDE DEF T, f
<1>5. IsFiniteSet(T) /\ Cardinality(T) <= q.maxTasks
  BY <1>1, <1>3, <1>4, Numbered
<1> QED  BY <1>5 DEF T

LEMMA HistoryCount ==
  ASSUME NEW q \in Question, q.maxBackfill # NoBudget
  PROVE  IsFiniteSet(History(q)) /\ Cardinality(History(q)) <= q.maxBackfill
<1> DEFINE n == Cardinality(Now(q))
           f == [u \in History(q) |-> u.seq - n]
<1>1. q.maxBackfill \in Nat /\ n \in Nat /\ Budget(q) \in Nat /\ Budget(q) <= q.maxBackfill
  BY QuestionIs, NowIs, BudgetIs
<1>2. \A u \in History(q) : u.seq \in Nat /\ u.seq - n \in 1 .. q.maxBackfill
  <2> TAKE u \in History(q)
  <2> DEFINE g == <<u.endpoint, u.date>>
  <2>1. g \in Holes(q) /\ RankGap(q, g) <= Budget(q) /\ u.seq = n + RankGap(q, g)
    BY TasksAre DEF History
  <2> HIDE DEF g
  <2>2. RankGap(q, g) \in Nat \ {0}
    BY <2>1, HolesAre
  <2> QED  BY <1>1, <2>1, <2>2
<1>3. f \in [History(q) -> 1 .. q.maxBackfill]
  BY <1>2
<1>4. ASSUME NEW x \in History(q), NEW y \in History(q), f[x] = f[y]  PROVE x = y
  <2>1. x.seq = y.seq
    BY <1>1, <1>2, <1>4
  <2> QED  BY <2>1, TasksDiffer DEF History
<1> HIDE DEF f
<1> QED  BY <1>1, <1>3, <1>4, Numbered

LEMMA TaskCount ==
  ASSUME NEW q \in Question, q.maxBackfill = NoBudget
  PROVE  IsFiniteSet(PlanFor(q)) /\ Cardinality(PlanFor(q)) <= q.maxTasks
<1> DEFINE n == Cardinality(Now(q))
           f == [u \in PlanFor(q) |-> u.seq]
<1>1. q.maxTasks \in Nat /\ n \in Nat /\ Budget(q) \in Nat
  BY QuestionIs, NowIs, BudgetIs
<1>2. ASSUME NEW u \in PlanFor(q)  PROVE u.seq \in 1 .. q.maxTasks
  <2> DEFINE g == <<u.endpoint, u.date>>
  <2>1. \/ u.endpoint \in Now(q) /\ u.seq = RankNow(q, u.endpoint)
        \/ /\ g \in Holes(q) /\ RankGap(q, g) <= Budget(q) /\ Budget(q) > 0
           /\ u.seq = n + RankGap(q, g)
    BY TasksAre
  <2> HIDE DEF g
  <2>2. CASE u.endpoint \in Now(q) /\ u.seq = RankNow(q, u.endpoint)
    BY <1>1, <2>2, NowIs
  <2>3. CASE /\ g \in Holes(q) /\ RankGap(q, g) <= Budget(q) /\ Budget(q) > 0
             /\ u.seq = n + RankGap(q, g)
    <3>1. RankGap(q, g) \in Nat \ {0} /\ n + Budget(q) = q.maxTasks
      BY <2>3, HolesAre, BudgetIs
    <3> QED  BY <1>1, <2>3, <3>1
  <2> QED  BY <2>1, <2>2, <2>3
<1>3. f \in [PlanFor(q) -> 1 .. q.maxTasks]
  BY <1>2
<1>4. \A x, y \in PlanFor(q) : f[x] = f[y] => x = y
  BY TasksDiffer
<1> HIDE DEF f
<1> QED  BY <1>1, <1>3, <1>4, Numbered

(* What is left for later is what ranks behind a spent budget: the numbers *)
(* of a queue have no holes, so every task of the budget is used.          *)
LEMMA NowSpent ==
  ASSUME NEW q \in Question, NEW e \in Owed(q), e \notin Now(q)
  PROVE  Cardinality(PlanFor(q)) = q.maxTasks
<1> DEFINE T == PlanFor(q)
           f == [u \in T |-> u.seq]
<1>1. /\ q.maxTasks \in Nat /\ Now(q) # Owed(q) /\ Budget(q) \in Nat
      /\ ~ (Budget(q) > 0)
  BY QuestionIs, BudgetIs
<1>2. History(q) = {} /\ T \ History(q) = T
  BY <1>1, TasksAre DEF History
<1>3. IsFiniteSet(T) /\ Cardinality(T) <= q.maxTasks
  BY <1>2, CurrentCount
<1>4. RankNow(q, e) \in Nat /\ RankNow(q, e) > q.maxTasks /\ q.maxTasks <= Cardinality(Owed(q))
  BY <1>1, NowIs
<1>5. ASSUME NEW k \in 1 .. q.maxTasks  PROVE \E u \in T : f[u] = k
  <2>1. k \in 1 .. Cardinality(Owed(q)) /\ k <= q.maxTasks
    BY <1>1, <1>4, NowIs
  <2>2. PICK x \in Owed(q) : RankNow(q, x) = k
    BY <2>1, NowIs
  <2>3. x \in Now(q)
    BY <2>1, <2>2, NowIs
  <2>4. NowTask(q, x) \in T /\ NowTask(q, x).seq = k
    BY <2>2, <2>3, PlanForIs DEF NowTask
  <2> QED  BY <2>4
<1> HIDE DEF T, f
<1>6. q.maxTasks <= Cardinality(T)
  BY <1>1, <1>3, <1>5, AllNumbersUsed
<1> QED  BY <1>1, <1>3, <1>6, FS_CardinalityType DEF T

LEMMA GapSpent ==
  ASSUME NEW q \in Question, Now(q) = Owed(q), NEW g \in Holes(q), RankGap(q, g) > Budget(q)
  PROVE  IF q.maxBackfill # NoBudget THEN Cardinality(History(q)) = q.maxBackfill
         ELSE Cardinality(PlanFor(q)) = q.maxTasks
<1> DEFINE n == Cardinality(Now(q))
<1>1. /\ q.maxTasks \in Nat /\ q.maxBackfill \in Nat \cup {NoBudget}
      /\ n \in Nat /\ Budget(q) \in Nat
  BY QuestionIs, NowIs, BudgetIs
<1>2. /\ Budget(q) <= Cardinality(Holes(q)) /\ Cardinality(Holes(q)) \in Nat
      /\ \A k \in 1 .. Cardinality(Holes(q)) : \E h \in Holes(q) : RankGap(q, h) = k
  <2>1. IsSelection(q.order) /\ q.target \in Date
    BY QuestionIs
  <2>2. /\ RankGap(q, g) \in Nat /\ RankGap(q, g) <= Cardinality(Holes(q))
        /\ Cardinality(Holes(q)) \in Nat
        /\ \A k \in 1 .. Cardinality(Holes(q)) : \E h \in Holes(q) : RankGap(q, h) = k
    BY <2>1, GapRank DEF Holes, RankGap
  <2> QED  BY <1>1, <2>2
<1>3. ASSUME NEW k \in 1 .. Budget(q)
      PROVE  \E u \in History(q) : u.seq = n + k
  <2>1. k \in 1 .. Cardinality(Holes(q)) /\ k <= Budget(q)
    BY <1>1, <1>2
  <2>2. PICK h \in Holes(q) : RankGap(q, h) = k
    BY <1>2, <2>1
  <2>3. GapTask(q, h) \in PlanFor(q)
    BY <2>1, <2>2, PlanForIs
  <2>4. GapTask(q, h).priority = "backfill" /\ GapTask(q, h).seq = n + k
    BY <2>2 DEF GapTask
  <2> QED  BY <2>3, <2>4 DEF History
<1>4. CASE q.maxBackfill # NoBudget
  <2> DEFINE f == [u \in History(q) |-> u.seq - n]
  <2>1. Budget(q) = q.maxBackfill
    BY <1>4, BudgetIs
  <2>2. ASSUME NEW k \in 1 .. q.maxBackfill  PROVE \E u \in History(q) : f[u] = k
    <3>1. PICK u \in History(q) : u.seq = n + k
      BY <1>3, <2>1
    <3>2. f[u] = k
      BY <1>1, <3>1
    <3> QED  BY <3>2
  <2> HIDE DEF f
  <2>3. /\ q.maxBackfill \in Nat /\ IsFiniteSet(History(q))
        /\ Cardinality(History(q)) <= q.maxBackfill
    BY <1>1, <1>4, HistoryCount
  <2>4. q.maxBackfill <= Cardinality(History(q))
    BY <2>2, <2>3, AllNumbersUsed
  <2> QED  BY <1>4, <2>3, <2>4, FS_CardinalityType
<1>5. CASE q.maxBackfill = NoBudget
  <2> DEFINE f == [u \in PlanFor(q) |-> u.seq]
  <2>1. n + Budget(q) = q.maxTasks
    BY <1>5, BudgetIs
  <2>2. ASSUME NEW k \in 1 .. q.maxTasks  PROVE \E u \in PlanFor(q) : f[u] = k
    <3>1. CASE k <= n
      <4>1. k \in 1 .. Cardinality(Owed(q))
        BY <1>1, <3>1
      <4>2. PICK x \in Owed(q) : RankNow(q, x) = k
        BY <4>1, NowIs
      <4>3. NowTask(q, x) \in PlanFor(q) /\ NowTask(q, x).seq = k
        BY <4>2, PlanForIs DEF NowTask
      <4> QED  BY <4>3
    <3>2. CASE k > n
      <4>1. k - n \in 1 .. Budget(q) /\ n + (k - n) = k
        BY <1>1, <2>1, <3>2
      <4>2. PICK u \in History(q) : u.seq = k
        BY <1>3, <4>1
      <4> QED  BY <4>2 DEF History
    <3> QED  BY <1>1, <3>1, <3>2
  <2> HIDE DEF f
  <2>3. IsFiniteSet(PlanFor(q)) /\ Cardinality(PlanFor(q)) <= q.maxTasks
    BY <1>5, TaskCount
  <2>4. q.maxTasks <= Cardinality(PlanFor(q))
    BY <1>1, <2>2, <2>3, AllNumbersUsed
  <2> QED  BY <1>1, <1>5, <2>3, <2>4, FS_CardinalityType
<1> QED  BY <1>4, <1>5

-----------------------------------------------------------------------------
(***************************************************************************)
(* The loops.  Each queue is built in the order of the ranks: after the    *)
(* iterations so far it holds what is queued up to here, each at its rank. *)
(***************************************************************************)
LEMMA PlaceIs ==
  ASSUME NEW o, IsSelection(o)
  PROVE  /\ Len(o) \in Nat \ {0} /\ DOMAIN o = 1 .. Len(o)
         /\ \A p \in 1 .. Len(o) : o[p] \in Selected(o) /\ Place(o, o[p]) = p
         /\ \A e \in Selected(o) : Place(o, e) \in 1 .. Len(o) /\ o[Place(o, e)] = e
<1>1. o \in Seq(Endpoint) /\ o # << >>
  BY DEF IsSelection
<1>2. Len(o) \in Nat \ {0} /\ DOMAIN o = 1 .. Len(o)
  BY <1>1, LenProperties, EmptySeq
<1>3. \A e \in Selected(o) : Place(o, e) \in DOMAIN o /\ o[Place(o, e)] = e
  BY DEF Selected, Place
<1>4. \A p \in DOMAIN o : o[p] \in Selected(o)
  BY DEF Selected
<1>5. \A p \in DOMAIN o : Place(o, o[p]) = p
  BY <1>3, <1>4 DEF IsSelection
<1> QED  BY <1>2, <1>3, <1>4, <1>5

LEMMA DateIs == Date \subseteq Nat /\ IsFiniteSet(Date)
<1>1. IsFiniteSet(Date)
  BY FS_Interval, PlannerAssumption DEF Date
<1> QED  BY <1>1, PlannerAssumption DEF Date

(* The sorted list of a set of dates: its k-th entry is the one with k     *)
(* dates not before it.                                                    *)
LEMMA DescendingIs ==
  ASSUME NEW S \in SUBSET Date
  PROVE  LET s == Descending(S)
         IN  /\ s \in Seq(S) /\ DOMAIN s = 1 .. Len(s) /\ Len(s) = Cardinality(S)
             /\ \A i \in 1 .. Len(s) : s[i] \in S /\ Cardinality({x \in S : x >= s[i]}) = i
             /\ \A d \in S : \E i \in 1 .. Len(s) : s[i] = d
<1> DEFINE n == Cardinality(S)
           below == [d \in S |-> {x \in S : x >= d}]
           Sorted(s) == s \in [1 .. n -> S] /\ \A i, j \in 1 .. n : i < j => s[i] > s[j]
           s == Descending(S)
<1>1. S \subseteq Nat /\ IsFiniteSet(S) /\ n \in Nat
  BY DateIs, FS_Subset, FS_CardinalityType
<1>2. below \in [S -> SUBSET S] /\ \A x, y \in S : x \in below[y] <=> x >= y
  OBVIOUS
<1>3. \A d \in S : below[d] = {x \in S : x >= d}
  OBVIOUS
<1> HIDE DEF below
<1>4. /\ \A x \in S : x \in below[x]
      /\ \A x, y \in S : x \in below[y] => below[x] \subseteq below[y]
      /\ \A x, y \in S : x \in below[y] /\ y \in below[x] => x = y
      /\ \A x, y \in S : x \in below[y] \/ y \in below[x]
  <2>1. \A x, y \in S : x \in Nat /\ y \in Nat
    BY <1>1
  <2>2. ASSUME NEW x \in S, NEW y \in S, x \in below[y]  PROVE below[x] \subseteq below[y]
    <3> SUFFICES ASSUME NEW z \in below[x]  PROVE z \in below[y]
      OBVIOUS
    <3>1. z \in S /\ z >= x /\ x >= y
      BY <1>2, <2>2
    <3> QED  BY <1>2, <2>1, <3>1
  <2> QED  BY <1>2, <2>1, <2>2
<1>5. /\ \A x \in S : Cardinality(below[x]) \in 1 .. n
      /\ \A x, y \in S : x \in below[y] /\ x # y => Cardinality(below[x]) < Cardinality(below[y])
      /\ \A k \in 1 .. n : \E x \in S : Cardinality(below[x]) = k
  <2>1. IsFiniteSet(S) /\ below \in [S -> SUBSET S]
    BY <1>1, <1>2
  <2> HIDE DEF s
  <2> QED  BY <1>4, <2>1, RankOrder
<1> DEFINE w == [k \in 1 .. n |-> CHOOSE x \in S : Cardinality(below[x]) = k]
<1>6. Sorted(w)
  <2>1. \A k \in 1 .. n : w[k] \in S /\ Cardinality(below[w[k]]) = k
    BY <1>5
  <2>2. w \in [1 .. n -> S]
    BY <2>1
  <2> HIDE DEF w
  <2>3. ASSUME NEW i \in 1 .. n, NEW j \in 1 .. n, i < j  PROVE w[i] > w[j]
    <3>1. w[i] \in S /\ w[j] \in S /\ w[i] \in Nat /\ w[j] \in Nat
      BY <1>1, <2>1
    <3>2. ~ (w[j] \in below[w[i]])
      <4>1. Cardinality(below[w[i]]) = i /\ Cardinality(below[w[j]]) = j
        BY <2>1
      <4> QED  BY <1>5, <2>3, <3>1, <4>1
    <3> QED  BY <1>2, <3>1, <3>2
  <2> QED  BY <2>2, <2>3
<1>7. Sorted(s)
  <2>1. s = CHOOSE x \in [1 .. n -> S] : \A i, j \in DOMAIN x : i < j => x[i] > x[j]
    BY DEF Descending
  <2>2. \E x \in [1 .. n -> S] : \A i, j \in DOMAIN x : i < j => x[i] > x[j]
    <3> HIDE DEF w
    <3> QED  BY <1>6
  <2> HIDE DEF s, w
  <2>3. s \in [1 .. n -> S] /\ \A i, j \in DOMAIN s : i < j => s[i] > s[j]
    BY <2>1, <2>2
  <2> QED  BY <2>3
<1> HIDE DEF s, w
<1>8. s \in Seq(S) /\ DOMAIN s = 1 .. n /\ Len(s) = n
  BY <1>1, <1>7
<1>9. \A i, j \in 1 .. n : s[i] >= s[j] <=> i <= j
  <2> SUFFICES ASSUME NEW i \in 1 .. n, NEW j \in 1 .. n  PROVE s[i] >= s[j] <=> i <= j
    OBVIOUS
  <2>1. s[i] \in Nat /\ s[j] \in Nat
    BY <1>1, <1>7
  <2>2. (i < j => s[i] > s[j]) /\ (j < i => s[j] > s[i])
    BY <1>7
  <2> QED  BY <1>1, <2>1, <2>2
<1>10. s \in Injection(1 .. n, S)
  <2>1. ASSUME NEW i \in 1 .. n, NEW j \in 1 .. n, s[i] = s[j]  PROVE i = j
    <3>1. s[i] \in Nat /\ s[j] \in Nat
      BY <1>1, <1>7
    <3>2. s[i] >= s[j] /\ s[j] >= s[i]
      BY <2>1, <3>1
    <3>3. i <= j /\ j <= i
      BY <1>9, <3>2
    <3> QED  BY <1>1, <3>3
  <2> QED  BY <1>7, <2>1 DEF Injection, IsInjective
<1>11. IsFiniteSet(1 .. n) /\ Cardinality(1 .. n) = n
  BY <1>1, FS_Interval
<1>12. s \in Surjection(1 .. n, S)
  BY <1>1, <1>10, <1>11, FS_Injection
<1>13. \A d \in S : \E i \in 1 .. n : s[i] = d
  BY <1>12 DEF Surjection
<1>14. ASSUME NEW i \in 1 .. n  PROVE Cardinality({x \in S : x >= s[i]}) = i
  <2> DEFINE T == {x \in S : x >= s[i]}
             f == [j \in 1 .. i |-> s[j]]
  <2>1. i \in Nat /\ IsFiniteSet(1 .. i) /\ Cardinality(1 .. i) = i
    BY <1>1, FS_Interval
  <2>2. \A j \in 1 .. i : j \in 1 .. n /\ s[j] \in S /\ s[j] >= s[i]
    BY <1>1, <1>7, <1>9
  <2>3. \A x \in T : \E j \in 1 .. i : s[j] = x
    <3> TAKE x \in T
    <3>1. PICK j \in 1 .. n : s[j] = x
      BY <1>13
    <3>2. j <= i
      BY <1>9, <3>1
    <3> QED  BY <1>1, <3>1, <3>2
  <2>4. f \in [1 .. i -> T] /\ \A x \in T : \E j \in 1 .. i : f[j] = x
    BY <2>2, <2>3
  <2>5. \A j, k \in 1 .. i : f[j] = f[k] => j = k
    BY <1>10, <2>2 DEF Injection, IsInjective
  <2> HIDE DEF f, T
  <2>6. f \in Surjection(1 .. i, T) /\ f \in Injection(1 .. i, T)
    BY <2>4, <2>5 DEF Surjection, Injection, IsInjective
  <2>7. Cardinality(T) = i
    BY <2>1, <2>6, FS_Surjection
  <2> QED  BY <2>7 DEF T
<1>15. \A i \in 1 .. n : s[i] \in S
  BY <1>7
<1>16. /\ s \in Seq(S) /\ DOMAIN s = 1 .. Len(s) /\ Len(s) = Cardinality(S)
       /\ \A i \in 1 .. Len(s) : s[i] \in S /\ Cardinality({x \in S : x >= s[i]}) = i
       /\ \A d \in S : \E i \in 1 .. Len(s) : s[i] = d
  BY <1>8, <1>13, <1>14, <1>15
<1> QED  BY <1>16 DEF s

(* What backfill_dates_by_endpoint holds for an endpoint: its gaps, by     *)
(* depth.                                                                  *)
LEMMA GapListIs ==
  ASSUME NEW q \in Question, NEW e \in Selected(q.order)
  PROVE  LET s == DescendingGaps(q, e)
         IN  /\ s \in Seq(Date) /\ Len(s) \in Nat /\ DOMAIN s = 1 .. Len(s)
             /\ \A i \in 1 .. Len(s) :
                  <<e, s[i]>> \in Holes(q) /\ Depth(q.covered, q.target, <<e, s[i]>>) = i
             /\ \A g \in Holes(q) : g[1] = e =>
                  Depth(q.covered, q.target, g) \in 1 .. Len(s)
<1> DEFINE S == OlderMissing(q.covered[e], q.target)
           s == DescendingGaps(q, e)
<1>1. q.target \in Date /\ S \in SUBSET Date
  BY QuestionIs, OlderMissingType
<1>2. CASE e \in Profile
  <2>1. s = << >>
    BY <1>2 DEF DescendingGaps
  <2>2. \A g \in Holes(q) : g[1] # e
    BY <1>2, HolesAre
  <2> QED  BY <2>1, <2>2
<1>3. CASE e \notin Profile
  <2>1. s = Descending(S)
    BY <1>3 DEF DescendingGaps
  <2> HIDE DEF s, S
  <2>2. /\ s \in Seq(S) /\ DOMAIN s = 1 .. Len(s) /\ Len(s) = Cardinality(S)
        /\ \A i \in 1 .. Len(s) : s[i] \in S /\ Cardinality({x \in S : x >= s[i]}) = i
        /\ \A d \in S : \E i \in 1 .. Len(s) : s[i] = d
    BY <1>1, <2>1, DescendingIs
  <2>3. Len(s) \in Nat /\ s \in Seq(Date)
    BY <1>1, <2>2
  <2>4. \A d : Depth(q.covered, q.target, <<e, d>>) = Cardinality({x \in S : x >= d})
    BY DEF Depth, S
  <2>5. \A i \in 1 .. Len(s) : <<e, s[i]>> \in Holes(q)
    BY <1>3, <2>2, HolesAre DEF S
  <2>6. ASSUME NEW g \in Holes(q), g[1] = e
        PROVE  Depth(q.covered, q.target, g) \in 1 .. Len(s)
    <3>1. g = <<e, g[2]>> /\ g[2] \in S
      BY <2>6, HolesAre DEF S
    <3>2. PICK i \in 1 .. Len(s) : s[i] = g[2]
      BY <2>2, <3>1
    <3>3. Depth(q.covered, q.target, <<e, g[2]>>) = i
      BY <2>2, <2>4, <3>2
    <3> QED  BY <3>1, <3>3
  <2>7. /\ s \in Seq(Date) /\ Len(s) \in Nat /\ DOMAIN s = 1 .. Len(s)
        /\ \A i \in 1 .. Len(s) :
             <<e, s[i]>> \in Holes(q) /\ Depth(q.covered, q.target, <<e, s[i]>>) = i
        /\ \A g \in Holes(q) : g[1] = e => Depth(q.covered, q.target, g) \in 1 .. Len(s)
    BY <2>2, <2>3, <2>4, <2>5, <2>6
  <2> QED  BY <2>7 DEF s
<1> QED  BY <1>2, <1>3

\* what the first loop has seen before position p, the second before position
\* p of round k
OwedUpTo(q, p)     == {e \in Owed(q) : Place(q.order, e) < p}
HolesUpTo(q, k, p) ==
  {g \in Holes(q) : \/ Depth(q.covered, q.target, g) < k
                    \/ Depth(q.covered, q.target, g) = k /\ Place(q.order, g[1]) < p}

LEMMA OwedNext ==
  ASSUME NEW q \in Question, NEW p \in 1 .. Len(q.order)
  PROVE  /\ q.order[p] \in Owed(q) =>
              /\ RankNow(q, q.order[p]) = Cardinality(OwedUpTo(q, p + 1))
              /\ Cardinality(OwedUpTo(q, p + 1)) = Cardinality(OwedUpTo(q, p)) + 1
         /\ q.order[p] \notin Owed(q) => OwedUpTo(q, p + 1) = OwedUpTo(q, p)
         /\ q.order[p] \in Owed(q) <=> q.target \notin q.covered[q.order[p]]
<1> DEFINE e == q.order[p]
<1>1. IsSelection(q.order)
  BY QuestionIs
<1>2. /\ e \in Selected(q.order) /\ Place(q.order, e) = p /\ p \in Nat
      /\ \A f \in Selected(q.order) : Place(q.order, f) \in Nat /\ (Place(q.order, f) = p => f = e)
      /\ \A f \in Selected(q.order) : NotAfter(q.order, f, e) <=> Place(q.order, f) <= p
  BY <1>1, PlaceIs, PlaceOrder
<1>3. Owed(q) \subseteq Selected(q.order) /\ (e \in Owed(q) <=> q.target \notin q.covered[e])
  BY <1>2 DEF Owed, Stale
<1>4. IsFiniteSet(OwedUpTo(q, p))
  <2>1. IsFiniteSet(Selected(q.order))
    BY <1>1, SelectedFinite
  <2>2. OwedUpTo(q, p) \subseteq Selected(q.order)
    BY <1>3 DEF OwedUpTo
  <2> QED  BY <2>1, <2>2, FS_Subset
<1> HIDE DEF e
<1>5. ASSUME e \notin Owed(q)  PROVE OwedUpTo(q, p + 1) = OwedUpTo(q, p)
  <2>1. \A f \in Owed(q) : Place(q.order, f) < p + 1 <=> Place(q.order, f) < p
    BY <1>2, <1>3, <1>5
  <2> QED  BY <2>1 DEF OwedUpTo
<1>6. ASSUME e \in Owed(q)
      PROVE  /\ RankNow(q, e) = Cardinality(OwedUpTo(q, p + 1))
             /\ Cardinality(OwedUpTo(q, p + 1)) = Cardinality(OwedUpTo(q, p)) + 1
  <2>1. \A f \in Owed(q) : Place(q.order, f) < p + 1 <=> Place(q.order, f) < p \/ f = e
    BY <1>2, <1>3
  <2>2. OwedUpTo(q, p + 1) = OwedUpTo(q, p) \cup {e} /\ e \notin OwedUpTo(q, p)
    BY <1>2, <1>6, <2>1 DEF OwedUpTo
  <2>3. \A f \in Owed(q) : NotAfter(q.order, f, e) <=> Place(q.order, f) < p + 1
    BY <1>2, <1>3
  <2>4. {f \in Owed(q) : NotAfter(q.order, f, e)} = OwedUpTo(q, p + 1)
    BY <2>3 DEF OwedUpTo
  <2>5. RankNow(q, e) = Cardinality(OwedUpTo(q, p + 1))
    BY <2>4 DEF RankNow, CurrentnessRank, Owed
  <2> QED  BY <1>4, <2>2, <2>5, FS_AddElement
<1> QED  BY <1>3, <1>5, <1>6 DEF e

LEMMA OwedEnds ==
  ASSUME NEW q \in Question
  PROVE  /\ OwedUpTo(q, 1) = {}
         /\ OwedUpTo(q, Len(q.order) + 1) = Owed(q)
<1>1. /\ \A e \in Owed(q) : Place(q.order, e) \in 1 .. Len(q.order)
      /\ Len(q.order) \in Nat
  BY QuestionIs, PlaceIs DEF Owed, Stale
<1>2. \A e \in Owed(q) : ~ (Place(q.order, e) < 1) /\ Place(q.order, e) < Len(q.order) + 1
  BY <1>1
<1> QED  BY <1>2 DEF OwedUpTo

LEMMA HolesFinite ==
  ASSUME NEW q \in Question
  PROVE  /\ IsFiniteSet(Holes(q))
         /\ \A g \in Holes(q) : Depth(q.covered, q.target, g) \in Nat \ {0}
         /\ \A g, h \in Holes(q) : g[1] = h[1] /\
              Depth(q.covered, q.target, g) = Depth(q.covered, q.target, h) => g = h
<1>1. IsSelection(q.order) /\ q.target \in Date
  BY QuestionIs
<1>2. IsFiniteSet(Holes(q))
  BY <1>1, GapsAre DEF Holes
<1>3. ASSUME NEW g \in Holes(q)  PROVE Depth(q.covered, q.target, g) \in Nat \ {0}
  <2>1. g[1] \in Selected(q.order)
    BY HolesAre
  <2>2. PICK n \in Nat : Depth(q.covered, q.target, g) \in 1 .. n
    BY <2>1, GapListIs
  <2> QED  BY <2>2
<1>4. ASSUME NEW g \in Holes(q), NEW h \in Holes(q), g[1] = h[1],
             Depth(q.covered, q.target, g) = Depth(q.covered, q.target, h)
      PROVE  g = h
  <2>1. /\ g = <<g[1], g[2]>> /\ h = <<g[1], h[2]>> /\ g[2] \in Nat /\ h[2] \in Nat
        /\ g[2] \in OlderMissing(q.covered[g[1]], q.target)
        /\ h[2] \in OlderMissing(q.covered[g[1]], q.target)
    BY <1>4, HolesAre
  <2>2. Depth(q.covered, q.target, g) \in Nat
    BY <1>3
  <2>3. ~ (g[2] < h[2]) /\ ~ (h[2] < g[2])
    <3>1. /\ h[2] < g[2] => Depth(q.covered, q.target, <<g[1], g[2]>>)
                              < Depth(q.covered, q.target, <<g[1], h[2]>>)
          /\ g[2] < h[2] => Depth(q.covered, q.target, <<g[1], h[2]>>)
                              < Depth(q.covered, q.target, <<g[1], g[2]>>)
      BY <1>1, <2>1, DepthOrder
    <3> QED  BY <1>4, <2>1, <2>2, <3>1
  <2> QED  BY <2>1, <2>3
<1> QED  BY <1>2, <1>3, <1>4

LEMMA HolesNext ==
  ASSUME NEW q \in Question, NEW p \in 1 .. Len(q.order), NEW k \in Nat \ {0}
  PROVE  LET s == DescendingGaps(q, q.order[p])
             g == <<q.order[p], s[k]>>
         IN  /\ k <= Len(s) =>
                  /\ g \in Holes(q)
                  /\ RankGap(q, g) = Cardinality(HolesUpTo(q, k, p + 1))
                  /\ Cardinality(HolesUpTo(q, k, p + 1)) = Cardinality(HolesUpTo(q, k, p)) + 1
             /\ ~ (k <= Len(s)) => HolesUpTo(q, k, p + 1) = HolesUpTo(q, k, p)
<1> DEFINE e == q.order[p]
           s == DescendingGaps(q, e)
           g == <<e, s[k]>>
           Deep(h) == Depth(q.covered, q.target, h)
<1>1. IsSelection(q.order)
  BY QuestionIs
<1>2. /\ e \in Selected(q.order) /\ Place(q.order, e) = p /\ p \in Nat
      /\ \A f \in Selected(q.order) : Place(q.order, f) \in Nat /\ (Place(q.order, f) = p => f = e)
      /\ \A f \in Selected(q.order) : NotAfter(q.order, f, e) <=> Place(q.order, f) <= p
  BY <1>1, PlaceIs, PlaceOrder
<1>3. /\ Len(s) \in Nat
      /\ \A i \in 1 .. Len(s) : <<e, s[i]>> \in Holes(q) /\ Deep(<<e, s[i]>>) = i
      /\ \A h \in Holes(q) : h[1] = e => Deep(h) \in 1 .. Len(s)
  BY <1>2, GapListIs
<1>4. /\ \A h \in Holes(q) : Deep(h) \in Nat \ {0} /\ h[1] \in Selected(q.order)
      /\ \A h, i \in Holes(q) : h[1] = i[1] /\ Deep(h) = Deep(i) => h = i
      /\ IsFiniteSet(HolesUpTo(q, k, p))
  <2>1. IsFiniteSet(HolesUpTo(q, k, p))
    BY HolesFinite, FS_Subset DEF HolesUpTo
  <2> QED  BY <2>1, HolesFinite, HolesAre
<1>5. g[1] = e
  OBVIOUS
<1>6. \A h \in Holes(q) : QueuedNotAfter(q.covered, q.order, q.target, h, g)
         <=> Deep(h) < Deep(g) \/ (Deep(h) = Deep(g) /\ NotAfter(q.order, h[1], g[1]))
  BY DEF QueuedNotAfter
<1> HIDE DEF e, s, g, Deep
<1>7. ASSUME ~ (k <= Len(s))  PROVE HolesUpTo(q, k, p + 1) = HolesUpTo(q, k, p)
  <2>1. \A h \in Holes(q) : Deep(h) = k => (Place(q.order, h[1]) < p + 1 <=> Place(q.order, h[1]) < p)
    <3> TAKE h \in Holes(q)
    <3>1. Deep(h) = k => h[1] # e
      BY <1>3, <1>7
    <3> QED  BY <1>2, <1>4, <3>1
  <2> QED  BY <2>1 DEF HolesUpTo, Deep
<1>8. ASSUME k <= Len(s)
      PROVE  /\ g \in Holes(q)
             /\ RankGap(q, g) = Cardinality(HolesUpTo(q, k, p + 1))
             /\ Cardinality(HolesUpTo(q, k, p + 1)) = Cardinality(HolesUpTo(q, k, p)) + 1
  <2>1. k \in 1 .. Len(s) /\ g \in Holes(q) /\ Deep(g) = k
    <3>1. k \in 1 .. Len(s)
      BY <1>3, <1>8
    <3> QED  BY <1>3, <3>1 DEF g
  <2>2. \A h \in Holes(q) : Deep(h) = k =>
           (Place(q.order, h[1]) < p + 1 <=> Place(q.order, h[1]) < p \/ h = g)
    <3> TAKE h \in Holes(q)
    <3>1. Deep(h) = k => (h[1] = e <=> h = g)
      BY <1>4, <1>5, <2>1
    <3> QED  BY <1>2, <1>4, <1>5, <3>1
  <2>3. HolesUpTo(q, k, p + 1) = HolesUpTo(q, k, p) \cup {g} /\ g \notin HolesUpTo(q, k, p)
    <3>1. \A h \in Holes(q) : (Deep(h) < k \/ (Deep(h) = k /\ Place(q.order, h[1]) < p + 1))
             <=> (Deep(h) < k \/ (Deep(h) = k /\ Place(q.order, h[1]) < p)) \/ h = g
      BY <2>1, <2>2
    <3>2. ~ (Deep(g) < k) /\ ~ (Place(q.order, g[1]) < p)
      BY <1>2, <1>5, <2>1
    <3> QED  BY <2>1, <3>1, <3>2 DEF HolesUpTo, Deep
  <2>4. \A h \in Holes(q) : QueuedNotAfter(q.covered, q.order, q.target, h, g)
           <=> (Deep(h) < k \/ (Deep(h) = k /\ Place(q.order, h[1]) < p + 1))
    BY <1>2, <1>4, <1>5, <1>6, <2>1
  <2>5. {h \in Holes(q) : QueuedNotAfter(q.covered, q.order, q.target, h, g)}
          = HolesUpTo(q, k, p + 1)
    BY <2>4 DEF HolesUpTo, Deep
  <2>6. RankGap(q, g) = Cardinality(HolesUpTo(q, k, p + 1))
    BY <2>5 DEF RankGap, BackfillRank, Holes
  <2> QED  BY <1>4, <2>1, <2>3, <2>6, FS_AddElement
<1> QED  BY <1>7, <1>8 DEF e, s, g

LEMMA HolesEnds ==
  ASSUME NEW q \in Question, NEW k \in Nat \ {0}
  PROVE  /\ HolesUpTo(q, 1, 1) = {}
         /\ HolesUpTo(q, k, Len(q.order) + 1) = HolesUpTo(q, k + 1, 1)
         /\ \A p : (\A e \in Selected(q.order) : ~ (k <= Len(DescendingGaps(q, e))))
                     => HolesUpTo(q, k, p) = Holes(q)
<1> DEFINE Deep(h) == Depth(q.covered, q.target, h)
<1>1. \A g \in Holes(q) : /\ Deep(g) \in Nat \ {0} /\ g[1] \in Selected(q.order)
                          /\ Place(q.order, g[1]) \in 1 .. Len(q.order)
                          /\ Deep(g) \in 1 .. Len(DescendingGaps(q, g[1]))
  BY HolesFinite, HolesAre, QuestionIs, PlaceIs, GapListIs
<1>2. \A e \in Selected(q.order) : Len(DescendingGaps(q, e)) \in Nat
  BY GapListIs
<1>3. Len(q.order) \in Nat
  BY QuestionIs, PlaceIs
<1> HIDE DEF Deep
<1>4. HolesUpTo(q, 1, 1) = {}
  <2>1. \A g \in Holes(q) : ~ (Deep(g) < 1) /\ ~ (Place(q.order, g[1]) < 1)
    BY <1>1, <1>3
  <2> QED  BY <2>1 DEF HolesUpTo, Deep
<1>5. HolesUpTo(q, k, Len(q.order) + 1) = HolesUpTo(q, k + 1, 1)
  <2>1. \A g \in Holes(q) :
          (Deep(g) < k \/ (Deep(g) = k /\ Place(q.order, g[1]) < Len(q.order) + 1))
            <=> (Deep(g) < k + 1 \/ (Deep(g) = k + 1 /\ Place(q.order, g[1]) < 1))
    BY <1>1, <1>3
  <2> QED  BY <2>1 DEF HolesUpTo, Deep
<1>6. ASSUME NEW p, \A e \in Selected(q.order) : ~ (k <= Len(DescendingGaps(q, e)))
      PROVE  HolesUpTo(q, k, p) = Holes(q)
  <2>1. \A g \in Holes(q) : Deep(g) < k
    <3> TAKE g \in Holes(q)
    <3> DEFINE n == Len(DescendingGaps(q, g[1]))
    <3>1. n \in Nat /\ ~ (k <= n) /\ Deep(g) \in 1 .. n
      BY <1>1, <1>2, <1>6
    <3> HIDE DEF n
    <3> QED  BY <3>1
  <2> QED  BY <2>1 DEF HolesUpTo, Deep
<1> QED  BY <1>4, <1>5, <1>6

-----------------------------------------------------------------------------
(***************************************************************************)
(* The loop invariant: each queue holds its entries at their ranks, and    *)
(* the dispatch plan is the beginning of one queue, then of the other.     *)
(***************************************************************************)
Seen(e) == pc # "planning" \/ Place(question.order, e) < place

Positions ==
  /\ question \in Question
  /\ pc \in {"planning", "queueing", "currentness", "backfill", "returned"}
  /\ place \in 1 .. Len(question.order) /\ depth \in Nat \ {0}

CurrentnessQueue ==
  /\ currentnessTasks \in Seq(Owed(question))
  /\ \A i \in 1 .. Len(currentnessTasks) : RankNow(question, currentnessTasks[i]) = i
  /\ Len(currentnessTasks) =
       Cardinality(IF pc = "planning" THEN OwedUpTo(question, place) ELSE Owed(question))

GapLists ==
  backfillDates = [e \in Endpoint |-> IF e \in Selected(question.order) /\ Seen(e)
                                      THEN DescendingGaps(question, e) ELSE << >>]

BackfillQueue ==
  /\ backfillTasks \in Seq(Holes(question))
  /\ \A i \in 1 .. Len(backfillTasks) : RankGap(question, backfillTasks[i]) = i
  /\ pc = "planning" => depth = 1 /\ backfillTasks = << >>
  /\ pc = "queueing" => Len(backfillTasks) = Cardinality(HolesUpTo(question, depth, place))
  /\ pc \notin {"planning", "queueing"} => Len(backfillTasks) = Cardinality(Holes(question))

\* the first m entries of the one queue and the first n of the other
Begins(m, n) ==
  /\ Len(dispatchPlan) = m + n /\ m \in Nat /\ n \in Nat
  /\ m <= Len(currentnessTasks) /\ m <= question.maxTasks
  /\ n <= Len(backfillTasks)
  /\ \A i \in 1 .. m : dispatchPlan[i] = NowTask(question, currentnessTasks[i])
  /\ \A i \in 1 .. n : dispatchPlan[m + i] = GapTask(question, backfillTasks[i])

PlanSoFar ==
  /\ dispatchPlan \in Seq(Task)
  /\ pc \in {"planning", "queueing"} => dispatchPlan = << >>
  /\ pc \notin {"backfill", "returned"} => backfillCount = 0
  /\ pc = "currentness" => Begins(Len(dispatchPlan), 0)
  /\ pc = "backfill" =>
       /\ Begins(Cardinality(Now(question)), backfillCount)
       /\ backfillBudget = Budget(question) /\ backfillCount <= Budget(question)

AnswerInv ==
  /\ question \in Question
  /\ answer = {} \/ answer = PlanFor(question)
  /\ answered => answer = PlanFor(question)

LoopInv == Positions /\ CurrentnessQueue /\ GapLists /\ BackfillQueue /\ PlanSoFar /\ AnswerInv

LEMMA InitLoops == Init => LoopInv
<1> SUFFICES ASSUME Init  PROVE LoopInv
  OBVIOUS
<1>1. /\ question \in Question /\ pc = "planning" /\ place = 1 /\ depth = 1
      /\ currentnessTasks = << >> /\ backfillTasks = << >> /\ dispatchPlan = << >>
      /\ backfillDates = [e \in Endpoint |-> << >>] /\ backfillCount = 0 /\ answer = {}
  BY DEF Init
<1>2. /\ Len(question.order) \in Nat \ {0}
      /\ \A e \in Selected(question.order) : Place(question.order, e) \in 1 .. Len(question.order)
  BY <1>1, QuestionIs, PlaceIs
<1>3. Positions
  BY <1>1, <1>2 DEF Positions
<1>4. CurrentnessQueue
  <2>1. Cardinality(OwedUpTo(question, 1)) = 0
    BY <1>1, OwedEnds, FS_EmptySet
  <2> QED  BY <1>1, <2>1 DEF CurrentnessQueue
<1>5. GapLists
  <2>1. \A e \in Selected(question.order) : ~ Seen(e)
    BY <1>1, <1>2 DEF Seen
  <2> QED  BY <1>1, <2>1 DEF GapLists
<1>6. BackfillQueue /\ PlanSoFar /\ AnswerInv
  BY <1>1 DEF BackfillQueue, PlanSoFar, AnswerInv, answered
<1> QED  BY <1>3, <1>4, <1>5, <1>6 DEF LoopInv

(* One endpoint planned: it goes to the end of the queue if it owes the    *)
(* target, and its gaps are listed.                                        *)
LEMMA PlanEndpointKeeps ==
  ASSUME LoopInv, PlanEndpoint  PROVE LoopInv'
<1> DEFINE q == question
           e == q.order[place]
<1>1. /\ pc = "planning" /\ q \in Question /\ place \in 1 .. Len(q.order) /\ depth = 1
      /\ backfillTasks = << >> /\ dispatchPlan = << >> /\ backfillCount = 0
      /\ currentnessTasks \in Seq(Owed(q))
      /\ \A i \in 1 .. Len(currentnessTasks) : RankNow(q, currentnessTasks[i]) = i
      /\ Len(currentnessTasks) = Cardinality(OwedUpTo(q, place))
  BY DEF LoopInv, Positions, PlanEndpoint, BackfillQueue, PlanSoFar, CurrentnessQueue
<1>2. /\ UNCHANGED <<question, depth, backfillTasks, dispatchPlan, backfillBudget, backfillCount, answer>>
      /\ place' = IF place = Len(q.order) THEN 1 ELSE place + 1
      /\ pc' = IF place = Len(q.order) THEN "queueing" ELSE "planning"
      /\ currentnessTasks' = IF q.target \in q.covered[e] THEN currentnessTasks
                             ELSE Append(currentnessTasks, e)
      /\ backfillDates' = [backfillDates EXCEPT ![e] = DescendingGaps(q, e)]
  BY <1>1 DEF PlanEndpoint, LastPlace, NextPlace, dispatching
<1>3. /\ Len(q.order) \in Nat \ {0} /\ place \in Nat
      /\ e \in Selected(q.order) /\ Place(q.order, e) = place
      /\ \A f \in Selected(q.order) :
           Place(q.order, f) \in 1 .. Len(q.order) /\ (Place(q.order, f) = place => f = e)
      /\ Selected(q.order) \subseteq Endpoint
  BY <1>1, QuestionIs, PlaceIs, SelectedFinite
<1> HIDE DEF q, e
<1>4. Positions'
  BY <1>1, <1>2, <1>3 DEF Positions, q
<1>5. CurrentnessQueue'
  <2>1. OwedUpTo(q, Len(q.order) + 1) = Owed(q)
    BY <1>1, OwedEnds
  <2>2. (IF pc' = "planning" THEN OwedUpTo(q', place') ELSE Owed(q')) = OwedUpTo(q, place + 1)
    BY <1>1, <1>2, <1>3, <2>1 DEF q
  <2>3. Len(currentnessTasks) \in Nat
    BY <1>1, LenProperties
  <2>4. CASE e \in Owed(q)
    <3>1. /\ RankNow(q, e) = Len(currentnessTasks) + 1
          /\ Cardinality(OwedUpTo(q, place + 1)) = Len(currentnessTasks) + 1
          /\ currentnessTasks' = Append(currentnessTasks, e)
      BY <1>1, <1>2, <2>4, OwedNext DEF e
    <3>2. /\ currentnessTasks' \in Seq(Owed(q)) /\ Len(currentnessTasks') = Len(currentnessTasks) + 1
          /\ \A i \in 1 .. Len(currentnessTasks) : currentnessTasks'[i] = currentnessTasks[i]
          /\ currentnessTasks'[Len(currentnessTasks) + 1] = e
      BY <1>1, <2>4, <3>1, AppendProperties
    <3>3. \A i \in 1 .. Len(currentnessTasks') : RankNow(q, currentnessTasks'[i]) = i
      BY <1>1, <2>3, <3>1, <3>2
    <3> QED  BY <1>2, <2>2, <3>1, <3>2, <3>3 DEF CurrentnessQueue, q
  <2>5. CASE e \notin Owed(q)
    <3>1. OwedUpTo(q, place + 1) = OwedUpTo(q, place) /\ currentnessTasks' = currentnessTasks
      BY <1>1, <1>2, <2>5, OwedNext DEF e
    <3> QED  BY <1>1, <1>2, <2>2, <3>1 DEF CurrentnessQueue, q
  <2> QED  BY <2>4, <2>5
<1>6. GapLists'
  <2>1. backfillDates = [f \in Endpoint |-> IF f \in Selected(q.order) /\ Place(q.order, f) < place
                                            THEN DescendingGaps(q, f) ELSE << >>]
    BY <1>1 DEF LoopInv, GapLists, Seen, q
  <2>2. \A f \in Selected(q.order) : Seen(f)' <=> Place(q.order, f) < place \/ f = e
    <3> TAKE f \in Selected(q.order)
    <3> DEFINE n == Place(q.order, f)
    <3>1. Seen(f)' <=> (pc' # "planning" \/ n < place')
      BY <1>2 DEF Seen, q
    <3>2. n \in 1 .. Len(q.order)
      BY <1>3
    <3>3. n = place <=> f = e
      BY <1>3
    <3> HIDE DEF n
    <3>4. (pc' # "planning" \/ n < place') <=> (n < place \/ f = e)
      BY <1>2, <1>3, <3>2, <3>3
    <3> QED  BY <3>1, <3>4 DEF n
  <2>3. backfillDates' = [f \in Endpoint |-> IF f \in Selected(q.order) /\ Seen(f)'
                                             THEN DescendingGaps(q, f) ELSE << >>]
    BY <1>2, <1>3, <2>1, <2>2
  <2>4. \A f : DescendingGaps(q', f) = DescendingGaps(q, f) /\ q' = q
    BY <1>2 DEF q
  <2> QED  BY <1>2, <2>3, <2>4 DEF GapLists, q
<1>7. BackfillQueue'
  <2>1. /\ backfillTasks' = << >> /\ backfillTasks' \in Seq(Holes(q')) /\ depth' = 1 /\ Len(backfillTasks') = 0
        /\ pc' = "queueing" => place' = 1
        /\ pc' \in {"planning", "queueing"}
    BY <1>1, <1>2
  <2>2. Cardinality(HolesUpTo(q', 1, 1)) = 0
    <3>1. HolesUpTo(q, 1, 1) = {} /\ q' = q
      BY <1>1, <1>2, HolesEnds DEF q
    <3> QED  BY <3>1, FS_EmptySet
  <2> QED  BY <2>1, <2>2 DEF BackfillQueue, q
<1>8. PlanSoFar' /\ AnswerInv'
  BY <1>1, <1>2 DEF LoopInv, PlanSoFar, AnswerInv, answered, q
<1> QED  BY <1>4, <1>5, <1>6, <1>7, <1>8 DEF LoopInv

(* One candidate queued: the round goes on to the next endpoint, or the    *)
(* next round begins.                                                      *)
LEMMA QueueGapKeeps ==
  ASSUME LoopInv, QueueGap  PROVE LoopInv'
<1> DEFINE q == question
           e == q.order[place]
           s == DescendingGaps(q, e)
           g == <<e, s[depth]>>
           b == backfillTasks
<1>1. /\ pc = "queueing" /\ q \in Question /\ place \in 1 .. Len(q.order) /\ depth \in Nat \ {0}
      /\ dispatchPlan = << >> /\ backfillCount = 0
      /\ b \in Seq(Holes(q)) /\ Len(b) = Cardinality(HolesUpTo(q, depth, place))
      /\ \A i \in 1 .. Len(b) : RankGap(q, b[i]) = i
  BY DEF LoopInv, Positions, QueueGap, BackfillQueue, PlanSoFar
<1>2. e \in Selected(q.order) /\ e \in Endpoint /\ Len(q.order) \in Nat \ {0}
  BY <1>1, QuestionIs, PlaceIs, SelectedFinite
<1>3. backfillDates[e] = s
  BY <1>1, <1>2 DEF LoopInv, GapLists, Seen
<1>4. /\ UNCHANGED <<question, pc, currentnessTasks, backfillDates, dispatchPlan, backfillBudget,
                     backfillCount, answer>>
      /\ place' = IF place = Len(q.order) THEN 1 ELSE place + 1
      /\ depth' = IF place = Len(q.order) THEN depth + 1 ELSE depth
      /\ b' = b \o (IF depth <= Len(s) THEN << g >> ELSE << >>)
  BY <1>3 DEF QueueGap, Queued, LastPlace, NextPlace, dispatching
<1>5. /\ depth <= Len(s) =>
            /\ g \in Holes(q)
            /\ RankGap(q, g) = Cardinality(HolesUpTo(q, depth, place + 1))
            /\ Cardinality(HolesUpTo(q, depth, place + 1))
                 = Cardinality(HolesUpTo(q, depth, place)) + 1
      /\ ~ (depth <= Len(s)) => HolesUpTo(q, depth, place + 1) = HolesUpTo(q, depth, place)
  BY <1>1, HolesNext
<1>6. q' = q
  BY <1>4
<1> HIDE DEF q, e, s, g, b
<1>7. HolesUpTo(q, depth', place') = HolesUpTo(q, depth, place + 1)
  <2>1. CASE place = Len(q.order)
    <3>1. depth' = depth + 1 /\ place' = 1
      BY <1>4, <2>1
    <3>2. HolesUpTo(q, depth, Len(q.order) + 1) = HolesUpTo(q, depth + 1, 1)
      BY <1>1, HolesEnds
    <3> QED  BY <2>1, <3>1, <3>2
  <2>2. CASE place # Len(q.order)
    <3>1. depth' = depth /\ place' = place + 1
      BY <1>4, <2>2
    <3> QED  BY <3>1
  <2> QED  BY <2>1, <2>2
<1>8. /\ b' \in Seq(Holes(q)) /\ Len(b') = Cardinality(HolesUpTo(q, depth, place + 1))
      /\ \A i \in 1 .. Len(b') : RankGap(q, b'[i]) = i
  <2>1. Len(b) \in Nat
    BY <1>1, LenProperties
  <2>2. CASE depth <= Len(s)
    <3>1. /\ b' = b \o << g >> /\ g \in Holes(q) /\ RankGap(q, g) = Len(b) + 1
          /\ Cardinality(HolesUpTo(q, depth, place + 1)) = Len(b) + 1
      BY <1>1, <1>4, <1>5, <2>2
    <3>2. b' = Append(b, g)
      BY <1>1, <3>1, AppendIsConcat
    <3>3. /\ b' \in Seq(Holes(q)) /\ Len(b') = Len(b) + 1 /\ b'[Len(b) + 1] = g
          /\ \A i \in 1 .. Len(b) : b'[i] = b[i]
      BY <1>1, <3>1, <3>2, AppendProperties
    <3>4. \A i \in 1 .. Len(b') : RankGap(q, b'[i]) = i
      BY <1>1, <2>1, <3>1, <3>3
    <3> QED  BY <3>1, <3>3, <3>4
  <2>3. CASE ~ (depth <= Len(s))
    <3>1. b' = b
      BY <1>1, <1>4, <2>3, ConcatEmptySeq
    <3> QED  BY <1>1, <1>5, <2>3, <3>1
  <2> QED  BY <2>2, <2>3
<1>9. Positions'
  BY <1>1, <1>2, <1>4 DEF Positions, q
<1>10. CurrentnessQueue'
  BY <1>1, <1>4 DEF LoopInv, CurrentnessQueue, q
<1>11. GapLists'
  BY <1>1, <1>4 DEF LoopInv, GapLists, Seen, q
<1>12. BackfillQueue'
  <2>1. Len(b') = Cardinality(HolesUpTo(q', depth', place')) /\ b' \in Seq(Holes(q'))
    BY <1>6, <1>7, <1>8
  <2>2. \A i \in 1 .. Len(b') : RankGap(q', b'[i]) = i
    BY <1>6, <1>8
  <2> QED  BY <1>1, <1>4, <2>1, <2>2 DEF BackfillQueue, q, b
<1>13. PlanSoFar' /\ AnswerInv'
  BY <1>1, <1>4 DEF LoopInv, PlanSoFar, AnswerInv, answered, q
<1> QED  BY <1>9, <1>10, <1>11, <1>12, <1>13 DEF LoopInv

(* When no list reaches the round any more, every gap is queued.           *)
LEMMA PlanReturnedKeeps ==
  ASSUME LoopInv, PlanReturned  PROVE LoopInv'
<1> DEFINE q == question
<1>1. /\ pc = "queueing" /\ q \in Question /\ depth \in Nat \ {0}
      /\ dispatchPlan = << >> /\ backfillCount = 0
      /\ Len(backfillTasks) = Cardinality(HolesUpTo(q, depth, place))
      /\ Len(currentnessTasks) \in Nat /\ Len(backfillTasks) \in Nat
  BY LenProperties
     DEF LoopInv, Positions, PlanReturned, BackfillQueue, PlanSoFar, CurrentnessQueue
<1>2. /\ UNCHANGED <<question, place, depth, currentnessTasks, backfillDates, backfillTasks,
                     dispatchPlan, backfillBudget, backfillCount, answer>>
      /\ pc' = "currentness"
  BY DEF PlanReturned, planning, dispatching
<1>3. \A e \in Selected(q.order) : ~ (depth <= Len(DescendingGaps(q, e)))
  <2> TAKE e \in Selected(q.order)
  <2>1. e \in Endpoint /\ ~ (depth <= Len(backfillDates[e]))
    BY <1>1, QuestionIs, SelectedFinite DEF PlanReturned, MoreRounds
  <2>2. backfillDates[e] = DescendingGaps(q, e)
    BY <1>1, <2>1 DEF LoopInv, GapLists, Seen
  <2> QED  BY <2>1, <2>2
<1>4. Len(backfillTasks) = Cardinality(Holes(q))
  BY <1>1, <1>3, HolesEnds
<1>5. q.maxTasks \in Nat
  BY <1>1, QuestionIs
<1> HIDE DEF q
<1>6. Positions'
  BY <1>2 DEF LoopInv, Positions
<1>7. CurrentnessQueue'
  BY <1>1, <1>2 DEF LoopInv, CurrentnessQueue
<1>8. GapLists'
  BY <1>1, <1>2 DEF LoopInv, GapLists, Seen
<1>9. BackfillQueue'
  BY <1>1, <1>2, <1>4 DEF LoopInv, BackfillQueue, q
<1>10. PlanSoFar'
  <2>1. dispatchPlan' = << >> /\ Len(dispatchPlan') = 0 /\ dispatchPlan' \in Seq(Task)
    BY <1>1, <1>2
  <2>2. Begins(Len(dispatchPlan), 0)'
    BY <1>1, <1>2, <1>5, <2>1 DEF Begins, q
  <2> QED  BY <1>1, <1>2, <2>1, <2>2 DEF PlanSoFar
<1>11. AnswerInv'
  BY <1>1, <1>2 DEF LoopInv, AnswerInv, answered
<1> QED  BY <1>6, <1>7, <1>8, <1>9, <1>10, <1>11 DEF LoopInv

(* The dispatch loops leave the plan as it was returned.                   *)
LEMMA QueuesStay ==
  ASSUME LoopInv, UNCHANGED <<question, planning>>,
         pc \in {"currentness", "backfill", "returned"},
         pc' \in {"currentness", "backfill", "returned"}
  PROVE  Positions' /\ CurrentnessQueue' /\ GapLists' /\ BackfillQueue'
<1>1. UNCHANGED <<question, place, depth, currentnessTasks, backfillDates, backfillTasks>>
  BY DEF planning
<1>2. Positions'
  BY <1>1 DEF LoopInv, Positions
<1>3. CurrentnessQueue'
  BY <1>1 DEF LoopInv, CurrentnessQueue
<1>4. GapLists'
  BY <1>1 DEF LoopInv, GapLists, Seen
<1>5. BackfillQueue'
  BY <1>1 DEF LoopInv, BackfillQueue
<1> QED  BY <1>2, <1>3, <1>4, <1>5

(* One currentness task: the next of its queue, at its rank.               *)
LEMMA DispatchCurrentnessKeeps ==
  ASSUME LoopInv, DispatchCurrentness  PROVE LoopInv'
<1> DEFINE q == question
           m == Len(dispatchPlan)
           e == currentnessTasks[m + 1]
           u == NowTask(q, e)
<1>1. /\ pc = "currentness" /\ q \in Question /\ backfillCount = 0
      /\ dispatchPlan \in Seq(Task) /\ Begins(m, 0)
      /\ currentnessTasks \in Seq(Owed(q))
      /\ \A i \in 1 .. Len(currentnessTasks) : RankNow(q, currentnessTasks[i]) = i
      /\ m < Len(currentnessTasks) /\ m < q.maxTasks
  BY DEF LoopInv, Positions, DispatchCurrentness, PlanSoFar, CurrentnessQueue, CurrentnessLeft,
         RoomForTask
<1>2. /\ UNCHANGED <<question, pc, planning, currentnessTasks, backfillTasks, backfillBudget,
                     backfillCount, answer>>
      /\ dispatchPlan' = Append(dispatchPlan, [seq |-> m + 1, priority |-> "currentness",
                                               endpoint |-> e, date |-> q.target])
  BY DEF DispatchCurrentness, Dispatched, planning
<1>3. /\ m \in Nat /\ Len(currentnessTasks) \in Nat /\ q.maxTasks \in Nat
      /\ Len(backfillTasks) \in Nat
  BY <1>1, QuestionIs, LenProperties DEF LoopInv, BackfillQueue
<1>4. e \in Owed(q) /\ RankNow(q, e) = m + 1
  <2>1. m + 1 \in 1 .. Len(currentnessTasks)
    BY <1>1, <1>3
  <2> QED  BY <1>1, <2>1, ElementOfSeq
<1>5. u = [seq |-> m + 1, priority |-> "currentness", endpoint |-> e, date |-> q.target]
  BY <1>4 DEF NowTask
<1>6. u \in Task
  BY <1>1, <1>3, <1>4, <1>5, NowIs, QuestionIs DEF Task
<1> HIDE DEF q, m, e, u
<1>7. /\ dispatchPlan' \in Seq(Task) /\ Len(dispatchPlan') = m + 1
      /\ \A i \in 1 .. m : dispatchPlan'[i] = dispatchPlan[i]
      /\ dispatchPlan'[m + 1] = u
  BY <1>1, <1>2, <1>5, <1>6, AppendProperties DEF m
<1>8. \A i \in 1 .. m + 1 : dispatchPlan'[i] = NowTask(q, currentnessTasks[i])
  <2> TAKE i \in 1 .. m + 1
  <2>1. CASE i \in 1 .. m
    BY <1>1, <1>7, <2>1 DEF Begins, q
  <2>2. CASE i = m + 1
    BY <1>7, <2>2 DEF u, e
  <2> QED  BY <1>3, <2>1, <2>2
<1>9. Begins(Len(dispatchPlan), 0)'
  <2>1. /\ m + 1 \in Nat /\ m + 1 <= Len(currentnessTasks) /\ m + 1 <= q.maxTasks
        /\ m + 1 = m + 1 + 0 /\ 0 <= Len(backfillTasks)
    BY <1>1, <1>3
  <2> QED  BY <1>2, <1>7, <1>8, <2>1 DEF Begins, q
<1>10. PlanSoFar'
  BY <1>1, <1>2, <1>7, <1>9 DEF PlanSoFar
<1>11. AnswerInv'
  BY <1>1, <1>2 DEF LoopInv, AnswerInv, answered
<1> QED  BY <1>1, <1>2, <1>10, <1>11, QueuesStay DEF LoopInv

(* How many endpoints are kept current.                                    *)
LEMMA NowCount ==
  ASSUME NEW q \in Question
  PROVE  /\ Cardinality(Owed(q)) <= q.maxTasks =>
              Now(q) = Owed(q)
         /\ q.maxTasks < Cardinality(Owed(q)) =>
              Cardinality(Now(q)) = q.maxTasks /\ Now(q) # Owed(q) /\ Budget(q) = 0
<1>1. q.maxTasks \in Nat
  BY QuestionIs
<1>2. /\ Now(q) \subseteq Owed(q) /\ Cardinality(Owed(q)) \in Nat
      /\ Cardinality(Now(q)) \in Nat /\ Cardinality(Now(q)) <= q.maxTasks
      /\ \A e \in Owed(q) : /\ RankNow(q, e) \in Nat /\ RankNow(q, e) <= Cardinality(Owed(q))
                            /\ RankNow(q, e) <= q.maxTasks => e \in Now(q)
      /\ \A k \in 1 .. Cardinality(Owed(q)) : \E e \in Owed(q) : RankNow(q, e) = k
  BY NowIs
<1>3. ASSUME Cardinality(Owed(q)) <= q.maxTasks  PROVE Now(q) = Owed(q)
  <2>1. \A e \in Owed(q) : RankNow(q, e) <= q.maxTasks
    BY <1>1, <1>2, <1>3
  <2> QED  BY <1>2, <2>1
<1>4. ASSUME q.maxTasks < Cardinality(Owed(q))
      PROVE  Cardinality(Now(q)) = q.maxTasks /\ Now(q) # Owed(q) /\ Budget(q) = 0
  <2> DEFINE f == [e \in Now(q) |-> RankNow(q, e)]
  <2>1. ASSUME NEW k \in 1 .. q.maxTasks  PROVE \E e \in Now(q) : f[e] = k
    <3>1. k \in 1 .. Cardinality(Owed(q)) /\ k <= q.maxTasks
      BY <1>1, <1>2, <1>4
    <3>2. PICK e \in Owed(q) : RankNow(q, e) = k
      BY <1>2, <3>1
    <3>3. e \in Now(q)
      BY <1>2, <3>1, <3>2
    <3> QED  BY <3>2, <3>3
  <2> HIDE DEF f
  <2>2. IsFiniteSet(Now(q))
    <3>1. IsFiniteSet(Owed(q))
      BY QuestionIs, StaleRank DEF Owed
    <3> QED  BY <1>2, <3>1, FS_Subset
  <2>3. Cardinality(Now(q)) = q.maxTasks
    BY <1>1, <1>2, <2>1, <2>2, AllNumbersUsed
  <2>4. Now(q) # Owed(q)
    BY <1>1, <1>2, <1>4, <2>3
  <2>5. Budget(q) \in Nat /\ ~ (Budget(q) > 0)
    BY <2>4, BudgetIs
  <2> QED  BY <2>3, <2>4, <2>5
<1> QED  BY <1>3, <1>4

(* The budget for history: what the first loop has left.                   *)
LEMMA ResolveBudgetKeeps ==
  ASSUME LoopInv, ResolveBudget  PROVE LoopInv'
<1> DEFINE q == question
           m == Len(dispatchPlan)
           c == Len(currentnessTasks)
<1>1. /\ pc = "currentness" /\ q \in Question /\ backfillCount = 0
      /\ dispatchPlan \in Seq(Task) /\ Begins(m, 0)
      /\ c = Cardinality(Owed(q)) /\ m <= c /\ m <= q.maxTasks
      /\ ~ (m < c /\ m < q.maxTasks)
  BY DEF LoopInv, Positions, ResolveBudget, PlanSoFar, CurrentnessQueue, CurrentnessLeft,
         RoomForTask, Begins
<1>2. /\ UNCHANGED <<question, planning, currentnessTasks, backfillTasks, dispatchPlan,
                     backfillCount, answer>>
      /\ pc' = "backfill"
      /\ backfillBudget' = IF c > m THEN 0
                           ELSE IF q.maxBackfill # NoBudget THEN q.maxBackfill
                           ELSE q.maxTasks - m
  BY DEF ResolveBudget, ResolvedBudget, planning
<1>3. /\ m \in Nat /\ c \in Nat /\ q.maxTasks \in Nat /\ Budget(q) \in Nat
      /\ Cardinality(Now(q)) \in Nat
  BY <1>1, QuestionIs, LenProperties, NowIs, BudgetIs
<1> HIDE DEF q, m, c
<1>4. m = Cardinality(Now(q)) /\ backfillBudget' = Budget(q)
  <2>1. CASE c <= q.maxTasks
    <3>1. m = c /\ ~ (c > m)
      BY <1>1, <1>3, <2>1
    <3>2. Now(q) = Owed(q)
      BY <1>1, <2>1, NowCount
    <3>3. IF q.maxBackfill # NoBudget THEN Budget(q) = q.maxBackfill
          ELSE Cardinality(Now(q)) + Budget(q) = q.maxTasks
      BY <1>1, <3>2, BudgetIs
    <3>4. m = Cardinality(Now(q))
      BY <1>1, <3>1, <3>2
    <3> QED  BY <1>2, <1>3, <3>1, <3>3, <3>4
  <2>2. CASE q.maxTasks < c
    <3>1. m = q.maxTasks /\ c > m
      BY <1>1, <1>3, <2>2
    <3> QED  BY <1>1, <1>2, <2>2, <3>1, NowCount
  <2> QED  BY <1>3, <2>1, <2>2
<1>5. PlanSoFar'
  <2>1. Begins(m, 0)'
    BY <1>1, <1>2 DEF Begins, m, q
  <2>2. Cardinality(Now(question))' = m' /\ Budget(question)' = Budget(q) /\ m' = m
    BY <1>2, <1>4 DEF q, m
  <2>3. Begins(Cardinality(Now(question)), backfillCount)'
    BY <1>1, <1>2, <2>1, <2>2
  <2> QED  BY <1>1, <1>2, <1>3, <1>4, <2>2, <2>3 DEF PlanSoFar
<1>6. AnswerInv'
  BY <1>1, <1>2 DEF LoopInv, AnswerInv, answered
<1> QED  BY <1>1, <1>2, <1>5, <1>6, QueuesStay DEF LoopInv

(* One history task: the next of the other queue, at its rank behind the   *)
(* currentness tasks.                                                      *)
LEMMA DispatchBackfillKeeps ==
  ASSUME LoopInv, DispatchBackfill  PROVE LoopInv'
<1> DEFINE q == question
           m == Cardinality(Now(q))
           n == backfillCount
           g == backfillTasks[n + 1]
           u == GapTask(q, g)
<1>1. /\ pc = "backfill" /\ q \in Question /\ dispatchPlan \in Seq(Task) /\ Begins(m, n)
      /\ backfillBudget = Budget(q) /\ backfillTasks \in Seq(Holes(q))
      /\ \A i \in 1 .. Len(backfillTasks) : RankGap(q, backfillTasks[i]) = i
      /\ n < Len(backfillTasks) /\ n < Budget(q) /\ Len(dispatchPlan) = m + n /\ n \in Nat
  BY DEF LoopInv, Positions, DispatchBackfill, PlanSoFar, BackfillQueue, BackfillLeft, Begins
<1>2. /\ UNCHANGED <<question, pc, planning, currentnessTasks, backfillTasks, backfillBudget, answer>>
      /\ dispatchPlan' = Append(dispatchPlan, [seq |-> m + n + 1, priority |-> "backfill",
                                               endpoint |-> g[1], date |-> g[2]])
      /\ n' = n + 1
  BY <1>1 DEF DispatchBackfill, Dispatched, planning
<1>3. m \in Nat /\ Len(backfillTasks) \in Nat /\ Budget(q) \in Nat
  BY <1>1, NowIs, BudgetIs, LenProperties
<1>4. g \in Holes(q) /\ RankGap(q, g) = n + 1
  <2>1. n + 1 \in 1 .. Len(backfillTasks)
    BY <1>1, <1>3
  <2> QED  BY <1>1, <2>1, ElementOfSeq
<1>5. g[1] \in Endpoint /\ g[2] \in Date
  <2>1. IsSelection(q.order) /\ q.target \in Date
    BY <1>1, QuestionIs
  <2> QED  BY <1>4, <2>1, GapsAre DEF Holes
<1>6. u = [seq |-> m + n + 1, priority |-> "backfill", endpoint |-> g[1], date |-> g[2]]
  <2>1. m + RankGap(q, g) = m + n + 1
    BY <1>1, <1>3, <1>4
  <2> QED  BY <2>1 DEF GapTask
<1>7. u \in Task
  BY <1>1, <1>3, <1>5, <1>6 DEF Task
<1>8. m' = m
  BY <1>2
<1> HIDE DEF q, m, g, u
<1>9. /\ dispatchPlan' \in Seq(Task) /\ Len(dispatchPlan') = m + n + 1
      /\ \A i \in 1 .. m + n : dispatchPlan'[i] = dispatchPlan[i]
      /\ dispatchPlan'[m + n + 1] = u
  BY <1>1, <1>2, <1>6, <1>7, AppendProperties
<1>10. \A i \in 1 .. m : dispatchPlan'[i] = NowTask(q, currentnessTasks[i])
  <2> TAKE i \in 1 .. m
  <2>1. i \in 1 .. m + n
    BY <1>1, <1>3
  <2>2. dispatchPlan[i] = NowTask(q, currentnessTasks[i])
    BY <1>1 DEF Begins, q
  <2> QED  BY <1>9, <2>1, <2>2
<1>11. \A i \in 1 .. n + 1 : dispatchPlan'[m + i] = GapTask(q, backfillTasks[i])
  <2> TAKE i \in 1 .. n + 1
  <2>1. CASE i \in 1 .. n
    <3>1. m + i \in 1 .. m + n
      BY <1>1, <1>3, <2>1
    <3>2. dispatchPlan[m + i] = GapTask(q, backfillTasks[i])
      BY <1>1, <2>1 DEF Begins, q
    <3> QED  BY <1>9, <3>1, <3>2
  <2>2. CASE i = n + 1
    <3>1. m + i = m + n + 1
      BY <1>1, <1>3, <2>2
    <3> QED  BY <1>9, <2>2, <3>1 DEF u, g
  <2> QED  BY <1>1, <2>1, <2>2
<1>12. Begins(Cardinality(Now(question)), backfillCount)'
  <2>1. /\ m + n + 1 = m + (n + 1) /\ n + 1 \in Nat /\ n + 1 <= Len(backfillTasks)
        /\ m <= Len(currentnessTasks) /\ m <= question.maxTasks
    BY <1>1, <1>3 DEF Begins
  <2>2. Begins(m, n)'
    BY <1>2, <1>3, <1>8, <1>9, <1>10, <1>11, <2>1 DEF Begins, q
  <2> QED  BY <2>2 DEF m, q
<1>13. PlanSoFar'
  <2>1. Budget(question)' = Budget(q) /\ n + 1 <= Budget(q)
    BY <1>1, <1>2, <1>3 DEF q
  <2> QED  BY <1>1, <1>2, <1>9, <1>12, <2>1 DEF PlanSoFar
<1>14. AnswerInv'
  BY <1>1, <1>2 DEF LoopInv, AnswerInv, answered
<1> QED  BY <1>1, <1>2, <1>13, <1>14, QueuesStay DEF LoopInv

(* Both loops are over: every rank within its budget is in the plan, and   *)
(* nothing else is.                                                        *)
LEMMA LoopsEnd ==
  ASSUME LoopInv, pc = "backfill", ~ BackfillLeft
  PROVE  {dispatchPlan[i] : i \in DOMAIN dispatchPlan} = PlanFor(question)
<1> DEFINE q == question
           m == Cardinality(Now(q))
           n == backfillCount
           tasks == {dispatchPlan[i] : i \in DOMAIN dispatchPlan}
<1>1. /\ q \in Question /\ dispatchPlan \in Seq(Task) /\ Begins(m, n)
      /\ currentnessTasks \in Seq(Owed(q)) /\ backfillTasks \in Seq(Holes(q))
      /\ \A i \in 1 .. Len(currentnessTasks) : RankNow(q, currentnessTasks[i]) = i
      /\ \A i \in 1 .. Len(backfillTasks) : RankGap(q, backfillTasks[i]) = i
      /\ Len(currentnessTasks) = Cardinality(Owed(q))
      /\ Len(backfillTasks) = Cardinality(Holes(q))
      /\ n <= Budget(q) /\ ~ (n < Len(backfillTasks) /\ n < Budget(q))
  BY DEF LoopInv, Positions, CurrentnessQueue, BackfillQueue, PlanSoFar, BackfillLeft
<1>2. /\ Len(dispatchPlan) = m + n /\ m \in Nat /\ n \in Nat
      /\ m <= Len(currentnessTasks) /\ m <= q.maxTasks /\ n <= Len(backfillTasks)
      /\ \A i \in 1 .. m : dispatchPlan[i] = NowTask(q, currentnessTasks[i])
      /\ \A i \in 1 .. n : dispatchPlan[m + i] = GapTask(q, backfillTasks[i])
  BY <1>1 DEF Begins
<1>3. /\ DOMAIN dispatchPlan = 1 .. m + n /\ q.maxTasks \in Nat /\ Budget(q) \in Nat
      /\ Len(currentnessTasks) \in Nat /\ Len(backfillTasks) \in Nat
      /\ Cardinality(Owed(q)) \in Nat
  BY <1>1, <1>2, QuestionIs, BudgetIs, LenProperties
<1> HIDE DEF q, m, n
<1>4. ASSUME NEW i \in 1 .. m + n  PROVE dispatchPlan[i] \in PlanFor(q)
  <2>1. CASE i <= m
    <3>1. i \in 1 .. m /\ i \in 1 .. Len(currentnessTasks)
      BY <1>2, <1>3, <2>1
    <3>2. currentnessTasks[i] \in Owed(q) /\ RankNow(q, currentnessTasks[i]) = i
      BY <1>1, <3>1, ElementOfSeq
    <3>3. currentnessTasks[i] \in Now(q)
      <4>1. i <= q.maxTasks
        BY <1>2, <1>3, <2>1
      <4> QED  BY <1>1, <3>2, <4>1, NowIs
    <3> QED  BY <1>2, <3>1, <3>3, PlanForIs
  <2>2. CASE i > m
    <3> DEFINE k == i - m
    <3>1. k \in 1 .. n /\ k \in 1 .. Len(backfillTasks) /\ m + k = i /\ k <= Budget(q)
      BY <1>1, <1>2, <1>3, <2>2
    <3> HIDE DEF k
    <3>2. backfillTasks[k] \in Holes(q) /\ RankGap(q, backfillTasks[k]) <= Budget(q)
      BY <1>1, <3>1, ElementOfSeq
    <3>3. dispatchPlan[i] = GapTask(q, backfillTasks[k])
      BY <1>2, <3>1
    <3> QED  BY <3>2, <3>3, PlanForIs
  <2> QED  BY <1>2, <2>1, <2>2
<1>5. ASSUME NEW e \in Now(q)  PROVE NowTask(q, e) \in tasks
  <2> DEFINE k == RankNow(q, e)
  <2>1. /\ e \in Owed(q) /\ k \in Nat \ {0} /\ k <= q.maxTasks /\ k <= Cardinality(Owed(q))
        /\ \A f \in Owed(q) : RankNow(q, f) = k => f = e
    BY <1>1, NowIs
  <2>2. m = q.maxTasks \/ m = Cardinality(Owed(q))
    BY <1>1, <1>3, NowCount DEF m
  <2> HIDE DEF k
  <2>3. k \in 1 .. m /\ k \in 1 .. Len(currentnessTasks) /\ k \in 1 .. m + n
    BY <1>1, <1>2, <1>3, <2>1, <2>2
  <2>4. currentnessTasks[k] = e
    BY <1>1, <2>1, <2>3, ElementOfSeq
  <2>5. dispatchPlan[k] = NowTask(q, e)
    BY <1>2, <2>3, <2>4
  <2> QED  BY <1>3, <2>3, <2>5
<1>6. ASSUME NEW g \in Holes(q), RankGap(q, g) <= Budget(q)  PROVE GapTask(q, g) \in tasks
  <2> DEFINE k == RankGap(q, g)
  <2>1. k \in Nat \ {0} /\ \A h \in Holes(q) : RankGap(q, h) = k => h = g
    BY <1>1, HolesAre
  <2>2. k <= Cardinality(Holes(q)) /\ k <= Budget(q)
    <3>1. IsSelection(q.order) /\ q.target \in Date
      BY <1>1, QuestionIs
    <3> QED  BY <1>6, <3>1, GapRank DEF Holes, RankGap
  <2> HIDE DEF k
  <2>3. k \in 1 .. n /\ k \in 1 .. Len(backfillTasks) /\ m + k \in 1 .. m + n
    BY <1>1, <1>2, <1>3, <2>1, <2>2
  <2>4. backfillTasks[k] = g
    BY <1>1, <2>1, <2>3, ElementOfSeq
  <2>5. dispatchPlan[m + k] = GapTask(q, g)
    BY <1>2, <2>3, <2>4
  <2> QED  BY <1>3, <2>3, <2>5
<1>7. tasks \subseteq PlanFor(q)
  BY <1>3, <1>4
<1>8. PlanFor(q) \subseteq tasks
  <2> HIDE DEF tasks
  <2> QED  BY <1>5, <1>6, PlanForIs
<1> QED  BY <1>7, <1>8 DEF q

LEMMA ReturnKeeps ==
  ASSUME LoopInv, Return  PROVE LoopInv'
<1>1. /\ UNCHANGED <<question, planning, dispatchPlan, backfillBudget, backfillCount>>
      /\ pc = "backfill" /\ ~ BackfillLeft /\ pc' = "returned"
      /\ answer' = {dispatchPlan[i] : i \in DOMAIN dispatchPlan}
  BY DEF Return
<1>2. answer' = PlanFor(question)
  BY <1>1, LoopsEnd
<1>3. AnswerInv'
  BY <1>1, <1>2 DEF LoopInv, AnswerInv
<1>4. PlanSoFar'
  BY <1>1 DEF LoopInv, PlanSoFar
<1> QED  BY <1>1, <1>3, <1>4, QueuesStay DEF LoopInv

LEMMA AlwaysLoopInv == Spec => []LoopInv
<1>1. LoopInv /\ [Next]_vars => LoopInv'
  <2> SUFFICES ASSUME LoopInv, [Next]_vars  PROVE LoopInv'
    OBVIOUS
  <2>1. CASE UNCHANGED vars
    BY <2>1 DEF LoopInv, Positions, CurrentnessQueue, GapLists, BackfillQueue, PlanSoFar, Begins,
                AnswerInv, Seen, answered, vars, planning, dispatching
  <2> QED  BY <2>1, PlanEndpointKeeps, QueueGapKeeps, PlanReturnedKeeps, DispatchCurrentnessKeeps,
              ResolveBudgetKeeps, DispatchBackfillKeeps, ReturnKeeps DEF Next
<1> QED  BY <1>1, InitLoops, PTL DEF Spec

(* The loops of planner and scheduler dispatch exactly the tasks that      *)
(* counting ranks says: nothing is skipped at the end of a round or of a   *)
(* list, and both cut-offs fall where the budgets say.                     *)
THEOREM LoopsDispatchTheRanks == Spec => []DispatchIsTheLoop
<1>1. LoopInv => DispatchIsTheLoop
  BY DEF LoopInv, AnswerInv, DispatchIsTheLoop
<1> QED  BY <1>1, AlwaysLoopInv, PTL

LEMMA AlwaysAnswerInv == Spec => []AnswerInv
<1>1. LoopInv => AnswerInv
  BY DEF LoopInv
<1> QED  BY <1>1, AlwaysLoopInv, PTL

(* A history task is dispatched only when every endpoint that owes the     *)
(* target date is dispatched too, and runs after all of them.              *)
THEOREM CurrentnessComesFirst == Spec => []CurrentnessProtected
<1>1. ASSUME AnswerInv, NEW k \in Backfills,
             NEW e \in Stale(question.covered, question.order, question.target)
      PROVE  \E u \in answer : u.endpoint = e /\ u.date = question.target /\ u.seq < k.seq
  <2> DEFINE q == question
             u == NowTask(q, e)
             g == <<k.endpoint, k.date>>
  <2>1. q \in Question /\ answer = PlanFor(q) /\ k \in History(q) /\ e \in Owed(q)
    BY <1>1 DEF AnswerInv, Backfills, History, Owed
  <2>2. g \in Holes(q) /\ k.seq = Cardinality(Now(q)) + RankGap(q, g) /\ Budget(q) > 0
    BY <2>1, TasksAre DEF History
  <2>3. Now(q) = Owed(q) /\ RankGap(q, g) \in Nat \ {0} /\ Cardinality(Now(q)) \in Nat
    BY <2>1, <2>2, BudgetIs, HolesAre, NowIs
  <2>4. RankNow(q, e) \in Nat /\ RankNow(q, e) <= Cardinality(Now(q))
    BY <2>1, <2>3, NowIs
  <2>5. u \in PlanFor(q)
    BY <2>1, <2>3, PlanForIs
  <2>6. u.endpoint = e /\ u.date = q.target /\ u.seq = RankNow(q, e)
    BY DEF NowTask
  <2> HIDE DEF u, g
  <2>7. u.seq < k.seq
    BY <2>2, <2>3, <2>4, <2>6
  <2> QED  BY <2>1, <2>5, <2>6, <2>7
<1>2. AnswerInv => CurrentnessProtected
  BY <1>1 DEF CurrentnessProtected
<1> QED  BY <1>2, AlwaysAnswerInv, PTL

(* A dispatched gap leaves no newer gap of its endpoint behind, and the    *)
(* newer one runs first.                                                   *)
THEOREM NewestGapComesFirst == Spec => []NewestGapFirst
<1>1. ASSUME AnswerInv, NEW k \in Backfills,
             NEW d \in OlderMissing(question.covered[k.endpoint], question.target), d > k.date
      PROVE  \E u \in answer : u.endpoint = k.endpoint /\ u.date = d /\ u.seq < k.seq
  <2> DEFINE q == question
             e == k.endpoint
             g == <<e, d>>
             h == <<e, k.date>>
             u == GapTask(q, g)
  <2>1. q \in Question /\ answer = PlanFor(q) /\ k \in History(q) /\ q.target \in Date
    BY <1>1, QuestionIs DEF AnswerInv, Backfills, History
  <2>2. h \in Holes(q) /\ h[1] = e /\ h[2] = k.date
    BY <2>1, TasksAre DEF History
  <2>3. /\ e \in Selected(q.order) \ Profile
        /\ k.date \in OlderMissing(q.covered[e], q.target) /\ k.date \in Nat
    <3> HIDE DEF h
    <3>1. /\ h[1] \in Selected(q.order) \ Profile
          /\ h[2] \in OlderMissing(q.covered[h[1]], q.target) /\ h[2] \in Nat
      BY <2>1, <2>2, HolesAre
    <3> QED  BY <2>2, <3>1
  <2>4. g \in Holes(q)
    BY <2>1, <2>3, HolesAre
  <2>5. Depth(q.covered, q.target, g) < Depth(q.covered, q.target, h)
    <3>1. k.date < d
      BY <1>1, <2>1, <2>3, OlderMissingType, PlannerAssumption DEF Date
    <3> QED  BY <2>1, <2>3, <3>1, DepthOrder
  <2>6. u \in PlanFor(q) /\ u.seq < k.seq
    BY <2>1, <2>4, <2>5, QueuedBefore DEF History
  <2>7. u.endpoint = e /\ u.date = d
    BY DEF GapTask
  <2> HIDE DEF u
  <2> QED  BY <2>1, <2>6, <2>7
<1>2. AnswerInv => NewestGapFirst
  BY <1>1 DEF NewestGapFirst
<1> QED  BY <1>2, AlwaysAnswerInv, PTL

LEMMA SpentForNow ==
  ASSUME question \in Question, answer = PlanFor(question), Deferred # {}
  PROVE  Cardinality(answer) = question.maxTasks
<1> DEFINE q == question
<1>1. PICK e \in Owed(q) : \A u \in PlanFor(q) : <<u.endpoint, u.date>> # <<e, q.target>>
  BY DEF Deferred, Owed
<1>2. e \notin Now(q)
  <2> SUFFICES ASSUME e \in Now(q)  PROVE FALSE
    OBVIOUS
  <2>1. NowTask(q, e) \in PlanFor(q)
    BY PlanForIs
  <2>2. NowTask(q, e).endpoint = e /\ NowTask(q, e).date = q.target
    BY DEF NowTask
  <2> QED  BY <1>1, <2>1, <2>2
<1> QED  BY <1>2, NowSpent

LEMMA SpentForGaps ==
  ASSUME question \in Question, answer = PlanFor(question), Deferred = {}, GapsLeft # {}
  PROVE  IF question.maxBackfill # NoBudget
         THEN Cardinality(Backfills) = question.maxBackfill
         ELSE Cardinality(answer) = question.maxTasks
<1> DEFINE q == question
<1>1. Backfills = History(q)
  BY DEF Backfills, History
<1>2. Now(q) = Owed(q)
  <2> SUFFICES ASSUME NEW e \in Owed(q)  PROVE e \in Now(q)
    BY NowIs
  <2>1. PICK u \in PlanFor(q) : <<u.endpoint, u.date>> = <<e, q.target>>
    BY DEF Deferred, Owed
  <2>2. u.endpoint = e /\ u.date = q.target
    BY <2>1
  <2>3. CASE u.endpoint \in Now(q)
    BY <2>2, <2>3
  <2>4. CASE <<u.endpoint, u.date>> \in Holes(q)
    <3> DEFINE g == <<u.endpoint, u.date>>
    <3>1. g \in Holes(q) /\ g[2] = q.target
      BY <2>2, <2>4
    <3> HIDE DEF g
    <3>2. g[2] < q.target /\ g[2] \in Nat
      BY <3>1, HolesAre
    <3> QED  BY <3>1, <3>2
  <2> QED  BY <2>3, <2>4, TasksAre
<1>3. PICK g \in Holes(q) : \A u \in PlanFor(q) : <<u.endpoint, u.date>> # g
  BY DEF GapsLeft, Holes
<1>4. RankGap(q, g) > Budget(q)
  <2> SUFFICES ASSUME RankGap(q, g) <= Budget(q)  PROVE FALSE
    BY HolesAre, BudgetIs
  <2>1. GapTask(q, g) \in PlanFor(q)
    BY PlanForIs
  <2>2. GapTask(q, g).endpoint = g[1] /\ GapTask(q, g).date = g[2] /\ g = <<g[1], g[2]>>
    BY HolesAre DEF GapTask
  <2> QED  BY <1>3, <2>1, <2>2
<1> QED  BY <1>1, <1>2, <1>4, GapSpent

(* Nothing is asked for twice, nothing that is usable already, never more  *)
(* than the budgets allow, and no less while there is work.                *)
THEOREM NoDispatchIsWasted == Spec => []NoWastedDispatch
<1>1. ASSUME NEW q \in Question, NEW k \in PlanFor(q)  PROVE k.date \notin q.covered[k.endpoint]
  <2> DEFINE g == <<k.endpoint, k.date>>
  <2>1. \/ k.endpoint \in Now(q) /\ k.date = q.target
        \/ g \in Holes(q) /\ g[1] = k.endpoint /\ g[2] = k.date
    BY TasksAre
  <2> HIDE DEF g
  <2>2. \A e \in Now(q) : q.target \notin q.covered[e]
    BY NowIs DEF Owed, Stale
  <2> QED  BY <2>1, <2>2, HolesAre
<1>2. ASSUME NEW q \in Question, NEW j \in PlanFor(q), NEW k \in PlanFor(q), j # k
      PROVE  j.seq # k.seq /\ <<j.endpoint, j.date>> # <<k.endpoint, k.date>>
  BY <1>2, TasksDiffer
<1>3. ASSUME AnswerInv, answer = PlanFor(question)  PROVE NoWastedDispatch
  <2>1. question \in Question /\ Backfills = History(question)
    BY <1>3 DEF AnswerInv, Backfills, History
  <2>2. BudgetsAreSpent
    BY <1>3, <2>1, SpentForNow, SpentForGaps DEF BudgetsAreSpent
  <2> QED  BY <1>1, <1>2, <1>3, <2>1, <2>2, CurrentCount, HistoryCount, TaskCount
           DEF NoWastedDispatch
<1>4. ASSUME AnswerInv, answer = {}, answer # PlanFor(question)  PROVE NoWastedDispatch
  <2>1. Cardinality(answer) = 0 /\ Cardinality(answer \ Backfills) = 0 /\ Cardinality(Backfills) = 0
    BY <1>4, FS_EmptySet DEF Backfills
  <2>2. question.maxTasks \in Nat /\ question.maxBackfill \in Nat \cup {NoBudget}
    BY <1>4, QuestionIs DEF AnswerInv
  <2> QED  BY <1>4, <2>1, <2>2 DEF NoWastedDispatch, AnswerInv
<1>5. AnswerInv => NoWastedDispatch
  BY <1>3, <1>4 DEF AnswerInv
<1> QED  BY <1>5, AlwaysAnswerInv, PTL

(* No endpoint is starved: were an endpoint two gaps ahead of one that     *)
(* still has some, its oldest dispatched gap would lie deeper than the     *)
(* other's newest undispatched one, which is queued before it.             *)
LEMMA AheadByOne ==
  ASSUME NEW q \in Question, NEW k \in History(q), NEW e \in Selected(q.order) \ Profile,
         NEW done, done = {u.date : u \in {v \in History(q) : v.endpoint = e}},
         ~ (OlderMissing(q.covered[e], q.target) \subseteq done)
  PROVE  Cardinality({u \in History(q) : u.endpoint = k.endpoint}) <= Cardinality(done) + 1
<1> DEFINE M(x) == OlderMissing(q.covered[x], q.target)
           U == {u \in History(q) : u.endpoint = k.endpoint}
           A == {u.date : u \in U}
           f == [a \in A |-> GapTask(q, <<k.endpoint, a>>)]
<1>1. q.target \in Date /\ IsFiniteSet(Date) /\ Date \subseteq Nat
  BY QuestionIs, FS_Interval, PlannerAssumption DEF Date
<1>2. \A x : M(x) \subseteq Date
  BY <1>1, OlderMissingType
<1>3. ASSUME NEW u \in History(q)
      PROVE  u.date \in M(u.endpoint) /\ u = GapTask(q, <<u.endpoint, u.date>>)
  <2> DEFINE g == <<u.endpoint, u.date>>
  <2>1. g \in Holes(q) /\ g[1] = u.endpoint /\ g[2] = u.date /\ u = GapTask(q, g)
    BY TasksAre DEF History
  <2> HIDE DEF g
  <2>2. g[2] \in M(g[1])
    BY <2>1, HolesAre
  <2> QED  BY <2>1, <2>2 DEF g
<1>4. done \subseteq M(e) /\ A \subseteq M(k.endpoint) /\ A # {} /\ U \subseteq History(q)
  <2>1. done \subseteq M(e)
    BY <1>3
  <2>2. A \subseteq M(k.endpoint)
    BY <1>3
  <2>3. k \in U /\ k.date \in A
    OBVIOUS
  <2> QED  BY <2>1, <2>2, <2>3
<1>5. IsFiniteSet(done) /\ IsFiniteSet(A) /\ Cardinality(done) \in Nat /\ Cardinality(A) \in Nat
  <2>1. done \in SUBSET Date /\ A \in SUBSET Date
    BY <1>2, <1>4
  <2>2. IsFiniteSet(done) /\ IsFiniteSet(A)
    BY <1>1, <2>1, FS_Subset
  <2> QED  BY <2>2, FS_CardinalityType
<1>6. Cardinality(U) <= Cardinality(A) /\ Cardinality(U) \in Nat
  <2>1. \A a \in A : f[a] \in U
    BY <1>3
  <2>2. \A u \in U : u.date \in A /\ f[u.date] = u
    BY <1>3
  <2>3. f \in [A -> U]
    BY <2>1
  <2> HIDE DEF f, A, U
  <2>4. f \in Surjection(A, U)
    BY <2>2, <2>3 DEF Surjection
  <2>5. IsFiniteSet(U) /\ Cardinality(U) <= Cardinality(A)
    BY <1>5, <2>4, FS_Surjection
  <2> QED  BY <2>5, FS_CardinalityType
<1>7. PICK a \in A : \A x \in A : a <= x
  <2>1. A \in SUBSET Nat
    BY <1>1, <1>2, <1>4
  <2> QED  BY <1>4, <2>1, Oldest
<1>8. PICK d \in M(e) \ done : \A x \in M(e) \ done : x <= d
  <2>1. M(e) \ done \in SUBSET Date /\ M(e) \ done # {}
    BY <1>2
  <2> QED  BY <2>1, Newest
<1>9. Depth(q.covered, q.target, <<k.endpoint, a>>) >= Cardinality(A)
  <2> DEFINE From == {y \in M(k.endpoint) : y >= a}
  <2>1. \A x \in A : x >= a
    BY <1>1, <1>2, <1>4, <1>7
  <2>2. A \in SUBSET From
    BY <1>4, <2>1
  <2>3. From \in SUBSET Date
    BY <1>2
  <2>4. Depth(q.covered, q.target, <<k.endpoint, a>>) = Cardinality(From)
    BY DEF Depth
  <2> HIDE DEF From, A
  <2>5. IsFiniteSet(From)
    BY <1>1, <2>3, FS_Subset
  <2>6. Cardinality(A) <= Cardinality(From) /\ Cardinality(From) \in Nat
    BY <2>2, <2>5, FS_Subset, FS_CardinalityType
  <2> QED  BY <1>5, <2>4, <2>6
<1>10. Depth(q.covered, q.target, <<e, d>>) <= Cardinality(done) + 1
  <2> DEFINE From == {y \in M(e) : y >= d}
  <2>1. ASSUME NEW y \in M(e), y >= d  PROVE y \in done \cup {d}
    <3>1. y \in Nat /\ d \in Nat
      BY <1>1, <1>2
    <3>2. y \in done \/ y <= d
      BY <1>8
    <3> QED  BY <2>1, <3>1, <3>2
  <2>2. From \in SUBSET (done \cup {d})
    BY <2>1
  <2>3. Depth(q.covered, q.target, <<e, d>>) = Cardinality(From)
    BY DEF Depth
  <2> HIDE DEF From
  <2>4. IsFiniteSet(done \cup {d}) /\ Cardinality(done \cup {d}) = Cardinality(done) + 1
    BY <1>5, FS_AddElement
  <2>5. Cardinality(From) <= Cardinality(done \cup {d})
    BY <2>2, <2>4, FS_Subset
  <2> QED  BY <2>3, <2>4, <2>5
<1>11. PICK ka \in U : ka.date = a
  OBVIOUS
<1>12. /\ ka \in History(q) /\ <<e, d>> \in Holes(q)
       /\ <<ka.endpoint, ka.date>> = <<k.endpoint, a>>
  BY <1>8, <1>11, HolesAre
<1>13. /\ Depth(q.covered, q.target, <<e, d>>) \in Nat
       /\ Depth(q.covered, q.target, <<k.endpoint, a>>) \in Nat
  BY <1>1, DepthOrder
<1> SUFFICES ASSUME Cardinality(U) > Cardinality(done) + 1  PROVE FALSE
  BY <1>5, <1>6
<1> HIDE DEF U, A
<1>14. Depth(q.covered, q.target, <<e, d>>) < Depth(q.covered, q.target, <<k.endpoint, a>>)
  BY <1>5, <1>6, <1>9, <1>10, <1>13
<1>15. GapTask(q, <<e, d>>) \in History(q)
  BY <1>12, <1>14, QueuedBefore
<1>16. GapTask(q, <<e, d>>).endpoint = e /\ GapTask(q, <<e, d>>).date = d
  BY DEF GapTask
<1>17. d \in done
  BY <1>15, <1>16
<1> QED  BY <1>8, <1>17

(* When an endpoint still has undispatched gaps, no other endpoint got two *)
(* gaps more.                                                              *)
THEOREM RoundsAreFair == Spec => []RoundRobinBackfill
<1>1. ASSUME AnswerInv, NEW k \in Backfills, NEW e \in Selected(question.order) \ Profile
      PROVE  LET gaps == OlderMissing(question.covered[e], question.target)
                 done == {u.date : u \in {v \in Backfills : v.endpoint = e}}
             IN  gaps \subseteq done
                   \/ Cardinality({u \in Backfills : u.endpoint = k.endpoint})
                        <= Cardinality(done) + 1
  <2>1. question \in Question /\ Backfills = History(question)
    BY <1>1 DEF AnswerInv, Backfills, History
  <2> QED  BY <2>1, <1>1, AheadByOne
<1>2. AnswerInv => RoundRobinBackfill
  BY <1>1 DEF RoundRobinBackfill
<1> QED  BY <1>2, AlwaysAnswerInv, PTL
=============================================================================
