------------------------ MODULE NightlyCoverageProofs ------------------------
(***************************************************************************)
(* More proofs about NightlySync: the profile window, the cursor that      *)
(* carries forward, and the refinement of the abstract coverage ledger.    *)
(***************************************************************************)
EXTENDS NightlySyncProofs

(***************************************************************************)
(* The profile window.  A group reaches back over the window when it holds *)
(* a profile task, and a run fetches its whole slice.  A profile endpoint  *)
(* whose own task was deferred would be fetched as a by-product, so every  *)
(* selection has to name the profile endpoints of a slice before the       *)
(* others, as the registry does.                                           *)
(***************************************************************************)
ProfileFirst(o) ==
  \A f \in Selected(o) \ Profile, e \in Profile : SliceOf[e] = SliceOf[f] => NotAfter(o, e, f)

ProfileEndpointsFirst == \A o \in Orders : ProfileFirst(o)

\* dates, known for e in a cycle or a row for target t, are not past t, and
\* t itself was fetched over the window if e is a profile endpoint
Upto(e, dates, t, W) ==
  \A d \in dates : d <= t /\ (e \in Profile /\ d = t => <<e, t>> \in W)

\* a currentness task that brings profile endpoint e along has company
Accompanied(T, s) ==
  \E u \in T : u.priority = "currentness" /\ u.endpoint \in Profile /\ SliceOf[u.endpoint] = s

Bound(T, t, p) ==
  /\ \A k \in T : k.date <= t
  /\ \A k \in T : k.priority = "currentness" =>
       \A e \in Profile : SliceOf[e] = SliceOf[k.endpoint] =>
         t \in p[e] \/ Accompanied(T, SliceOf[e])

\* what a cycle for target t loaded (p, c), still has to do and has run
Honest(T, R, t, p, c, W) ==
  /\ \A e \in Endpoint : Upto(e, p[e], t, W)
  /\ \A e \in Endpoint : c[e] # NoDate => Upto(e, {c[e]}, t, W)
  /\ \A r \in R : \A e \in r.ok : Upto(e, {r.date}, t, W)
  /\ Bound(T, t, p)

RowsHonest == \A r \in ledger : Upto(r.endpoint, UsableDates(r), r.target, windowed)

CyclesHonest ==
  \A w \in Worker : Honest(todo[w], results[w], target[w], prior[w], priorCompleted[w], windowed)

WindowInv == RowsHonest /\ CyclesHonest

LEMMA NotAfterIsTransitive ==
  ASSUME NEW o \in Orders, NEW f, NEW e, NEW g, NotAfter(o, g, e), NotAfter(o, e, f)
  PROVE  NotAfter(o, g, f)
<1>1. PICK i, j \in DOMAIN o : o[i] = g /\ o[j] = e /\ i <= j
  BY DEF NotAfter
<1>2. PICK k, l \in DOMAIN o : o[k] = e /\ o[l] = f /\ k <= l
  BY DEF NotAfter
<1>3. j = k
  BY <1>1, <1>2, NightlySyncAssumption DEF Orders, IsSelection
<1>4. i \in Nat /\ j \in Nat /\ l \in Nat
  BY SelectedType
<1>5. i <= l
  BY <1>1, <1>2, <1>3, <1>4
<1> QED  BY <1>1, <1>2, <1>5 DEF NotAfter

(* A dispatch that fetches a profile endpoint for the target holds a       *)
(* profile task of that slice, unless the endpoint is current already.     *)
LEMMA DispatchIsBound ==
  ASSUME NEW c \in [Endpoint -> SUBSET Date], NEW o \in Orders, NEW t \in Date, ProfileFirst(o)
  PROVE  Bound(Dispatch(c, o, t, MaxTasks, MaxBackfill), t, c)
<1> DEFINE D == Dispatch(c, o, t, MaxTasks, MaxBackfill)
           now == DispatchedStale(c, o, t, MaxTasks)
<1>1. ASSUME NEW k \in D PROVE k.date <= t
  <2>1. CASE k.priority = "currentness"
    BY <2>1, PlannerAssumption, CurrentnessIsForTarget DEF Date
  <2>2. CASE k.priority # "currentness"
    <3>1. PICK g \in Gaps(c, o, t) : k.date = g[2]
      BY <2>2 DEF Dispatch
    <3> QED  BY <3>1, PlannerAssumption DEF Gaps, OlderMissing, Date
  <2> QED  BY <2>1, <2>2
<1>2. ASSUME NEW k \in D, k.priority = "currentness", NEW e \in Profile,
             SliceOf[e] = SliceOf[k.endpoint], t \notin c[e]
      PROVE  Accompanied(D, SliceOf[e])
  <2>1. k.endpoint \in now
    BY <1>2 DEF Dispatch
  <2>2. CASE k.endpoint \in Profile
    BY <1>2, <2>2 DEF Accompanied
  <2>3. CASE k.endpoint \notin Profile
    <3> DEFINE f == k.endpoint
               stale == Stale(c, o, t)
               E == {g \in stale : NotAfter(o, g, e)}
               F == {g \in stale : NotAfter(o, g, f)}
    <3>1. f \in Selected(o)
      BY <2>1 DEF DispatchedStale, Stale
    <3>2. NotAfter(o, e, f)
      BY <1>2, <2>3, <3>1 DEF ProfileFirst
    <3>3. e \in stale
      BY <1>2, <3>2 DEF NotAfter, Stale, Selected
    <3>4. E \subseteq F
      BY <3>2, NotAfterIsTransitive
    <3>5. IsFiniteSet(F)
      BY GapsFinite, FS_Subset
    <3>6. Cardinality(E) \in Nat /\ Cardinality(F) \in Nat /\ Cardinality(E) <= Cardinality(F)
      BY <3>4, <3>5, FS_Subset, FS_CardinalityType
    <3>7. Cardinality(F) <= MaxTasks
      BY <2>1 DEF DispatchedStale, CurrentnessRank
    <3>8. Cardinality(E) <= MaxTasks
      <4> HIDE DEF E, F
      <4> QED  BY <3>6, <3>7, NightlySyncAssumption
    <3>9. e \in now
      BY <3>3, <3>8 DEF DispatchedStale, CurrentnessRank
    <3> DEFINE u == [seq |-> CurrentnessRank(c, o, t, e), priority |-> "currentness",
                     endpoint |-> e, date |-> t]
    <3>10. u \in D
      BY <3>9 DEF Dispatch
    <3>11. u.priority = "currentness" /\ u.endpoint = e
      OBVIOUS
    <3> QED  BY <3>10, <3>11, <1>2 DEF Accompanied
  <2> QED  BY <2>2, <2>3
<1> HIDE DEF D
<1>3. Bound(D, t, c)
  BY <1>1, <1>2 DEF Bound
<1> QED  BY <1>3 DEF D

\* windowed only grows, and what was honest stays so
LEMMA StepKeepsWindowed == [Next]_vars => windowed \subseteq windowed'
BY DEF Next, OperatorNext, NightlyNext, Step, NewNight, NightlyCycle, OperatorCycle,
       PlanOnlyWorker, StartCycle, Load, RunGroup, RunSlice, StartMaterialize,
       NothingToMaterialize, PersistComponents, PersistOverviews, Save, Abort, Raise,
       vars, cycle, history

LEMMA UptoGrows ==
  ASSUME NEW W, NEW W2, W \subseteq W2, NEW e, NEW dates, NEW t, Upto(e, dates, t, W)
  PROVE  Upto(e, dates, t, W2)
BY DEF Upto

LEMMA HonestGrows ==
  ASSUME NEW W, NEW W2, W \subseteq W2, NEW T, NEW R, NEW t, NEW p, NEW c,
         Honest(T, R, t, p, c, W)
  PROVE  Honest(T, R, t, p, c, W2)
BY UptoGrows DEF Honest

LEMMA NothingIsHonest ==
  ASSUME NEW t, NEW W, NEW p, NEW c, \A e \in Endpoint : p[e] = {} /\ c[e] = NoDate
  PROVE  Honest({}, {}, t, p, c, W)
BY DEF Honest, Bound, Upto

\* What a load for target t returns.
LEMMA LoadHonest ==
  ASSUME TypeOK, RowsHonest, NEW e \in Endpoint, NEW t \in Date
  PROVE  /\ Upto(e, Cursor(e, t), t, windowed)
         /\ PriorCompleted(e, t) # NoDate => Upto(e, {PriorCompleted(e, t)}, t, windowed)
<1>1. ASSUME NEW r \in ledger, r.endpoint = e, r.target <= t
      PROVE  Upto(e, UsableDates(r), t, windowed)
  <2>1. r \in Row
    BY DEF TypeOK
  <2>2. r.target \in Int /\ t \in Int /\ UsableDates(r) \subseteq Int
    BY <2>1, UsableType, PlannerAssumption DEF Row, Date
  <2>3. \A d \in UsableDates(r) : d <= r.target /\
          (r.endpoint \in Profile /\ d = r.target => <<r.endpoint, r.target>> \in windowed)
    BY DEF RowsHonest, Upto
  <2> QED  BY <1>1, <2>2, <2>3 DEF Upto
<1>2. Upto(e, Cursor(e, t), t, windowed)
  BY <1>1 DEF Cursor, Effective, Upto
<1>3. ASSUME PriorCompleted(e, t) # NoDate
      PROVE  Upto(e, {PriorCompleted(e, t)}, t, windowed)
  <2>1. \E r \in ledger : r.endpoint = e /\ r.target = t
    BY <1>3 DEF PriorCompleted
  <2>2. PICK r \in ledger : r.endpoint = e /\ r.target = t /\ PriorCompleted(e, t) = r.lastCompleted
    BY <2>1 DEF PriorCompleted
  <2>3. r.lastCompleted \in UsableDates(r)
    BY <1>3, <2>2 DEF UsableDates
  <2>4. r.target <= t
    BY <2>2, PlannerAssumption DEF Date
  <2> QED  BY <1>1, <2>2, <2>3, <2>4 DEF Upto
<1> QED  BY <1>2, <1>3

\* What a save computes from what a cycle loaded and ran.
LEMMA RowHonest ==
  ASSUME NEW e \in Endpoint, NEW S \in SUBSET Date, NEW t \in Date, NEW W,
         NEW c \in Date \cup {NoDate},
         Upto(e, S, t, W), c # NoDate => Upto(e, {c}, t, W)
  PROVE  Upto(e, UsableDates(LedgerRow(e, S, t, c)), t, W)
<1>1. CASE S = {}
  BY <1>1 DEF UsableDates, LedgerRow, Upto
<1>2. CASE S # {}
  <2>1. Latest(S) \in S
    BY <1>2, LatestIsGreatest
  <2> QED  BY <1>2, <2>1 DEF UsableDates, LedgerRow, Upto
<1> QED  BY <1>1, <1>2

\* The next group of a cycle runs.
LEMMA RunHonest ==
  ASSUME NEW T \in SUBSET Task, NEW R, NEW t \in Date, NEW p, NEW c, NEW W, NEW W2,
         Honest(T, R, t, p, c, W), W \subseteq W2, NEW k \in T,
         (k.priority = "currentness") <=> (k.date = t),
         NEW ok, ok \subseteq EndpointsOf(SliceOf[k.endpoint]),
         IsWindowed(GroupOf(T, k)) => ok \X {k.date} \subseteq W2
  PROVE  Honest(T \ GroupOf(T, k),
                R \cup {[slice |-> SliceOf[k.endpoint], date |-> k.date, ok |-> ok]}, t, p, c, W2)
<1> DEFINE T2 == T \ GroupOf(T, k)
           runOf == [slice |-> SliceOf[k.endpoint], date |-> k.date, ok |-> ok]
<1>1. Honest(T, R, t, p, c, W2)
  BY HonestGrows
<1>2. ASSUME NEW e \in ok PROVE Upto(e, {k.date}, t, W2)
  <2>1. e \in Endpoint /\ SliceOf[e] = SliceOf[k.endpoint]
    BY DEF EndpointsOf
  <2>2. k.date <= t
    BY DEF Honest, Bound
  <2>3. ASSUME e \in Profile, k.date = t PROVE <<e, t>> \in W2
    <3>1. t \in p[e] \/ Accompanied(T, SliceOf[e])
      BY <2>1, <2>3 DEF Honest, Bound
    <3>2. CASE t \in p[e]
      BY <1>1, <2>1, <2>3, <3>2 DEF Honest, Upto
    <3>3. CASE Accompanied(T, SliceOf[e])
      <4>1. PICK u \in T : /\ u.priority = "currentness" /\ u.endpoint \in Profile
                           /\ SliceOf[u.endpoint] = SliceOf[e]
        BY <3>3 DEF Accompanied
      <4>2. u \in GroupOf(T, k)
        BY <2>1, <2>3, <4>1 DEF GroupOf
      <4>3. IsWindowed(GroupOf(T, k))
        BY <4>1, <4>2 DEF IsWindowed
      <4> QED  BY <4>3, <2>3
    <3> QED  BY <3>1, <3>2, <3>3
  <2> QED  BY <2>2, <2>3 DEF Upto
<1>3. Bound(T2, t, p)
  <2>1. ASSUME NEW j \in T2, j.priority = "currentness", NEW e \in Profile,
               SliceOf[e] = SliceOf[j.endpoint], t \notin p[e]
        PROVE  Accompanied(T2, SliceOf[e])
    <3>1. Accompanied(T, SliceOf[e])
      BY <2>1 DEF Honest, Bound
    <3>2. PICK u \in T : /\ u.priority = "currentness" /\ u.endpoint \in Profile
                         /\ SliceOf[u.endpoint] = SliceOf[e]
      BY <3>1 DEF Accompanied
    <3>3. u \notin GroupOf(T, k)
      BY <2>1, <3>2 DEF GroupOf
    <3> QED  BY <3>2, <3>3 DEF Accompanied
  <2>2. \A j \in T2 : j.date <= t
    BY DEF Honest, Bound
  <2> HIDE DEF T2
  <2> QED  BY <2>1, <2>2 DEF Bound
<1> HIDE DEF T2
<1>4. \A r \in R \cup {runOf} : \A e \in r.ok : Upto(e, {r.date}, t, W2)
  <2>1. \A r \in R : \A e \in r.ok : Upto(e, {r.date}, t, W2)
    BY <1>1 DEF Honest
  <2>2. runOf.ok = ok /\ runOf.date = k.date
    OBVIOUS
  <2>3. \A e \in runOf.ok : Upto(e, {runOf.date}, t, W2)
    BY <1>2, <2>2
  <2> QED  BY <2>1, <2>3
<1> HIDE DEF runOf
<1>5. Honest(T2, R \cup {runOf}, t, p, c, W2)
  BY <1>1, <1>3, <1>4 DEF Honest
<1> QED  BY <1>5 DEF T2, runOf

LEMMA InitWindow == Init => WindowInv
<1> SUFFICES ASSUME Init PROVE WindowInv
  OBVIOUS
<1>1. \A w \in Worker : /\ todo[w] = {} /\ results[w] = {}
                        /\ \A e \in Endpoint : prior[w][e] = {} /\ priorCompleted[w][e] = NoDate
  BY DEF Init
<1>2. CyclesHonest
  BY <1>1, NothingIsHonest DEF CyclesHonest
<1> QED  BY <1>2 DEF Init, WindowInv, RowsHonest

LEMMA StepWindow ==
  ASSUME ProfileEndpointsFirst
  PROVE  TypeOK /\ IdleIsEmpty /\ AttemptInv /\ WindowInv /\ [Next]_vars => WindowInv'
<1> SUFFICES ASSUME TypeOK, IdleIsEmpty, AttemptInv, WindowInv, [Next]_vars PROVE WindowInv'
  OBVIOUS
<1> DEFINE Mine(w) == Honest(todo[w], results[w], target[w], prior[w], priorCompleted[w], windowed)
           Same(w) == UNCHANGED <<todo[w], results[w], target[w], prior[w], priorCompleted[w]>>
<1>0. /\ windowed \subseteq windowed'
      /\ \A w \in Worker : Mine(w)
      /\ today \in Date /\ Registry \in Orders /\ \A o \in OperatorOrders : o \in Orders
      /\ \A t \in 1 .. today : t \in Date
  BY StepKeepsWindowed, PlannerAssumption DEF WindowInv, CyclesHonest, TypeOK, Date, Orders
<1>1. ASSUME NEW w \in Worker, Mine(w)', \A v \in Worker : v # w => Same(v) PROVE CyclesHonest'
  <2>1. \A v \in Worker : Same(v) => Mine(v)'
    BY <1>0, HonestGrows
  <2> QED  BY <1>1, <2>1 DEF CyclesHonest
<1>2. ASSUME \A v \in Worker : Same(v) PROVE CyclesHonest'
  BY <1>0, <1>2, HonestGrows DEF CyclesHonest
<1>3. CASE ledger' = ledger /\ CyclesHonest'
  BY <1>0, <1>3, UptoGrows DEF WindowInv, RowsHonest
<1> HIDE DEF Mine
<1>4. CASE NewNight \/ UNCHANGED vars
  BY <1>2, <1>3, <1>4 DEF NewNight, vars, cycle, store
<1>5. ASSUME NEW w \in Worker, Materialize(w) PROVE WindowInv'
  BY <1>2, <1>3, <1>5, MaterializeOnly
<1>6. ASSUME NEW w \in Worker, NEW t \in Date, NEW o, Load(w, t, o, prior'[w]),
             prior'[w] = [e \in Endpoint |-> Cursor(e, t)] \/ prior'[w] = [e \in Endpoint |-> {}],
             todo' = [todo EXCEPT ![w] = todo'[w]], Bound(todo'[w], t, prior'[w])
      PROVE  WindowInv'
  <2>1. /\ results'[w] = {} /\ target'[w] = t /\ windowed' = windowed /\ ledger' = ledger
        /\ priorCompleted'[w] = [e \in Endpoint |-> PriorCompleted(e, t)]
    BY <1>6 DEF Load, TypeOK, IdleIsEmpty, history, store
  <2>2. \A e \in Endpoint : Upto(e, prior'[w][e], t, windowed')
    BY <1>6, <2>1, LoadHonest DEF WindowInv, Upto
  <2>3. \A e \in Endpoint : priorCompleted'[w][e] # NoDate =>
          Upto(e, {priorCompleted'[w][e]}, t, windowed')
    BY <2>1, LoadHonest DEF WindowInv
  <2>4. Mine(w)'
    BY <1>6, <2>1, <2>2, <2>3 DEF Mine, Honest
  <2>5. \A v \in Worker : v # w => Same(v)
    BY <1>6 DEF Load, TypeOK
  <2> QED  BY <1>1, <1>3, <2>1, <2>4, <2>5
<1>7. ASSUME NEW w \in Worker, NEW t \in Date, NEW o \in Orders, StartCycle(w, t, o)
      PROVE  WindowInv'
  <2> DEFINE usable == [e \in Endpoint |-> Cursor(e, t)]
  <2>1. /\ prior'[w] = usable /\ todo'[w] = Dispatch(usable, o, t, MaxTasks, MaxBackfill)
        /\ todo' = [todo EXCEPT ![w] = todo'[w]] /\ Load(w, t, o, usable)
    BY <1>7 DEF StartCycle, Load, TypeOK
  <2>2. usable \in [Endpoint -> SUBSET Date]
    BY LoadTypes DEF TypeOK
  <2>3. Bound(Dispatch(usable, o, t, MaxTasks, MaxBackfill), t, usable)
    <3> HIDE DEF usable
    <3> QED  BY <2>2, DispatchIsBound DEF ProfileEndpointsFirst
  <2> QED  BY <1>6, <2>1, <2>3
<1>8. ASSUME NEW w \in Operator, PlanOnlyWorker(w) PROVE WindowInv'
  <2> DEFINE usable == [e \in Endpoint |-> {}]
  <2>1. PICK t \in 1 .. today, o \in OperatorOrders :
           Load(w, t, o, usable) /\ todo' = [todo EXCEPT ![w] = {}]
    BY <1>8 DEF PlanOnlyWorker
  <2>2. w \in Worker /\ t \in Date
    BY <1>0 DEF Worker
  <2>3. prior'[w] = usable /\ todo'[w] = {}
    BY <2>1, <2>2 DEF Load, TypeOK
  <2>4. Bound({}, t, prior'[w])
    BY DEF Bound
  <2> QED  BY <1>6, <2>1, <2>2, <2>3, <2>4
<1>9. ASSUME NEW w \in Worker, RunGroup(w) PROVE WindowInv'
  <2>1. PICK k \in todo[w] : \E ok \in SUBSET EndpointsOf(SliceOf[k.endpoint]) :
                                RunSlice(w, k, ok)
    BY <1>9 DEF RunGroup
  <2>2. PICK ok \in SUBSET EndpointsOf(SliceOf[k.endpoint]) : RunSlice(w, k, ok)
    BY <2>1
  <2>3. /\ todo'[w] = todo[w] \ GroupOf(todo[w], k)
        /\ results'[w] = results[w] \cup
             {[slice |-> SliceOf[k.endpoint], date |-> k.date, ok |-> ok]}
        /\ UNCHANGED <<target, prior, priorCompleted, ledger>>
        /\ todo[w] \in SUBSET Task /\ target[w] \in Date
        /\ IsWindowed(GroupOf(todo[w], k)) => ok \X {k.date} \subseteq windowed'
    BY <2>2 DEF RunSlice, TypeOK, store
  <2>4. (k.priority = "currentness") <=> (k.date = target[w])
    BY DEF AttemptInv, Attempted
  <2>5. Mine(w)'
    <3>1. Honest(todo[w], results[w], target[w], prior[w], priorCompleted[w], windowed)
      BY <1>0 DEF Mine
    <3>2. Honest(todo[w] \ GroupOf(todo[w], k),
                 results[w] \cup {[slice |-> SliceOf[k.endpoint], date |-> k.date, ok |-> ok]},
                 target[w], prior[w], priorCompleted[w], windowed')
      BY <1>0, <2>3, <2>4, <3>1, RunHonest
    <3> QED  BY <2>3, <3>2 DEF Mine
  <2>6. \A v \in Worker : v # w => Same(v)
    BY <2>2 DEF RunSlice, TypeOK
  <2> QED  BY <1>1, <1>3, <2>3, <2>5, <2>6
<1>10. ASSUME NEW w \in Worker, End(w) PROVE CyclesHonest'
  <2>1. /\ todo'[w] = {} /\ results'[w] = {}
        /\ \A e \in Endpoint : prior'[w][e] = {} /\ priorCompleted'[w][e] = NoDate
    BY <1>10 DEF End, TypeOK
  <2>2. Mine(w)'
    BY <2>1, NothingIsHonest DEF Mine
  <2>3. \A v \in Worker : v # w => Same(v)
    BY <1>10 DEF End, TypeOK
  <2> QED  BY <1>1, <2>2, <2>3
<1>11. ASSUME NEW w \in Worker, Save(w) PROVE WindowInv'
  <2>1. ASSUME NEW e \in Selected(order[w])
        PROVE  Upto(e, UsableDates(LedgerRow(e, prior[w][e] \cup Fetched(results[w], e),
                                             target[w], priorCompleted[w][e])),
                    target[w], windowed)
    <3>1. e \in Endpoint
      BY SelectedType DEF TypeOK, Orders
    <3>2. /\ prior[w][e] \cup Fetched(results[w], e) \in SUBSET Date
          /\ priorCompleted[w][e] \in Date \cup {NoDate} /\ target[w] \in Date
      BY <3>1, FetchedType DEF TypeOK
    <3>3. Honest(todo[w], results[w], target[w], prior[w], priorCompleted[w], windowed)
      BY <1>0 DEF Mine
    <3>4. Upto(e, Fetched(results[w], e), target[w], windowed)
      BY <3>3 DEF Honest, Fetched, Upto
    <3>5. Upto(e, prior[w][e] \cup Fetched(results[w], e), target[w], windowed)
      BY <3>1, <3>3, <3>4 DEF Honest, Upto
    <3>6. priorCompleted[w][e] # NoDate => Upto(e, {priorCompleted[w][e]}, target[w], windowed)
      BY <3>1, <3>3 DEF Honest
    <3> QED  BY <3>1, <3>2, <3>5, <3>6, RowHonest
  <2>2. \A r \in ledger' : r \in ledger \/ \E e \in Selected(order[w]) :
           r = LedgerRow(e, prior[w][e] \cup Fetched(results[w], e), target[w],
                         priorCompleted[w][e])
    BY <1>11 DEF Save, Replace
  <2>3. ASSUME NEW r \in ledger' PROVE Upto(r.endpoint, UsableDates(r), r.target, windowed)
    <3>1. CASE r \in ledger
      BY <3>1 DEF WindowInv, RowsHonest
    <3>2. CASE r \notin ledger
      <4>1. PICK e \in Selected(order[w]) :
              r = LedgerRow(e, prior[w][e] \cup Fetched(results[w], e), target[w],
                            priorCompleted[w][e])
        BY <2>2, <3>2
      <4>2. r.endpoint = e /\ r.target = target[w]
        BY <4>1 DEF LedgerRow
      <4> QED  BY <2>1, <4>1, <4>2
    <3> QED  BY <3>1, <3>2
  <2>4. RowsHonest'
    BY <1>0, <2>3, UptoGrows DEF RowsHonest
  <2> QED  BY <1>10, <1>11, <2>4 DEF Save, WindowInv
<1>12. ASSUME NEW w \in Worker, Abort(w) \/ Raise(w) PROVE WindowInv'
  BY <1>3, <1>10, <1>12 DEF Abort, Raise
<1>13. ASSUME NEW w \in Scheduler, NightlyCycle(w) PROVE WindowInv'
  BY <1>13, <1>7, <1>0 DEF NightlyCycle, Worker
<1>14. ASSUME NEW w \in Operator, OperatorCycle(w) PROVE WindowInv'
  BY <1>14, <1>7, <1>0 DEF OperatorCycle, Worker
<1> QED
  BY <1>4, <1>5, <1>8, <1>9, <1>11, <1>12, <1>13, <1>14
  DEF Next, OperatorNext, NightlyNext, Step, Materialize

(* Where selections name the profile endpoints of a slice first, no cycle, *)
(* however budgets defer tasks and cycles overlap, records a profile       *)
(* endpoint as current for a target it was not fetched over the window for.*)
THEOREM ProfileWindowIsHonoured ==
  ASSUME ProfileEndpointsFirst
  PROVE  Spec => []ProfileWindowHonoured
<1>1. Init => IdleIsEmpty
  BY InitServing DEF ServingInv
<1>2. TypeOK /\ IdleIsEmpty /\ AttemptInv /\ WindowInv /\ [Next]_vars => WindowInv'
  BY StepWindow
<1>3. Spec => [](TypeOK /\ IdleIsEmpty /\ AttemptInv /\ WindowInv)
  BY <1>1, <1>2, InitTypeOK, InitAttempt, InitWindow, StepTypeOK, IdleStep, StepAttempt, PTL
  DEF Spec
<1>4. WindowInv => ProfileWindowHonoured
  BY DEF WindowInv, RowsHonest, Upto, ProfileWindowHonoured, UsableDates
<1> QED  BY <1>3, <1>4, PTL

-----------------------------------------------------------------------------
(***************************************************************************)
(* The cursor carries forward.  With one process that plans for every      *)
(* endpoint nothing is saved between a load and its save, so the saved row *)
(* starts from exactly what the ledger gave.                               *)
(***************************************************************************)
OneProcess    == \A v, w \in Worker : v = w
FullSelection == OperatorOrders \subseteq {Registry}

\* the effective rows, and their usable dates, of any set of rows
EffectiveIn(L, e, t) ==
  {r \in L : /\ r.endpoint = e /\ r.target <= t
             /\ \A q \in L : q.endpoint = e /\ q.target <= t => q.target <= r.target}

CursorIn(L, e, t) == UNION {UsableDates(r) : r \in EffectiveIn(L, e, t)}

CarryInv ==
  /\ \A r \in ledger : r.target <= today
  /\ \A w \in Worker : pc[w] # "idle" =>
       /\ order[w] = Registry /\ target[w] <= today
       /\ \A e \in Endpoint : prior[w][e] = CursorIn(ledger, e, target[w])

LEMMA CursorIsIn ==
  /\ \A e, t : Cursor(e, t) = CursorIn(ledger, e, t)
  /\ \A e : Cursor(e, today)' = CursorIn(ledger', e, today')
<1>1. \A e, t : Effective(e, t) = EffectiveIn(ledger, e, t)
  BY DEF Effective, EffectiveIn
<1>2. \A e : Effective(e, today)' = EffectiveIn(ledger', e, today')
  BY DEF Effective, EffectiveIn
<1> QED  BY <1>1, <1>2 DEF Cursor, CursorIn

\* The business day rolls over.
LEMMA CursorOfTomorrow ==
  ASSUME NEW L \in SUBSET Row, NEW t \in Date, \A r \in L : r.target <= t, NEW e
  PROVE  CursorIn(L, e, t) = CursorIn(L, e, t + 1)
<1>1. \A r \in L : r.target <= t + 1
  BY PlannerAssumption DEF Row, Date
<1>2. EffectiveIn(L, e, t) = EffectiveIn(L, e, t + 1)
  BY <1>1 DEF EffectiveIn
<1> QED  BY <1>2 DEF CursorIn

(* A save for target t whose row of e holds what the cursor for t held     *)
(* takes nothing from the cursor of any later date d.                      *)
LEMMA SaveKeepsCursor ==
  ASSUME NEW L \in SUBSET Row, NEW N, NEW t \in Date, NEW d \in Date, t <= d, NEW e,
         \A r \in N : r.target = t,
         NEW n \in N, n.endpoint = e, CursorIn(L, e, t) \subseteq UsableDates(n)
  PROVE  CursorIn(L, e, d) \subseteq CursorIn({r \in L : r.target # t} \cup N, e, d)
<1> DEFINE L2 == {r \in L : r.target # t} \cup N
<1> SUFFICES ASSUME NEW r \in EffectiveIn(L, e, d), NEW x \in UsableDates(r)
             PROVE  x \in CursorIn(L2, e, d)
  BY DEF CursorIn
<1>1. /\ r \in L /\ r.endpoint = e /\ r.target <= d
      /\ \A q \in L : q.endpoint = e /\ q.target <= d => q.target <= r.target
  BY DEF EffectiveIn
<1>2. /\ t \in Int /\ d \in Int /\ \A q \in L : q.target \in Int
  BY PlannerAssumption DEF Row, Date
<1>3. CASE r.target > t
  <2>1. r \in L2
    BY <1>1, <1>2, <1>3
  <2>2. ASSUME NEW q \in L2, q.endpoint = e, q.target <= d PROVE q.target <= r.target
    BY <1>1, <1>2, <1>3, <2>2
  <2>3. r \in EffectiveIn(L2, e, d)
    <3> HIDE DEF L2
    <3> QED  BY <1>1, <2>1, <2>2 DEF EffectiveIn
  <2> QED  BY <2>3 DEF CursorIn
<1>4. CASE ~ (r.target > t)
  <2>1. r.target <= t
    BY <1>1, <1>2, <1>4
  <2>2. \A q \in L : q.endpoint = e /\ q.target <= t => q.target <= r.target
    BY <1>1, <1>2
  <2>3. r \in EffectiveIn(L, e, t)
    BY <1>1, <2>1, <2>2 DEF EffectiveIn
  <2>4. x \in UsableDates(n)
    BY <2>3 DEF CursorIn
  <2>5. ASSUME NEW q \in L2, q.endpoint = e, q.target <= d PROVE q.target <= t
    BY <1>1, <1>2, <2>1, <2>5
  <2>6. n \in EffectiveIn(L2, e, d)
    <3>1. n \in L2 /\ n.target = t
      OBVIOUS
    <3> HIDE DEF L2
    <3> QED  BY <2>5, <3>1 DEF EffectiveIn
  <2> QED  BY <2>4, <2>6 DEF CursorIn
<1> QED  BY <1>3, <1>4

LEMMA RowKey ==
  \A e, S, t, c : LedgerRow(e, S, t, c).endpoint = e /\ LedgerRow(e, S, t, c).target = t
BY DEF LedgerRow

LEMMA InitCarry == Init => CarryInv
BY DEF Init, CarryInv

\* What a save writes, in a cycle that loaded what the ledger still says.
LEMMA SaveCarries ==
  ASSUME TypeOK, CarryInv, NEW w \in Worker, Save(w), NEW e \in Endpoint
  PROVE  CursorIn(ledger, e, today) \subseteq CursorIn(ledger', e, today)
<1> DEFINE t == target[w]
           rowOf(f) == LedgerRow(f, prior[w][f] \cup Fetched(results[w], f), t,
                                 priorCompleted[w][f])
           N == {rowOf(f) : f \in Selected(order[w])}
<1>1. ledger' = {r \in ledger : r.target # t} \cup N
  BY DEF Save, Replace
<1>2. /\ order[w] = Registry /\ t <= today
      /\ prior[w][e] = CursorIn(ledger, e, t)
  BY DEF CarryInv, Save
<1>3. e \in Selected(order[w])
  BY <1>2, NightlySyncAssumption
<1>4. rowOf(e) \in N
  BY <1>3
<1>5. rowOf(e).endpoint = e /\ \A r \in N : r.target = t
  <2>1. ASSUME NEW f PROVE rowOf(f).endpoint = f /\ rowOf(f).target = t
    BY RowKey
  <2> HIDE DEF rowOf
  <2> QED  BY <2>1
<1>6. CursorIn(ledger, e, t) \subseteq UsableDates(rowOf(e))
  BY <1>2 DEF LedgerRow, UsableDates
<1>7. ledger \in SUBSET Row /\ t \in Date /\ today \in Date
  BY DEF TypeOK
<1> HIDE DEF N, rowOf, t
<1>8. CursorIn(ledger, e, today) \subseteq CursorIn({r \in ledger : r.target # t} \cup N, e, today)
  BY <1>2, <1>4, <1>5, <1>6, <1>7, SaveKeepsCursor
<1> QED  BY <1>1, <1>8

\* Only a save changes the ledger, and only a new night the date.
LEMMA LedgerSteps ==
  [Next]_vars =>
    \/ UNCHANGED <<ledger, today>>
    \/ UNCHANGED ledger /\ NewNight
    \/ UNCHANGED today /\ \E w \in Worker : Save(w)
BY DEF Next, OperatorNext, NightlyNext, Step, NewNight, NightlyCycle, OperatorCycle,
       PlanOnlyWorker, StartCycle, Load, RunGroup, RunSlice, StartMaterialize,
       NothingToMaterialize, PersistComponents, PersistOverviews, Save, Abort, Raise,
       vars, store

LEMMA StepCarries ==
  TypeOK /\ CarryInv /\ [Next]_vars =>
    \A e \in Endpoint : Cursor(e, today) \subseteq Cursor(e, today)'
<1> SUFFICES ASSUME TypeOK, CarryInv, [Next]_vars, NEW e \in Endpoint
             PROVE  CursorIn(ledger, e, today) \subseteq CursorIn(ledger', e, today')
  BY CursorIsIn
<1>1. CASE UNCHANGED <<ledger, today>>
  BY <1>1
<1>2. CASE UNCHANGED ledger /\ NewNight
  BY <1>2, CursorOfTomorrow DEF TypeOK, CarryInv, NewNight
<1>3. CASE UNCHANGED today /\ \E w \in Worker : Save(w)
  BY <1>3, SaveCarries
<1> QED  BY <1>1, <1>2, <1>3, LedgerSteps

LEMMA StepCarryInv ==
  ASSUME OneProcess, FullSelection
  PROVE  TypeOK /\ CarryInv /\ [OperatorNext]_vars => CarryInv'
<1> SUFFICES ASSUME TypeOK, CarryInv, [OperatorNext]_vars PROVE CarryInv'
  OBVIOUS
<1>0. /\ today \in Date /\ \A t \in 1 .. today : t \in Date /\ t <= today
      /\ today \in Int /\ \A w \in Worker : target[w] \in Int
      /\ \A r \in ledger : r.target \in Int
  BY PlannerAssumption DEF TypeOK, Date, Row
<1>1. CASE NewNight
  BY <1>0, <1>1 DEF NewNight, CarryInv, store, cycle
<1>2. CASE UNCHANGED vars
  BY <1>2 DEF vars, store, cycle, CarryInv
<1>3. ASSUME NEW w \in Worker, NEW t \in 1 .. today, StartCycle(w, t, Registry) PROVE CarryInv'
  <2>1. /\ UNCHANGED <<ledger, today>>
        /\ \A v \in Worker : v = w
        /\ order'[w] = Registry /\ target'[w] = t
        /\ prior'[w] = [e \in Endpoint |-> Cursor(e, t)]
    BY <1>3 DEF StartCycle, Load, TypeOK, store, OneProcess
  <2>2. \A e \in Endpoint : prior'[w][e] = CursorIn(ledger, e, t)
    BY <2>1, CursorIsIn
  <2> QED  BY <1>0, <2>1, <2>2 DEF CarryInv
<1>4. ASSUME NEW w \in Worker, RunGroup(w) \/ Materialize(w)
      PROVE  CarryInv'
  <2>1. /\ UNCHANGED <<ledger, today, order, target, prior>> /\ pc[w] # "idle"
        /\ \A v \in Worker : v # w => pc'[v] = pc[v]
    BY <1>4, MaterializeOnly DEF RunGroup, RunSlice, TypeOK, store
  <2> QED  BY <2>1 DEF CarryInv
<1>5. ASSUME NEW w \in Worker, End(w), today' = today, \A r \in ledger' : r.target <= today
      PROVE  CarryInv'
  <2>1. \A v \in Worker : pc'[v] = "idle"
    BY <1>5 DEF End, TypeOK, OneProcess
  <2> QED  BY <1>5, <2>1 DEF CarryInv
<1>6. ASSUME NEW w \in Worker, Save(w) PROVE CarryInv'
  <2>1. target[w] <= today
    BY <1>6 DEF Save, CarryInv
  <2>2. \A r \in ledger' : r \in ledger \/ r.target = target[w]
    <3>1. \A r \in ledger' : r \in ledger \/ \E e, S, c : r = LedgerRow(e, S, target[w], c)
      BY <1>6 DEF Save, Replace
    <3> QED  BY <3>1, RowKey
  <2> QED  BY <1>5, <1>6, <2>1, <2>2 DEF Save, CarryInv
<1>7. ASSUME NEW w \in Worker, Abort(w) \/ Raise(w) PROVE CarryInv'
  BY <1>5, <1>7 DEF Abort, Raise, CarryInv
<1>8. ASSUME NEW w \in Scheduler, NightlyCycle(w) PROVE CarryInv'
  <2>1. today \in 1 .. today
    BY <1>0, PlannerAssumption DEF Date
  <2> QED  BY <1>3, <1>8, <2>1 DEF NightlyCycle, Worker
<1>9. ASSUME NEW w \in Operator, OperatorCycle(w) PROVE CarryInv'
  BY <1>3, <1>9 DEF OperatorCycle, Worker, FullSelection
<1> QED
  BY <1>1, <1>2, <1>4, <1>6, <1>7, <1>8, <1>9 DEF OperatorNext, NightlyNext, Step, Materialize

LEMMA OperatorStepIsStep == [OperatorNext]_vars => [Next]_vars
BY DEF Next

LEMMA AlwaysCarryInv ==
  ASSUME OneProcess, FullSelection
  PROVE  OperatorSpec => [](TypeOK /\ SoundInv /\ CarryInv)
<1>1. TypeOK /\ CarryInv /\ [OperatorNext]_vars => CarryInv'
  BY StepCarryInv
<1> QED
  BY <1>1, InitTypeOK, InitSound, InitCarry, StepTypeOK, StepSound, OperatorStepIsStep, PTL
  DEF OperatorSpec

(* With one process and the full selection, night after night and across   *)
(* reruns of older dates and cycles that die, what the planner is given    *)
(* for the night's target never shrinks.                                   *)
THEOREM CursorCarriesForward ==
  ASSUME OneProcess, FullSelection
  PROVE  OperatorSpec => CarryForward
<1>1. TypeOK /\ CarryInv /\ [OperatorNext]_vars =>
        [\A e \in Endpoint : Cursor(e, today) \subseteq Cursor(e, today)']_vars
  BY StepCarries, OperatorStepIsStep
<1>2. OperatorSpec => [](TypeOK /\ SoundInv /\ CarryInv)
  BY AlwaysCarryInv
<1> QED  BY <1>1, <1>2, PTL DEF OperatorSpec, CarryForward

-----------------------------------------------------------------------------
(***************************************************************************)
(* One process with the full selection implements the coverage ledger: a   *)
(* slice run lands cells, and a save credits cells that have landed.       *)
(***************************************************************************)
LEMMA InitIsCovered == Init => Coverage!Init
<1> SUFFICES ASSUME Init PROVE Coverage!Init
  OBVIOUS
<1>1. \A e, t : Cursor(e, t) = {}
  BY DEF Init, Cursor, Effective
<1> QED  BY <1>1 DEF Init, Coverage!Init, Credited

LEMMA StepIsCovered ==
  TypeOK /\ CarryInv /\ [Next]_vars /\ SoundInv'
    => [Coverage!Land \/ Coverage!Credit]_<<landed, Credited>>
<1> SUFFICES ASSUME TypeOK, CarryInv, [Next]_vars, SoundInv'
             PROVE  [Coverage!Land \/ Coverage!Credit]_<<landed, Credited>>
  OBVIOUS
<1>1. CASE landed' = landed
  <2>1. Credited' \subseteq landed'
    <3> SUFFICES ASSUME NEW c \in Credited' PROVE c \in landed'
      OBVIOUS
    <3>1. c = <<c[1], c[2]>> /\ c[2] \in Cursor(c[1], today)'
      BY DEF Credited
    <3>2. PICK r \in ledger' : r.endpoint = c[1] /\ c[2] \in UsableDates(r)
      BY <3>1 DEF Cursor, Effective
    <3> QED  BY <3>1, <3>2 DEF SoundInv, LedgerSound
  <2>2. Credited \subseteq Credited'
    BY StepCarries DEF Credited
  <2>3. Credited' \in SUBSET landed /\ Credited' = Credited \cup Credited'
    BY <1>1, <2>1, <2>2
  <2> QED  BY <1>1, <2>3 DEF Coverage!Credit
<1>2. ASSUME NEW w \in Worker, RunGroup(w)
      PROVE  Coverage!Land
  <2>1. PICK k \in todo[w] : \E ok \in SUBSET EndpointsOf(SliceOf[k.endpoint]) :
                                RunSlice(w, k, ok)
    BY <1>2 DEF RunGroup
  <2>2. PICK ok \in SUBSET EndpointsOf(SliceOf[k.endpoint]) : RunSlice(w, k, ok)
    BY <2>1
  <2>3. landed' = landed \cup (ok \X {k.date}) /\ UNCHANGED <<ledger, today>>
    BY <2>2 DEF RunSlice, store
  <2>4. ok \X {k.date} \in SUBSET (Endpoint \X Date)
    BY DEF TypeOK, Task, EndpointsOf
  <2>5. Credited' = Credited
    BY <2>3 DEF Credited, Cursor, Effective
  <2> QED  BY <2>3, <2>4, <2>5 DEF Coverage!Land
<1>3. landed' = landed \/ \E w \in Worker : RunGroup(w)
  BY DEF Next, OperatorNext, NightlyNext, Step, NewNight, NightlyCycle, OperatorCycle,
         PlanOnlyWorker, StartCycle, Load, StartMaterialize, NothingToMaterialize,
         PersistComponents, PersistOverviews, Save, Abort, Raise, vars, history
<1> QED  BY <1>1, <1>2, <1>3

(* The nightly sync of one process is a coverage ledger: its initial       *)
(* states are empty, and every step lands data, credits landed data or     *)
(* leaves both alone, so nothing is ever taken back.                       *)
THEOREM SyncImplementsCoverage ==
  ASSUME OneProcess, FullSelection
  PROVE  OperatorSpec => ImplementsCoverage
<1>1. OperatorSpec => Coverage!Init
  BY InitIsCovered DEF OperatorSpec
<1>2. OperatorSpec => [](TypeOK /\ SoundInv /\ CarryInv)
  BY AlwaysCarryInv
<1> QED
  BY <1>1, <1>2, StepIsCovered, OperatorStepIsStep, PTL
  DEF OperatorSpec, ImplementsCoverage, Coverage!Spec
=============================================================================
