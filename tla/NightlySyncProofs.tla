-------------------------- MODULE NightlySyncProofs --------------------------
(***************************************************************************)
(* Proofs about NightlySync for every registry, calendar, budget and       *)
(* number of processes.                                                    *)
(***************************************************************************)
EXTENDS NightlySync, FiniteSetTheorems, WellFoundedInduction, TLAPS

Orders == OperatorOrders \cup {Registry}

(* A non-empty set of business dates has a latest one, and Latest is it.   *)
LEMMA LatestIsGreatest ==
  ASSUME NEW S \in SUBSET Date, S # {}
  PROVE  Latest(S) \in S /\ \A x \in S : x <= Latest(S)
<1> DEFINE Age == {LastDate - d : d \in S}
           Less == OpToRel(<, Nat)
<1>1. Age \subseteq Nat /\ Age # {}
  <2>1. \A d \in S : d \in Int /\ d <= LastDate /\ LastDate \in Int
    BY PlannerAssumption DEF Date
  <2>2. \A d \in S : LastDate - d \in Nat
    BY <2>1
  <2> QED  BY <2>2
<1>2. PICK a \in Age : \A b \in Age : ~ (<<b, a>> \in Less)
  BY <1>1, NatLessThanWellFounded, WFMin, Zenon
<1>3. \A b \in Age : a <= b
  <2> TAKE b \in Age
  <2>1. ~ (b < a)
    BY <1>1, <1>2 DEF OpToRel
  <2> QED  BY <2>1, <1>1
<1>4. PICK m \in S : a = LastDate - m
  OBVIOUS
<1>5. \A x \in S : x <= m
  <2> TAKE x \in S
  <2>1. a <= LastDate - x
    BY <1>3
  <2> QED  BY <2>1, <1>4, PlannerAssumption DEF Date
<1> QED  BY <1>5 DEF Latest

LEMMA LatestType ==
  ASSUME NEW S \in SUBSET Date
  PROVE  Latest(S) \in Date \cup {NoDate}
<1>1. CASE S = {}
  BY <1>1 DEF Latest
<1>2. CASE S # {}
  BY <1>2, LatestIsGreatest
<1> QED  BY <1>1, <1>2

LEMMA GapTypes ==
  ASSUME NEW S \in SUBSET Date, NEW t \in Date, NEW e \in Endpoint
  PROVE  /\ OlderMissing(S, t) \subseteq Date
         /\ NextBackfill(e, S, t) \in Date \cup {NoDate}
<1>1. OlderMissing(S, t) \subseteq Date
  BY DEF OlderMissing, Missing, Expected
<1> QED  BY <1>1, LatestType DEF NextBackfill

LEMMA SelectedType ==
  ASSUME NEW o \in Orders
  PROVE  o \in Seq(Endpoint) /\ Selected(o) \subseteq Endpoint
BY NightlySyncAssumption DEF Orders, IsSelection, Selected

(* The dispatch of any coverage is a set of tasks: the ranks are counts of *)
(* finite sets.                                                            *)
LEMMA DispatchType ==
  ASSUME NEW c \in [Endpoint -> SUBSET Date], NEW o \in Orders, NEW t \in Date
  PROVE  Dispatch(c, o, t, MaxTasks, MaxBackfill) \subseteq Task
<1> DEFINE now == DispatchedStale(c, o, t, MaxTasks)
<1>1. IsFiniteSet(Endpoint) /\ Selected(o) \subseteq Endpoint
  BY NightlySyncAssumption, SelectedType
<1>2. Stale(c, o, t) \subseteq Endpoint /\ now \subseteq Endpoint
  BY <1>1 DEF Stale, DispatchedStale
<1>3. \A e \in Endpoint : CurrentnessRank(c, o, t, e) \in Nat
  <2> TAKE e \in Endpoint
  <2> DEFINE F == {f \in Stale(c, o, t) : NotAfter(o, f, e)}
  <2>1. IsFiniteSet(F)
    BY <1>1, <1>2, FS_Subset
  <2> QED  BY <2>1, FS_CardinalityType DEF CurrentnessRank
<1>4. Cardinality(now) \in Nat
  BY <1>1, <1>2, FS_Subset, FS_CardinalityType
<1>5. Gaps(c, o, t) \subseteq Endpoint \X Date
  BY <1>1 DEF Gaps
<1>6. IsFiniteSet(Gaps(c, o, t))
  <2>1. IsFiniteSet(Date)
    BY PlannerAssumption, FS_Interval DEF Date
  <2>2. IsFiniteSet(Endpoint \X Date)
    BY <2>1, <1>1, FS_Product
  <2> QED  BY <2>2, <1>5, FS_Subset
<1>7. \A g \in Gaps(c, o, t) : BackfillRank(c, o, t, g) \in Nat
  <2> TAKE g \in Gaps(c, o, t)
  <2> DEFINE H == {h \in Gaps(c, o, t) : QueuedNotAfter(c, o, t, h, g)}
  <2>1. IsFiniteSet(H)
    BY <1>6, FS_Subset
  <2> QED  BY <2>1, FS_CardinalityType DEF BackfillRank
<1>8. ASSUME NEW e \in now
      PROVE  [seq |-> CurrentnessRank(c, o, t, e), priority |-> "currentness",
              endpoint |-> e, date |-> t] \in Task
  BY <1>2, <1>3 DEF Task
<1>9. ASSUME NEW g \in Gaps(c, o, t)
      PROVE  [seq |-> Cardinality(now) + BackfillRank(c, o, t, g), priority |-> "backfill",
              endpoint |-> g[1], date |-> g[2]] \in Task
  <2>1. g[1] \in Endpoint /\ g[2] \in Date
    BY <1>5
  <2>2. Cardinality(now) + BackfillRank(c, o, t, g) \in Nat
    BY <1>4, <1>7
  <2> QED  BY <2>1, <2>2 DEF Task
<1> QED  BY <1>8, <1>9 DEF Dispatch

LEMMA LedgerRowType ==
  ASSUME NEW e \in Endpoint, NEW S \in SUBSET Date, NEW t \in Date,
         NEW p \in Date \cup {NoDate}
  PROVE  LedgerRow(e, S, t, p) \in Row
<1>1. CursorStatus(e, S, t) \in Status
  BY DEF CursorStatus, Status
<1> QED  BY <1>1, GapTypes, LatestType DEF LedgerRow, Row

LEMMA UsableType ==
  ASSUME NEW r \in Row
  PROVE  UsableDates(r) \subseteq Date
BY DEF UsableDates, Row

LEMMA LoadTypes ==
  ASSUME ledger \subseteq Row, NEW e \in Endpoint, NEW t \in Date
  PROVE  /\ Cursor(e, t) \subseteq Date
         /\ PriorCompleted(e, t) \in Date \cup {NoDate}
<1>1. Cursor(e, t) \subseteq Date
  BY UsableType DEF Cursor, Effective
<1>2. PriorCompleted(e, t) \in Date \cup {NoDate}
  <2>1. CASE \E r \in ledger : r.endpoint = e /\ r.target = t
    BY <2>1 DEF PriorCompleted, Row
  <2>2. CASE ~ \E r \in ledger : r.endpoint = e /\ r.target = t
    BY <2>2 DEF PriorCompleted
  <2> QED  BY <2>1, <2>2
<1> QED  BY <1>1, <1>2

LEMMA FetchedType ==
  ASSUME NEW R \in SUBSET Result, NEW e
  PROVE  Fetched(R, e) \subseteq Date
BY DEF Fetched, Result

-----------------------------------------------------------------------------
(***************************************************************************)
(* Type correctness.                                                       *)
(***************************************************************************)
LEMMA InitTypeOK == Init => TypeOK
<1> SUFFICES ASSUME Init PROVE TypeOK
  OBVIOUS
<1>1. 1 \in Date
  BY PlannerAssumption DEF Date
<1>2. 0 \in 0 .. MaxDisturbances
  BY NightlySyncAssumption
<1> QED  BY <1>1, <1>2 DEF Init, TypeOK, Stage

LEMMA DisturbType ==
  ASSUME TypeOK, Disturb
  PROVE  disturbances' \in 0 .. MaxDisturbances
BY NightlySyncAssumption DEF TypeOK, Disturb

LEMMA EndTypes ==
  ASSUME TypeOK, NEW w \in Worker, End(w)
  PROVE  /\ pc' \in [Worker -> Stage]
         /\ target' \in [Worker -> Date]
         /\ order' \in [Worker -> OperatorOrders \cup {Registry}]
         /\ prior' \in [Worker -> [Endpoint -> SUBSET Date]]
         /\ priorCompleted' \in [Worker -> [Endpoint -> Date \cup {NoDate}]]
         /\ todo' \in [Worker -> SUBSET Task]
         /\ results' \in [Worker -> SUBSET Result]
<1>1. 1 \in Date
  BY PlannerAssumption DEF Date
<1>2. [e \in Endpoint |-> {}] \in [Endpoint -> SUBSET Date]
  OBVIOUS
<1>3. [e \in Endpoint |-> NoDate] \in [Endpoint -> Date \cup {NoDate}]
  OBVIOUS
<1> QED  BY <1>1, <1>2, <1>3 DEF TypeOK, End, Stage

LEMMA StartCycleTypes ==
  ASSUME TypeOK, NEW w \in Worker, NEW t \in Date, NEW o \in Orders, StartCycle(w, t, o),
         disturbances' \in 0 .. MaxDisturbances
  PROVE  TypeOK'
<1> DEFINE usable == [e \in Endpoint |-> Cursor(e, t)]
<1>1. ledger \subseteq Row
  BY DEF TypeOK
<1>2. usable \in [Endpoint -> SUBSET Date]
  BY <1>1, LoadTypes
<1>3. [e \in Endpoint |-> PriorCompleted(e, t)] \in [Endpoint -> Date \cup {NoDate}]
  BY <1>1, LoadTypes
<1>4. Dispatch(usable, o, t, MaxTasks, MaxBackfill) \subseteq Task
  BY <1>2, DispatchType
<1>5. /\ todo' \in [Worker -> SUBSET Task]
      /\ prior' \in [Worker -> [Endpoint -> SUBSET Date]]
      /\ priorCompleted' \in [Worker -> [Endpoint -> Date \cup {NoDate}]]
  BY <1>2, <1>3, <1>4 DEF TypeOK, StartCycle, Load
<1>6. /\ target' \in [Worker -> Date]
      /\ order' \in [Worker -> OperatorOrders \cup {Registry}]
      /\ pc' \in [Worker -> Stage]
  BY DEF TypeOK, StartCycle, Load, Orders, Stage
<1> QED  BY <1>5, <1>6 DEF TypeOK, StartCycle, Load, store, history

LEMMA FullDatesType ==
  ASSUME TypeOK, NEW w \in Worker
  PROVE  FullDates(w) \subseteq Date /\ ComponentKeys(w) \subseteq Slice \X Date
BY DEF TypeOK, Result, FullDates, ComponentRuns, ComponentKeys

LEMMA SavedTypes ==
  ASSUME TypeOK, NEW w \in Worker, SavedInPart(w)
  PROVE  snapshots' \subseteq Slice \X Date /\ overviews' \subseteq Date
BY FullDatesType DEF TypeOK, SavedInPart

LEMMA StepTypeOK == TypeOK /\ [Next]_vars => TypeOK'
<1> SUFFICES ASSUME TypeOK, [Next]_vars PROVE TypeOK'
  OBVIOUS
<1>0. /\ \A t \in 1 .. today : t \in Date
      /\ today \in Date
  BY PlannerAssumption DEF TypeOK, Date
<1>1. CASE NewNight
  <2>1. today' \in Date
    BY <1>1, <1>0, PlannerAssumption DEF NewNight, Date
  <2> QED  BY <1>1, <2>1 DEF NewNight, TypeOK, store, cycle, history
<1>2. ASSUME NEW w \in Scheduler, NightlyCycle(w) PROVE TypeOK'
  <2>1. w \in Worker /\ Registry \in Orders
    BY DEF Worker, Orders
  <2>2. disturbances' \in 0 .. MaxDisturbances
    BY <1>2 DEF NightlyCycle, TypeOK
  <2> QED  BY <1>2, <1>0, <2>1, <2>2, StartCycleTypes DEF NightlyCycle
<1>3. ASSUME NEW w \in Operator, OperatorCycle(w) PROVE TypeOK'
  <2>1. PICK t \in 1 .. today, o \in OperatorOrders : StartCycle(w, t, o)
    BY <1>3 DEF OperatorCycle
  <2>2. w \in Worker /\ o \in Orders /\ t \in Date
    BY <1>0 DEF Worker, Orders
  <2>3. disturbances' \in 0 .. MaxDisturbances
    BY <1>3, DisturbType DEF OperatorCycle
  <2> QED  BY <2>1, <2>2, <2>3, StartCycleTypes
<1>4. ASSUME NEW w \in Operator, PlanOnlyWorker(w) PROVE TypeOK'
  <2>1. PICK t \in 1 .. today, o \in OperatorOrders :
           /\ Load(w, t, o, [e \in Endpoint |-> {}])
           /\ todo' = [todo EXCEPT ![w] = {}]
           /\ pc' = [pc EXCEPT ![w] = "saving"]
           /\ Disturb
    BY <1>4 DEF PlanOnlyWorker
  <2>2. w \in Worker /\ t \in Date
    BY <1>0 DEF Worker
  <2>3. [e \in Endpoint |-> PriorCompleted(e, t)] \in [Endpoint -> Date \cup {NoDate}]
    BY <2>2, LoadTypes DEF TypeOK
  <2>4. disturbances' \in 0 .. MaxDisturbances
    BY <2>1, DisturbType
  <2>5. prior' \in [Worker -> [Endpoint -> SUBSET Date]]
    BY <2>1, <2>2 DEF TypeOK, Load
  <2>6. priorCompleted' \in [Worker -> [Endpoint -> Date \cup {NoDate}]]
    BY <2>1, <2>2, <2>3 DEF TypeOK, Load
  <2> QED  BY <2>1, <2>2, <2>4, <2>5, <2>6 DEF TypeOK, Load, store, history, Stage
<1>5. ASSUME NEW w \in Worker, RunGroup(w) PROVE TypeOK'
  <2>1. PICK k \in todo[w] : \E ok \in SUBSET EndpointsOf(SliceOf[k.endpoint]) :
                                RunSlice(w, k, ok)
    BY <1>5 DEF RunGroup
  <2>2. PICK ok \in SUBSET EndpointsOf(SliceOf[k.endpoint]) : RunSlice(w, k, ok)
    BY <2>1
  <2>3. k \in Task
    BY DEF TypeOK
  <2>4. ok \subseteq Endpoint /\ k.date \in Date /\ SliceOf[k.endpoint] \in Slice
    BY <2>3, PlannerAssumption DEF EndpointsOf, Task
  <2>5. [slice |-> SliceOf[k.endpoint], date |-> k.date, ok |-> ok] \in Result
    BY <2>4 DEF Result
  <2>6. results' \in [Worker -> SUBSET Result]
    BY <2>2, <2>5 DEF TypeOK, RunSlice
  <2>7. todo' \in [Worker -> SUBSET Task]
    BY <2>2 DEF TypeOK, RunSlice
  <2>8. landed' \subseteq Endpoint \X Date /\ windowed' \subseteq landed'
    BY <2>2, <2>4 DEF TypeOK, RunSlice
  <2> QED  BY <2>2, <2>6, <2>7, <2>8 DEF TypeOK, RunSlice, store
<1>6. ASSUME NEW w \in Worker, PersistComponents(w) PROVE TypeOK'
  <2>1. ComponentKeys(w) \subseteq Slice \X Date
    BY FullDatesType
  <2>2. snapshots' \subseteq Slice \X Date /\ pc' \in [Worker -> Stage]
    BY <1>6, <2>1 DEF TypeOK, PersistComponents, Stage
  <2> QED  BY <1>6, <2>2 DEF TypeOK, PersistComponents, history
<1>10. ASSUME NEW w \in Worker, PersistOverviews(w) PROVE TypeOK'
  <2>1. overviews' \subseteq Date /\ pc' \in [Worker -> Stage]
    BY <1>10, FullDatesType DEF TypeOK, PersistOverviews, Stage
  <2> QED  BY <1>10, <2>1 DEF TypeOK, PersistOverviews, history
<1>11. ASSUME NEW w \in Worker, StartMaterialize(w) \/ NothingToMaterialize(w) PROVE TypeOK'
  <2>1. overlapped' \in BOOLEAN
    BY <1>11 DEF TypeOK, StartMaterialize, NothingToMaterialize, store
  <2>2. pc' \in [Worker -> Stage]
    BY <1>11 DEF TypeOK, StartMaterialize, NothingToMaterialize, Stage
  <2> QED  BY <1>11, <2>1, <2>2 DEF TypeOK, StartMaterialize, NothingToMaterialize, store, history
<1>7. ASSUME NEW w \in Worker, Save(w) PROVE TypeOK'
  <2>1. ASSUME NEW e \in Selected(order[w])
        PROVE  LedgerRow(e, prior[w][e] \cup Fetched(results[w], e), target[w],
                         priorCompleted[w][e]) \in Row
    <3>1. e \in Endpoint
      BY SelectedType DEF TypeOK, Orders
    <3>2. prior[w][e] \cup Fetched(results[w], e) \in SUBSET Date
      BY <3>1, FetchedType DEF TypeOK
    <3> QED  BY <3>1, <3>2, LedgerRowType DEF TypeOK
  <2>2. ledger' \subseteq Row
    BY <1>7, <2>1 DEF TypeOK, Save, Replace
  <2> QED  BY <1>7, <2>2, EndTypes DEF Save, TypeOK, history
<1>8. ASSUME NEW w \in Worker, Abort(w) \/ Raise(w) PROVE TypeOK'
  <2>1. disturbances' \in 0 .. MaxDisturbances
    BY <1>8, DisturbType DEF Abort, Raise, TypeOK
  <2>2. damaged' \in BOOLEAN /\ overlapped' \in BOOLEAN
    BY <1>8 DEF Abort, Raise, TypeOK
  <2>3. SavedInPart(w) /\ End(w) /\ UNCHANGED <<today, ledger, history>>
    BY <1>8 DEF Abort, Raise
  <2>4. snapshots' \subseteq Slice \X Date /\ overviews' \subseteq Date
    BY <2>3, SavedTypes
  <2> QED  BY <2>1, <2>2, <2>3, <2>4, EndTypes DEF TypeOK, history
<1>9. CASE UNCHANGED vars
  BY <1>9 DEF vars, store, cycle, history, TypeOK
<1> QED
  BY <1>1, <1>2, <1>3, <1>4, <1>5, <1>6, <1>7, <1>8, <1>9, <1>10, <1>11
  DEF Next, OperatorNext, NightlyNext, Step

(* Every reachable state is well typed.                                    *)
THEOREM TypeCorrect == Spec => []TypeOK
<1> QED  BY InitTypeOK, StepTypeOK, PTL DEF Spec

-----------------------------------------------------------------------------
(***************************************************************************)
(* The ledger is sound.  What a cycle carries in memory from its load to   *)
(* its save is as well founded as the ledger itself, so a save that lands  *)
(* late, over a newer save, still writes only dates the source delivered.  *)
(***************************************************************************)
Delivered(e, dates) == \A d \in dates : <<e, d>> \in landed

RunsDelivered(runs) ==
  \A r \in runs : r.ok \subseteq EndpointsOf(r.slice) /\ \A e \in r.ok : <<e, r.date>> \in landed

SoundInv ==
  /\ LedgerSound
  /\ \A w \in Worker, e \in Endpoint : Delivered(e, prior[w][e])
  /\ \A w \in Worker, e \in Endpoint :
       priorCompleted[w][e] # NoDate => <<e, priorCompleted[w][e]>> \in landed
  /\ \A w \in Worker : RunsDelivered(results[w])

LEMMA InitSound == Init => SoundInv
BY DEF Init, SoundInv, LedgerSound, Delivered, RunsDelivered

\* What a load returns is delivered when the ledger is sound.
LEMMA LoadSound ==
  ASSUME TypeOK, LedgerSound, NEW e \in Endpoint, NEW t \in Date
  PROVE  /\ Delivered(e, Cursor(e, t))
         /\ PriorCompleted(e, t) # NoDate => <<e, PriorCompleted(e, t)>> \in landed
<1>1. Delivered(e, Cursor(e, t))
  BY DEF Delivered, Cursor, Effective, LedgerSound
<1>2. ASSUME PriorCompleted(e, t) # NoDate
      PROVE  <<e, PriorCompleted(e, t)>> \in landed
  <2>1. \E r \in ledger : r.endpoint = e /\ r.target = t
    BY <1>2 DEF PriorCompleted
  <2>2. PICK r \in ledger : r.endpoint = e /\ PriorCompleted(e, t) = r.lastCompleted
    BY <2>1 DEF PriorCompleted
  <2>3. r.lastCompleted \in UsableDates(r)
    BY <1>2, <2>2 DEF UsableDates
  <2> QED  BY <2>2, <2>3 DEF LedgerSound
<1> QED  BY <1>1, <1>2

\* A row computed from delivered dates is sound.
LEMMA RowSound ==
  ASSUME NEW e \in Endpoint, NEW S \in SUBSET Date, NEW t, NEW p \in Date \cup {NoDate},
         Delivered(e, S), p # NoDate => <<e, p>> \in landed,
         NEW d \in UsableDates(LedgerRow(e, S, t, p))
  PROVE  <<e, d>> \in landed
<1>1. CASE S = {}
  BY <1>1 DEF UsableDates, LedgerRow
<1>2. CASE S # {}
  <2>1. Latest(S) \in S
    BY <1>2, LatestIsGreatest
  <2> QED  BY <1>2, <2>1 DEF UsableDates, LedgerRow, Delivered
<1> QED  BY <1>1, <1>2

\* Landed data never goes away, so a step that adds to it disturbs nothing.
LEMMA StepKeepsLanded == [Next]_vars => landed \subseteq landed'
BY DEF Next, OperatorNext, NightlyNext, Step, NewNight, NightlyCycle, OperatorCycle,
       PlanOnlyWorker, StartCycle, Load, RunGroup, RunSlice, StartMaterialize,
       NothingToMaterialize, PersistComponents, PersistOverviews, Save, Abort, Raise,
       vars, cycle, history

\* The steps of a materialisation, none of which touches the ledger
Materialize(w) ==
  \/ StartMaterialize(w) \/ NothingToMaterialize(w)
  \/ PersistComponents(w) \/ PersistOverviews(w)

LEMMA MaterializeOnly ==
  ASSUME NEW w \in Worker, Materialize(w)
  PROVE  /\ UNCHANGED <<today, ledger, target, order, prior, priorCompleted, todo, results,
                        history, disturbances>>
         /\ pc[w] # "idle"
         /\ \E s \in {"materializing", "composing", "saving"} : pc' = [pc EXCEPT ![w] = s]
BY DEF Materialize, StartMaterialize, NothingToMaterialize, PersistComponents, PersistOverviews, store

LEMMA LoadStepSound ==
  ASSUME TypeOK, SoundInv, NEW w \in Worker, NEW t \in Date, NEW o,
         NEW usable, usable \in [Endpoint -> SUBSET Date],
         \A e \in Endpoint : Delivered(e, usable[e]),
         Load(w, t, o, usable)
  PROVE  SoundInv'
<1>1. LedgerSound'
  BY DEF SoundInv, LedgerSound, Load, store, history
<1>2. \A v \in Worker, e \in Endpoint : Delivered(e, prior[v][e])'
  BY DEF TypeOK, SoundInv, Delivered, Load, history
<1>3. \A v \in Worker, e \in Endpoint :
        priorCompleted'[v][e] # NoDate => <<e, priorCompleted'[v][e]>> \in landed'
  BY LoadSound DEF TypeOK, SoundInv, Load, history
<1>4. \A v \in Worker : RunsDelivered(results[v])'
  BY DEF SoundInv, RunsDelivered, Load, history
<1> QED  BY <1>1, <1>2, <1>3, <1>4 DEF SoundInv

LEMMA EndSound ==
  ASSUME TypeOK, SoundInv, NEW w \in Worker, End(w), UNCHANGED history
  PROVE  /\ \A v \in Worker, e \in Endpoint : Delivered(e, prior[v][e])'
         /\ \A v \in Worker, e \in Endpoint :
              priorCompleted'[v][e] # NoDate => <<e, priorCompleted'[v][e]>> \in landed'
         /\ \A v \in Worker : RunsDelivered(results[v])'
<1>1. \A v \in Worker, e \in Endpoint : Delivered(e, prior[v][e])'
  BY DEF TypeOK, SoundInv, End, Delivered, history
<1>2. \A v \in Worker, e \in Endpoint :
        priorCompleted'[v][e] # NoDate => <<e, priorCompleted'[v][e]>> \in landed'
  BY DEF TypeOK, SoundInv, End, history
<1>3. \A v \in Worker : RunsDelivered(results[v])'
  BY DEF TypeOK, SoundInv, End, RunsDelivered, history
<1> QED  BY <1>1, <1>2, <1>3

LEMMA StepSound == TypeOK /\ SoundInv /\ [Next]_vars => SoundInv'
<1> SUFFICES ASSUME TypeOK, SoundInv, [Next]_vars PROVE SoundInv'
  OBVIOUS
<1>0. /\ ledger \subseteq Row /\ today \in Date
      /\ \A t \in 1 .. today : t \in Date
  BY PlannerAssumption DEF TypeOK, Date
<1>1. CASE NewNight
  BY <1>1 DEF NewNight, SoundInv, LedgerSound, Delivered, RunsDelivered, store, cycle, history
<1>2. ASSUME NEW w \in Worker, NEW t \in Date, NEW o, StartCycle(w, t, o) PROVE SoundInv'
  <2> DEFINE usable == [e \in Endpoint |-> Cursor(e, t)]
  <2>1. usable \in [Endpoint -> SUBSET Date] /\ \A e \in Endpoint : Delivered(e, usable[e])
    BY <1>0, LoadTypes, LoadSound DEF SoundInv
  <2> QED  BY <1>2, <2>1, LoadStepSound DEF StartCycle
<1>3. ASSUME NEW w \in Operator, PlanOnlyWorker(w) PROVE SoundInv'
  <2>1. PICK t \in 1 .. today, o \in OperatorOrders : Load(w, t, o, [e \in Endpoint |-> {}])
    BY <1>3 DEF PlanOnlyWorker
  <2> DEFINE usable == [e \in Endpoint |-> {}]
  <2>2. usable \in [Endpoint -> SUBSET Date] /\ \A e \in Endpoint : Delivered(e, usable[e])
    BY DEF Delivered
  <2>3. w \in Worker /\ t \in Date
    BY <1>0 DEF Worker
  <2> QED  BY <2>1, <2>2, <2>3, LoadStepSound
<1>4. ASSUME NEW w \in Worker, RunGroup(w) PROVE SoundInv'
  <2>1. PICK k \in todo[w] : \E ok \in SUBSET EndpointsOf(SliceOf[k.endpoint]) :
                                RunSlice(w, k, ok)
    BY <1>4 DEF RunGroup
  <2>2. PICK ok \in SUBSET EndpointsOf(SliceOf[k.endpoint]) : RunSlice(w, k, ok)
    BY <2>1
  <2>3. landed' = landed \cup (ok \X {k.date})
    BY <2>2 DEF RunSlice
  <2>4. UNCHANGED <<ledger, prior, priorCompleted>>
    BY <2>2 DEF RunSlice, store
  <2>5. LedgerSound'
    BY <2>3, <2>4 DEF SoundInv, LedgerSound
  <2>6. \A v \in Worker, e \in Endpoint : Delivered(e, prior[v][e])'
    BY <2>3, <2>4 DEF SoundInv, Delivered
  <2>7. \A v \in Worker, e \in Endpoint :
          priorCompleted'[v][e] # NoDate => <<e, priorCompleted'[v][e]>> \in landed'
    BY <2>3, <2>4 DEF SoundInv
  <2>8. \A v \in Worker : RunsDelivered(results[v])'
    <3> DEFINE runOf == [slice |-> SliceOf[k.endpoint], date |-> k.date, ok |-> ok]
    <3>1. \A v \in Worker : results'[v] \subseteq results[v] \cup {runOf}
      BY <2>2 DEF TypeOK, RunSlice
    <3>2. \A v \in Worker : \A r \in results[v] :
            r.ok \subseteq EndpointsOf(r.slice) /\ \A e \in r.ok : <<e, r.date>> \in landed'
      BY <2>3 DEF SoundInv, RunsDelivered
    <3>3. runOf.ok \subseteq EndpointsOf(runOf.slice) /\ \A e \in runOf.ok : <<e, runOf.date>> \in landed'
      BY <2>3
    <3> QED  BY <3>1, <3>2, <3>3 DEF RunsDelivered
  <2> QED  BY <2>5, <2>6, <2>7, <2>8 DEF SoundInv
<1>5. ASSUME NEW w \in Worker, Materialize(w) PROVE SoundInv'
  BY <1>5, MaterializeOnly DEF SoundInv, LedgerSound, Delivered, RunsDelivered, history
<1>6. ASSUME NEW w \in Worker, Save(w) PROVE SoundInv'
  <2>1. ASSUME NEW e \in Selected(order[w]),
               NEW d \in UsableDates(LedgerRow(e, prior[w][e] \cup Fetched(results[w], e),
                                               target[w], priorCompleted[w][e]))
        PROVE  <<e, d>> \in landed
    <3>1. e \in Endpoint
      BY SelectedType DEF TypeOK, Orders
    <3>2. /\ prior[w][e] \cup Fetched(results[w], e) \in SUBSET Date
          /\ priorCompleted[w][e] \in Date \cup {NoDate}
      BY <3>1, FetchedType DEF TypeOK
    <3>3. Delivered(e, prior[w][e]) /\ Delivered(e, Fetched(results[w], e))
      BY <3>1 DEF SoundInv, Delivered, Fetched, RunsDelivered
    <3>4. Delivered(e, prior[w][e] \cup Fetched(results[w], e))
      BY <3>3 DEF Delivered
    <3>5. priorCompleted[w][e] # NoDate => <<e, priorCompleted[w][e]>> \in landed
      BY <3>1 DEF SoundInv
    <3> QED  BY <3>1, <3>2, <3>4, <3>5, <2>1, RowSound
  <2>2. LedgerSound'
    <3>1. landed' = landed
      BY <1>6 DEF Save, history
    <3>2. \A r \in ledger' : r \in ledger \/ \E e \in Selected(order[w]) :
             r = LedgerRow(e, prior[w][e] \cup Fetched(results[w], e), target[w],
                           priorCompleted[w][e])
      BY <1>6 DEF Save, Replace
    <3>3. ASSUME NEW r \in ledger', NEW d \in UsableDates(r)
          PROVE  <<r.endpoint, d>> \in landed
      <4>1. CASE r \in ledger
        BY <4>1, <3>3 DEF SoundInv, LedgerSound
      <4>2. CASE r \notin ledger
        <5>1. PICK e \in Selected(order[w]) :
                r = LedgerRow(e, prior[w][e] \cup Fetched(results[w], e), target[w],
                              priorCompleted[w][e])
          BY <3>2, <4>2
        <5>2. r.endpoint = e
          BY <5>1 DEF LedgerRow
        <5> QED  BY <5>1, <5>2, <3>3, <2>1
      <4> QED  BY <4>1, <4>2
    <3> QED  BY <3>1, <3>3 DEF LedgerSound
  <2> QED  BY <1>6, <2>2, EndSound DEF Save, SoundInv
<1>7. ASSUME NEW w \in Worker, Abort(w) \/ Raise(w) PROVE SoundInv'
  <2>1. LedgerSound'
    BY <1>7 DEF Abort, Raise, SoundInv, LedgerSound, history
  <2> QED  BY <1>7, <2>1, EndSound DEF Abort, Raise, SoundInv
<1>8. CASE UNCHANGED vars
  BY <1>8 DEF vars, store, cycle, history, SoundInv, LedgerSound, Delivered, RunsDelivered
<1>9. ASSUME NEW w \in Scheduler, NightlyCycle(w) PROVE SoundInv'
  BY <1>9, <1>2, <1>0 DEF NightlyCycle, Worker
<1>10. ASSUME NEW w \in Operator, OperatorCycle(w) PROVE SoundInv'
  BY <1>10, <1>2, <1>0 DEF OperatorCycle, Worker
<1> QED
  BY <1>1, <1>3, <1>4, <1>5, <1>6, <1>7, <1>8, <1>9, <1>10
  DEF Next, OperatorNext, NightlyNext, Step, Materialize

(* Whatever cycles overlap, die, are retried or are started by hand, with  *)
(* any selection, the ledger credits only dates the source delivered.      *)
THEOREM LedgerIsSound == Spec => []LedgerSound
<1>1. Spec => [](TypeOK /\ SoundInv)
  BY InitTypeOK, InitSound, StepTypeOK, StepSound, PTL DEF Spec
<1>2. SoundInv => LedgerSound
  BY DEF SoundInv
<1> QED  BY <1>1, <1>2, PTL

-----------------------------------------------------------------------------
(***************************************************************************)
(* What a row says is what the planner computed from its covered dates;    *)
(* with the soundness of those dates, completion and the backfill pointer  *)
(* are claims about the source.                                            *)
(***************************************************************************)
Computed(r) ==
  /\ r.nextBackfill = NextBackfill(r.endpoint, r.covered, r.target)
  /\ r.status = CursorStatus(r.endpoint, r.covered, r.target)

RowsComputed == \A r \in ledger : Computed(r)

LEMMA InitComputed == Init => RowsComputed
BY DEF Init, RowsComputed

LEMMA StepComputed == RowsComputed /\ [Next]_vars => RowsComputed'
<1> SUFFICES ASSUME RowsComputed, [Next]_vars PROVE RowsComputed'
  OBVIOUS
<1>1. ASSUME NEW w \in Worker, Save(w) PROVE RowsComputed'
  <2>1. \A e, S, t, p : Computed(LedgerRow(e, S, t, p))
    BY DEF Computed, LedgerRow
  <2>2. \A r \in ledger' : r \in ledger \/ \E e, S, t, p : r = LedgerRow(e, S, t, p)
    BY <1>1 DEF Save, Replace
  <2> QED  BY <2>1, <2>2 DEF RowsComputed
<1>2. CASE ledger' = ledger
  BY <1>2 DEF RowsComputed
<1>3. ledger' = ledger \/ \E w \in Worker : Save(w)
  BY DEF Next, OperatorNext, NightlyNext, Step, NewNight, NightlyCycle, OperatorCycle,
         PlanOnlyWorker, StartCycle, Load, RunGroup, RunSlice, StartMaterialize,
         NothingToMaterialize, PersistComponents, PersistOverviews, Abort, Raise, vars, store
<1> QED  BY <1>1, <1>2, <1>3

\* No next backfill means no gap, and a next backfill is the newest gap.
LEMMA NextBackfillMeaning ==
  ASSUME NEW e \in Endpoint \ Profile, NEW S \in SUBSET Date, NEW t \in Date
  PROVE  /\ NextBackfill(e, S, t) = NoDate => \A d \in Expected(t) : d < t => d \in S
         /\ NextBackfill(e, S, t) # NoDate =>
              /\ NextBackfill(e, S, t) \notin S
              /\ \A d \in Expected(t) : NextBackfill(e, S, t) < d /\ d < t => d \in S
<1> DEFINE gaps == OlderMissing(S, t)
<1>1. gaps \subseteq Date /\ NextBackfill(e, S, t) = Latest(gaps)
  BY GapTypes DEF NextBackfill
<1>2. NoDate \notin Date
  BY PlannerAssumption DEF Date, NoDate
<1>3. \A d \in Expected(t) : d < t /\ d \notin S => d \in gaps
  BY DEF OlderMissing, Missing
<1>4. \A d \in Expected(t) : d \in Date
  BY DEF Expected
<1>5. CASE gaps = {}
  BY <1>1, <1>3, <1>5 DEF Latest
<1>6. CASE gaps # {}
  <2>1. Latest(gaps) \in gaps /\ \A x \in gaps : x <= Latest(gaps)
    BY <1>1, <1>6, LatestIsGreatest
  <2>2. Latest(gaps) \notin S /\ Latest(gaps) # NoDate
    BY <2>1, <1>1, <1>2 DEF OlderMissing, Missing
  <2>3. \A d \in Expected(t) : Latest(gaps) < d /\ d < t => d \in S
    BY <2>1, <1>1, <1>3, <1>4, PlannerAssumption DEF Date
  <2> QED  BY <1>1, <2>2, <2>3
<1> QED  BY <1>5, <1>6

LEMMA RowMeaning ==
  ASSUME TypeOK, LedgerSound, RowsComputed
  PROVE  CompletionIsReal /\ BackfillPointerIsNewestGap
<1>0. ASSUME NEW r \in ledger
      PROVE  /\ r.endpoint \in Endpoint /\ r.covered \in SUBSET Date /\ r.target \in Date
             /\ Computed(r)
             /\ \A d \in r.covered : <<r.endpoint, d>> \in landed
  BY DEF TypeOK, Row, RowsComputed, LedgerSound, UsableDates
<1>1. ASSUME NEW r \in ledger, r.status = "current_and_complete",
             NEW d \in (IF r.endpoint \in Profile THEN {r.target} ELSE Expected(r.target))
      PROVE  <<r.endpoint, d>> \in landed
  <2>1. r.target \in r.covered /\ NextBackfill(r.endpoint, r.covered, r.target) = NoDate
    BY <1>0, <1>1 DEF Computed, CursorStatus
  <2>2. CASE d = r.target
    BY <2>1, <2>2, <1>0
  <2>3. CASE r.endpoint \notin Profile /\ d # r.target
    <3>1. d < r.target /\ d \in Expected(r.target)
      BY <2>3, <1>0, PlannerAssumption DEF Expected, Date
    <3>2. d \in r.covered
      BY <3>1, <2>1, <2>3, <1>0, NextBackfillMeaning
    <3> QED  BY <3>2, <1>0
  <2> QED  BY <2>2, <2>3, <1>1
<1>2. ASSUME NEW r \in ledger, r.nextBackfill # NoDate
      PROVE  /\ r.nextBackfill \notin r.covered
             /\ \A d \in Expected(r.target) :
                  r.nextBackfill < d /\ d < r.target => <<r.endpoint, d>> \in landed
  <2>1. r.endpoint \notin Profile
    BY <1>0, <1>2 DEF Computed, NextBackfill
  <2>2. /\ r.nextBackfill \notin r.covered
        /\ \A d \in Expected(r.target) : r.nextBackfill < d /\ d < r.target => d \in r.covered
    <3>1. NextBackfill(r.endpoint, r.covered, r.target) = r.nextBackfill
      BY <1>0 DEF Computed
    <3>2. r.endpoint \in Endpoint \ Profile /\ r.covered \in SUBSET Date /\ r.target \in Date
      BY <1>0, <2>1
    <3>3. NextBackfill(r.endpoint, r.covered, r.target) # NoDate
      BY <3>1, <1>2
    <3> QED  BY <3>1, <3>2, <3>3, NextBackfillMeaning
  <2> QED  BY <2>2, <1>0
<1> QED  BY <1>1, <1>2 DEF CompletionIsReal, BackfillPointerIsNewestGap

(* A row that reports completion, or a newest gap, is right about what the *)
(* source has delivered, under every interleaving.                         *)
THEOREM RowsTellTheTruth == Spec => [](CompletionIsReal /\ BackfillPointerIsNewestGap)
<1>1. Spec => [](TypeOK /\ SoundInv /\ RowsComputed)
  BY InitTypeOK, InitSound, InitComputed, StepTypeOK, StepSound, StepComputed, PTL DEF Spec
<1>2. TypeOK /\ SoundInv /\ RowsComputed => CompletionIsReal /\ BackfillPointerIsNewestGap
  BY RowMeaning DEF SoundInv
<1> QED  BY <1>1, <1>2, PTL

-----------------------------------------------------------------------------
(***************************************************************************)
(* The owner surfaces are never behind the ledger.  A date is pledged for  *)
(* a slice when the ledger credits it, when a cycle has loaded it, or when *)
(* a cycle that has finished materialising ran the slice for it: only a    *)
(* pledged date can be credited by a save.                                 *)
(***************************************************************************)
InLedger(s, d) == \E r \in ledger : SliceOf[r.endpoint] = s /\ d \in UsableDates(r)

InLoad(s, d) ==
  \E w \in Worker, e \in Endpoint :
    SliceOf[e] = s /\ (d \in prior[w][e] \/ d = priorCompleted[w][e])

InRuns(s, d) ==
  \E w \in Worker : pc[w] = "saving" /\ \E q \in results[w] : q.slice = s /\ q.date = d

Pledged(s, d) == InLedger(s, d) \/ InLoad(s, d) \/ InRuns(s, d)

IdleIsEmpty == \A w \in Worker : pc[w] = "idle" => results[w] = {}

ServingInv ==
  /\ IdleIsEmpty
  /\ \A s \in Component, d \in Date : Pledged(s, d) => <<s, d>> \in snapshots
  /\ ~ overlapped => \A d \in Date : (\A s \in Component : Pledged(s, d)) => d \in overviews
  /\ \A w \in Worker : pc[w] = "composing" => ComponentKeys(w) \subseteq snapshots

LEMMA NoDateIsNone == NoDate \notin Date
BY PlannerAssumption DEF Date, NoDate

LEMMA InitServing == Init => ServingInv
<1> SUFFICES ASSUME Init PROVE ServingInv
  OBVIOUS
<1>1. \A s \in Component, d \in Date : ~ Pledged(s, d)
  BY NoDateIsNone DEF Init, Pledged, InLedger, InLoad, InRuns
<1>2. \A d \in Date : ~ \A s \in Component : Pledged(s, d)
  BY <1>1, NightlySyncAssumption
<1> QED  BY <1>1, <1>2 DEF Init, ServingInv, IdleIsEmpty

LEMMA IdleStep == TypeOK /\ IdleIsEmpty /\ [Next]_vars => IdleIsEmpty'
<1> SUFFICES ASSUME TypeOK, IdleIsEmpty, [Next]_vars PROVE IdleIsEmpty'
  OBVIOUS
<1>1. ASSUME NEW w \in Worker, End(w) PROVE IdleIsEmpty'
  BY <1>1 DEF IdleIsEmpty, End, TypeOK
<1>2. ASSUME NEW w \in Worker, RunGroup(w) PROVE IdleIsEmpty'
  BY <1>2 DEF IdleIsEmpty, RunGroup, RunSlice, TypeOK
<1>3. ASSUME NEW w \in Worker, Materialize(w) PROVE IdleIsEmpty'
  BY <1>3, MaterializeOnly DEF IdleIsEmpty, TypeOK
<1>4. CASE NewNight \/ UNCHANGED vars
  BY <1>4 DEF IdleIsEmpty, NewNight, vars, cycle
<1>5. ASSUME NEW w \in Worker, NEW t, NEW o, NEW usable, Load(w, t, o, usable),
             \E p \in {"running", "saving"} : pc' = [pc EXCEPT ![w] = p]
      PROVE  IdleIsEmpty'
  BY <1>5 DEF IdleIsEmpty, Load, TypeOK
<1>6. ASSUME NEW w \in Worker, NEW t, NEW o, StartCycle(w, t, o) PROVE IdleIsEmpty'
  BY <1>6, <1>5 DEF StartCycle
<1>7. ASSUME NEW w \in Operator, PlanOnlyWorker(w) PROVE IdleIsEmpty'
  BY <1>7, <1>5 DEF PlanOnlyWorker, Worker
<1> QED
  BY <1>1, <1>2, <1>3, <1>4, <1>6, <1>7
  DEF Next, OperatorNext, NightlyNext, Step, Save, Abort, Raise, NightlyCycle, OperatorCycle,
      Worker, Materialize

\* A load pledges only what the ledger holds.
LEMMA LoadPledges ==
  ASSUME TypeOK, IdleIsEmpty, NEW w \in Worker, NEW t \in Date, NEW o, NEW usable,
         \A e \in Endpoint : usable[e] \subseteq Cursor(e, t),
         Load(w, t, o, usable),
         \E p \in {"running", "saving"} : pc' = [pc EXCEPT ![w] = p],
         NEW s \in Component, NEW d \in Date, Pledged(s, d)'
  PROVE  Pledged(s, d)
<1>1. ledger' = ledger /\ results' = results
  BY DEF Load, store
<1>2. CASE InLedger(s, d)'
  BY <1>1, <1>2 DEF InLedger, Pledged
<1>3. CASE InLoad(s, d)'
  <2>1. PICK v \in Worker, e \in Endpoint :
          SliceOf[e] = s /\ (d \in prior'[v][e] \/ d = priorCompleted'[v][e])
    BY <1>3 DEF InLoad
  <2>2. CASE v # w
    BY <2>1, <2>2 DEF Load, TypeOK, InLoad, Pledged
  <2>3. CASE v = w /\ d \in prior'[v][e]
    <3>1. d \in Cursor(e, t)
      BY <2>3 DEF Load, TypeOK
    <3>2. PICK r \in ledger : r.endpoint = e /\ d \in UsableDates(r)
      BY <3>1 DEF Cursor, Effective
    <3> QED  BY <2>1, <3>2 DEF InLedger, Pledged
  <2>4. CASE v = w /\ d = priorCompleted'[v][e]
    <3>1. d = PriorCompleted(e, t) /\ d # NoDate
      BY <2>4, NoDateIsNone DEF Load, TypeOK
    <3>2. \E r \in ledger : r.endpoint = e /\ r.target = t
      BY <3>1 DEF PriorCompleted
    <3>3. PICK r \in ledger : r.endpoint = e /\ d = r.lastCompleted
      BY <3>1, <3>2 DEF PriorCompleted
    <3>4. d \in UsableDates(r)
      BY <3>1, <3>3 DEF UsableDates
    <3> QED  BY <2>1, <3>3, <3>4 DEF InLedger, Pledged
  <2> QED  BY <2>1, <2>2, <2>3, <2>4
<1>4. CASE InRuns(s, d)'
  <2>1. PICK v \in Worker : pc'[v] = "saving" /\ \E q \in results[v] : q.slice = s /\ q.date = d
    BY <1>1, <1>4 DEF InRuns
  <2>2. v # w
    BY <2>1 DEF Load, IdleIsEmpty
  <2>3. pc[v] = "saving"
    BY <2>1, <2>2 DEF TypeOK
  <2> QED  BY <2>1, <2>3 DEF InRuns, Pledged
<1> QED  BY <1>2, <1>3, <1>4 DEF Pledged

\* A save or an end pledges nothing new.
LEMMA EndPledges ==
  ASSUME TypeOK, NEW w \in Worker, End(w), NEW s \in Component, NEW d \in Date
  PROVE  /\ InLoad(s, d)' => InLoad(s, d)
         /\ InRuns(s, d)' => InRuns(s, d)
<1>1. ASSUME InLoad(s, d)' PROVE InLoad(s, d)
  <2>1. PICK v \in Worker, e \in Endpoint :
          SliceOf[e] = s /\ (d \in prior'[v][e] \/ d = priorCompleted'[v][e])
    BY <1>1 DEF InLoad
  <2>2. v # w
    BY <2>1, NoDateIsNone DEF End, TypeOK
  <2> QED  BY <2>1, <2>2 DEF End, TypeOK, InLoad
<1>2. ASSUME InRuns(s, d)' PROVE InRuns(s, d)
  <2>1. PICK v \in Worker : pc'[v] = "saving" /\ \E q \in results'[v] : q.slice = s /\ q.date = d
    BY <1>2 DEF InRuns
  <2>2. v # w
    BY <2>1 DEF End, TypeOK
  <2> QED  BY <2>1, <2>2 DEF End, TypeOK, InRuns
<1> QED  BY <1>1, <1>2

LEMMA SavePledges ==
  ASSUME TypeOK, SoundInv, NEW w \in Worker, Save(w),
         NEW s \in Component, NEW d \in Date, InLedger(s, d)'
  PROVE  Pledged(s, d)
<1>1. PICK r \in ledger' : SliceOf[r.endpoint] = s /\ d \in UsableDates(r)
  BY DEF InLedger
<1>2. CASE r \in ledger
  BY <1>1, <1>2 DEF InLedger, Pledged
<1>3. CASE r \notin ledger
  <2> DEFINE dates(e) == prior[w][e] \cup Fetched(results[w], e)
  <2>1. PICK e \in Selected(order[w]) :
          r = LedgerRow(e, dates(e), target[w], priorCompleted[w][e])
    BY <1>3 DEF Save, Replace
  <2>2. e \in Endpoint /\ r.endpoint = e /\ dates(e) \in SUBSET Date
    <3>1. e \in Endpoint
      BY SelectedType DEF TypeOK, Orders
    <3> QED  BY <2>1, <3>1, FetchedType DEF TypeOK, LedgerRow
  <2>3. d \in dates(e) \/ d = priorCompleted[w][e]
    <3>1. d = r.lastCompleted \/ d \in r.covered
      BY <1>1 DEF UsableDates
    <3>2. r.covered = dates(e) /\
          r.lastCompleted = (IF dates(e) # {} THEN Latest(dates(e)) ELSE priorCompleted[w][e])
      BY <2>1 DEF LedgerRow
    <3>3. dates(e) # {} => Latest(dates(e)) \in dates(e)
      BY <2>2, LatestIsGreatest
    <3> QED  BY <3>1, <3>2, <3>3
  <2>4. CASE d \in prior[w][e] \/ d = priorCompleted[w][e]
    BY <2>2, <2>4, <1>1 DEF InLoad, Pledged
  <2>5. CASE d \in Fetched(results[w], e)
    <3>1. PICK q \in results[w] : e \in q.ok /\ q.date = d
      BY <2>5 DEF Fetched
    <3>2. q.slice = s
      BY <3>1, <2>2, <1>1 DEF SoundInv, RunsDelivered, EndpointsOf
    <3> QED  BY <3>1, <3>2 DEF Save, InRuns, Pledged
  <2> QED  BY <2>3, <2>4, <2>5
<1> QED  BY <1>2, <1>3

\* A step that pledges nothing new and takes no surface away keeps them ahead.
LEMMA NothingPledged ==
  ASSUME ServingInv, IdleIsEmpty', snapshots \subseteq snapshots', overviews \subseteq overviews',
         overlapped => overlapped',
         \A s \in Component, d \in Date : Pledged(s, d)' => Pledged(s, d),
         \A w \in Worker : pc'[w] = "composing" =>
           \/ pc[w] = "composing" /\ results'[w] = results[w]
           \/ ComponentKeys(w)' \subseteq snapshots'
  PROVE  ServingInv'
<1>1. \A s \in Component, d \in Date : Pledged(s, d)' => <<s, d>> \in snapshots'
  BY DEF ServingInv
<1>2. ~ overlapped' => \A d \in Date : (\A s \in Component : Pledged(s, d)') => d \in overviews'
  BY DEF ServingInv
<1>3. \A w \in Worker : pc'[w] = "composing" => ComponentKeys(w)' \subseteq snapshots'
  <2>1. \A w \in Worker : results'[w] = results[w] => ComponentKeys(w)' = ComponentKeys(w)
    BY DEF ComponentKeys, ComponentRuns
  <2> QED  BY <2>1 DEF ServingInv
<1> QED  BY <1>1, <1>2, <1>3 DEF ServingInv

LEMMA StepServing == TypeOK /\ SoundInv /\ ServingInv /\ [Next]_vars => ServingInv'
<1> SUFFICES ASSUME TypeOK, SoundInv, ServingInv, [Next]_vars PROVE ServingInv'
  OBVIOUS
<1>0. /\ IdleIsEmpty /\ IdleIsEmpty'
      /\ ledger \subseteq Row
      /\ today \in Date /\ Registry \in Orders
      /\ \A t \in 1 .. today : t \in Date
  BY IdleStep, PlannerAssumption DEF ServingInv, TypeOK, Date, Orders
<1>1. CASE NewNight \/ UNCHANGED vars
  <2>1. UNCHANGED <<store, cycle>>
    BY <1>1 DEF NewNight, vars
  <2>2. \A s \in Component, d \in Date : Pledged(s, d)' => Pledged(s, d)
    BY <2>1 DEF Pledged, InLedger, InLoad, InRuns, store, cycle
  <2> QED  BY <1>0, <2>1, <2>2, NothingPledged DEF store, cycle
<1>2. ASSUME NEW w \in Worker, NEW t \in Date, NEW o, NEW usable,
             \A e \in Endpoint : usable[e] \subseteq Cursor(e, t),
             Load(w, t, o, usable),
             \E p \in {"running", "saving"} : pc' = [pc EXCEPT ![w] = p]
      PROVE  ServingInv'
  <2>1. \A s \in Component, d \in Date : Pledged(s, d)' => Pledged(s, d)
    BY <1>0, <1>2, LoadPledges
  <2>2. UNCHANGED <<snapshots, overviews, overlapped, results>>
    BY <1>2 DEF Load, store
  <2>3. \A v \in Worker : pc'[v] = "composing" => pc[v] = "composing"
    BY <1>2 DEF TypeOK
  <2> QED  BY <1>0, <2>1, <2>2, <2>3, NothingPledged
<1>3. ASSUME NEW w \in Worker, NEW t \in Date, NEW o, StartCycle(w, t, o) PROVE ServingInv'
  <2> DEFINE usable == [e \in Endpoint |-> Cursor(e, t)]
  <2>1. Load(w, t, o, usable) /\ pc' = [pc EXCEPT ![w] = "running"]
    BY <1>3 DEF StartCycle
  <2>2. \A e \in Endpoint : usable[e] \subseteq Cursor(e, t)
    OBVIOUS
  <2> HIDE DEF usable
  <2> QED  BY <2>1, <2>2, <1>2
<1>4. ASSUME NEW w \in Operator, PlanOnlyWorker(w) PROVE ServingInv'
  <2>1. PICK t \in 1 .. today, o \in OperatorOrders :
           /\ Load(w, t, o, [e \in Endpoint |-> {}])
           /\ pc' = [pc EXCEPT ![w] = "saving"]
    BY <1>4 DEF PlanOnlyWorker
  <2>2. w \in Worker /\ t \in Date
    BY <1>0 DEF Worker
  <2>3. \A e \in Endpoint : [f \in Endpoint |-> {}][e] \subseteq Cursor(e, t)
    OBVIOUS
  <2> QED  BY <2>1, <2>2, <2>3, <1>2
<1>5. ASSUME NEW w \in Worker, RunGroup(w) PROVE ServingInv'
  <2>1. /\ pc[w] = "running"
        /\ UNCHANGED <<store, pc, prior, priorCompleted>>
        /\ \A v \in Worker : v # w => results'[v] = results[v]
    BY <1>5 DEF RunGroup, RunSlice, TypeOK
  <2>2. \A s \in Component, d \in Date : Pledged(s, d)' => Pledged(s, d)
    BY <2>1 DEF Pledged, InLedger, InLoad, InRuns, store
  <2> QED  BY <1>0, <2>1, <2>2, NothingPledged DEF store
<1>6. ASSUME NEW w \in Worker, StartMaterialize(w) \/ PersistComponents(w) PROVE ServingInv'
  <2>1. /\ UNCHANGED <<ledger, overviews, prior, priorCompleted, results>>
        /\ snapshots \subseteq snapshots' /\ (overlapped => overlapped')
        /\ \E s \in {"materializing", "composing"} : pc' = [pc EXCEPT ![w] = s]
    <3>1. CASE StartMaterialize(w)
      <4>1. overlapped => overlapped'
        BY <3>1 DEF StartMaterialize
      <4> QED  BY <3>1, <4>1 DEF StartMaterialize
    <3>2. CASE PersistComponents(w)
      BY <3>2 DEF PersistComponents
    <3> QED  BY <1>6, <3>1, <3>2
  <2>2. \A v \in Worker : pc'[v] = "saving" => pc[v] = "saving"
    BY <2>1 DEF TypeOK
  <2>3. \A s \in Component, d \in Date : Pledged(s, d)' => Pledged(s, d)
    BY <2>1, <2>2 DEF Pledged, InLedger, InLoad, InRuns
  <2>4. ComponentKeys(w)' = ComponentKeys(w)
    BY <2>1 DEF ComponentKeys, ComponentRuns
  <2>5. pc'[w] = "composing" => ComponentKeys(w)' \subseteq snapshots'
    BY <1>6, <2>4 DEF StartMaterialize, PersistComponents, TypeOK
  <2>6. \A v \in Worker : v # w => pc'[v] = pc[v]
    BY <2>1 DEF TypeOK
  <2> QED  BY <1>0, <2>1, <2>3, <2>5, <2>6, NothingPledged
<1>11. ASSUME NEW w \in Worker, NothingToMaterialize(w) PROVE ServingInv'
  <2>1. /\ UNCHANGED <<ledger, snapshots, overviews, overlapped, prior, priorCompleted, results>>
        /\ pc' = [pc EXCEPT ![w] = "saving"]
    BY <1>11 DEF NothingToMaterialize, store
  <2>2. \A q \in results[w] : q.slice \notin Component
    BY <1>11 DEF NothingToMaterialize, ComponentRuns
  <2>3. \A v \in Worker : v # w => pc'[v] = pc[v]
    BY <2>1 DEF TypeOK
  <2>4. ASSUME NEW s \in Component, NEW d \in Date, Pledged(s, d)' PROVE Pledged(s, d)
    <3>1. InRuns(s, d)' => InRuns(s, d)
      BY <2>1, <2>2, <2>3 DEF InRuns
    <3> QED  BY <2>1, <2>4, <3>1 DEF Pledged, InLedger, InLoad
  <2>5. \A v \in Worker : pc'[v] = "composing" => pc[v] = "composing"
    BY <2>1 DEF TypeOK
  <2> QED  BY <1>0, <2>1, <2>4, <2>5, NothingPledged
<1>7. ASSUME NEW w \in Worker, PersistOverviews(w) PROVE ServingInv'
  <2> DEFINE ran(s, d) == \E q \in ComponentRuns(w) : q.slice = s /\ q.date = d
  <2>1. /\ UNCHANGED <<ledger, snapshots, overlapped, prior, priorCompleted, results>>
        /\ pc[w] = "composing" /\ pc' = [pc EXCEPT ![w] = "saving"]
        /\ overviews \subseteq overviews'
        /\ ~ overlapped => FullDates(w) \subseteq overviews'
    BY <1>7 DEF PersistOverviews
  <2>2. ASSUME NEW s \in Component, NEW d \in Date, Pledged(s, d)' PROVE Pledged(s, d) \/ ran(s, d)
    <3>1. CASE InLedger(s, d)' \/ InLoad(s, d)'
      BY <2>1, <3>1 DEF InLedger, InLoad, Pledged
    <3>2. CASE InRuns(s, d)'
      <4>0. PICK v \in Worker :
              pc'[v] = "saving" /\ \E q \in results[v] : q.slice = s /\ q.date = d
        BY <2>1, <3>2 DEF InRuns
      <4>1. PICK q \in results[v] : q.slice = s /\ q.date = d
        BY <4>0
      <4>2. CASE v = w
        BY <4>1, <4>2 DEF ComponentRuns
      <4>3. CASE v # w
        BY <2>1, <4>0, <4>3 DEF TypeOK, InRuns, Pledged
      <4> QED  BY <4>2, <4>3
    <3> QED  BY <2>2, <3>1, <3>2 DEF Pledged
  <2>3. \A s \in Component, d \in Date : ran(s, d) => <<s, d>> \in snapshots
    BY <2>1 DEF ServingInv, ComponentKeys
  <2>4. \A s \in Component, d \in Date : Pledged(s, d)' => <<s, d>> \in snapshots'
    BY <2>1, <2>2, <2>3 DEF ServingInv
  <2>5. ASSUME ~ overlapped', NEW d \in Date, \A s \in Component : Pledged(s, d)'
        PROVE  d \in overviews'
    <3>1. CASE \A s \in Component : Pledged(s, d)
      BY <2>1, <2>5, <3>1 DEF ServingInv
    <3>2. CASE \E s \in Component : ran(s, d)
      <4>1. d \in FullDates(w)
        BY <2>1, <2>4, <2>5, <3>2 DEF FullDates
      <4> QED  BY <2>1, <2>5, <4>1
    <3> QED  BY <2>2, <2>5, <3>1, <3>2
  <2>6. \A v \in Worker : pc'[v] = "composing" => ComponentKeys(v)' \subseteq snapshots'
    <3>1. \A v \in Worker : ComponentKeys(v)' = ComponentKeys(v)
      BY <2>1 DEF ComponentKeys, ComponentRuns
    <3>2. \A v \in Worker : pc'[v] = "composing" => pc[v] = "composing"
      BY <2>1 DEF TypeOK
    <3> QED  BY <2>1, <3>1, <3>2 DEF ServingInv
  <2> QED  BY <1>0, <2>4, <2>5, <2>6 DEF ServingInv
<1>8. ASSUME NEW w \in Worker, Save(w) \/ Abort(w) \/ Raise(w) PROVE ServingInv'
  <2>1. /\ End(w) /\ snapshots \subseteq snapshots' /\ overviews \subseteq overviews'
        /\ overlapped' = overlapped
        /\ Save(w) \/ ledger' = ledger
    BY <1>8 DEF Save, Abort, Raise, SavedInPart
  <2>2. ASSUME NEW s \in Component, NEW d \in Date, Pledged(s, d)' PROVE Pledged(s, d)
    <3>1. InLedger(s, d)' => Pledged(s, d)
      BY <1>8, <2>1, SavePledges DEF InLedger, Pledged
    <3> QED  BY <2>1, <2>2, <3>1, EndPledges DEF Pledged
  <2>3. \A v \in Worker : pc'[v] = "composing" =>
          pc[v] = "composing" /\ results'[v] = results[v]
    BY <2>1 DEF End, TypeOK
  <2> QED  BY <1>0, <2>1, <2>2, <2>3, NothingPledged
<1>9. ASSUME NEW w \in Scheduler, NightlyCycle(w) PROVE ServingInv'
  BY <1>9, <1>3, <1>0 DEF NightlyCycle, Worker
<1>10. ASSUME NEW w \in Operator, OperatorCycle(w) PROVE ServingInv'
  BY <1>10, <1>3, <1>0 DEF OperatorCycle, Worker
<1> QED
  BY <1>1, <1>4, <1>5, <1>6, <1>7, <1>8, <1>9, <1>10, <1>11
  DEF Next, OperatorNext, NightlyNext, Step

(* Every business date the ledger credits to a component slice has had its *)
(* owner surface saved, however cycles overlap, raise or die; and a date   *)
(* credited in all of them its daily overview, as long as no two           *)
(* materialisations have overlapped.                                       *)
THEOREM ServingIsNeverBehind == Spec => []ServingKeepsUp
<1>1. Spec => [](TypeOK /\ SoundInv /\ ServingInv)
  BY InitTypeOK, InitSound, InitServing, StepTypeOK, StepSound, StepServing, PTL DEF Spec
<1>2. TypeOK /\ ServingInv => ServingKeepsUp
  <2> SUFFICES ASSUME TypeOK, ServingInv PROVE ServingKeepsUp
    OBVIOUS
  <2>1. \A s \in Component : \A d \in CreditedDates(s) : d \in Date /\ Pledged(s, d)
    BY DEF CreditedDates, Pledged, InLedger, UsableDates, TypeOK, Row
  <2> QED  BY <2>1 DEF ServingInv, ServingKeepsUp
<1> QED  BY <1>1, <1>2, PTL

-----------------------------------------------------------------------------
(***************************************************************************)
(* Currentness before history.  The scheduler gives no history task while  *)
(* a currentness task is deferred, and the runtime starts its groups in    *)
(* dispatch order.                                                         *)
(***************************************************************************)
LEMMA CountPositive ==
  ASSUME NEW S, IsFiniteSet(S), NEW x \in S
  PROVE  Cardinality(S) \in Nat /\ Cardinality(S) >= 1
<1>1. Cardinality(S) \in Nat /\ Cardinality(S) # 0
  BY FS_CardinalityType, FS_EmptySet
<1> QED  BY <1>1

LEMMA GapsFinite ==
  ASSUME NEW c \in [Endpoint -> SUBSET Date], NEW o \in Orders, NEW t \in Date
  PROVE  IsFiniteSet(Gaps(c, o, t)) /\ IsFiniteSet(Stale(c, o, t))
<1>1. IsFiniteSet(Endpoint) /\ Selected(o) \subseteq Endpoint
  BY NightlySyncAssumption, SelectedType
<1>2. IsFiniteSet(Endpoint \X Date)
  <2>1. IsFiniteSet(Date)
    BY PlannerAssumption, FS_Interval DEF Date
  <2> QED  BY <1>1, <2>1, FS_Product
<1>3. Gaps(c, o, t) \subseteq Endpoint \X Date /\ Stale(c, o, t) \subseteq Endpoint
  BY <1>1 DEF Gaps, Stale
<1> QED  BY <1>1, <1>2, <1>3, FS_Subset

LEMMA GapRankPositive ==
  ASSUME NEW c \in [Endpoint -> SUBSET Date], NEW o \in Orders, NEW t \in Date,
         NEW g \in Gaps(c, o, t)
  PROVE  BackfillRank(c, o, t, g) \in Nat /\ BackfillRank(c, o, t, g) >= 1
<1> DEFINE H == {h \in Gaps(c, o, t) : QueuedNotAfter(c, o, t, h, g)}
<1>1. g[1] \in Selected(o)
  BY DEF Gaps
<1>2. NotAfter(o, g[1], g[1])
  <2>1. PICK i \in DOMAIN o : o[i] = g[1]
    BY <1>1 DEF Selected
  <2>2. i \in Nat
    BY SelectedType
  <2> QED  BY <2>1, <2>2 DEF NotAfter
<1>3. g \in H
  BY <1>2 DEF QueuedNotAfter
<1>4. IsFiniteSet(H)
  BY GapsFinite, FS_Subset
<1> QED  BY <1>3, <1>4, CountPositive DEF BackfillRank

\* A history task is dispatched only with every currentness task, after them.
LEMMA HistoryOnlyAfterCurrentness ==
  ASSUME NEW c \in [Endpoint -> SUBSET Date], NEW o \in Orders, NEW t \in Date,
         NEW k \in Dispatch(c, o, t, MaxTasks, MaxBackfill), k.priority = "backfill"
  PROVE  /\ k.date # t
         /\ \A u \in Dispatch(c, o, t, MaxTasks, MaxBackfill) :
              u.priority = "currentness" => u.seq < k.seq
         /\ \A e \in Selected(o) : t \in c[e] \/
              \E u \in Dispatch(c, o, t, MaxTasks, MaxBackfill) :
                u.priority = "currentness" /\ u.endpoint = e
<1> DEFINE now == DispatchedStale(c, o, t, MaxTasks)
           stale == Stale(c, o, t)
<1>1. PICK g \in Gaps(c, o, t) :
        /\ BackfillRank(c, o, t, g) <= BackfillBudget(c, o, t, MaxTasks, MaxBackfill)
        /\ k.seq = Cardinality(now) + BackfillRank(c, o, t, g)
        /\ k.date = g[2]
  BY DEF Dispatch
<1>2. BackfillRank(c, o, t, g) \in Nat /\ BackfillRank(c, o, t, g) >= 1
  BY GapRankPositive
<1>3. now = stale
  BY <1>1, <1>2 DEF BackfillBudget
<1>4. k.date # t
  BY <1>1, PlannerAssumption DEF Gaps, OlderMissing, Date
<1>5. ASSUME NEW u \in Dispatch(c, o, t, MaxTasks, MaxBackfill), u.priority = "currentness"
      PROVE  u.seq < k.seq
  <2>1. PICK e \in now : u.seq = CurrentnessRank(c, o, t, e)
    BY <1>5 DEF Dispatch
  <2> DEFINE F == {f \in stale : NotAfter(o, f, e)}
  <2>2. IsFiniteSet(stale)
    BY GapsFinite
  <2>3. Cardinality(F) \in Nat /\ Cardinality(stale) \in Nat /\ Cardinality(F) <= Cardinality(stale)
    BY <2>2, FS_Subset, FS_CardinalityType
  <2>4. u.seq = Cardinality(F)
    BY <2>1 DEF CurrentnessRank
  <2> HIDE DEF F, now, stale
  <2> QED  BY <1>1, <1>2, <1>3, <2>3, <2>4
<1>6. ASSUME NEW e \in Selected(o), t \notin c[e]
      PROVE  \E u \in Dispatch(c, o, t, MaxTasks, MaxBackfill) :
               u.priority = "currentness" /\ u.endpoint = e
  <2>1. e \in now
    BY <1>3, <1>6 DEF Stale
  <2> DEFINE u == [seq |-> CurrentnessRank(c, o, t, e), priority |-> "currentness",
                   endpoint |-> e, date |-> t]
  <2>2. u \in Dispatch(c, o, t, MaxTasks, MaxBackfill)
    BY <2>1 DEF Dispatch
  <2>3. u.priority = "currentness" /\ u.endpoint = e
    OBVIOUS
  <2> QED  BY <2>2, <2>3
<1> QED  BY <1>4, <1>5, <1>6

LEMMA CurrentnessIsForTarget ==
  ASSUME NEW c, NEW o, NEW t, NEW k \in Dispatch(c, o, t, MaxTasks, MaxBackfill),
         k.priority = "currentness"
  PROVE  k.date = t
BY DEF Dispatch

RanHistory(R, d) == \E r \in R : r.date # d

Owed(T, e) == \E u \in T : u.priority = "currentness" /\ u.endpoint = e

Tried(R, d, e) == \E q \in R : q.date = d /\ q.slice = SliceOf[e]

\* T is left to do and R has run, in a cycle for target d and selection o that
\* loaded the usable dates p.
Attempted(T, R, d, o, p) ==
  /\ \A k \in T : (k.priority = "currentness") <=> (k.date = d)
  /\ \A k, u \in T : u.priority = "currentness" /\ k.priority = "backfill" => u.seq < k.seq
  /\ RanHistory(R, d) => \A k \in T : k.priority = "backfill"
  /\ RanHistory(R, d) \/ (\E k \in T : k.priority = "backfill") =>
       \A e \in Selected(o) : d \in p[e] \/ Owed(T, e) \/ Tried(R, d, e)

AttemptInv ==
  \A w \in Worker : Attempted(todo[w], results[w], target[w], order[w], prior[w])

LEMMA NothingAttempted ==
  ASSUME NEW d, NEW o, NEW p
  PROVE  Attempted({}, {}, d, o, p)
BY DEF Attempted, RanHistory

LEMMA DispatchAttempted ==
  ASSUME NEW c \in [Endpoint -> SUBSET Date], NEW o \in Orders, NEW t \in Date
  PROVE  Attempted(Dispatch(c, o, t, MaxTasks, MaxBackfill), {}, t, o, c)
<1> DEFINE D == Dispatch(c, o, t, MaxTasks, MaxBackfill)
<1>1. \A k \in D : k.priority = "currentness" \/ k.priority = "backfill"
  BY DispatchType DEF Task
<1>2. \A k \in D : k.priority = "currentness" => k.date = t
  BY CurrentnessIsForTarget
<1>3. \A k \in D : k.priority = "backfill" =>
        /\ k.date # t
        /\ \A u \in D : u.priority = "currentness" => u.seq < k.seq
        /\ \A e \in Selected(o) : t \in c[e] \/ Owed(D, e)
  BY HistoryOnlyAfterCurrentness DEF Owed
<1> HIDE DEF D
<1>4. ~ RanHistory({}, t)
  BY DEF RanHistory
<1>5. Attempted(D, {}, t, o, c)
  BY <1>1, <1>2, <1>3, <1>4 DEF Attempted
<1> QED  BY <1>5 DEF D

LEMMA RunAttempted ==
  ASSUME NEW T \in SUBSET Task, NEW R, NEW d, NEW o, NEW p, NEW ok,
         Attempted(T, R, d, o, p), NEW k \in T, IsFirst(T, k)
  PROVE  Attempted(T \ GroupOf(T, k),
                   R \cup {[slice |-> SliceOf[k.endpoint], date |-> k.date, ok |-> ok]}, d, o, p)
<1> DEFINE runOf == [slice |-> SliceOf[k.endpoint], date |-> k.date, ok |-> ok]
           T2 == T \ GroupOf(T, k)
           R2 == R \cup {runOf}
<1>1. T2 \subseteq T /\ \A r \in R2 : r \in R \/ r.date = k.date
  OBVIOUS
<1>2. \A u \in T : u.seq \in Nat /\ k.seq <= u.seq /\ u.priority \in {"currentness", "backfill"}
  BY DEF IsFirst, Task
<1>3. RanHistory(R2, d) => RanHistory(R, d) \/ k.priority = "backfill"
  BY <1>1, <1>2 DEF RanHistory, Attempted
<1>4. k.priority = "backfill" => \A u \in T : u.priority = "backfill"
  BY <1>2 DEF Attempted
<1>5. \A e : Tried(R, d, e) => Tried(R2, d, e)
  BY DEF Tried
<1>6. ASSUME NEW e, Owed(T, e) PROVE Owed(T2, e) \/ Tried(R2, d, e)
  <2>1. PICK u \in T : u.priority = "currentness" /\ u.endpoint = e
    BY <1>6 DEF Owed
  <2>2. CASE u \in T2
    BY <2>1, <2>2 DEF Owed
  <2>3. CASE u \in GroupOf(T, k)
    <3>1. k.priority = "currentness" /\ SliceOf[e] = SliceOf[k.endpoint]
      BY <2>1, <2>3 DEF GroupOf
    <3>2. runOf.date = d /\ runOf.slice = SliceOf[e]
      BY <3>1 DEF Attempted
    <3> QED  BY <3>2 DEF Tried
  <2> QED  BY <2>2, <2>3
<1>7. RanHistory(R2, d) => \A u \in T2 : u.priority = "backfill"
  BY <1>1, <1>3, <1>4 DEF Attempted
<1>8. ASSUME RanHistory(R2, d) \/ (\E u \in T2 : u.priority = "backfill"), NEW e \in Selected(o)
      PROVE  d \in p[e] \/ Owed(T2, e) \/ Tried(R2, d, e)
  <2>1. RanHistory(R, d) \/ \E u \in T : u.priority = "backfill"
    BY <1>1, <1>3, <1>8
  <2>2. d \in p[e] \/ Owed(T, e) \/ Tried(R, d, e)
    BY <2>1 DEF Attempted
  <2> QED  BY <2>2, <1>5, <1>6
<1> HIDE DEF T2, R2
<1>9. /\ \A u \in T2 : (u.priority = "currentness") <=> (u.date = d)
      /\ \A j, u \in T2 : u.priority = "currentness" /\ j.priority = "backfill" => u.seq < j.seq
  BY <1>1 DEF Attempted
<1>10. Attempted(T2, R2, d, o, p)
  BY <1>7, <1>8, <1>9 DEF Attempted
<1> QED  BY <1>10 DEF T2, R2

LEMMA InitAttempt == Init => AttemptInv
<1> SUFFICES ASSUME Init, NEW w \in Worker
             PROVE  Attempted(todo[w], results[w], target[w], order[w], prior[w])
  BY DEF AttemptInv
<1>1. todo[w] = {} /\ results[w] = {}
  BY DEF Init
<1> QED  BY <1>1, NothingAttempted

LEMMA StepAttempt == TypeOK /\ IdleIsEmpty /\ AttemptInv /\ [Next]_vars => AttemptInv'
<1> SUFFICES ASSUME TypeOK, IdleIsEmpty, AttemptInv, [Next]_vars PROVE AttemptInv'
  OBVIOUS
<1> DEFINE Mine(w) == Attempted(todo[w], results[w], target[w], order[w], prior[w])
           Same(w) == UNCHANGED <<todo[w], results[w], target[w], order[w], prior[w]>>
<1>0. /\ \A w \in Worker : Mine(w)
      /\ today \in Date /\ Registry \in Orders /\ \A o \in OperatorOrders : o \in Orders
      /\ \A t \in 1 .. today : t \in Date
  BY PlannerAssumption DEF AttemptInv, TypeOK, Date, Orders
<1>1. ASSUME NEW w \in Worker, Mine(w)', \A v \in Worker : v # w => Same(v) PROVE AttemptInv'
  <2>1. \A v \in Worker : Same(v) => Mine(v)'
    BY <1>0
  <2> QED  BY <1>1, <2>1 DEF AttemptInv
<1>2. ASSUME \A v \in Worker : Same(v) PROVE AttemptInv'
  BY <1>0, <1>2 DEF AttemptInv
<1> HIDE DEF Mine
<1>3. CASE NewNight \/ UNCHANGED vars
  BY <1>2, <1>3 DEF NewNight, vars, cycle
<1>4. ASSUME NEW w \in Worker, Materialize(w) PROVE AttemptInv'
  BY <1>2, <1>4, MaterializeOnly
<1>5. ASSUME NEW w \in Worker, NEW t \in Date, NEW o \in Orders, StartCycle(w, t, o)
      PROVE  AttemptInv'
  <2> DEFINE usable == [e \in Endpoint |-> Cursor(e, t)]
  <2>1. /\ prior'[w] = usable /\ todo'[w] = Dispatch(usable, o, t, MaxTasks, MaxBackfill)
        /\ target'[w] = t /\ order'[w] = o /\ results'[w] = {}
    BY <1>5 DEF StartCycle, Load, TypeOK, IdleIsEmpty
  <2>2. usable \in [Endpoint -> SUBSET Date]
    BY LoadTypes DEF TypeOK
  <2> HIDE DEF usable
  <2>3. Mine(w)'
    BY <2>1, <2>2, DispatchAttempted DEF Mine
  <2>4. \A v \in Worker : v # w => Same(v)
    BY <1>5 DEF StartCycle, Load, TypeOK
  <2> QED  BY <2>3, <2>4, <1>1
<1>6. ASSUME NEW w \in Operator, PlanOnlyWorker(w) PROVE AttemptInv'
  <2>1. PICK t \in 1 .. today, o \in OperatorOrders :
           Load(w, t, o, [e \in Endpoint |-> {}]) /\ todo' = [todo EXCEPT ![w] = {}]
    BY <1>6 DEF PlanOnlyWorker
  <2>2. w \in Worker
    BY DEF Worker
  <2>3. todo'[w] = {} /\ results'[w] = {}
    BY <2>1, <2>2 DEF Load, TypeOK, IdleIsEmpty
  <2>4. Mine(w)'
    BY <2>3, NothingAttempted DEF Mine
  <2>5. \A v \in Worker : v # w => Same(v)
    BY <2>1, <2>2 DEF Load, TypeOK
  <2> QED  BY <2>2, <2>4, <2>5, <1>1
<1>7. ASSUME NEW w \in Worker, RunGroup(w) PROVE AttemptInv'
  <2>1. PICK k \in todo[w] : \E ok \in SUBSET EndpointsOf(SliceOf[k.endpoint]) :
                                RunSlice(w, k, ok)
    BY <1>7 DEF RunGroup
  <2>2. PICK ok \in SUBSET EndpointsOf(SliceOf[k.endpoint]) : RunSlice(w, k, ok)
    BY <2>1
  <2>3. /\ todo'[w] = todo[w] \ GroupOf(todo[w], k)
        /\ results'[w] = results[w] \cup
             {[slice |-> SliceOf[k.endpoint], date |-> k.date, ok |-> ok]}
        /\ target' = target /\ order' = order /\ prior' = prior
        /\ IsFirst(todo[w], k) /\ todo[w] \in SUBSET Task
    BY <2>2 DEF RunSlice, TypeOK
  <2>4. Mine(w)'
    <3>1. Attempted(todo[w], results[w], target[w], order[w], prior[w])
      BY <1>0 DEF Mine
    <3>2. Attempted(todo[w] \ GroupOf(todo[w], k),
                    results[w] \cup {[slice |-> SliceOf[k.endpoint], date |-> k.date, ok |-> ok]},
                    target[w], order[w], prior[w])
      BY <2>3, <3>1, RunAttempted
    <3> QED  BY <2>3, <3>2 DEF Mine
  <2>5. \A v \in Worker : v # w => Same(v)
    BY <2>2 DEF RunSlice, TypeOK
  <2> QED  BY <2>4, <2>5, <1>1
<1>8. ASSUME NEW w \in Worker, End(w) PROVE AttemptInv'
  <2>1. todo'[w] = {} /\ results'[w] = {}
    BY <1>8 DEF End, TypeOK
  <2>2. Mine(w)'
    BY <2>1, NothingAttempted DEF Mine
  <2>3. \A v \in Worker : v # w => Same(v)
    BY <1>8 DEF End, TypeOK
  <2> QED  BY <2>2, <2>3, <1>1
<1>9. ASSUME NEW w \in Scheduler, NightlyCycle(w) PROVE AttemptInv'
  BY <1>9, <1>5, <1>0 DEF NightlyCycle, Worker
<1>10. ASSUME NEW w \in Operator, OperatorCycle(w) PROVE AttemptInv'
  BY <1>10, <1>5, <1>0 DEF OperatorCycle, Worker
<1> QED
  BY <1>3, <1>4, <1>6, <1>7, <1>8, <1>9, <1>10
  DEF Next, OperatorNext, NightlyNext, Step, Save, Abort, Raise, Materialize

(* No cycle, scheduled or started by hand, spends a run on history before  *)
(* every selected endpoint that owed the target date had its slice run.    *)
THEOREM CurrentnessBeforeHistory == Spec => []CurrentnessAttemptedFirst
<1>1. Init => IdleIsEmpty
  BY InitServing DEF ServingInv
<1>2. Spec => [](TypeOK /\ IdleIsEmpty /\ AttemptInv)
  BY <1>1, InitTypeOK, InitAttempt, StepTypeOK, IdleStep, StepAttempt, PTL DEF Spec
<1>3. TypeOK /\ AttemptInv => CurrentnessAttemptedFirst
  <2> SUFFICES ASSUME TypeOK, AttemptInv, NEW w \in Worker, NEW r \in results[w],
                      r.date # target[w], NEW e \in Selected(order[w])
               PROVE  \/ target[w] \in prior[w][e]
                      \/ \E q \in results[w] : q.date = target[w] /\ q.slice = SliceOf[e]
    BY DEF CurrentnessAttemptedFirst
  <2>1. Attempted(todo[w], results[w], target[w], order[w], prior[w])
    BY DEF AttemptInv
  <2>2. RanHistory(results[w], target[w])
    BY DEF RanHistory
  <2>3. ~ Owed(todo[w], e)
    BY <2>1, <2>2 DEF Attempted, Owed
  <2> QED  BY <2>1, <2>2, <2>3 DEF Attempted, Tried
<1> QED  BY <1>2, <1>3, PTL
=============================================================================
