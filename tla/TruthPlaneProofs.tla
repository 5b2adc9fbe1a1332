-------------------------- MODULE TruthPlaneProofs --------------------------
(***************************************************************************)
(* Proofs about TruthPlane for every set of orgs, endpoints, sessions and  *)
(* requests, every calendar and budget, and any number of runs.            *)
(***************************************************************************)
EXTENDS TruthPlane, FiniteSetTheorems, SequenceTheorems, WellFoundedInduction, TLAPS

(***************************************************************************)
(* The store.  Everything it says of an endpoint is a function of the      *)
(* dates its successful runs delivered.                                    *)
(***************************************************************************)
Run(o, e, d) == [org |-> o, endpoint |-> e, date |-> d, ok |-> TRUE]

Done(st, o, e) == {d \in Date : Run(o, e, d) \in st.attempts}

FaithfulFor(st, o, e) ==
  /\ st.completed[o][e] = Done(st, o, e)
  /\ \A d \in Done(st, o, e) : d <= st.latest[o][e]
  /\ st.latest[o][e] # NoDate => st.latest[o][e] \in Done(st, o, e)
  /\ \A d \in Date : st.ready[o][d] = "ready" => d \in Done(st, o, e)

Faithful(st) == \A o \in Org, e \in Endpoint : FaithfulFor(st, o, e)

Covers(st, o) == \A e \in Endpoint :
  st.progress[o][e] # NoProgress =>
    MissingBefore(st, o, e, st.progress[o][e].from, st.progress[o][e].target)
      \subseteq st.progress[o][e].gaps

\* st and tt say the same of what was synced
SameTruth(st, tt) ==
  /\ tt.attempts = st.attempts /\ tt.completed = st.completed
  /\ tt.latest = st.latest /\ tt.ready = st.ready

LEMMA DateType == Date \subseteq Nat /\ NoDate \notin Date
BY TruthStoreAssumption DEF Date, NoDate

LEMMA EmptyStoreType == EmptyStore \in Store
<1>1. << >> \in Seq(SchedulerRun)
  BY EmptySeq
<1> QED  BY <1>1 DEF EmptyStore, Store, Readiness

LEMMA EmptyStoreIsFaithful == Faithful(EmptyStore) /\ \A o \in Org : Covers(EmptyStore, o)
BY DEF EmptyStore, Faithful, FaithfulFor, Done, Covers

LEMMA SucceededIsDone ==
  ASSUME NEW st \in Store, NEW o \in Org, NEW e \in Endpoint
  PROVE  {a.date : a \in Succeeded(st, o, e)} = Done(st, o, e)
<1>1. ASSUME NEW a \in Succeeded(st, o, e)  PROVE a.date \in Done(st, o, e)
  <2>1. a \in EndpointRun /\ a.org = o /\ a.endpoint = e /\ a.ok = TRUE
    BY DEF Succeeded, Store, EndpointRun
  <2>2. a = Run(o, e, a.date) /\ a.date \in Date
    BY <2>1 DEF Run, EndpointRun
  <2> QED  BY <2>2 DEF Done, Succeeded
<1>2. ASSUME NEW d \in Done(st, o, e)  PROVE \E a \in Succeeded(st, o, e) : a.date = d
  <2>1. Run(o, e, d) \in Succeeded(st, o, e) /\ Run(o, e, d).date = d
    BY DEF Done, Succeeded, Run
  <2> QED  BY <2>1
<1> QED  BY <1>1, <1>2

LEMMA FaithfulSays ==
  ASSUME NEW st \in Store, Faithful(st)
  PROVE  LatestIsNewestIn(st) /\ CompletedIsAttestedIn(st) /\ ReadyIsCompleteIn(st)
<1>1. ASSUME NEW o \in Org, NEW e \in Endpoint
      PROVE  /\ \A a \in Succeeded(st, o, e) : a.date <= st.latest[o][e]
             /\ st.latest[o][e] # NoDate =>
                  \E a \in Succeeded(st, o, e) : a.date = st.latest[o][e]
             /\ st.completed[o][e] = {a.date : a \in Succeeded(st, o, e)}
  <2>1. {a.date : a \in Succeeded(st, o, e)} = Done(st, o, e)
    BY SucceededIsDone
  <2> QED  BY <2>1 DEF Faithful, FaithfulFor
<1>2. ReadyIsCompleteIn(st)
  BY DEF Faithful, FaithfulFor, ReadyIsCompleteIn
<1> QED  BY <1>1, <1>2 DEF LatestIsNewestIn, CompletedIsAttestedIn

(* Rebuilding the completed dates of a faithful store changes nothing.     *)
LEMMA RebuiltIsCompleted ==
  ASSUME NEW st \in Store, Faithful(st)
  PROVE  Rebuilt(st) = st.completed /\ FromSnapshot(st) = st
<1> DEFINE Set(o, e) ==
             {d \in Date : [org |-> o, endpoint |-> e, date |-> d, ok |-> TRUE] \in st.attempts}
               \cup ({st.latest[o][e]} \ {NoDate})
<1>1. st.completed \in [Org -> [Endpoint -> SUBSET Date]]
  BY DEF Store
<1>2. ASSUME NEW o \in Org, NEW e \in Endpoint
      PROVE  Set(o, e) = st.completed[o][e]
  BY DEF Faithful, FaithfulFor, Done, Run
<1>3. Rebuilt(st) = st.completed
  <2>1. Rebuilt(st) = [o \in Org |-> [e \in Endpoint |-> Set(o, e)]]
    BY DEF Rebuilt
  <2> HIDE DEF Set
  <2>2. \A o \in Org : [e \in Endpoint |-> Set(o, e)] = st.completed[o]
    BY <1>1, <1>2
  <2> QED  BY <1>1, <2>1, <2>2
<1> QED  BY <1>3 DEF FromSnapshot, Store

(* What only touches runs and progress keeps the store faithful.           *)
LEMMA SameTruthIsFaithful ==
  ASSUME NEW st, NEW tt, Faithful(st), SameTruth(st, tt)
  PROVE  Faithful(tt)
BY DEF SameTruth, Faithful, FaithfulFor, Done

LEMMA RecordRunStore ==
  ASSUME NEW st \in Store, NEW trace \in Nat, NEW org \in Org
  PROVE  /\ RecordRun(st, trace, org) \in Store
         /\ SameTruth(st, RecordRun(st, trace, org))
         /\ RecordRun(st, trace, org).progress = st.progress
<1> DEFINE row == [trace |-> trace, org |-> org, dates |-> {}, status |-> "running"]
<1>1. row \in SchedulerRun
  BY DEF SchedulerRun, RunStatus
<1>2. Append(st.runs, row) \in Seq(SchedulerRun)
  BY <1>1, AppendProperties DEF Store
<1> QED  BY <1>2 DEF RecordRun, SameTruth, Store

LEMMA FinalizeRunStore ==
  ASSUME NEW st \in Store, NEW trace \in Nat, NEW dates \in SUBSET Date, NEW outs
  PROVE  /\ FinalizeRun(st, trace, dates, outs) \in Store
         /\ SameTruth(st, FinalizeRun(st, trace, dates, outs))
         /\ FinalizeRun(st, trace, dates, outs).progress = st.progress
<1> DEFINE rs == [i \in DOMAIN st.runs |->
             IF IsFirstOf(st.runs, i, trace)
             THEN [st.runs[i] EXCEPT !.status = WorkflowStatus(outs), !.dates = dates]
             ELSE st.runs[i]]
<1>1. st.runs \in Seq(SchedulerRun) /\ Len(st.runs) \in Nat /\ DOMAIN st.runs = 1 .. Len(st.runs)
  BY LenProperties DEF Store
<1>2. \A i \in 1 .. Len(st.runs) : st.runs[i] \in SchedulerRun
  BY <1>1, ElementOfSeq
<1>3. WorkflowStatus(outs) \in RunStatus
  BY DEF WorkflowStatus, RunStatus
<1>4. \A i \in 1 .. Len(st.runs) : rs[i] \in SchedulerRun
  BY <1>1, <1>2, <1>3 DEF SchedulerRun
<1>5. rs \in [1 .. Len(st.runs) -> SchedulerRun]
  BY <1>1, <1>4
<1>6. rs \in Seq(SchedulerRun)
  BY <1>1, <1>5, SeqDef
<1> QED  BY <1>6 DEF FinalizeRun, SameTruth, Store

LEMMA MissingType ==
  ASSUME NEW st, NEW o, NEW e, NEW from \in Date, NEW target \in Date
  PROVE  MissingBefore(st, o, e, from, target) \subseteq Date
BY TruthStoreAssumption DEF MissingBefore, Date

LEMMA ReconcileStore ==
  ASSUME NEW st \in Store, NEW org \in Org, NEW from \in Date, NEW target \in Date
  PROVE  /\ Reconcile(st, org, from, target) \in Store
         /\ SameTruth(st, Reconcile(st, org, from, target))
         /\ Covers(Reconcile(st, org, from, target), org)
         /\ \A o \in Org : Covers(st, o) => Covers(Reconcile(st, org, from, target), o)
<1> DEFINE tt == Reconcile(st, org, from, target)
           row(e) == [from |-> from, target |-> target,
                      gaps |-> MissingBefore(st, org, e, from, target), planned |-> {}]
<1>1. \A e \in Endpoint : row(e) \in Progress
  BY MissingType DEF Progress
<1>2. [e \in Endpoint |-> row(e)] \in [Endpoint -> Progress \cup {NoProgress}]
  BY <1>1
<1>3. st.progress \in [Org -> [Endpoint -> Progress \cup {NoProgress}]]
  BY DEF Store
<1>4. tt.progress = [st.progress EXCEPT ![org] = [e \in Endpoint |-> row(e)]]
      /\ SameTruth(st, tt)
  BY DEF Reconcile, SameTruth, Store
<1>5. tt \in Store
  BY <1>2, <1>3 DEF Reconcile, Store
<1>6. Covers(tt, org)
  BY <1>3, <1>4 DEF Covers, MissingBefore, SameTruth
<1>7. ASSUME NEW o \in Org, o # org, Covers(st, o)  PROVE Covers(tt, o)
  <2>1. tt.progress[o] = st.progress[o]
    BY <1>3, <1>4, <1>7
  <2> QED  BY <1>4, <1>7, <2>1 DEF Covers, MissingBefore, SameTruth
<1> QED  BY <1>4, <1>5, <1>6, <1>7

LEMMA PersistStore ==
  ASSUME NEW st \in Store, Faithful(st), NEW org \in Org, NEW date \in Date,
         NEW ok \in SUBSET Endpoint
  PROVE  /\ Persist(st, org, date, ok) \in Store
         /\ Faithful(Persist(st, org, date, ok))
         /\ \A o \in Org : Covers(st, o) => Covers(Persist(st, org, date, ok), o)
<1> DEFINE tt == Persist(st, org, date, ok)
           new(o, e) == {d \in {date} : o = org /\ e \in ok}
<1>1. /\ st.attempts \subseteq EndpointRun
      /\ st.completed \in [Org -> [Endpoint -> SUBSET Date]]
      /\ st.latest \in [Org -> [Endpoint -> Date \cup {NoDate}]]
      /\ st.ready \in [Org -> [Date -> Readiness]]
  BY DEF Store
<1>2. /\ tt.attempts = st.attempts \cup EndpointRuns(org, date, ok)
      /\ tt.completed = [st.completed EXCEPT ![org] = MarkCompleted(st, org, date, ok)]
      /\ tt.latest = [st.latest EXCEPT ![org] = UpdateLatest(st, org, date, ok)]
      /\ tt.ready = [st.ready EXCEPT ![org][date] = RunReadiness(ok)]
      /\ tt.progress = st.progress
  BY DEF Persist, Store
<1>3. tt \in Store
  <2>1. EndpointRuns(org, date, ok) \subseteq EndpointRun
    <3>1. ASSUME NEW e \in Endpoint, NEW b \in BOOLEAN
          PROVE  [org |-> org, endpoint |-> e, date |-> date, ok |-> b] \in EndpointRun
      BY DEF EndpointRun
    <3>2. \A e \in Endpoint : (e \in ok) \in BOOLEAN
      OBVIOUS
    <3> QED  BY <3>1, <3>2, Zenon DEF EndpointRuns
  <2>2. MarkCompleted(st, org, date, ok) \in [Endpoint -> SUBSET Date]
    BY <1>1 DEF MarkCompleted
  <2>3. UpdateLatest(st, org, date, ok) \in [Endpoint -> Date \cup {NoDate}]
    BY <1>1 DEF UpdateLatest
  <2>4. [st.ready EXCEPT ![org][date] = RunReadiness(ok)] \in [Org -> [Date -> Readiness]]
    BY <1>1 DEF RunReadiness, Readiness
  <2> QED  BY <1>1, <2>1, <2>2, <2>3, <2>4 DEF Persist, Store
<1>4. ASSUME NEW o \in Org, NEW e \in Endpoint
      PROVE  Done(tt, o, e) = Done(st, o, e) \cup new(o, e)
  <2>1. \A d \in Date : Run(o, e, d) \in EndpointRuns(org, date, ok) <=> d \in new(o, e)
    BY DEF Run, EndpointRuns
  <2> QED  BY <1>2, <2>1 DEF Done
<1>5. ASSUME NEW o \in Org, NEW e \in Endpoint
      PROVE  FaithfulFor(tt, o, e)
  <2>1. FaithfulFor(st, o, e) /\ Done(tt, o, e) = Done(st, o, e) \cup new(o, e)
    BY <1>4 DEF Faithful
  <2>2. tt.completed[o][e] = st.completed[o][e] \cup new(o, e)
    BY <1>1, <1>2 DEF MarkCompleted
  <2>3. tt.latest[o][e] = IF o = org /\ e \in ok /\ date >= st.latest[o][e] THEN date
                          ELSE st.latest[o][e]
    BY <1>1, <1>2 DEF UpdateLatest
  <2>4. st.latest[o][e] \in Nat /\ date \in Nat /\ Done(st, o, e) \subseteq Nat
    BY <1>1, DateType DEF NoDate, Done
  <2>5. \A d \in Done(tt, o, e) : d <= tt.latest[o][e]
    BY <2>1, <2>3, <2>4 DEF FaithfulFor
  <2>6. tt.latest[o][e] # NoDate => tt.latest[o][e] \in Done(tt, o, e)
    BY <2>1, <2>3 DEF FaithfulFor
  <2>7. ASSUME NEW d \in Date, tt.ready[o][d] = "ready"  PROVE d \in Done(tt, o, e)
    <3>1. CASE o = org /\ d = date
      <4>1. RunReadiness(ok) = "ready"
        BY <1>1, <1>2, <2>7, <3>1
      <4>2. ok = Endpoint
        BY <4>1 DEF RunReadiness
      <4> QED  BY <2>1, <3>1, <4>2
    <3>2. CASE ~ (o = org /\ d = date)
      <4>1. st.ready[o][d] = "ready"
        BY <1>1, <1>2, <2>7, <3>2
      <4> QED  BY <2>1, <4>1 DEF FaithfulFor
    <3> QED  BY <3>1, <3>2
  <2>8. tt.completed[o][e] = Done(tt, o, e)
    BY <2>1, <2>2 DEF FaithfulFor
  <2> QED  BY <2>5, <2>6, <2>7, <2>8 DEF FaithfulFor
<1>6. ASSUME NEW o \in Org, Covers(st, o)  PROVE Covers(tt, o)
  <2>1. \A e \in Endpoint : st.completed[o][e] \subseteq tt.completed[o][e]
    BY <1>1, <1>2 DEF MarkCompleted
  <2> QED  BY <1>2, <1>6, <2>1 DEF Covers, MissingBefore
<1> QED  BY <1>3, <1>5, <1>6 DEF Faithful

LEMMA PlanTypes ==
  ASSUME NEW st, NEW org, NEW from \in Date, NEW target \in Date
  PROVE  /\ \A e : PlanGaps(st, org, e, from, target) \subseteq Date
         /\ Planned(st, org, from, target) \subseteq Date
<1>1. \A e : PlanGaps(st, org, e, from, target) \subseteq Date
  BY MissingType DEF PlanGaps
<1> QED  BY <1>1 DEF Planned

LEMMA DispatchedStore ==
  ASSUME NEW st \in Store, NEW org \in Org, NEW from \in Date, NEW target \in Date
  PROVE  /\ Dispatched(st, org, from, target) \in Store
         /\ SameTruth(st, Dispatched(st, org, from, target))
         /\ \A o \in Org \ {org} : Covers(st, o) => Covers(Dispatched(st, org, from, target), o)
         /\ \A e \in Endpoint :
              Dispatched(st, org, from, target).progress[org][e].gaps
                = PlanGaps(st, org, e, from, target) \ Planned(st, org, from, target)
<1> DEFINE tt == Dispatched(st, org, from, target)
           row(e) == [from |-> from, target |-> target,
             gaps |-> PlanGaps(st, org, e, from, target) \ Planned(st, org, from, target),
             planned |-> PlanGaps(st, org, e, from, target) \cap Planned(st, org, from, target)]
<1>1. \A e \in Endpoint : row(e) \in Progress
  BY PlanTypes DEF Progress
<1>2. [e \in Endpoint |-> row(e)] \in [Endpoint -> Progress \cup {NoProgress}]
  BY <1>1
<1>3. st.progress \in [Org -> [Endpoint -> Progress \cup {NoProgress}]]
  BY DEF Store
<1>4. tt.progress = [st.progress EXCEPT ![org] = [e \in Endpoint |-> row(e)]]
      /\ SameTruth(st, tt)
  BY DEF Dispatched, SameTruth, Store
<1>5. tt \in Store
  BY <1>2, <1>3 DEF Dispatched, Store
<1>6. ASSUME NEW o \in Org \ {org}, Covers(st, o)  PROVE Covers(tt, o)
  <2>1. tt.progress[o] = st.progress[o]
    BY <1>3, <1>4, <1>6
  <2> QED  BY <1>4, <1>6, <2>1 DEF Covers, MissingBefore, SameTruth
<1> QED  BY <1>3, <1>4, <1>5, <1>6

(* A plan made of reconciled rows: every missing date is planned or kept,  *)
(* and whatever is newer than a planned date is planned.                   *)
LEMMA PlanIsNewestFirst ==
  ASSUME NEW st \in Store, NEW org \in Org, NEW from \in Date, NEW target \in Date
  PROVE  LET pp == Reconcile(st, org, from, target) IN
         \A e \in Endpoint :
           /\ PlanGaps(pp, org, e, from, target) = MissingBefore(st, org, e, from, target)
           /\ \A d \in Planned(pp, org, from, target) :
                \A gap \in MissingBefore(st, org, e, from, target) :
                  gap > d => gap \in Planned(pp, org, from, target)
<1> DEFINE pp == Reconcile(st, org, from, target)
           all == UNION {PlanGaps(pp, org, e, from, target) : e \in Endpoint}
<1>1. ASSUME NEW e \in Endpoint
      PROVE  PlanGaps(pp, org, e, from, target) = MissingBefore(st, org, e, from, target)
  <2>1. /\ pp.completed = st.completed
        /\ pp.progress[org][e].gaps = MissingBefore(st, org, e, from, target)
    BY DEF Reconcile, Store
  <2>2. MissingBefore(pp, org, e, from, target) = MissingBefore(st, org, e, from, target)
    BY <2>1 DEF MissingBefore
  <2>3. \A d \in MissingBefore(st, org, e, from, target) : d <= d
    <3>1. MissingBefore(st, org, e, from, target) \subseteq Nat
      BY MissingType, DateType
    <3> QED  BY <3>1
  <2> QED  BY <2>1, <2>2, <2>3 DEF PlanGaps
<1>2. all \subseteq Date
  BY PlanTypes
<1>3. IsFiniteSet(all)
  <2>1. IsFiniteSet(Date)
    BY FS_Interval, TruthStoreAssumption DEF Date
  <2> QED  BY <1>2, <2>1, FS_Subset
<1>4. Planned(pp, org, from, target) = {d \in all : Cardinality({x \in all : x > d}) < MaxBackfillTasks}
  BY DEF Planned
<1> HIDE DEF all, pp
<1>5. ASSUME NEW d \in all, Cardinality({x \in all : x > d}) < MaxBackfillTasks,
             NEW gap \in all, gap > d
      PROVE  Cardinality({x \in all : x > gap}) < MaxBackfillTasks
  <2>1. {x \in all : x > gap} \subseteq {x \in all : x > d}
    <3>1. all \subseteq Nat
      BY <1>2, DateType
    <3>2. \A x \in all : x > gap => x > d
      BY <3>1, <1>5
    <3> QED  BY <3>2
  <2>2. IsFiniteSet({x \in all : x > d})
    BY <1>3, FS_Subset
  <2>3. Cardinality({x \in all : x > gap}) <= Cardinality({x \in all : x > d})
        /\ Cardinality({x \in all : x > gap}) \in Nat /\ Cardinality({x \in all : x > d}) \in Nat
    BY <2>1, <2>2, FS_Subset, FS_CardinalityType
  <2> QED  BY <1>5, <2>3, TruthStoreAssumption
<1>6. \A e \in Endpoint : MissingBefore(st, org, e, from, target) \subseteq all
  BY <1>1 DEF all
<1>7. ASSUME NEW e \in Endpoint, NEW d \in Planned(pp, org, from, target),
             NEW gap \in MissingBefore(st, org, e, from, target), gap > d
      PROVE  gap \in Planned(pp, org, from, target)
  BY <1>4, <1>5, <1>6, <1>7
<1> QED  BY <1>1, <1>7 DEF pp

-----------------------------------------------------------------------------
(***************************************************************************)
(* Requests: what an accepted or refused one leads to.                     *)
(***************************************************************************)
LEMMA RequestType == Request \subseteq RequestShape
BY TruthPlaneAssumption

LEMMA RefusalType ==
  ASSUME NEW r \in Request, Refusals(r) # {}
  PROVE  RefusalOf(r) \in Answer /\ RefusalOf(r).service # "served"
<1> DEFINE Less == OpToRel(<, Nat)
<1>1. Len(Guards(r)) = 6
  BY DEF Guards
<1>2. Refusals(r) \subseteq Nat /\ Refusals(r) \subseteq 1 .. 6
  BY <1>1 DEF Refusals
<1>3. PICK i \in Refusals(r) : \A j \in Refusals(r) : ~ (<<j, i>> \in Less)
  BY <1>2, NatLessThanWellFounded, WFMin, Zenon
<1>4. \A j \in Refusals(r) : i <= j
  <2> TAKE j \in Refusals(r)
  <2>1. ~ (j < i)
    BY <1>2, <1>3 DEF OpToRel
  <2> QED  BY <2>1, <1>2
<1>5. (CHOOSE k \in Refusals(r) : \A j \in Refusals(r) : k <= j) \in Refusals(r)
  BY <1>4
<1>6. \A k \in 1 .. 6 : /\ Guards(r)[k].readiness \in {"ready", "pending"}
                        /\ Guards(r)[k].service \in {"not_ready", "scope_mismatch"}
  BY DEF Guards
<1> QED  BY <1>2, <1>5, <1>6 DEF RefusalOf, Answer

LEMMA WindowType ==
  ASSUME NEW r \in Request
  PROVE  BackfillWindow(r).from \in Date \cup {NoDate} /\ BackfillWindow(r).to \in Date
<1>1. /\ r.from \in Date \cup {NoDate} /\ r.to \in Date \cup {NoDate} /\ r.target \in Date
  BY RequestType DEF RequestShape
<1>2. NormalizedWindow(r).from \in Date \cup {NoDate} /\ NormalizedWindow(r).to \in Date
  BY <1>1 DEF NormalizedWindow
<1> QED  BY <1>1, <1>2, TruthPlaneAssumption DEF BackfillWindow

\* an action the surface accepts
Accepted(r) == Refusals(r) = {} /\ r.capability \notin ReadOnly /\ ~ Raises(r)

LEMMA AcceptedType ==
  ASSUME NEW r \in Request, Accepted(r), NEW trace \in Nat
  PROVE  /\ r.org \in Org /\ JobOf(r, trace) \in Job /\ JobOf(r, trace).kind # "nightly"
         /\ JobOf(r, trace).asked = {r}
         /\ RequestedDates(r) \in SUBSET Date
<1>1. Guards(r)[1].fails = (r.capability = "unregistered") /\ Guards(r)[2].fails = (r.org = "none")
      /\ Len(Guards(r)) = 6
  BY DEF Guards
<1>2. ~ Guards(r)[1].fails /\ ~ Guards(r)[2].fails
  BY <1>1 DEF Refusals, Accepted
<1>3. r.org \in Org /\ r.capability \in {"sync_rerun", "sync_backfill"} /\ r.target \in Date
  BY <1>1, <1>2, RequestType DEF RequestShape, Capability, ReadOnly, Accepted
<1>4. CASE r.capability = "sync_rerun"
  BY <1>3, <1>4 DEF JobOf, Job, RequestedDates
<1>5. CASE r.capability = "sync_backfill"
  <2>1. BackfillWindow(r).from \in Date /\ BackfillWindow(r).to \in Date
    BY <1>5, WindowType DEF Raises, Accepted
  <2>2. BackfillWindow(r).from .. BackfillWindow(r).to \subseteq Date
    BY <2>1, TruthStoreAssumption DEF Date
  <2> QED  BY <1>3, <1>5, <2>1, <2>2 DEF JobOf, Job, RequestedDates
<1> QED  BY <1>3, <1>4, <1>5

-----------------------------------------------------------------------------
(***************************************************************************)
(* The plane.  The file and every copy of it are faithful; a session has   *)
(* hidden gaps only of the org whose night it is running; as long as none  *)
(* overlapped, one session is at work, and holds all that was answered.    *)
(***************************************************************************)
\* the progress rows of o are those a plan predicts
Open(s, o) == pc[s] = "running" /\ job[s].kind = "nightly" /\ o = Head(orgs[s])

SessionInv(s) ==
  /\ Faithful(mem[s])
  /\ \A o \in Org : Open(s, o) \/ Covers(mem[s], o)
  /\ pc[s] # "idle" => job[s] \in Job
  /\ pc[s] = "running" => orgs[s] # << >>
  /\ pc[s] = "planning" => job[s].kind = "nightly"
  /\ job[s].kind = "nightly" => job[s].from = NightlyStart

FileInv == Intact => Faithful(file) /\ \A o \in Org : Covers(file, o)

Attempted(st, o, d) == \A e \in Endpoint :
  \E run \in st.attempts : run.org = o /\ run.endpoint = e /\ run.date = d

\* the answered actions are in st
Holds(st) == \A a \in answers :
  a.service = "served" /\ a.request.capability \notin ReadOnly =>
    \A d \in RequestedDates(a.request) : Attempted(st, a.request.org, d)

\* an accepted action has attempted what it does not still have to run
AskedInv(s) == \A r \in job[s].asked :
  /\ pc[s] = "running" => Head(orgs[s]) = r.org
  /\ job[s].kind # "nightly"
  /\ \A d \in RequestedDates(r) : \/ pc[s] = "running" /\ d \in tasks[s]
                                  \/ Attempted(mem[s], r.org, d)

AloneInv == ~ overlap =>
  /\ \A s, q \in Session : pc[s] # "idle" /\ pc[q] # "idle" => s = q
  /\ \A s \in Session : pc[s] # "idle" => Holds(mem[s])
  /\ \A s \in Session : pc[s] = "writing" => file = Torn
  /\ Intact => Holds(file)
  /\ ~ cutShort /\ ~ Intact => \E s \in Session : pc[s] = "writing"

PInv ==
  /\ TypeOK /\ FileInv /\ AloneInv
  /\ \A s \in Session : SessionInv(s) /\ AskedInv(s)

\* a step that leaves session q as it is
Same(q) ==
  /\ pc'[q] = pc[q] /\ mem'[q] = mem[q] /\ job'[q] = job[q] /\ orgs'[q] = orgs[q]
  /\ tasks'[q] = tasks[q]

LEMMA SessionFrame ==
  ASSUME NEW q \in Session, SessionInv(q), AskedInv(q), Same(q)
  PROVE  SessionInv(q)' /\ AskedInv(q)'
<1>1. SessionInv(q)'
  BY DEF SessionInv, Open, Same
<1>2. AskedInv(q)'
  BY DEF AskedInv, Same
<1> QED  BY <1>1, <1>2

LEMMA StepOf ==
  ASSUME PInv, NEW s \in Session, TypeOK', FileInv', AloneInv', SessionInv(s)', AskedInv(s)',
         \A q \in Session \ {s} : Same(q)
  PROVE  PInv'
<1>1. ASSUME NEW q \in Session  PROVE SessionInv(q)' /\ AskedInv(q)'
  BY SessionFrame DEF PInv
<1> QED  BY <1>1 DEF PInv

LEMMA StoreIsNotTorn == Torn \notin Store
<1>1. \A st \in Store : DOMAIN st = {"runs", "attempts", "completed", "latest", "progress", "ready"}
  BY DEF Store
<1>2. DOMAIN Torn = {"torn"}
  BY DEF Torn
<1> QED  BY <1>1, <1>2

\* what a session loads is what was saved
LEMMA LoadedIsSaved ==
  ASSUME PInv, file # Torn
  PROVE  file \in Store /\ Faithful(file) /\ FromSnapshot(file) = file
BY RebuiltIsCompleted DEF PInv, TypeOK, FileInv, Intact

LEMMA InitPInv == Init => PInv
<1> SUFFICES ASSUME Init  PROVE PInv
  OBVIOUS
<1>1. TypeOK
  BY EmptyStoreType, EmptySeq DEF Init, TypeOK, Stage
<1>2. FileInv /\ AloneInv
  BY EmptyStoreIsFaithful, EmptyStoreType, StoreIsNotTorn DEF Init, FileInv, AloneInv, Holds, Intact
<1>3. ASSUME NEW s \in Session  PROVE SessionInv(s) /\ AskedInv(s)
  BY EmptyStoreIsFaithful DEF Init, SessionInv, AskedInv, NoJob
<1> QED  BY <1>1, <1>2, <1>3 DEF PInv

(* A session that ends leaves an empty slot.                               *)
LEMMA EndedSession ==
  ASSUME PInv, NEW s \in Session, End(s)
  PROVE  /\ SessionInv(s)' /\ AskedInv(s)' /\ pc'[s] = "idle"
         /\ \A q \in Session \ {s} : Same(q)
         /\ pc' \in [Session -> Stage] /\ mem' \in [Session -> Store]
         /\ job' \in [Session -> Job \cup {NoJob}] /\ orgs' \in [Session -> Seq(Org)]
         /\ tasks' \in [Session -> SUBSET Date] /\ ran' \in [Session -> SUBSET Date]
         /\ outcomes' \in [Session -> SUBSET {"completed", "partial_failed", "failed"}]
<1>1. TypeOK
  BY DEF PInv
<1>2. /\ pc'[s] = "idle" /\ mem'[s] = EmptyStore /\ job'[s] = NoJob
      /\ \A q \in Session \ {s} : Same(q)
  BY <1>1 DEF TypeOK, End, Same
<1>3. SessionInv(s)' /\ AskedInv(s)'
  BY <1>2, EmptyStoreIsFaithful DEF SessionInv, AskedInv, NoJob
<1>4. pc' \in [Session -> Stage] /\ mem' \in [Session -> Store]
  BY <1>1, EmptyStoreType DEF TypeOK, End, Stage
<1>5. job' \in [Session -> Job \cup {NoJob}] /\ orgs' \in [Session -> Seq(Org)]
  BY <1>1, EmptySeq DEF TypeOK, End
<1>6. /\ tasks' \in [Session -> SUBSET Date] /\ ran' \in [Session -> SUBSET Date]
      /\ outcomes' \in [Session -> SUBSET {"completed", "partial_failed", "failed"}]
  BY <1>1 DEF TypeOK, End
<1> QED  BY <1>2, <1>3, <1>4, <1>5, <1>6

LEMMA DieStep ==
  ASSUME PInv, NEW s \in Session, Die(s)
  PROVE  PInv'
<1>1. /\ SessionInv(s)' /\ AskedInv(s)' /\ pc'[s] = "idle"
      /\ \A q \in Session \ {s} : Same(q)
  BY EndedSession DEF Die
<1>2. TypeOK'
  BY EndedSession DEF Die, PInv, TypeOK
<1>3. FileInv'
  BY DEF Die, PInv, FileInv, Intact
<1>4. AloneInv'
  BY <1>1 DEF Die, PInv, AloneInv, Holds, Intact, Same
<1> QED  BY <1>1, <1>2, <1>3, <1>4, StepOf

LEMMA WriteStep ==
  ASSUME PInv, NEW s \in Session, Write(s)
  PROVE  PInv'
<1>1. /\ SessionInv(s)' /\ AskedInv(s)' /\ pc'[s] = "idle"
      /\ \A q \in Session \ {s} : Same(q)
  BY EndedSession DEF Write
<1>2. job[s] \in Job /\ mem[s] \in Store /\ Faithful(mem[s]) /\ \A o \in Org : Covers(mem[s], o)
  BY DEF PInv, TypeOK, SessionInv, Open, Write
<1>3. answers' \subseteq Answer
  <2>1. ASSUME NEW r \in job[s].asked
        PROVE  [request |-> r, readiness |-> "ready", service |-> "served"] \in Answer
    BY <1>2 DEF Job, Answer
  <2> QED  BY <2>1 DEF Write, PInv, TypeOK
<1>4. TypeOK'
  BY <1>2, <1>3, EndedSession DEF Write, PInv, TypeOK
<1>5. FileInv'
  BY <1>2 DEF Write, FileInv, Intact
<1>6. AloneInv'
  <2> SUFFICES ASSUME ~ overlap  PROVE AloneInv'
    BY DEF AloneInv, Write
  <2>1. \A q \in Session : pc'[q] = "idle"
    BY <1>1 DEF PInv, AloneInv, Same, Write
  <2>2. ASSUME file' = mem[s]  PROVE Holds(file)'
    <3>1. Holds(mem[s])
      BY DEF PInv, AloneInv, Write
    <3>2. \A r \in job[s].asked : \A d \in RequestedDates(r) : Attempted(mem[s], r.org, d)
      BY DEF PInv, AskedInv, Write
    <3>3. \A a \in answers' : a \in answers \/ a.request \in job[s].asked
      BY DEF Write
    <3> QED  BY <2>2, <3>1, <3>2, <3>3 DEF Holds
  <2>3. file' = mem[s] /\ Intact'
    BY <1>2, StoreIsNotTorn DEF PInv, AloneInv, Write, Intact
  <2> QED  BY <2>1, <2>2, <2>3 DEF AloneInv
<1> QED  BY <1>1, <1>4, <1>5, <1>6, StepOf

LEMMA TruncateStep ==
  ASSUME PInv, NEW s \in Session, Truncate(s)
  PROVE  PInv'
<1>1. TypeOK' /\ pc'[s] = "writing" /\ \A q \in Session \ {s} : Same(q)
  BY DEF Truncate, PInv, TypeOK, Stage, Same
<1>2. FileInv' /\ AloneInv'
  BY <1>1 DEF Truncate, PInv, TypeOK, FileInv, AloneInv, Holds, Intact, Same
<1>3. SessionInv(s)' /\ AskedInv(s)'
  BY <1>1 DEF Truncate, PInv, SessionInv, AskedInv, Open
<1> QED  BY <1>1, <1>2, <1>3, StepOf

(* Requests that start no session: at most an answer is added, and never   *)
(* that of an action.                                                      *)
LEMMA AnsweredStep ==
  ASSUME PInv, UNCHANGED <<file, session, overlap, cutShort>>, started' \in Nat,
         NEW a \in Answer, answers' \in {answers, answers \cup {a}},
         a.service = "served" => a.request.capability \in ReadOnly
  PROVE  PInv'
<1>1. TypeOK'
  BY DEF PInv, TypeOK, session
<1>2. FileInv'
  BY DEF PInv, FileInv, Intact
<1>3. \A st \in Store : Holds(st) => Holds(st)'
  BY DEF Holds
<1>4. AloneInv'
  <2> SUFFICES ASSUME ~ overlap  PROVE AloneInv'
    BY DEF AloneInv
  <2>1. \A s \in Session : pc'[s] # "idle" => Holds(mem[s])'
    BY <1>3 DEF PInv, AloneInv, TypeOK, session
  <2>2. Intact' => Holds(file)'
    BY <1>3 DEF PInv, AloneInv, TypeOK, Intact
  <2>3. UNCHANGED <<pc, mem, file, cutShort>>
    BY DEF session
  <2> QED  BY <2>1, <2>2, <2>3 DEF AloneInv, PInv, Holds, Intact
<1>5. ASSUME NEW s \in Session  PROVE SessionInv(s)' /\ AskedInv(s)'
  BY SessionFrame DEF PInv, Same, session
<1> QED  BY <1>1, <1>2, <1>4, <1>5 DEF PInv

LEMMA RefuseStep ==
  ASSUME PInv, NEW s \in Session, NEW r \in Request, Refuse(s, r)
  PROVE  PInv'
<1>1. started' \in Nat
  BY DEF PInv, TypeOK, Refuse, Arrive
<1>2. RefusalOf(r) \in Answer /\ RefusalOf(r).service # "served"
  BY RefusalType DEF Refuse
<1> QED  BY <1>1, <1>2, AnsweredStep DEF Refuse

LEMMA ReportStep ==
  ASSUME PInv, NEW s \in Session, NEW r \in Request, ReportStatus(s, r)
  PROVE  PInv'
<1> DEFINE a == [request |-> r, readiness |-> "ready", service |-> "served"]
<1>1. started' \in Nat
  BY DEF PInv, TypeOK, ReportStatus, Arrive
<1>2. a \in Answer /\ a.request.capability \in ReadOnly
  BY DEF Answer, ReportStatus
<1> QED  BY <1>1, <1>2, AnsweredStep DEF ReportStatus

LEMMA RaiseStep ==
  ASSUME PInv, NEW s \in Session, NEW r \in Request, RaiseOnWindow(s, r)
  PROVE  PInv'
<1> DEFINE a == [request |-> r, readiness |-> "ready", service |-> "not_ready"]
<1>1. started' \in Nat
  BY DEF PInv, TypeOK, RaiseOnWindow, Arrive
<1>2. a \in Answer /\ a.service # "served"
  BY DEF Answer
<1> QED  BY <1>1, <1>2, AnsweredStep DEF RaiseOnWindow

(* A session that starts is alone or overlaps.                             *)
LEMMA StartAlone ==
  ASSUME PInv, NEW s \in Session, file # Torn, pc[s] = "idle",
         UNCHANGED <<file, answers, cutShort>>,
         overlap' = (overlap \/ \E q \in Session : pc[q] # "idle"),
         pc'[s] # "writing", SameTruth(file, mem'[s]),
         \A q \in Session \ {s} : Same(q)
  PROVE  AloneInv'
<1> SUFFICES ASSUME ~ overlap'  PROVE AloneInv'
  BY DEF AloneInv
<1>1. ~ overlap /\ \A q \in Session : pc[q] = "idle"
  OBVIOUS
<1>2. \A q \in Session \ {s} : pc'[q] = "idle"
  BY <1>1 DEF Same
<1>3. Holds(file)
  BY <1>1 DEF PInv, AloneInv, Intact
<1>4. Holds(mem'[s])
  BY <1>3 DEF Holds, Attempted, SameTruth
<1>5. Holds(mem[s])' /\ Holds(file)'
  BY <1>3, <1>4 DEF Holds
<1> QED  BY <1>2, <1>5 DEF AloneInv, Intact

LEMMA StartNightlyStep ==
  ASSUME PInv, NEW s \in Session, NEW target \in Date, StartNightly(s, target)
  PROVE  PInv'
<1> DEFINE j == [kind |-> "nightly", from |-> NightlyStart, target |-> target,
                 trace |-> started + 1, asked |-> {}]
<1>1. file \in Store /\ Faithful(file) /\ FromSnapshot(file) = file
      /\ \A o \in Org : Covers(file, o)
  BY LoadedIsSaved DEF PInv, FileInv, Intact, StartNightly, Load
<1>2. TypeOK /\ started' \in Nat /\ j \in Job
  BY TruthPlaneAssumption DEF PInv, TypeOK, StartNightly, Arrive, Job
<1>3. /\ pc'[s] = "planning" /\ mem'[s] = file /\ job'[s] = j
      /\ \A q \in Session \ {s} : Same(q)
  BY <1>1, <1>2 DEF TypeOK, StartNightly, Load, Same
<1>4. TypeOK'
  <2>1. pc' \in [Session -> Stage] /\ mem' \in [Session -> Store]
    BY <1>1, <1>2 DEF TypeOK, StartNightly, Load, Stage
  <2>2. job' \in [Session -> Job \cup {NoJob}] /\ orgs' \in [Session -> Seq(Org)]
    BY <1>2, TruthPlaneAssumption DEF TypeOK, StartNightly
  <2>3. overlap' \in BOOLEAN
    BY <1>2 DEF StartNightly, Load, TypeOK
  <2> QED  BY <1>2, <2>1, <2>2, <2>3 DEF TypeOK, StartNightly
<1>5. FileInv'
  BY DEF PInv, FileInv, Intact, StartNightly
<1>6. AloneInv'
  BY <1>3, StartAlone DEF StartNightly, Load, Arrive, SameTruth
<1>7. SessionInv(s)' /\ AskedInv(s)'
  BY <1>1, <1>2, <1>3 DEF SessionInv, AskedInv, Open
<1> QED  BY <1>3, <1>4, <1>5, <1>6, <1>7, StepOf

LEMMA StartActionStep ==
  ASSUME PInv, NEW s \in Session, NEW r \in Request, StartAction(s, r)
  PROVE  PInv'
<1> DEFINE j == JobOf(r, started + 1)
           st == RecordRun(file, started + 1, r.org)
<1>1. file \in Store /\ Faithful(file) /\ FromSnapshot(file) = file
      /\ \A o \in Org : Covers(file, o)
  BY LoadedIsSaved DEF PInv, FileInv, Intact, StartAction
<1>2. TypeOK /\ started' \in Nat /\ started + 1 \in Nat
  BY DEF PInv, TypeOK, StartAction, Arrive
<1>3. r.org \in Org /\ j \in Job /\ j.kind # "nightly" /\ j.asked = {r}
      /\ RequestedDates(r) \in SUBSET Date
  BY <1>2, AcceptedType DEF Accepted, StartAction
<1>4. st \in Store /\ SameTruth(file, st) /\ st.progress = file.progress
  BY <1>1, <1>2, <1>3, RecordRunStore
<1>5. Faithful(st) /\ \A o \in Org : Covers(st, o)
  BY <1>1, <1>4, SameTruthIsFaithful DEF Covers, MissingBefore, SameTruth
<1> HIDE DEF j, st
<1>6. /\ pc'[s] = "running" /\ mem'[s] = st /\ job'[s] = j /\ orgs'[s] = <<r.org>>
      /\ tasks'[s] = RequestedDates(r)
      /\ \A q \in Session \ {s} : Same(q)
  BY <1>1, <1>2 DEF TypeOK, StartAction, Same, st, j
<1>7. TypeOK'
  <2>1. <<r.org>> \in Seq(Org)
    BY <1>3
  <2>2. pc' \in [Session -> Stage] /\ mem' \in [Session -> Store]
    BY <1>1, <1>2, <1>4 DEF TypeOK, StartAction, Stage, st
  <2>3. job' \in [Session -> Job \cup {NoJob}] /\ orgs' \in [Session -> Seq(Org)]
        /\ tasks' \in [Session -> SUBSET Date]
    BY <1>2, <1>3, <2>1 DEF TypeOK, StartAction, j
  <2>4. overlap' \in BOOLEAN
    BY <1>2 DEF StartAction, TypeOK
  <2> QED  BY <1>2, <2>2, <2>3, <2>4 DEF TypeOK, StartAction
<1>8. FileInv'
  BY DEF PInv, FileInv, Intact, StartAction
<1>9. AloneInv'
  BY <1>4, <1>6, StartAlone DEF StartAction, Arrive
<1>10. SessionInv(s)'
  BY <1>3, <1>5, <1>6 DEF SessionInv, Open
<1>11. AskedInv(s)'
  BY <1>3, <1>6 DEF AskedInv
<1> QED  BY <1>6, <1>7, <1>8, <1>9, <1>10, <1>11, StepOf

(* A step of a session on its own copy of the store.                       *)
LEMMA OwnStep ==
  ASSUME PInv, NEW s \in Session, pc[s] \notin {"idle", "writing"}, pc'[s] \notin {"idle", "writing"},
         UNCHANGED <<file, answers, overlap, cutShort>>, mem[s].attempts \subseteq mem'[s].attempts,
         TypeOK', SessionInv(s)', AskedInv(s)', \A q \in Session \ {s} : Same(q)
  PROVE  PInv'
<1>1. FileInv'
  BY DEF PInv, FileInv, Intact
<1>2. AloneInv'
  <2> SUFFICES ASSUME ~ overlap  PROVE AloneInv'
    BY DEF AloneInv
  <2>1. \A q \in Session \ {s} : pc[q] = "idle" /\ pc'[q] = "idle"
    BY DEF PInv, AloneInv, Same
  <2>2. Holds(mem[s]) /\ (Intact => Holds(file))
    BY DEF PInv, AloneInv
  <2>3. Holds(mem'[s])
    BY <2>2 DEF Holds, Attempted
  <2>4. Holds(mem[s])' /\ (Intact' => Holds(file)')
    BY <2>2, <2>3 DEF Holds, Intact
  <2>5. ~ cutShort' => Intact'
    BY <2>1 DEF PInv, AloneInv, Intact
  <2> QED  BY <2>1, <2>4, <2>5 DEF AloneInv
<1> QED  BY <1>1, <1>2, StepOf

LEMMA NightDoneStep ==
  ASSUME PInv, NEW s \in Session, NightDone(s)
  PROVE  PInv'
<1>1. /\ TypeOK' /\ pc'[s] = "saving" /\ mem'[s] = mem[s] /\ job'[s] = job[s]
      /\ \A q \in Session \ {s} : Same(q)
  BY DEF NightDone, PInv, TypeOK, Stage, Same
<1>2. SessionInv(s)' /\ AskedInv(s)'
  BY <1>1 DEF NightDone, PInv, SessionInv, AskedInv, Open
<1> QED  BY <1>1, <1>2, OwnStep DEF NightDone

(* What build_plan makes of the store, and the tasks it leaves.            *)
LEMMA PlanOrgEffect ==
  ASSUME PInv, NEW s \in Session, PlanOrg(s)
  PROVE  LET org == Head(orgs[s])
             pp  == Reconcile(mem[s], org, NightlyStart, job[s].target)
             new == Planned(pp, org, NightlyStart, job[s].target)
         IN  /\ org \in Org /\ job[s] \in Job
             /\ new \in SUBSET Date
             /\ tasks'[s] = {job[s].target} \cup new
             /\ mem'[s] \in Store /\ SameTruth(mem[s], mem'[s])
             /\ \A o \in Org \ {org} : Covers(mem'[s], o)
             /\ \A e \in Endpoint : mem'[s].progress[org][e].gaps
                  = PlanGaps(pp, org, e, NightlyStart, job[s].target) \ new
             /\ mem' = [mem EXCEPT ![s] = mem'[s]] /\ tasks' = [tasks EXCEPT ![s] = tasks'[s]]
<1> DEFINE org == Head(orgs[s])
           pp  == Reconcile(mem[s], org, NightlyStart, job[s].target)
           new == Planned(pp, org, NightlyStart, job[s].target)
           dd  == Dispatched(pp, org, NightlyStart, job[s].target)
           rr  == RecordRun(dd, job[s].trace, org)
<1>1. /\ org \in Org /\ job[s] \in Job /\ mem[s] \in Store /\ job[s].from = NightlyStart
      /\ job[s].target \in Date /\ job[s].trace \in Nat /\ NightlyStart \in Date
      /\ \A o \in Org : Covers(mem[s], o)
  <2>1. orgs[s] \in Seq(Org) /\ orgs[s] # << >>
    BY DEF PInv, TypeOK, PlanOrg
  <2>2. Head(orgs[s]) \in Org
    BY <2>1
  <2> QED  BY <2>2, TruthPlaneAssumption DEF PInv, TypeOK, SessionInv, PlanOrg, Job, Open
<1>2. pp \in Store /\ SameTruth(mem[s], pp) /\ \A o \in Org : Covers(pp, o)
  BY <1>1, ReconcileStore
<1>3. new \in SUBSET Date
  BY <1>1, PlanTypes
<1>4. /\ dd \in Store /\ SameTruth(pp, dd)
      /\ \A o \in Org \ {org} : Covers(dd, o)
      /\ \A e \in Endpoint : dd.progress[org][e].gaps
           = PlanGaps(pp, org, e, NightlyStart, job[s].target) \ new
  BY <1>1, <1>2, DispatchedStore
<1>5. rr \in Store /\ SameTruth(dd, rr) /\ rr.progress = dd.progress
  BY <1>1, <1>4, RecordRunStore
<1>6. mem' = [mem EXCEPT ![s] = rr] /\ tasks' = [tasks EXCEPT ![s] = {job[s].target} \cup new]
  BY <1>1 DEF PlanOrg, Prepared
<1> HIDE DEF org, pp, new, dd, rr
<1>7. mem'[s] = rr /\ tasks'[s] = {job[s].target} \cup new
  BY <1>6 DEF PInv, TypeOK
<1>8. SameTruth(mem[s], rr)
  BY <1>2, <1>4, <1>5 DEF SameTruth
<1>9. \A o \in Org \ {org} : Covers(rr, o)
  BY <1>4, <1>5 DEF Covers, MissingBefore, SameTruth
<1> QED  BY <1>1, <1>3, <1>4, <1>5, <1>6, <1>7, <1>8, <1>9 DEF org, pp, new

LEMMA PlanOrgStep ==
  ASSUME PInv, NEW s \in Session, PlanOrg(s)
  PROVE  PInv'
<1> DEFINE org == Head(orgs[s])
<1>1. /\ org \in Org /\ job[s] \in Job /\ tasks'[s] \in SUBSET Date
      /\ mem'[s] \in Store /\ SameTruth(mem[s], mem'[s])
      /\ \A o \in Org \ {org} : Covers(mem'[s], o)
      /\ mem' = [mem EXCEPT ![s] = mem'[s]] /\ tasks' = [tasks EXCEPT ![s] = tasks'[s]]
  BY PlanOrgEffect DEF Job
<1>2. /\ pc'[s] = "running" /\ job'[s] = job[s] /\ orgs'[s] = orgs[s]
      /\ \A q \in Session \ {s} : Same(q)
  BY <1>1 DEF PlanOrg, PInv, TypeOK, Same
<1>3. TypeOK'
  BY <1>1 DEF PlanOrg, PInv, TypeOK, Stage
<1>4. Faithful(mem'[s])
  BY <1>1, SameTruthIsFaithful DEF PInv, SessionInv
<1>5. SessionInv(s)'
  BY <1>1, <1>2, <1>4 DEF PlanOrg, PInv, SessionInv, Open
<1>6. AskedInv(s)'
  BY <1>2 DEF PlanOrg, PInv, SessionInv, AskedInv
<1> QED  BY <1>1, <1>2, <1>3, <1>5, <1>6, OwnStep DEF PlanOrg, SameTruth

LEMMA ExecuteTaskStep ==
  ASSUME PInv, NEW s \in Session, NEW d \in Date, NEW ok \in SUBSET Endpoint,
         ExecuteTask(s, d, ok)
  PROVE  PInv'
<1> DEFINE org == Head(orgs[s])
           st  == Persist(mem[s], org, d, ok)
<1>1. /\ TypeOK /\ org \in Org /\ mem[s] \in Store /\ Faithful(mem[s]) /\ job[s] \in Job
  <2>1. orgs[s] \in Seq(Org) /\ orgs[s] # << >>
    BY DEF PInv, TypeOK, SessionInv, ExecuteTask
  <2>2. Head(orgs[s]) \in Org
    BY <2>1
  <2> QED  BY <2>2 DEF PInv, TypeOK, SessionInv, ExecuteTask
<1>2. st \in Store /\ Faithful(st) /\ \A o \in Org : Covers(mem[s], o) => Covers(st, o)
  BY <1>1, PersistStore
<1>3. st.attempts = mem[s].attempts \cup EndpointRuns(org, d, ok)
  BY <1>1 DEF Persist, Store
<1>4. Attempted(st, org, d) /\ \A o, x : Attempted(mem[s], o, x) => Attempted(st, o, x)
  <2>1. \A e \in Endpoint : \E run \in EndpointRuns(org, d, ok) :
          run.org = org /\ run.endpoint = e /\ run.date = d
    <3> SUFFICES ASSUME NEW e \in Endpoint
                 PROVE  \E run \in EndpointRuns(org, d, ok) :
                          run.org = org /\ run.endpoint = e /\ run.date = d
      OBVIOUS
    <3> DEFINE run == [org |-> org, endpoint |-> e, date |-> d, ok |-> e \in ok]
    <3>1. run \in EndpointRuns(org, d, ok)
      BY DEF EndpointRuns
    <3>2. run.org = org /\ run.endpoint = e /\ run.date = d
      OBVIOUS
    <3> HIDE DEF run
    <3> QED  BY <3>1, <3>2
  <2> QED  BY <1>3, <2>1 DEF Attempted
<1> HIDE DEF st
<1>5. /\ pc'[s] = "running" /\ pc[s] = "running" /\ mem'[s] = st /\ job'[s] = job[s]
      /\ orgs'[s] = orgs[s] /\ tasks'[s] = tasks[s] \ {d}
      /\ \A q \in Session \ {s} : Same(q)
  BY <1>1 DEF ExecuteTask, TypeOK, Same, st
<1>6. TypeOK'
  <2>1. RunOutcome(ok) \in {"completed", "partial_failed", "failed"}
    BY DEF RunOutcome
  <2>2. mem' \in [Session -> Store]
    BY <1>1, <1>2 DEF ExecuteTask, TypeOK, st
  <2>3. /\ tasks' \in [Session -> SUBSET Date] /\ ran' \in [Session -> SUBSET Date]
        /\ outcomes' \in [Session -> SUBSET {"completed", "partial_failed", "failed"}]
    BY <1>1, <2>1 DEF ExecuteTask, TypeOK
  <2> QED  BY <1>1, <2>2, <2>3 DEF ExecuteTask, TypeOK
<1>7. SessionInv(s)'
  BY <1>1, <1>2, <1>5 DEF PInv, SessionInv, Open
<1>8. AskedInv(s)'
  <2> SUFFICES ASSUME NEW r \in job[s].asked
               PROVE  /\ Head(orgs[s]) = r.org /\ job[s].kind # "nightly"
                      /\ \A x \in RequestedDates(r) :
                           x \in tasks[s] \ {d} \/ Attempted(st, r.org, x)
    BY <1>5 DEF AskedInv
  <2>1. org = r.org /\ job[s].kind # "nightly" /\ \A x \in RequestedDates(r) : x \in tasks[s] \/ Attempted(mem[s], r.org, x)
    BY <1>5 DEF PInv, AskedInv
  <2> QED  BY <1>4, <2>1
<1> QED  BY <1>3, <1>5, <1>6, <1>7, <1>8, OwnStep DEF ExecuteTask, st

LEMMA CloseOrgStep ==
  ASSUME PInv, NEW s \in Session, CloseOrg(s)
  PROVE  PInv'
<1> DEFINE org == Head(orgs[s])
           st  == IF job[s].kind = "rerun" THEN mem[s]
                  ELSE Reconcile(mem[s], org, job[s].from, job[s].target)
           tt  == FinalizeRun(st, job[s].trace, ran[s], outcomes[s])
<1>1. /\ TypeOK /\ org \in Org /\ mem[s] \in Store /\ Faithful(mem[s]) /\ job[s] \in Job
      /\ Tail(orgs[s]) \in Seq(Org)
  <2>1. orgs[s] \in Seq(Org) /\ orgs[s] # << >>
    BY DEF PInv, TypeOK, SessionInv, CloseOrg
  <2>2. Head(orgs[s]) \in Org /\ Tail(orgs[s]) \in Seq(Org)
    BY <2>1
  <2> QED  BY <2>2 DEF PInv, TypeOK, SessionInv, CloseOrg
<1>2. /\ job[s].from \in Date /\ job[s].target \in Date /\ job[s].trace \in Nat
      /\ ran[s] \in SUBSET Date
  BY <1>1 DEF Job, TypeOK
<1>3. st \in Store /\ SameTruth(mem[s], st) /\ \A o \in Org : Covers(st, o)
  <2>1. \A o \in Org : Covers(mem[s], o) \/ (job[s].kind = "nightly" /\ o = org)
    BY DEF PInv, SessionInv, Open
  <2>2. CASE job[s].kind = "rerun"
    BY <1>1, <2>1, <2>2 DEF SameTruth
  <2>3. CASE job[s].kind # "rerun"
    BY <1>1, <1>2, <2>1, <2>3, ReconcileStore
  <2> QED  BY <2>2, <2>3
<1> HIDE DEF st
<1>4. tt \in Store /\ SameTruth(st, tt) /\ tt.progress = st.progress
  BY <1>2, <1>3, FinalizeRunStore
<1>5. Faithful(tt) /\ SameTruth(mem[s], tt) /\ \A o \in Org : Covers(tt, o)
  <2>1. SameTruth(mem[s], tt)
    BY <1>3, <1>4 DEF SameTruth
  <2>2. Faithful(tt)
    BY <1>1, <2>1, SameTruthIsFaithful
  <2> QED  BY <1>3, <1>4, <2>1, <2>2 DEF Covers, MissingBefore, SameTruth
<1>6. mem' = [mem EXCEPT ![s] = tt]
  BY DEF CloseOrg, Closed, st
<1> HIDE DEF tt
<1>7. /\ pc'[s] = IF job[s].kind = "nightly" THEN "planning" ELSE "saving"
      /\ mem'[s] = tt /\ job'[s] = job[s] /\ tasks[s] = {} /\ pc[s] = "running"
      /\ \A q \in Session \ {s} : Same(q)
  BY <1>1, <1>6 DEF CloseOrg, TypeOK, Same
<1>8. TypeOK'
  <2>1. mem' \in [Session -> Store] /\ orgs' \in [Session -> Seq(Org)]
    BY <1>1, <1>4, <1>6 DEF CloseOrg, TypeOK
  <2>2. pc' \in [Session -> Stage]
    BY <1>1 DEF CloseOrg, TypeOK, Stage
  <2> QED  BY <1>1, <2>1, <2>2 DEF CloseOrg, TypeOK
<1>9. SessionInv(s)'
  BY <1>1, <1>5, <1>7 DEF PInv, SessionInv, Open
<1>10. AskedInv(s)'
  <2> SUFFICES ASSUME NEW r \in job[s].asked
               PROVE  /\ pc'[s] = "saving"
                      /\ \A x \in RequestedDates(r) : Attempted(tt, r.org, x)
    BY <1>7 DEF AskedInv
  <2>1. job[s].kind # "nightly"
    BY DEF PInv, AskedInv
  <2>2. \A x \in RequestedDates(r) : Attempted(mem[s], r.org, x)
    BY <1>7 DEF PInv, AskedInv
  <2> QED  BY <1>5, <1>7, <2>1, <2>2 DEF Attempted, SameTruth
<1> QED  BY <1>5, <1>7, <1>8, <1>9, <1>10, OwnStep DEF CloseOrg, SameTruth

-----------------------------------------------------------------------------
LEMMA StepPInv == PInv /\ [Next]_vars => PInv'
<1> SUFFICES ASSUME PInv, [Next]_vars  PROVE PInv'
  OBVIOUS
<1>1. ASSUME NEW s \in Session, NEW target \in Date, StartNightly(s, target)  PROVE PInv'
  BY <1>1, StartNightlyStep
<1>2. ASSUME NEW s \in Session, NEW r \in Request,
             Refuse(s, r) \/ RaiseOnWindow(s, r) \/ ReportStatus(s, r) \/ StartAction(s, r)
      PROVE  PInv'
  BY <1>2, RefuseStep, RaiseStep, ReportStep, StartActionStep
<1>3. ASSUME NEW s \in Session, PlanOrg(s) \/ CloseOrg(s) \/ NightDone(s)  PROVE PInv'
  BY <1>3, PlanOrgStep, CloseOrgStep, NightDoneStep
<1>4. ASSUME NEW s \in Session, NEW d \in Date, NEW ok \in SUBSET Endpoint, ExecuteTask(s, d, ok)
      PROVE  PInv'
  BY <1>4, ExecuteTaskStep
<1>5. ASSUME NEW s \in Session, Truncate(s) \/ Write(s) \/ Die(s)  PROVE PInv'
  BY <1>5, TruncateStep, WriteStep, DieStep
<1>6. CASE UNCHANGED vars
  <2>1. \A s \in Session : Same(s)
    BY <1>6 DEF vars, session, Same
  <2>2. \A s \in Session : SessionInv(s)' /\ AskedInv(s)'
    BY <2>1, SessionFrame DEF PInv
  <2>3. TypeOK' /\ FileInv' /\ AloneInv'
    BY <1>6 DEF PInv, TypeOK, FileInv, AloneInv, Holds, Intact, vars, session
  <2> QED  BY <2>2, <2>3 DEF PInv
<1> QED  BY <1>1, <1>2, <1>3, <1>4, <1>5, <1>6 DEF Next

LEMMA AlwaysPInv == Spec => []PInv
BY InitPInv, StepPInv, PTL DEF Spec

(* Types: every store that is ever in memory or in the file is a store.    *)
THEOREM PlaneTypeCorrect == Spec => []TypeOK
<1>1. PInv => TypeOK
  BY DEF PInv
<1> QED  BY <1>1, AlwaysPInv, PTL

(* Whatever reruns and backfills came last, in whatever order and however  *)
(* sessions overlapped, the latest state of an endpoint is the newest date *)
(* its successful runs delivered.                                          *)
THEOREM LatestStateIsNewest == Spec => []LatestIsNewest
<1>1. PInv => LatestIsNewest
  BY FaithfulSays DEF PInv, TypeOK, FileInv, SessionInv, LatestIsNewest, Intact
<1> QED  BY <1>1, AlwaysPInv, PTL

(* The completed dates are in memory only, and a reload rebuilds exactly   *)
(* what the session that wrote the file knew.                              *)
THEOREM NothingIsForgotten == Spec => []ReloadForgetsNothing
<1>1. PInv => ReloadForgetsNothing
  BY RebuiltIsCompleted DEF PInv, TypeOK, SessionInv, ReloadForgetsNothing
<1> QED  BY <1>1, AlwaysPInv, PTL

(* A capability is ready for a date only with every endpoint's data for it. *)
THEOREM ReadinessIsComplete == Spec => []ReadyIsComplete
<1>1. PInv => ReadyIsComplete
  BY LoadedIsSaved, FaithfulSays DEF ReadyIsComplete, Intact
<1> QED  BY <1>1, AlwaysPInv, PTL

(* The progress rows in the file hide no gap of their own window.          *)
THEOREM ProgressHidesNoGap == Spec => []ProgressCovers
<1>1. ASSUME PInv, Intact  PROVE ProgressCoversIn(FromSnapshot(file))
  <2>1. FromSnapshot(file) = file /\ \A o \in Org : Covers(file, o)
    BY <1>1, LoadedIsSaved DEF PInv, FileInv, Intact
  <2> QED  BY <2>1 DEF ProgressCoversIn, Covers
<1>2. PInv => ProgressCovers
  BY <1>1 DEF ProgressCovers
<1> QED  BY <1>2, AlwaysPInv, PTL

(* As long as sessions follow one another and none dies inside its write,  *)
(* what an operator was told is served is in the file, or in the memory of *)
(* the session that is rewriting it.                                       *)
THEOREM WhatIsServedStays == Spec => []ServedIsDurable
<1>1. ASSUME PInv, ~ overlap, ~ cutShort, NEW a \in answers, a.service = "served",
             a.request.capability \notin ReadOnly,
             NEW d \in RequestedDates(a.request), NEW e \in Endpoint
      PROVE  \E run \in EndpointRun : /\ run.org = a.request.org /\ run.endpoint = e
                                      /\ run.date = d /\ Kept(run)
  <2>1. ASSUME NEW st \in Store, Holds(st)
        PROVE  \E run \in st.attempts : /\ run \in EndpointRun /\ run.org = a.request.org
                                        /\ run.endpoint = e /\ run.date = d
    <3>1. Attempted(st, a.request.org, d) /\ st.attempts \subseteq EndpointRun
      BY <1>1, <2>1 DEF Holds, Store
    <3> QED  BY <3>1 DEF Attempted
  <2>2. CASE Intact
    <3>1. file \in Store /\ Holds(file)
      BY <1>1, <2>2 DEF PInv, TypeOK, AloneInv, Intact
    <3> QED  BY <2>1, <2>2, <3>1 DEF Kept
  <2>3. CASE ~ Intact
    <3>1. PICK s \in Session : pc[s] = "writing"
      BY <1>1, <2>3 DEF PInv, AloneInv
    <3>2. mem[s] \in Store /\ Holds(mem[s])
      BY <1>1, <3>1 DEF PInv, TypeOK, AloneInv
    <3> QED  BY <2>1, <2>3, <3>1, <3>2 DEF Kept
  <2> QED  BY <2>2, <2>3
<1>2. PInv => ServedIsDurable
  BY <1>1 DEF ServedIsDurable
<1> QED  BY <1>2, AlwaysPInv, PTL

(* The nightly plan of an org dispatches or keeps every date it still      *)
(* misses, and leaves no newer gap behind a planned one.                   *)
THEOREM NightMissesNoGap == Spec => NightFindsEveryGap
<1>1. ASSUME PInv, [Next]_vars, NEW s \in Session, pc[s] = "planning", pc'[s] = "running"
      PROVE  LET kept == mem'[s].progress[Head(orgs[s])] IN
             /\ \A e \in Endpoint : TrueGaps(s, e) \subseteq tasks'[s] \cup kept[e].gaps
             /\ \A d \in tasks'[s] \ {job[s].target}, e \in Endpoint :
                  \A gap \in TrueGaps(s, e) : gap > d => gap \in tasks'[s]
  <2> DEFINE org == Head(orgs[s])
             pp  == Reconcile(mem[s], org, NightlyStart, job[s].target)
             new == Planned(pp, org, NightlyStart, job[s].target)
  <2>1. PlanOrg(s)
    <3>1. pc \in [Session -> Stage]
      BY <1>1 DEF PInv, TypeOK
    <3> QED  BY <1>1, <3>1 DEF Next, StartNightly, Refuse, RaiseOnWindow, ReportStatus, StartAction,
               PlanOrg, ExecuteTask, CloseOrg, NightDone, Truncate, Write, Die, End, Arrive,
               vars, session
  <2>2. /\ org \in Org /\ job[s] \in Job /\ new \in SUBSET Date
        /\ tasks'[s] = {job[s].target} \cup new
        /\ \A e \in Endpoint : mem'[s].progress[org][e].gaps
             = PlanGaps(pp, org, e, NightlyStart, job[s].target) \ new
    BY <1>1, <2>1, PlanOrgEffect
  <2>3. mem[s] \in Store /\ NightlyStart \in Date /\ job[s].target \in Date
    BY <1>1, <2>2, TruthPlaneAssumption DEF PInv, TypeOK, Job
  <2>4. \A e \in Endpoint :
          /\ PlanGaps(pp, org, e, NightlyStart, job[s].target)
               = MissingBefore(mem[s], org, e, NightlyStart, job[s].target)
          /\ \A d \in new : \A gap \in MissingBefore(mem[s], org, e, NightlyStart, job[s].target) :
               gap > d => gap \in new
    BY <2>2, <2>3, PlanIsNewestFirst
  <2> HIDE DEF pp, new
  <2>5. ASSUME NEW e \in Endpoint
        PROVE  TrueGaps(s, e) = MissingBefore(mem[s], org, e, NightlyStart, job[s].target)
    <3>1. mem[s].completed[org][e] = Done(mem[s], org, e)
      BY <1>1, <2>2 DEF PInv, SessionInv, Faithful, FaithfulFor
    <3>2. NightlyStart .. job[s].target - 1 \subseteq Date
      BY <2>3, TruthStoreAssumption DEF Date
    <3> QED  BY <3>1, <3>2 DEF TrueGaps, MissingBefore, Done, Run
  <2> QED  BY <2>2, <2>4, <2>5
<1>2. PInv /\ [Next]_vars =>
        [\A s \in Session : pc[s] = "planning" /\ pc'[s] = "running" =>
           LET kept == mem'[s].progress[Head(orgs[s])] IN
           /\ \A e \in Endpoint : TrueGaps(s, e) \subseteq tasks'[s] \cup kept[e].gaps
           /\ \A d \in tasks'[s] \ {job[s].target}, e \in Endpoint :
                \A gap \in TrueGaps(s, e) : gap > d => gap \in tasks'[s]]_vars
  BY <1>1
<1> QED  BY <1>2, AlwaysPInv, PTL DEF Spec, NightFindsEveryGap
-----------------------------------------------------------------------------
(***************************************************************************)
(* The records of scheduler runs.  A session finalizes the first record    *)
(* with its trace ref.  As long as a night has one org, the records with   *)
(* that ref are those of the org the session runs, and what it has run     *)
(* without a failure it has delivered.                                     *)
(***************************************************************************)
OneNightlyOrg == Len(NightlyOrgs) <= 1

Delivered(st, o, dates) == \A d \in dates, e \in Endpoint : d \in Done(st, o, e)

RunsHonest(st) == \A i \in DOMAIN st.runs :
  st.runs[i].status = "completed" => Delivered(st, st.runs[i].org, st.runs[i].dates)

TracesUpTo(st, n) == \A i \in DOMAIN st.runs : st.runs[i].trace <= n

\* the records with this trace ref, if any, are those of o
RowsOf(st, trace, o) == \A i \in DOMAIN st.runs : st.runs[i].trace = trace => st.runs[i].org = o

NoRowOf(st, trace) == \A i \in DOMAIN st.runs : st.runs[i].trace # trace

RecordInv(s) ==
  /\ RunsHonest(mem[s]) /\ TracesUpTo(mem[s], started)
  /\ job[s].trace <= started
  /\ pc[s] \in {"planning", "running"} => Len(orgs[s]) <= 1
  /\ pc[s] = "planning" => orgs[s] = << >> \/ NoRowOf(mem[s], job[s].trace)
  /\ pc[s] = "running" =>
       /\ RowsOf(mem[s], job[s].trace, Head(orgs[s]))
       /\ outcomes[s] \subseteq {"completed"} => Delivered(mem[s], Head(orgs[s]), ran[s])
  /\ pc[s] = "idle" => ran[s] = {} /\ outcomes[s] = {}

FileRecords == Intact => RunsHonest(file) /\ TracesUpTo(file, started)

RunInv == FileRecords /\ \A s \in Session : RecordInv(s)

(* What is recorded of a run stays true while endpoint runs are added.     *)
LEMMA DeliveredStays ==
  ASSUME NEW st, NEW tt, st.attempts \subseteq tt.attempts
  PROVE  /\ \A o, dates : Delivered(st, o, dates) => Delivered(tt, o, dates)
         /\ tt.runs = st.runs /\ RunsHonest(st) => RunsHonest(tt)
<1>1. \A o, dates : Delivered(st, o, dates) => Delivered(tt, o, dates)
  BY DEF Delivered, Done
<1> QED  BY <1>1 DEF RunsHonest

LEMMA RunsAre ==
  ASSUME NEW st \in Store
  PROVE  /\ Len(st.runs) \in Nat /\ DOMAIN st.runs = 1 .. Len(st.runs)
         /\ \A i \in DOMAIN st.runs : st.runs[i] \in SchedulerRun
<1>1. st.runs \in Seq(SchedulerRun)
  BY DEF Store
<1>2. Len(st.runs) \in Nat /\ DOMAIN st.runs = 1 .. Len(st.runs)
  BY <1>1, LenProperties
<1> QED  BY <1>1, <1>2, ElementOfSeq

LEMMA RecordRunRows ==
  ASSUME NEW st \in Store, NEW trace \in Nat, NEW org \in Org, NEW tt,
         tt.runs = RecordRun(st, trace, org).runs, st.attempts \subseteq tt.attempts,
         RunsHonest(st)
  PROVE  /\ RunsHonest(tt)
         /\ \A n \in Nat : TracesUpTo(st, n) /\ trace <= n => TracesUpTo(tt, n)
         /\ NoRowOf(st, trace) => RowsOf(tt, trace, org)
<1> DEFINE row == [trace |-> trace, org |-> org, dates |-> {}, status |-> "running"]
<1>1. tt.runs = Append(st.runs, row)
  BY DEF RecordRun, Store
<1>2. Len(st.runs) \in Nat /\ DOMAIN st.runs = 1 .. Len(st.runs) /\ st.runs \in Seq(SchedulerRun)
  BY RunsAre DEF Store
<1>3. row \in SchedulerRun
  BY DEF SchedulerRun, RunStatus
<1>4. /\ DOMAIN tt.runs = 1 .. Len(st.runs) + 1
      /\ \A i \in DOMAIN tt.runs : \/ i \in DOMAIN st.runs /\ tt.runs[i] = st.runs[i]
                                   \/ tt.runs[i] = row
  <2>1. /\ Len(Append(st.runs, row)) = Len(st.runs) + 1
        /\ \A i \in 1 .. Len(st.runs) : Append(st.runs, row)[i] = st.runs[i]
        /\ Append(st.runs, row)[Len(st.runs) + 1] = row
        /\ DOMAIN Append(st.runs, row) = 1 .. Len(st.runs) + 1
    BY <1>2, <1>3, AppendProperties
  <2> QED  BY <1>1, <1>2, <2>1
<1>5. row.status # "completed" /\ row.trace = trace /\ row.org = org
  OBVIOUS
<1> HIDE DEF row
<1>6. RunsHonest(tt)
  <2> SUFFICES ASSUME NEW i \in DOMAIN tt.runs, tt.runs[i].status = "completed"
               PROVE  Delivered(tt, tt.runs[i].org, tt.runs[i].dates)
    BY DEF RunsHonest
  <2>1. i \in DOMAIN st.runs /\ tt.runs[i] = st.runs[i]
    BY <1>4, <1>5
  <2>2. Delivered(st, st.runs[i].org, st.runs[i].dates)
    BY <2>1 DEF RunsHonest
  <2> QED  BY <2>1, <2>2, DeliveredStays
<1>7. \A n \in Nat : TracesUpTo(st, n) /\ trace <= n => TracesUpTo(tt, n)
  BY <1>4, <1>5 DEF TracesUpTo
<1>8. NoRowOf(st, trace) => RowsOf(tt, trace, org)
  BY <1>4, <1>5 DEF NoRowOf, RowsOf
<1> QED  BY <1>6, <1>7, <1>8

(* Finalizing keeps traces and orgs, and completes a record only with the  *)
(* dates the session ran, for the org its records are of.                  *)
LEMMA FinalizeRunRows ==
  ASSUME NEW st \in Store, NEW trace \in Nat, NEW dates \in SUBSET Date, NEW outs, NEW org,
         NEW tt, tt.runs = FinalizeRun(st, trace, dates, outs).runs, tt.attempts = st.attempts,
         RunsHonest(st), RowsOf(st, trace, org),
         outs \subseteq {"completed"} => Delivered(st, org, dates)
  PROVE  /\ RunsHonest(tt)
         /\ \A n \in Nat : TracesUpTo(st, n) => TracesUpTo(tt, n)
<1> DEFINE first(i) == IsFirstOf(st.runs, i, trace)
<1>1. /\ Len(st.runs) \in Nat /\ DOMAIN st.runs = 1 .. Len(st.runs)
      /\ \A i \in DOMAIN st.runs : st.runs[i] \in SchedulerRun
  BY RunsAre
<1>2. tt.runs = [i \in DOMAIN st.runs |->
         IF first(i) THEN [st.runs[i] EXCEPT !.status = WorkflowStatus(outs), !.dates = dates]
         ELSE st.runs[i]]
  BY DEF FinalizeRun, Store
<1>3. \A i \in DOMAIN st.runs : first(i) => st.runs[i].trace = trace
  BY DEF IsFirstOf
<1> HIDE DEF first
<1>4. /\ DOMAIN tt.runs = DOMAIN st.runs
      /\ \A i \in DOMAIN st.runs : tt.runs[i].trace = st.runs[i].trace
      /\ \A i \in DOMAIN st.runs : first(i) => /\ tt.runs[i].org = st.runs[i].org
                                               /\ tt.runs[i].status = WorkflowStatus(outs)
                                               /\ tt.runs[i].dates = dates
      /\ \A i \in DOMAIN st.runs : ~ first(i) => tt.runs[i] = st.runs[i]
  BY <1>1, <1>2 DEF SchedulerRun
<1>5. WorkflowStatus(outs) = "completed" => outs \subseteq {"completed"}
  BY DEF WorkflowStatus
<1>6. RunsHonest(tt)
  <2> SUFFICES ASSUME NEW i \in DOMAIN st.runs, tt.runs[i].status = "completed"
               PROVE  Delivered(st, tt.runs[i].org, tt.runs[i].dates)
    BY <1>4 DEF RunsHonest, Delivered, Done
  <2>1. CASE first(i)
    BY <1>3, <1>4, <1>5, <2>1 DEF RowsOf
  <2>2. CASE ~ first(i)
    BY <1>4, <2>2 DEF RunsHonest
  <2> QED  BY <2>1, <2>2
<1>7. \A n \in Nat : TracesUpTo(st, n) => TracesUpTo(tt, n)
  BY <1>4 DEF TracesUpTo
<1> QED  BY <1>6, <1>7

(* A step that touches neither session q nor the count of sessions but to  *)
(* add one.                                                                *)
LEMMA RecordFrame ==
  ASSUME TypeOK, started' \in {started, started + 1}, NEW q \in Session, RecordInv(q),
         Same(q), ran'[q] = ran[q], outcomes'[q] = outcomes[q]
  PROVE  RecordInv(q)'
<1>1. mem[q] \in Store /\ started \in Nat /\ started' >= started /\ job[q].trace \in Nat
  BY DEF TypeOK, Job, NoJob
<1>2. \A i \in DOMAIN mem[q].runs : mem[q].runs[i].trace \in Nat
  BY <1>1, RunsAre DEF SchedulerRun
<1>3. TracesUpTo(mem[q], started)' /\ (job[q].trace <= started)'
  BY <1>1, <1>2 DEF RecordInv, TracesUpTo, Same
<1> QED  BY <1>3 DEF RecordInv, RunsHonest, RowsOf, NoRowOf, Delivered, Done, Same

LEMMA FileRecordsFrame ==
  ASSUME PInv, FileRecords, started' \in {started, started + 1}, file' = file
  PROVE  FileRecords'
<1> SUFFICES ASSUME Intact  PROVE RunsHonest(file)' /\ TracesUpTo(file, started)'
  BY DEF FileRecords, Intact
<1>1. file \in Store /\ started \in Nat /\ started' >= started
  BY LoadedIsSaved DEF PInv, TypeOK, Intact
<1>2. \A i \in DOMAIN file.runs : file.runs[i].trace \in Nat
  BY <1>1, RunsAre DEF SchedulerRun
<1>3. TracesUpTo(file, started)'
  BY <1>1, <1>2 DEF FileRecords, TracesUpTo
<1> QED  BY <1>3 DEF FileRecords, RunsHonest, Delivered, Done

\* a step that leaves the runs of session q as they are
SameRun(q) == Same(q) /\ ran'[q] = ran[q] /\ outcomes'[q] = outcomes[q]

LEMMA RunStepOf ==
  ASSUME PInv, RunInv, NEW s \in Session, started' \in {started, started + 1}, FileRecords',
         RecordInv(s)', \A q \in Session \ {s} : SameRun(q)
  PROVE  RunInv'
<1>1. ASSUME NEW q \in Session  PROVE RecordInv(q)'
  BY RecordFrame DEF PInv, RunInv, SameRun
<1> QED  BY <1>1 DEF RunInv

LEMMA InitRunInv == Init => RunInv
BY DEF Init, RunInv, FileRecords, RecordInv, EmptyStore, NoJob, RunsHonest, TracesUpTo

LEMMA SavedRuns ==
  ASSUME PInv, RunInv, NEW s \in Session, Truncate(s) \/ Write(s) \/ Die(s)
  PROVE  RunInv'
<1>1. TypeOK /\ started' = started
  BY DEF PInv, Truncate, Write, Die
<1>2. FileRecords'
  <2>1. \/ file' = file
        \/ file' = Torn
        \/ file' = mem[s]
    BY DEF Truncate, Write, Die
  <2>2. CASE file' = file
    BY <1>1, <2>2, FileRecordsFrame DEF RunInv
  <2>3. CASE file' = Torn
    BY <2>3 DEF FileRecords, Intact
  <2>4. CASE file' = mem[s]
    BY <1>1, <2>4 DEF RunInv, RecordInv, FileRecords, RunsHonest, TracesUpTo, Delivered, Done
  <2> QED  BY <2>1, <2>2, <2>3, <2>4
<1>3. CASE Truncate(s)
  <2>1. \A q \in Session \ {s} : SameRun(q)
    BY <1>1, <1>3 DEF Truncate, SameRun, Same
  <2>2. RecordInv(s)'
    BY <1>1, <1>3 DEF Truncate, TypeOK, RunInv, RecordInv, RunsHonest, TracesUpTo, Delivered, Done
  <2> QED  BY <1>1, <1>2, <2>1, <2>2, RunStepOf
<1>4. CASE End(s)
  <2>1. \A q \in Session \ {s} : SameRun(q)
    BY <1>1, <1>4 DEF End, TypeOK, SameRun, Same
  <2>2. /\ pc'[s] = "idle" /\ mem'[s] = EmptyStore /\ job'[s] = NoJob /\ ran'[s] = {}
        /\ outcomes'[s] = {}
    BY <1>1, <1>4 DEF End, TypeOK
  <2>3. RecordInv(s)'
    BY <1>1, <2>2 DEF TypeOK, RecordInv, EmptyStore, NoJob, RunsHonest, TracesUpTo
  <2> QED  BY <1>1, <1>2, <2>1, <2>3, RunStepOf
<1> QED  BY <1>3, <1>4 DEF Write, Die

LEMMA StartedRuns ==
  ASSUME OneNightlyOrg, PInv, RunInv, NEW s \in Session,
         \/ \E target \in Date : StartNightly(s, target)
         \/ \E r \in Request : StartAction(s, r)
  PROVE  RunInv'
<1>1. /\ TypeOK /\ started \in Nat /\ started' = started + 1 /\ file' = file /\ Intact
      /\ pc[s] = "idle" /\ UNCHANGED <<ran, outcomes>>
  BY DEF PInv, TypeOK, Intact, StartNightly, StartAction, Arrive, Load
<1>2. file \in Store /\ FromSnapshot(file) = file
  BY <1>1, LoadedIsSaved DEF Intact
<1>3. RunsHonest(file) /\ TracesUpTo(file, started)
  BY <1>1 DEF RunInv, FileRecords
<1>4. TracesUpTo(file, started + 1) /\ NoRowOf(file, started + 1)
  <2>1. \A i \in DOMAIN file.runs : file.runs[i].trace \in Nat
    BY <1>2, RunsAre DEF SchedulerRun
  <2> QED  BY <1>1, <1>3, <2>1 DEF TracesUpTo, NoRowOf
<1>5. FileRecords'
  BY <1>1, FileRecordsFrame DEF RunInv
<1>6. ran[s] = {} /\ outcomes[s] = {}
  BY <1>1 DEF RunInv, RecordInv
<1>7. ASSUME NEW target \in Date, StartNightly(s, target)  PROVE RunInv'
  <2>1. \A q \in Session \ {s} : SameRun(q)
    BY <1>1, <1>7 DEF StartNightly, Load, TypeOK, SameRun, Same
  <2>2. /\ pc'[s] = "planning" /\ mem'[s] = file /\ job'[s].trace = started + 1
        /\ orgs'[s] = NightlyOrgs
    BY <1>1, <1>2, <1>7 DEF StartNightly, Load, TypeOK
  <2>3. RecordInv(s)'
    BY <1>1, <1>3, <1>4, <2>2
       DEF RecordInv, RunsHonest, TracesUpTo, NoRowOf, Delivered, Done, OneNightlyOrg
  <2> QED  BY <1>1, <1>5, <2>1, <2>3, RunStepOf
<1>8. ASSUME NEW r \in Request, StartAction(s, r)  PROVE RunInv'
  <2> DEFINE st == RecordRun(file, started + 1, r.org)
  <2>1. \A q \in Session \ {s} : SameRun(q)
    BY <1>1, <1>8 DEF StartAction, TypeOK, SameRun, Same
  <2>2. r.org \in Org /\ JobOf(r, started + 1).trace = started + 1
    BY <1>1, <1>8, AcceptedType DEF Accepted, StartAction, JobOf
  <2>3. st \in Store /\ SameTruth(file, st)
    BY <1>1, <1>2, <2>2, RecordRunStore
  <2>4. /\ RunsHonest(st) /\ TracesUpTo(st, started + 1) /\ RowsOf(st, started + 1, r.org)
    BY <1>1, <1>2, <1>3, <1>4, <2>2, <2>3, RecordRunRows DEF SameTruth
  <2> HIDE DEF st
  <2>5. /\ pc'[s] = "running" /\ mem'[s] = st /\ job'[s].trace = started + 1
        /\ orgs'[s] = <<r.org>>
    BY <1>1, <1>2, <1>8, <2>2 DEF StartAction, TypeOK, st
  <2>6. Len(orgs'[s]) = 1 /\ Head(orgs'[s]) = r.org
    BY <2>2, <2>5
  <2>7. Delivered(st, r.org, {})
    BY DEF Delivered
  <2>8. RecordInv(s)'
    BY <1>1, <1>6, <2>4, <2>5, <2>6, <2>7
       DEF RecordInv, RunsHonest, TracesUpTo, RowsOf, Delivered, Done
  <2> QED  BY <1>1, <1>5, <2>1, <2>8, RunStepOf
<1> QED  BY <1>7, <1>8

LEMMA PlannedRuns ==
  ASSUME PInv, RunInv, NEW s \in Session, PlanOrg(s)
  PROVE  RunInv'
<1> DEFINE org == Head(orgs[s])
           pp  == Reconcile(mem[s], org, job[s].from, job[s].target)
           dd  == Dispatched(pp, org, job[s].from, job[s].target)
           rr  == RecordRun(dd, job[s].trace, org)
<1>1. /\ TypeOK /\ started \in Nat /\ started' = started /\ file' = file
      /\ mem[s] \in Store /\ org \in Org /\ job[s] \in Job
      /\ job[s].from \in Date /\ job[s].target \in Date /\ job[s].trace \in Nat
  <2>1. orgs[s] \in Seq(Org) /\ orgs[s] # << >>
    BY DEF PInv, TypeOK, PlanOrg
  <2>2. Head(orgs[s]) \in Org
    BY <2>1
  <2> QED  BY <2>2 DEF PInv, TypeOK, SessionInv, PlanOrg, Job
<1>2. pp \in Store /\ SameTruth(mem[s], pp)
  BY <1>1, ReconcileStore
<1>3. dd \in Store /\ SameTruth(pp, dd)
  BY <1>1, <1>2, DispatchedStore
<1>4. dd.runs = mem[s].runs
  <2>1. pp.runs = mem[s].runs
    BY <1>1 DEF Reconcile, Store
  <2>2. dd.runs = pp.runs
    BY <1>2 DEF Dispatched, Store
  <2> QED  BY <2>1, <2>2
<1>5. RecordInv(s) /\ NoRowOf(mem[s], job[s].trace) /\ job[s].trace <= started /\ Len(orgs[s]) <= 1
  BY DEF RunInv, RecordInv, PlanOrg
<1>6. RunsHonest(dd) /\ TracesUpTo(dd, started) /\ NoRowOf(dd, job[s].trace)
  <2>1. RunsHonest(mem[s]) /\ TracesUpTo(mem[s], started)
    BY <1>5 DEF RecordInv
  <2>2. dd.attempts = mem[s].attempts
    BY <1>2, <1>3 DEF SameTruth
  <2> QED  BY <1>4, <1>5, <2>1, <2>2, DeliveredStays DEF TracesUpTo, NoRowOf
<1>7. RunsHonest(rr) /\ TracesUpTo(rr, started) /\ RowsOf(rr, job[s].trace, org)
  <2>1. SameTruth(dd, rr)
    BY <1>1, <1>3, RecordRunStore
  <2> QED  BY <1>1, <1>3, <1>5, <1>6, <2>1, RecordRunRows DEF SameTruth
<1>8. mem' = [mem EXCEPT ![s] = rr]
  BY DEF PlanOrg, Prepared
<1> HIDE DEF pp, dd, rr
<1>9. /\ pc'[s] = "running" /\ mem'[s] = rr /\ job'[s] = job[s] /\ orgs'[s] = orgs[s]
      /\ ran'[s] = {} /\ \A q \in Session \ {s} : SameRun(q)
  BY <1>1, <1>8 DEF PlanOrg, TypeOK, SameRun, Same
<1>10. RecordInv(s)'
  BY <1>1, <1>5, <1>7, <1>9 DEF RecordInv, RunsHonest, TracesUpTo, RowsOf, Delivered, Done
<1>11. FileRecords'
  BY <1>1, FileRecordsFrame DEF RunInv
<1> QED  BY <1>1, <1>9, <1>10, <1>11, RunStepOf

(* A task that delivers every endpoint counts, any other spoils the run.   *)
LEMMA ExecutedRuns ==
  ASSUME PInv, RunInv, NEW s \in Session, NEW d \in Date, NEW ok \in SUBSET Endpoint,
         ExecuteTask(s, d, ok)
  PROVE  RunInv'
<1> DEFINE org == Head(orgs[s])
           st  == Persist(mem[s], org, d, ok)
<1>1. /\ TypeOK /\ started \in Nat /\ started' = started /\ file' = file
      /\ mem[s] \in Store /\ org \in Org
  <2>1. orgs[s] \in Seq(Org) /\ orgs[s] # << >>
    BY DEF PInv, TypeOK, SessionInv, ExecuteTask
  <2>2. Head(orgs[s]) \in Org
    BY <2>1
  <2> QED  BY <2>2 DEF PInv, TypeOK, ExecuteTask
<1>2. st.runs = mem[s].runs /\ st.attempts = mem[s].attempts \cup EndpointRuns(org, d, ok)
  BY <1>1 DEF Persist, Store
<1>3. ok = Endpoint => Delivered(st, org, {d})
  <2> SUFFICES ASSUME ok = Endpoint, NEW e \in Endpoint  PROVE Run(org, e, d) \in st.attempts
    BY DEF Delivered, Done
  <2>1. Run(org, e, d) \in EndpointRuns(org, d, ok)
    BY DEF Run, EndpointRuns
  <2> QED  BY <1>2, <2>1
<1> HIDE DEF st
<1>4. RecordInv(s) /\ pc[s] = "running"
  BY DEF RunInv, ExecuteTask
<1>5. RunsHonest(st) /\ TracesUpTo(st, started) /\ RowsOf(st, job[s].trace, org)
  BY <1>2, <1>4, DeliveredStays DEF RecordInv, TracesUpTo, RowsOf
<1>6. /\ pc'[s] = "running" /\ mem'[s] = st /\ job'[s] = job[s] /\ orgs'[s] = orgs[s]
      /\ ran'[s] = ran[s] \cup {d} /\ outcomes'[s] = outcomes[s] \cup {RunOutcome(ok)}
      /\ \A q \in Session \ {s} : SameRun(q)
  BY <1>1 DEF ExecuteTask, TypeOK, SameRun, Same, st
<1>7. outcomes'[s] \subseteq {"completed"} => Delivered(st, org, ran'[s])
  <2> SUFFICES ASSUME outcomes'[s] \subseteq {"completed"}  PROVE Delivered(st, org, ran[s] \cup {d})
    BY <1>6
  <2>1. outcomes[s] \subseteq {"completed"} /\ RunOutcome(ok) = "completed"
    BY <1>6
  <2>2. Delivered(st, org, {d})
    BY <1>3, <2>1 DEF RunOutcome
  <2>3. Delivered(st, org, ran[s])
    BY <1>2, <1>4, <2>1, DeliveredStays DEF RecordInv
  <2> QED  BY <2>2, <2>3 DEF Delivered
<1>8. RecordInv(s)'
  BY <1>1, <1>4, <1>5, <1>6, <1>7 DEF RecordInv, RunsHonest, TracesUpTo, RowsOf, Delivered, Done
<1>9. FileRecords'
  BY <1>1, FileRecordsFrame DEF RunInv
<1> QED  BY <1>1, <1>6, <1>8, <1>9, RunStepOf

LEMMA ClosedRuns ==
  ASSUME PInv, RunInv, NEW s \in Session, CloseOrg(s)
  PROVE  RunInv'
<1> DEFINE org == Head(orgs[s])
           st  == IF job[s].kind = "rerun" THEN mem[s]
                  ELSE Reconcile(mem[s], org, job[s].from, job[s].target)
           tt  == FinalizeRun(st, job[s].trace, ran[s], outcomes[s])
<1>1. /\ TypeOK /\ started \in Nat /\ started' = started /\ file' = file
      /\ mem[s] \in Store /\ org \in Org /\ orgs[s] \in Seq(Org) /\ orgs[s] # << >>
      /\ job[s].from \in Date /\ job[s].target \in Date /\ job[s].trace \in Nat
      /\ ran[s] \in SUBSET Date
  <2>1. orgs[s] \in Seq(Org) /\ orgs[s] # << >>
    BY DEF PInv, TypeOK, SessionInv, CloseOrg
  <2>2. Head(orgs[s]) \in Org
    BY <2>1
  <2> QED  BY <2>1, <2>2 DEF PInv, TypeOK, SessionInv, CloseOrg, Job
<1>2. st \in Store /\ st.attempts = mem[s].attempts /\ st.runs = mem[s].runs
  <2>1. CASE job[s].kind = "rerun"
    BY <1>1, <2>1
  <2>2. CASE job[s].kind # "rerun"
    <3>1. Reconcile(mem[s], org, job[s].from, job[s].target).runs = mem[s].runs
      BY <1>1 DEF Reconcile, Store
    <3> QED  BY <1>1, <2>2, <3>1, ReconcileStore DEF SameTruth
  <2> QED  BY <2>1, <2>2
<1> HIDE DEF st
<1>3. tt \in Store /\ tt.attempts = st.attempts
  BY <1>1, <1>2, FinalizeRunStore DEF SameTruth
<1>4. /\ RecordInv(s) /\ pc[s] = "running" /\ Len(orgs[s]) <= 1
      /\ RowsOf(st, job[s].trace, org) /\ RunsHonest(st) /\ TracesUpTo(st, started)
      /\ outcomes[s] \subseteq {"completed"} => Delivered(st, org, ran[s])
  BY <1>2, DeliveredStays DEF RunInv, RecordInv, CloseOrg, RowsOf, TracesUpTo
<1>5. RunsHonest(tt) /\ TracesUpTo(tt, started)
  <2>1. tt.runs = FinalizeRun(st, job[s].trace, ran[s], outcomes[s]).runs
    OBVIOUS
  <2> HIDE DEF tt
  <2>2. /\ RunsHonest(tt)
        /\ \A n \in Nat : TracesUpTo(st, n) => TracesUpTo(tt, n)
    BY <2>1, <1>1, <1>2, <1>3, <1>4, FinalizeRunRows
  <2> QED  BY <1>1, <1>4, <2>2
<1>6. mem' = [mem EXCEPT ![s] = tt]
  BY DEF CloseOrg, Closed, st
<1> HIDE DEF tt
<1>7. Tail(orgs[s]) = << >>
  BY <1>1, <1>4
<1>8. /\ pc'[s] \in {"planning", "saving"} /\ mem'[s] = tt /\ job'[s] = job[s]
      /\ orgs'[s] = << >> /\ \A q \in Session \ {s} : SameRun(q)
  BY <1>1, <1>6, <1>7 DEF CloseOrg, TypeOK, SameRun, Same
<1>9. RecordInv(s)'
  BY <1>1, <1>4, <1>5, <1>8 DEF RecordInv, RunsHonest, TracesUpTo, Delivered, Done
<1>10. FileRecords'
  BY <1>1, FileRecordsFrame DEF RunInv
<1> QED  BY <1>1, <1>8, <1>9, <1>10, RunStepOf

LEMMA StepRunInv == OneNightlyOrg /\ PInv /\ RunInv /\ [Next]_vars => RunInv'
<1> SUFFICES ASSUME OneNightlyOrg, PInv, RunInv, [Next]_vars  PROVE RunInv'
  OBVIOUS
<1>1. ASSUME NEW s \in Session, \/ \E target \in Date : StartNightly(s, target)
                                \/ \E r \in Request : StartAction(s, r)
      PROVE  RunInv'
  BY <1>1, StartedRuns
<1>2. ASSUME NEW s \in Session, PlanOrg(s) \/ CloseOrg(s)  PROVE RunInv'
  BY <1>2, PlannedRuns, ClosedRuns
<1>3. ASSUME NEW s \in Session, NEW d \in Date, NEW ok \in SUBSET Endpoint, ExecuteTask(s, d, ok)
      PROVE  RunInv'
  BY <1>3, ExecutedRuns
<1>4. ASSUME NEW s \in Session, Truncate(s) \/ Write(s) \/ Die(s)  PROVE RunInv'
  BY <1>4, SavedRuns
<1>5. ASSUME NEW s \in Session, NightDone(s)  PROVE RunInv'
  <2>1. started' = started /\ file' = file /\ pc'[s] = "saving"
        /\ \A q \in Session \ {s} : SameRun(q)
    BY <1>5 DEF NightDone, PInv, TypeOK, SameRun, Same
  <2>2. RecordInv(s)'
    BY <1>5, <2>1 DEF NightDone, RunInv, RecordInv, RunsHonest, TracesUpTo, Delivered, Done
  <2> QED  BY <2>1, <2>2, FileRecordsFrame, RunStepOf DEF RunInv
<1>6. ASSUME UNCHANGED <<file, session>>, started' \in {started, started + 1}  PROVE RunInv'
  <2>1. \A q \in Session : SameRun(q)
    BY <1>6 DEF session, SameRun, Same
  <2>2. \A q \in Session : RecordInv(q)'
    BY <1>6, <2>1, RecordFrame DEF PInv, RunInv, SameRun
  <2> QED  BY <1>6, <2>2, FileRecordsFrame DEF RunInv
<1>7. ASSUME NEW s \in Session, NEW r \in Request,
             Refuse(s, r) \/ RaiseOnWindow(s, r) \/ ReportStatus(s, r)
      PROVE  RunInv'
  BY <1>6, <1>7 DEF Refuse, RaiseOnWindow, ReportStatus, Arrive
<1>8. CASE UNCHANGED vars
  BY <1>6, <1>8 DEF vars
<1> QED  BY <1>1, <1>2, <1>3, <1>4, <1>5, <1>7, <1>8 DEF Next

(* A scheduler run the file calls completed delivered every endpoint of    *)
(* all its dates for its org, whatever was lost or overwritten since: both *)
(* are written together.  With two nightly orgs this is false, they share  *)
(* a trace ref and the second finalizes the record of the first.           *)
THEOREM CompletedMeansDelivered ==
  ASSUME OneNightlyOrg  PROVE Spec => []CompletedRunIsComplete
<1>1. ASSUME PInv, RunInv  PROVE CompletedRunIsComplete
  <2> SUFFICES ASSUME Intact, NEW i \in DOMAIN file.runs, file.runs[i].status = "completed",
                      NEW d \in file.runs[i].dates, NEW e \in Endpoint
               PROVE  d \in FromSnapshot(file).completed[file.runs[i].org][e]
    BY DEF CompletedRunIsComplete
  <2>1. file \in Store /\ Faithful(file) /\ FromSnapshot(file) = file
    BY <1>1, LoadedIsSaved DEF Intact
  <2>2. file.runs[i].org \in Org
    BY <2>1, RunsAre DEF SchedulerRun
  <2>3. d \in Done(file, file.runs[i].org, e)
    BY <1>1 DEF RunInv, FileRecords, RunsHonest, Delivered
  <2> QED  BY <2>1, <2>2, <2>3 DEF Faithful, FaithfulFor
<1>2. OneNightlyOrg /\ Spec => []RunInv
  BY InitRunInv, StepRunInv, AlwaysPInv, PTL DEF Spec
<1> QED  BY <1>1, <1>2, AlwaysPInv, PTL

-----------------------------------------------------------------------------
(***************************************************************************)
(* What a save overwrites.  A session rewrites the whole file from its own *)
(* copy, and nothing but the order of sessions keeps it from losing what   *)
(* the file has.                                                           *)
(***************************************************************************)
\* tt has the endpoint runs and scheduler runs of st as they are, and no older
\* latest state
Grown(st, tt) ==
  /\ st.attempts \subseteq tt.attempts
  /\ \A o \in Org, e \in Endpoint : st.latest[o][e] <= tt.latest[o][e]
  /\ \A i \in DOMAIN st.runs : i \in DOMAIN tt.runs /\ tt.runs[i] = st.runs[i]

\* what a session will write over the file has all that the file has
SavesLoseNothing == ~ overlap /\ Intact =>
  \A s \in Session : pc[s] # "idle" => Grown(file, mem[s])

\* A trace ref is drawn once, so the record a session finalizes is its own.
KeepInv ==
  /\ SavesLoseNothing
  /\ Intact => TracesUpTo(file, started)
  /\ \A s \in Session : TracesUpTo(mem[s], started) /\ job[s].trace <= started
  /\ ~ overlap /\ Intact => \A s \in Session : pc[s] # "idle" => NoRowOf(file, job[s].trace)

LEMMA LatestAre ==
  ASSUME NEW st \in Store, NEW o \in Org, NEW e \in Endpoint
  PROVE  st.latest[o][e] \in Nat
<1>1. st.latest \in [Org -> [Endpoint -> Date \cup {NoDate}]]
  BY DEF Store
<1>2. st.latest[o][e] \in Date \/ st.latest[o][e] = NoDate
  BY <1>1
<1>3. Date \subseteq Nat /\ NoDate \in Nat
  BY DateType DEF NoDate
<1> QED  BY <1>2, <1>3

LEMMA GrownIsOrder ==
  /\ \A st \in Store : Grown(st, st)
  /\ \A st, tt, uu : /\ Grown(st, tt) /\ tt.attempts = uu.attempts
                     /\ tt.latest = uu.latest /\ tt.runs = uu.runs
                     => Grown(st, uu)
BY LatestAre DEF Grown

LEMMA RecordedIsGrown ==
  ASSUME NEW st \in Store, NEW tt \in Store, Grown(st, tt), NEW trace \in Nat, NEW org \in Org
  PROVE  /\ Grown(st, RecordRun(tt, trace, org))
         /\ \A n \in Nat : TracesUpTo(tt, n) /\ trace <= n
                             => TracesUpTo(RecordRun(tt, trace, org), n)
<1> DEFINE row == [trace |-> trace, org |-> org, dates |-> {}, status |-> "running"]
           uu  == RecordRun(tt, trace, org)
<1>1. /\ uu.runs = Append(tt.runs, row) /\ uu.attempts = tt.attempts /\ uu.latest = tt.latest
  BY DEF RecordRun, Store
<1>2. Len(tt.runs) \in Nat /\ DOMAIN tt.runs = 1 .. Len(tt.runs) /\ tt.runs \in Seq(SchedulerRun)
  BY RunsAre DEF Store
<1>3. row \in SchedulerRun
  BY DEF SchedulerRun, RunStatus
<1>4. /\ \A i \in 1 .. Len(tt.runs) : Append(tt.runs, row)[i] = tt.runs[i]
      /\ Append(tt.runs, row)[Len(tt.runs) + 1] = row
      /\ DOMAIN Append(tt.runs, row) = 1 .. Len(tt.runs) + 1
  BY <1>2, <1>3, AppendProperties
<1>5. row.trace = trace
  OBVIOUS
<1> HIDE DEF row, uu
<1>6. Grown(st, uu)
  BY <1>1, <1>2, <1>4 DEF Grown
<1>7. ASSUME NEW n \in Nat, TracesUpTo(tt, n), trace <= n  PROVE TracesUpTo(uu, n)
  BY <1>1, <1>2, <1>4, <1>5, <1>7 DEF TracesUpTo
<1> QED  BY <1>6, <1>7 DEF uu

LEMMA FinalizedIsGrown ==
  ASSUME NEW st \in Store, NEW tt \in Store, NEW trace \in Nat, NEW dates \in SUBSET Date, NEW outs
  PROVE  /\ Grown(st, tt) /\ NoRowOf(st, trace) => Grown(st, FinalizeRun(tt, trace, dates, outs))
         /\ \A n \in Nat : TracesUpTo(tt, n) => TracesUpTo(FinalizeRun(tt, trace, dates, outs), n)
<1> DEFINE first(i) == IsFirstOf(tt.runs, i, trace)
           uu       == FinalizeRun(tt, trace, dates, outs)
<1>1. /\ uu.attempts = tt.attempts /\ uu.latest = tt.latest
      /\ uu.runs = [i \in DOMAIN tt.runs |->
           IF first(i) THEN [tt.runs[i] EXCEPT !.status = WorkflowStatus(outs), !.dates = dates]
           ELSE tt.runs[i]]
  BY DEF FinalizeRun, Store
<1>2. \A i \in DOMAIN tt.runs : tt.runs[i] \in SchedulerRun
  BY RunsAre
<1>3. \A i \in DOMAIN tt.runs : first(i) => tt.runs[i].trace = trace
  BY DEF IsFirstOf
<1> HIDE DEF first, uu
<1>4. /\ DOMAIN uu.runs = DOMAIN tt.runs
      /\ \A i \in DOMAIN tt.runs : uu.runs[i].trace = tt.runs[i].trace
      /\ \A i \in DOMAIN tt.runs : ~ first(i) => uu.runs[i] = tt.runs[i]
  BY <1>1, <1>2 DEF SchedulerRun
<1>5. ASSUME Grown(st, tt), NoRowOf(st, trace)  PROVE Grown(st, uu)
  <2>1. \A i \in DOMAIN st.runs : i \in DOMAIN tt.runs /\ ~ first(i)
    BY <1>3, <1>5 DEF Grown, NoRowOf
  <2> QED  BY <1>1, <1>4, <1>5, <2>1 DEF Grown
<1>6. \A n \in Nat : TracesUpTo(tt, n) => TracesUpTo(uu, n)
  BY <1>4 DEF TracesUpTo
<1> QED  BY <1>5, <1>6 DEF uu

LEMMA PersistedIsGrown ==
  ASSUME NEW st \in Store, NEW tt \in Store, NEW org \in Org, NEW date \in Date,
         NEW ok \in SUBSET Endpoint
  PROVE  /\ Grown(st, tt) => Grown(st, Persist(tt, org, date, ok))
         /\ Persist(tt, org, date, ok).runs = tt.runs
<1> DEFINE uu == Persist(tt, org, date, ok)
<1>1. /\ uu.attempts = tt.attempts \cup EndpointRuns(org, date, ok) /\ uu.runs = tt.runs
      /\ uu.latest = [tt.latest EXCEPT ![org] = UpdateLatest(tt, org, date, ok)]
  BY DEF Persist, Store
<1> HIDE DEF uu
<1>2. ASSUME NEW o \in Org, NEW e \in Endpoint  PROVE tt.latest[o][e] <= uu.latest[o][e]
  <2>1. uu.latest[o][e] = IF o = org /\ e \in ok /\ date >= tt.latest[o][e] THEN date
                          ELSE tt.latest[o][e]
    BY <1>1 DEF Store, UpdateLatest
  <2> QED  BY <2>1, LatestAre, DateType
<1>3. ASSUME Grown(st, tt), NEW o \in Org, NEW e \in Endpoint
      PROVE  st.latest[o][e] <= uu.latest[o][e]
  <2>1. /\ st.latest[o][e] \in Nat /\ tt.latest[o][e] \in Nat
        /\ st.latest[o][e] <= tt.latest[o][e] /\ tt.latest[o][e] <= uu.latest[o][e]
    BY <1>2, <1>3, LatestAre DEF Grown
  <2>2. uu.latest[o][e] \in {tt.latest[o][e], date} /\ date \in Nat
    BY <1>1, DateType DEF Store, UpdateLatest
  <2>3. uu.latest[o][e] \in Nat
    BY <2>1, <2>2
  <2> QED  BY <2>1, <2>3
<1>4. Grown(st, tt) => Grown(st, uu)
  BY <1>1, <1>3 DEF Grown
<1> QED  BY <1>1, <1>4 DEF uu

(* A step of a session on its own copy, which keeps what the file has.     *)
LEMMA OwnKeeps ==
  ASSUME PInv, KeepInv, NEW s \in Session, pc[s] # "idle",
         UNCHANGED <<file, job, overlap, started>>,
         TracesUpTo(mem[s], started) => TracesUpTo(mem'[s], started),
         \A st \in Store : Grown(st, mem[s]) /\ NoRowOf(st, job[s].trace) => Grown(st, mem'[s]),
         \A q \in Session \ {s} : Same(q)
  PROVE  KeepInv'
<1>1. Intact => file \in Store
  BY LoadedIsSaved DEF Intact
<1>2. ASSUME ~ overlap, Intact, NEW q \in Session, pc'[q] # "idle"
      PROVE  Grown(file, mem'[q]) /\ NoRowOf(file, job[q].trace)
  <2>1. CASE q = s
    BY <1>1, <1>2, <2>1 DEF KeepInv, SavesLoseNothing
  <2>2. CASE q # s
    BY <1>2, <2>2 DEF KeepInv, SavesLoseNothing, Same
  <2> QED  BY <2>1, <2>2
<1>3. ASSUME NEW q \in Session  PROVE TracesUpTo(mem'[q], started) /\ job[q].trace <= started
  <2>1. CASE q = s
    BY <2>1 DEF KeepInv
  <2>2. CASE q # s
    BY <2>2 DEF KeepInv, Same
  <2> QED  BY <2>1, <2>2
<1>4. SavesLoseNothing'
  BY <1>2 DEF SavesLoseNothing, Intact, Grown
<1>5. Intact' => TracesUpTo(file, started)'
  BY DEF KeepInv, Intact, TracesUpTo
<1>6. \A q \in Session : (TracesUpTo(mem[q], started) /\ job[q].trace <= started)'
  BY <1>3 DEF TracesUpTo
<1>7. (~ overlap /\ Intact => \A q \in Session : pc[q] # "idle" => NoRowOf(file, job[q].trace))'
  BY <1>2 DEF Intact, NoRowOf
<1> QED  BY <1>4, <1>5, <1>6, <1>7 DEF KeepInv

(* A session that starts has a copy of the file and a trace ref that is    *)
(* higher than any before.                                                 *)
LEMMA HigherTraces ==
  ASSUME NEW st \in Store, NEW n \in Nat, TracesUpTo(st, n)
  PROVE  TracesUpTo(st, n + 1) /\ NoRowOf(st, n + 1)
<1>1. \A i \in DOMAIN st.runs : st.runs[i].trace \in Nat
  BY RunsAre DEF SchedulerRun
<1> QED  BY <1>1 DEF TracesUpTo, NoRowOf

LEMMA StartKeeps ==
  ASSUME PInv, KeepInv, NEW s \in Session, Intact, UNCHANGED file, started' = started + 1,
         overlap' = (overlap \/ \E q \in Session : pc[q] # "idle"),
         TracesUpTo(mem'[s], started + 1), Grown(file, mem'[s]), job'[s].trace = started + 1,
         \A q \in Session \ {s} : Same(q)
  PROVE  KeepInv'
<1>1. file \in Store /\ started \in Nat
  BY LoadedIsSaved DEF PInv, TypeOK, Intact
<1>2. TracesUpTo(file, started + 1) /\ NoRowOf(file, started + 1)
  BY <1>1, HigherTraces DEF KeepInv
<1>3. ASSUME ~ overlap', NEW q \in Session, pc'[q] # "idle"
      PROVE  Grown(file, mem'[q]) /\ NoRowOf(file, job'[q].trace)
  <2>1. q = s
    BY <1>3 DEF Same
  <2> QED  BY <1>2, <2>1
<1>4. ASSUME NEW q \in Session  PROVE TracesUpTo(mem'[q], started + 1) /\ job'[q].trace <= started + 1
  <2>1. CASE q = s
    BY <1>1, <2>1
  <2>2. CASE q # s
    <3>1. mem[q] \in Store /\ job[q].trace \in Nat
      BY DEF PInv, TypeOK, Job, NoJob
    <3>2. TracesUpTo(mem[q], started) /\ job[q].trace <= started
      BY DEF KeepInv
    <3>3. TracesUpTo(mem[q], started + 1) /\ job[q].trace <= started + 1
      BY <1>1, <3>1, <3>2, HigherTraces
    <3> QED  BY <2>2, <3>3 DEF Same
  <2> QED  BY <2>1, <2>2
<1>5. SavesLoseNothing'
  BY <1>3 DEF SavesLoseNothing, Intact, Grown
<1>6. (Intact => TracesUpTo(file, started))'
  BY <1>2 DEF TracesUpTo
<1>7. (\A q \in Session : TracesUpTo(mem[q], started) /\ job[q].trace <= started)'
  BY <1>4 DEF TracesUpTo
<1>8. (~ overlap /\ Intact => \A q \in Session : pc[q] # "idle" => NoRowOf(file, job[q].trace))'
  BY <1>3 DEF NoRowOf
<1> QED  BY <1>5, <1>6, <1>7, <1>8 DEF KeepInv

LEMMA StartNightlyKeeps ==
  ASSUME PInv, KeepInv, NEW s \in Session, NEW target \in Date, StartNightly(s, target)
  PROVE  KeepInv'
<1>1. Intact /\ TypeOK /\ started \in Nat
  BY DEF PInv, TypeOK, Intact, StartNightly, Load
<1>2. file \in Store /\ FromSnapshot(file) = file /\ TracesUpTo(file, started)
  BY <1>1, LoadedIsSaved DEF Intact, KeepInv
<1>3. mem'[s] = file /\ job'[s].trace = started + 1 /\ \A q \in Session \ {s} : Same(q)
  BY <1>1, <1>2 DEF StartNightly, Load, TypeOK, Same
<1>4. TracesUpTo(mem'[s], started + 1) /\ Grown(file, mem'[s])
  BY <1>1, <1>2, <1>3, HigherTraces, GrownIsOrder
<1> QED  BY <1>1, <1>3, <1>4, StartKeeps DEF StartNightly, Arrive, Load

LEMMA StartActionKeeps ==
  ASSUME PInv, KeepInv, NEW s \in Session, NEW r \in Request, StartAction(s, r)
  PROVE  KeepInv'
<1> DEFINE st == RecordRun(file, started + 1, r.org)
<1>1. Intact /\ TypeOK /\ started \in Nat /\ started + 1 \in Nat
  BY DEF PInv, TypeOK, Intact, StartAction
<1>2. file \in Store /\ FromSnapshot(file) = file /\ TracesUpTo(file, started)
  BY <1>1, LoadedIsSaved DEF Intact, KeepInv
<1>3. r.org \in Org /\ JobOf(r, started + 1).trace = started + 1
  BY <1>1, AcceptedType DEF Accepted, StartAction, JobOf
<1>4. Grown(file, st) /\ TracesUpTo(st, started + 1)
  BY <1>1, <1>2, <1>3, HigherTraces, GrownIsOrder, RecordedIsGrown
<1> HIDE DEF st
<1>5. mem'[s] = st /\ job'[s].trace = started + 1 /\ \A q \in Session \ {s} : Same(q)
  BY <1>1, <1>2, <1>3 DEF StartAction, TypeOK, Same, st
<1> QED  BY <1>1, <1>4, <1>5, StartKeeps DEF StartAction, Arrive

(* A request that starts no session draws a number and touches no store.   *)
LEMMA AnsweredKeeps ==
  ASSUME PInv, KeepInv, UNCHANGED <<file, session, overlap>>, started' \in {started, started + 1}
  PROVE  KeepInv'
<1>1. started \in Nat /\ (Intact => file \in Store)
  BY LoadedIsSaved DEF PInv, TypeOK, Intact
<1>2. ASSUME NEW st \in Store, TracesUpTo(st, started)  PROVE TracesUpTo(st, started')
  BY <1>1, <1>2, HigherTraces
<1>3. UNCHANGED <<file, pc, mem, job, overlap>>
  BY DEF session
<1>4. SavesLoseNothing'
  BY <1>3 DEF KeepInv, SavesLoseNothing, Intact, Grown
<1>5. (Intact => TracesUpTo(file, started))'
  BY <1>1, <1>2, <1>3 DEF KeepInv, Intact, TracesUpTo
<1>6. ASSUME NEW q \in Session  PROVE (TracesUpTo(mem[q], started) /\ job[q].trace <= started)'
  <2>1. mem[q] \in Store /\ job[q].trace \in Nat
    BY DEF PInv, TypeOK, Job, NoJob
  <2>2. TracesUpTo(mem[q], started') /\ job[q].trace <= started'
    BY <1>1, <1>2, <2>1 DEF KeepInv
  <2> QED  BY <1>3, <2>2 DEF TracesUpTo
<1>7. (~ overlap /\ Intact => \A q \in Session : pc[q] # "idle" => NoRowOf(file, job[q].trace))'
  BY <1>3 DEF KeepInv, Intact, NoRowOf
<1> QED  BY <1>4, <1>5, <1>6, <1>7 DEF KeepInv

LEMMA PlanOrgKeeps ==
  ASSUME PInv, KeepInv, NEW s \in Session, PlanOrg(s)
  PROVE  KeepInv'
<1> DEFINE org == Head(orgs[s])
           pp  == Reconcile(mem[s], org, job[s].from, job[s].target)
           dd  == Dispatched(pp, org, job[s].from, job[s].target)
           rr  == RecordRun(dd, job[s].trace, org)
<1>1. /\ TypeOK /\ started \in Nat /\ mem[s] \in Store /\ org \in Org
      /\ job[s].from \in Date /\ job[s].target \in Date /\ job[s].trace \in Nat
  <2>1. orgs[s] \in Seq(Org) /\ orgs[s] # << >>
    BY DEF PInv, TypeOK, PlanOrg
  <2>2. Head(orgs[s]) \in Org
    BY <2>1
  <2> QED  BY <2>2 DEF PInv, TypeOK, SessionInv, PlanOrg, Job
<1>2. pp \in Store /\ SameTruth(mem[s], pp)
  BY <1>1, ReconcileStore
<1>3. dd \in Store /\ SameTruth(pp, dd)
  BY <1>1, <1>2, DispatchedStore
<1>4. dd.runs = mem[s].runs /\ dd.attempts = mem[s].attempts /\ dd.latest = mem[s].latest
  <2>1. pp.runs = mem[s].runs
    BY <1>1 DEF Reconcile, Store
  <2>2. dd.runs = pp.runs
    BY <1>2 DEF Dispatched, Store
  <2> QED  BY <1>2, <1>3, <2>1, <2>2 DEF SameTruth
<1> HIDE DEF pp, dd, org
<1>5. \A st \in Store : Grown(st, mem[s]) => Grown(st, rr)
  <2> SUFFICES ASSUME NEW st \in Store, Grown(st, mem[s])  PROVE Grown(st, rr)
    OBVIOUS
  <2>1. Grown(st, dd)
    BY <1>4, GrownIsOrder
  <2> QED  BY <1>1, <1>3, <2>1, RecordedIsGrown
<1>6. TracesUpTo(rr, started)
  <2>1. TracesUpTo(dd, started) /\ job[s].trace <= started
    BY <1>4 DEF KeepInv, TracesUpTo
  <2> QED  BY <1>1, <1>3, <2>1, GrownIsOrder, RecordedIsGrown
<1>7. mem' = [mem EXCEPT ![s] = rr]
  BY DEF PlanOrg, Prepared, pp, dd, org
<1> HIDE DEF rr
<1>8. mem'[s] = rr /\ \A q \in Session \ {s} : Same(q)
  BY <1>1, <1>7 DEF PlanOrg, TypeOK, Same
<1> QED  BY <1>5, <1>6, <1>8, OwnKeeps DEF PlanOrg

LEMMA ExecuteTaskKeeps ==
  ASSUME PInv, KeepInv, NEW s \in Session, NEW d \in Date, NEW ok \in SUBSET Endpoint,
         ExecuteTask(s, d, ok)
  PROVE  KeepInv'
<1> DEFINE st == Persist(mem[s], Head(orgs[s]), d, ok)
<1>1. TypeOK /\ mem[s] \in Store /\ Head(orgs[s]) \in Org
  <2>1. orgs[s] \in Seq(Org) /\ orgs[s] # << >>
    BY DEF PInv, TypeOK, SessionInv, ExecuteTask
  <2>2. Head(orgs[s]) \in Org
    BY <2>1
  <2> QED  BY <2>2 DEF PInv, TypeOK, ExecuteTask
<1>2. st.runs = mem[s].runs /\ \A tt \in Store : Grown(tt, mem[s]) => Grown(tt, st)
  BY <1>1, PersistedIsGrown
<1> HIDE DEF st
<1>3. mem'[s] = st /\ \A q \in Session \ {s} : Same(q)
  BY <1>1 DEF ExecuteTask, TypeOK, Same, st
<1>4. TracesUpTo(mem[s], started) => TracesUpTo(mem'[s], started)
  BY <1>2, <1>3 DEF TracesUpTo
<1> QED  BY <1>2, <1>3, <1>4, OwnKeeps DEF ExecuteTask

LEMMA CloseOrgKeeps ==
  ASSUME PInv, KeepInv, NEW s \in Session, CloseOrg(s)
  PROVE  KeepInv'
<1> DEFINE org == Head(orgs[s])
           st  == IF job[s].kind = "rerun" THEN mem[s]
                  ELSE Reconcile(mem[s], org, job[s].from, job[s].target)
           tt  == FinalizeRun(st, job[s].trace, ran[s], outcomes[s])
<1>1. /\ TypeOK /\ started \in Nat /\ mem[s] \in Store /\ org \in Org
      /\ job[s].from \in Date /\ job[s].target \in Date /\ job[s].trace \in Nat
      /\ ran[s] \in SUBSET Date
  <2>1. orgs[s] \in Seq(Org) /\ orgs[s] # << >>
    BY DEF PInv, TypeOK, SessionInv, CloseOrg
  <2>2. Head(orgs[s]) \in Org
    BY <2>1
  <2> QED  BY <2>2 DEF PInv, TypeOK, SessionInv, CloseOrg, Job
<1>2. /\ st \in Store /\ st.attempts = mem[s].attempts /\ st.runs = mem[s].runs
      /\ st.latest = mem[s].latest
  <2>1. CASE job[s].kind = "rerun"
    BY <1>1, <2>1
  <2>2. CASE job[s].kind # "rerun"
    <3>1. Reconcile(mem[s], org, job[s].from, job[s].target).runs = mem[s].runs
      BY <1>1 DEF Reconcile, Store
    <3> QED  BY <1>1, <2>2, <3>1, ReconcileStore DEF SameTruth
  <2> QED  BY <2>1, <2>2
<1> HIDE DEF st
<1>3. \A uu \in Store : Grown(uu, mem[s]) /\ NoRowOf(uu, job[s].trace) => Grown(uu, tt)
  <2> SUFFICES ASSUME NEW uu \in Store, Grown(uu, mem[s]), NoRowOf(uu, job[s].trace)
               PROVE  Grown(uu, tt)
    OBVIOUS
  <2>1. Grown(uu, st)
    BY <1>2, GrownIsOrder
  <2> QED  BY <1>1, <1>2, <2>1, FinalizedIsGrown
<1>4. TracesUpTo(mem[s], started) => TracesUpTo(tt, started)
  <2>1. TracesUpTo(mem[s], started) => TracesUpTo(st, started)
    BY <1>2 DEF TracesUpTo
  <2> QED  BY <1>1, <1>2, <2>1, FinalizedIsGrown
<1>5. mem' = [mem EXCEPT ![s] = tt]
  BY DEF CloseOrg, Closed, st
<1> HIDE DEF tt
<1>6. mem'[s] = tt /\ \A q \in Session \ {s} : Same(q)
  BY <1>1, <1>5 DEF CloseOrg, TypeOK, Same
<1> QED  BY <1>3, <1>4, <1>6, OwnKeeps DEF CloseOrg

(* The three ways a session gives up its copy: it empties the file, writes *)
(* the copy back, or dies.                                                 *)
LEMMA SaveKeeps ==
  ASSUME PInv, KeepInv, NEW s \in Session, Truncate(s) \/ Write(s) \/ Die(s)
  PROVE  KeepInv'
<1>1. TypeOK /\ started \in Nat /\ started' = started /\ overlap' = overlap
  BY DEF PInv, TypeOK, Truncate, Write, Die
<1>2. CASE Truncate(s)
  <2>1. ~ Intact' /\ UNCHANGED <<mem, job>>
    BY <1>2 DEF Truncate, Intact
  <2> QED  BY <1>1, <2>1 DEF KeepInv, SavesLoseNothing, TracesUpTo
<1>3. CASE End(s) /\ file' \in {file, Torn, mem[s]} /\ (pc[s] = "writing" \/ file' = file)
  <2>1. /\ pc'[s] = "idle" /\ mem'[s] = EmptyStore /\ job'[s] = NoJob
        /\ \A q \in Session \ {s} : Same(q)
    BY <1>1, <1>3 DEF TypeOK, End, Same
  <2>2. ASSUME NEW q \in Session  PROVE TracesUpTo(mem'[q], started) /\ job'[q].trace <= started
    <3>1. CASE q = s
      BY <1>1, <2>1, <3>1 DEF EmptyStore, NoJob, TracesUpTo
    <3>2. CASE q # s
      BY <2>1, <3>2 DEF KeepInv, Same
    <3> QED  BY <3>1, <3>2
  <2>3. file' # Torn => TracesUpTo(file', started)
    BY <1>3 DEF KeepInv, Intact
  <2>4. ASSUME ~ overlap, file' # Torn, NEW q \in Session, pc'[q] # "idle"
        PROVE  Grown(file', mem'[q]) /\ NoRowOf(file', job'[q].trace)
    <3>1. q # s /\ pc[q] # "idle"
      BY <2>1, <2>4 DEF Same
    <3>2. pc[s] = "idle"
      BY <2>4, <3>1 DEF PInv, AloneInv
    <3>3. file' = file
      BY <1>3, <3>2
    <3> QED  BY <2>1, <2>4, <3>1, <3>3 DEF KeepInv, SavesLoseNothing, Intact, Same
  <2>5. SavesLoseNothing'
    BY <1>1, <2>4 DEF SavesLoseNothing, Intact, Grown
  <2>6. (Intact => TracesUpTo(file, started))'
    BY <1>1, <2>3 DEF Intact, TracesUpTo
  <2>7. (\A q \in Session : TracesUpTo(mem[q], started) /\ job[q].trace <= started)'
    BY <1>1, <2>2 DEF TracesUpTo
  <2>8. (~ overlap /\ Intact => \A q \in Session : pc[q] # "idle" => NoRowOf(file, job[q].trace))'
    BY <1>1, <2>4 DEF Intact, NoRowOf
  <2> QED  BY <2>5, <2>6, <2>7, <2>8 DEF KeepInv
<1> QED  BY <1>2, <1>3 DEF Write, Die

LEMMA StepKeeps == PInv /\ KeepInv /\ [Next]_vars => KeepInv'
<1> SUFFICES ASSUME PInv, KeepInv, [Next]_vars  PROVE KeepInv'
  OBVIOUS
<1>1. ASSUME NEW s \in Session, NEW target \in Date, StartNightly(s, target)  PROVE KeepInv'
  BY <1>1, StartNightlyKeeps
<1>2. ASSUME NEW s \in Session, NEW r \in Request, StartAction(s, r)  PROVE KeepInv'
  BY <1>2, StartActionKeeps
<1>3. ASSUME NEW s \in Session, NEW r \in Request,
             Refuse(s, r) \/ RaiseOnWindow(s, r) \/ ReportStatus(s, r)
      PROVE  KeepInv'
  BY <1>3, AnsweredKeeps DEF Refuse, RaiseOnWindow, ReportStatus, Arrive
<1>4. ASSUME NEW s \in Session, PlanOrg(s) \/ CloseOrg(s)  PROVE KeepInv'
  BY <1>4, PlanOrgKeeps, CloseOrgKeeps
<1>5. ASSUME NEW s \in Session, NEW d \in Date, NEW ok \in SUBSET Endpoint, ExecuteTask(s, d, ok)
      PROVE  KeepInv'
  BY <1>5, ExecuteTaskKeeps
<1>6. ASSUME NEW s \in Session, NightDone(s)  PROVE KeepInv'
  <2>1. mem' = mem /\ \A q \in Session \ {s} : Same(q)
    BY <1>6 DEF NightDone, PInv, TypeOK, Same
  <2> QED  BY <1>6, <2>1, OwnKeeps DEF NightDone
<1>7. ASSUME NEW s \in Session, Truncate(s) \/ Write(s) \/ Die(s)  PROVE KeepInv'
  BY <1>7, SaveKeeps
<1>8. CASE UNCHANGED vars
  BY <1>8, AnsweredKeeps DEF vars
<1> QED  BY <1>1, <1>2, <1>3, <1>4, <1>5, <1>6, <1>7, <1>8 DEF Next

(* As long as sessions follow one another, rewriting the whole file loses  *)
(* nothing: what the nightly runner or an operator action is about to      *)
(* write has every endpoint run the file has, every scheduler run as it    *)
(* was recorded, and no older latest state.                                *)
THEOREM SequentialSavesLoseNothing == Spec => []SavesLoseNothing
<1>1. Init => KeepInv
  BY DEF Init, KeepInv, SavesLoseNothing, EmptyStore, NoJob, TracesUpTo
<1>2. Spec => []KeepInv
  BY <1>1, StepKeeps, AlwaysPInv, PTL DEF Spec
<1>3. KeepInv => SavesLoseNothing
  BY DEF KeepInv
<1> QED  BY <1>2, <1>3, PTL
=============================================================================
