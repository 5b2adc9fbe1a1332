----------------------------- MODULE NightlySync -----------------------------
(***************************************************************************)
(* The nightly sync of one org: run_nightly_sync_runtime_cycle loads the   *)
(* effective cursor ledger, plans, runs the dispatched vertical slices     *)
(* against the source, materialises the owner surfaces and saves the       *)
(* ledger.  Nothing locks the ledger database between the load and the     *)
(* save, so several processes (the cron script, an operator's rerun, a     *)
(* Temporal activity retried after its timeout) can have a cycle in        *)
(* flight at once.  run_nightly_sync_worker is the second writer of the    *)
(* ledger: it plans and saves without running anything.                    *)
(*                                                                         *)
(* The files and the index of the owner surfaces have a module of their    *)
(* own, ServingStore.  Here they are what it shows of them: look-ups find  *)
(* every saved surface until two materialisations have overlapped, and     *)
(* none is sure to succeed once that, or a death inside a write, may have  *)
(* left a half-written file.                                               *)
(***************************************************************************)
EXTENDS NightlySyncPlanner

CONSTANTS
  Scheduler,       \* processes that run the scheduled cycle of the night
  Operator,        \* processes an operator, or a retried activity, starts
  Registry,        \* the default selection: every endpoint, registry order
  OperatorOrders,  \* selections passed as --endpoint-contract-id
  Component,       \* slices whose runs are materialised as owner surfaces
  MaxTasks,        \* max_dispatch_tasks
  MaxBackfill,     \* max_backfill_dispatch_tasks, NoBudget for None
  MaxDisturbances  \* bound on cycles that die and on runs an operator starts

ASSUME NightlySyncAssumption ==
  /\ IsFiniteSet(Endpoint)
  /\ \A o \in OperatorOrders \cup {Registry} : IsSelection(o)
  /\ Selected(Registry) = Endpoint
  /\ Component \subseteq Slice /\ Component # {}
  /\ MaxTasks \in Nat
  /\ MaxBackfill \in Nat \cup {NoBudget}
  /\ MaxDisturbances \in Nat

Worker == Scheduler \cup Operator   \* all share one ledger database

VARIABLES
  today,           \* the business date the nightly schedule targets
  ledger,          \* rows of nightly_sync_cursor_ledger_entries
  snapshots,       \* component owner surfaces ever saved: <<slice, date>>
  overviews,       \* dates whose daily overview was ever saved
  overlapped,      \* two materialisations have been under way at once
  damaged,         \* a process has died inside the write of a surface
  pc,              \* per process: how far its cycle has come
  target,          \* per process: target_business_date of its cycle
  order,           \* per process: endpoint_contract_ids of its cycle
  prior,           \* per process: usable dates loaded with the ledger
  priorCompleted,  \* per process: last_completed of the rows of its target
  todo,            \* per process: dispatched tasks whose run has not ended
  results,         \* per process: slice runs of the cycle
  landed,          \* history: <<endpoint, date>> the source really delivered
  windowed,        \* history: ... by a run over the profile window
  disturbances     \* number of cycles that died or were started by an operator

store   == <<ledger, snapshots, overviews, overlapped, damaged>>
cycle   == <<pc, target, order, prior, priorCompleted, todo, results>>
history == <<landed, windowed>>
vars    == <<today, store, cycle, history, disturbances>>

-----------------------------------------------------------------------------
(***************************************************************************)
(* The ledger store.                                                       *)
(***************************************************************************)
\* mutant: only the rows of this very target
EffectiveExact(e, t) == {r \in ledger : r.endpoint = e /\ r.target = t}

\* load_effective_entries: per endpoint, the row of the greatest target <= t
Effective(e, t) ==
  {r \in ledger : /\ r.endpoint = e /\ r.target <= t
                  /\ \A q \in ledger : q.endpoint = e /\ q.target <= t => q.target <= r.target}

\* the usable dates the planner is given for e
Cursor(e, t) == UNION {UsableDates(r) : r \in Effective(e, t)}

\* prior_by_endpoint finds only the row of the very same target
PriorCompleted(e, t) ==
  IF \E r \in ledger : r.endpoint = e /\ r.target = t
  THEN (CHOOSE r \in ledger : r.endpoint = e /\ r.target = t).lastCompleted
  ELSE NoDate

\* mutant: the rows of later targets are taken for stale ones
ReplaceFrom(rows, t) == {r \in ledger : r.target < t} \cup rows

\* save_ledger: upsert the entries, delete the other rows of the target, commit
Replace(rows, t) == {r \in ledger : r.target # t} \cup rows

Stage == {"idle", "running", "materializing", "composing", "saving"}

Result == [slice : Slice, date : Date, ok : SUBSET Endpoint]

\* mutant: a run is taken to complete every endpoint of its slice
FetchedBySlice(runs, e) == {r.date : r \in {q \in runs : SliceOf[e] = q.slice}}

Fetched(runs, e) == {r.date : r \in {q \in runs : e \in q.ok}}

-----------------------------------------------------------------------------
Init ==
  /\ today = 1
  /\ ledger = {} /\ snapshots = {} /\ overviews = {}
  /\ overlapped = FALSE /\ damaged = FALSE
  /\ pc = [w \in Worker |-> "idle"]
  /\ target = [w \in Worker |-> 1]
  /\ order = [w \in Worker |-> Registry]
  /\ prior = [w \in Worker |-> [e \in Endpoint |-> {}]]
  /\ priorCompleted = [w \in Worker |-> [e \in Endpoint |-> NoDate]]
  /\ todo = [w \in Worker |-> {}]
  /\ results = [w \in Worker |-> {}]
  /\ landed = {} /\ windowed = {}
  /\ disturbances = 0

\* A call returns or its process dies: its local state goes with it.
End(w) ==
  /\ pc' = [pc EXCEPT ![w] = "idle"]
  /\ target' = [target EXCEPT ![w] = 1]
  /\ order' = [order EXCEPT ![w] = Registry]
  /\ prior' = [prior EXCEPT ![w] = [e \in Endpoint |-> {}]]
  /\ priorCompleted' = [priorCompleted EXCEPT ![w] = [e \in Endpoint |-> NoDate]]
  /\ todo' = [todo EXCEPT ![w] = {}]
  /\ results' = [results EXCEPT ![w] = {}]

\* The business day rolls over.
NewNight ==
  /\ today < LastDate
  /\ today' = today + 1
  /\ UNCHANGED <<store, cycle, history, disturbances>>

\* The bound on what operators and failures do.
Disturb ==
  /\ disturbances < MaxDisturbances
  /\ disturbances' = disturbances + 1

\* What a process keeps from its load, whatever it plans from.
Load(w, t, o, usable) ==
  /\ pc[w] = "idle"
  /\ target' = [target EXCEPT ![w] = t]
  /\ order' = [order EXCEPT ![w] = o]
  /\ prior' = [prior EXCEPT ![w] = usable]
  /\ priorCompleted' = [priorCompleted EXCEPT ![w] = [e \in Endpoint |-> PriorCompleted(e, t)]]
  /\ UNCHANGED <<today, store, results, history>>

\* A runtime cycle loads the effective ledger and plans from it.
StartCycle(w, t, o) ==
  LET usable == [e \in Endpoint |-> Cursor(e, t)]
  IN  /\ Load(w, t, o, usable)
      /\ todo' = [todo EXCEPT ![w] = Dispatch(usable, o, t, MaxTasks, MaxBackfill)]
      /\ pc' = [pc EXCEPT ![w] = "running"]

NightlyCycle(w) ==
  /\ StartCycle(w, today, Registry)
  /\ UNCHANGED disturbances

\* An operator reruns a date, for all endpoints or for the ones he names.
OperatorCycle(w) ==
  /\ \E t \in 1 .. today, o \in OperatorOrders : StartCycle(w, t, o)
  /\ Disturb

\* run_nightly_sync_worker as its script calls it: no usable states are
\* passed, nothing is executed, and the plan's ledger goes to the save.
PlanOnlyWorker(w) ==
  \E t \in 1 .. today, o \in OperatorOrders :
    /\ Load(w, t, o, [e \in Endpoint |-> {}])
    /\ todo' = [todo EXCEPT ![w] = {}]
    /\ pc' = [pc EXCEPT ![w] = "saving"]
    /\ Disturb

\* The next group runs its slice: every endpoint of the slice is fetched for
\* the group's date, and the source decides which of them complete.
RunSlice(w, k, ok) ==
  LET group == GroupOf(todo[w], k)
      runOf == [slice |-> SliceOf[k.endpoint], date |-> k.date, ok |-> ok]
  IN  /\ pc[w] = "running"
      /\ IsFirst(todo[w], k)
      /\ todo' = [todo EXCEPT ![w] = @ \ group]
      /\ results' = [results EXCEPT ![w] = @ \cup {runOf}]
      /\ landed' = landed \cup (ok \X {k.date})
      /\ windowed' = IF IsWindowed(group) THEN windowed \cup (ok \X {k.date}) ELSE windowed
      /\ UNCHANGED <<today, store, pc, target, order, prior, priorCompleted, disturbances>>

RunGroup(w) ==
  \E k \in todo[w] : \E ok \in SUBSET EndpointsOf(SliceOf[k.endpoint]) : RunSlice(w, k, ok)

\* mutant: history runs are not materialised
TargetComponentRuns(w) ==
  {r \in results[w] : r.slice \in Component /\ r.date = target[w]}

ComponentRuns(w) == {r \in results[w] : r.slice \in Component}

Materializing == {v \in Worker : pc[v] \in {"materializing", "composing"}}

\* materialize_phase1_owner_surface_snapshots has something to do...
StartMaterialize(w) ==
  /\ pc[w] = "running" /\ todo[w] = {} /\ ComponentRuns(w) # {}
  /\ overlapped' = (overlapped \/ Materializing # {})
  /\ pc' = [pc EXCEPT ![w] = "materializing"]
  /\ UNCHANGED <<today, ledger, snapshots, overviews, damaged, target, order, prior,
                 priorCompleted, todo, results, history, disturbances>>

\* ...or not: no component slice ran
NothingToMaterialize(w) ==
  /\ pc[w] = "running" /\ todo[w] = {} /\ ComponentRuns(w) = {}
  /\ pc' = [pc EXCEPT ![w] = "saving"]
  /\ UNCHANGED <<today, store, target, order, prior, priorCompleted, todo, results,
                 history, disturbances>>

\* It saves in two passes: first the surface of every component run...
ComponentKeys(w) == {<<r.slice, r.date>> : r \in ComponentRuns(w)}

PersistComponents(w) ==
  /\ pc[w] = "materializing"
  /\ snapshots' = snapshots \cup ComponentKeys(w)
  /\ pc' = [pc EXCEPT ![w] = "composing"]
  /\ UNCHANGED <<today, ledger, overviews, overlapped, damaged, target, order, prior,
                 priorCompleted, todo, results, history, disturbances>>

\* ...then the daily overview of each of their dates that has all components
FullDates(w) ==
  {d \in {r.date : r \in ComponentRuns(w)} : \A s \in Component : <<s, d>> \in snapshots}

\* as far as the index lists them: an overlapping refresh may have dropped some
PersistOverviews(w) ==
  /\ pc[w] = "composing"
  /\ \E found \in (IF overlapped THEN SUBSET FullDates(w) ELSE {FullDates(w)}) :
       overviews' = overviews \cup found
  /\ pc' = [pc EXCEPT ![w] = "saving"]
  /\ UNCHANGED <<today, ledger, snapshots, overlapped, damaged, target, order, prior,
                 priorCompleted, todo, results, history, disturbances>>

\* The files a cycle has saved when it ends before its time
SavedInPart(w) ==
  /\ \E S \in SUBSET (IF pc[w] = "materializing" THEN ComponentKeys(w) ELSE {}) :
       snapshots' = snapshots \cup S
  /\ \E D \in SUBSET (IF pc[w] = "composing" THEN FullDates(w) ELSE {}) :
       overviews' = overviews \cup D

\* The final plan over the loaded and the new states becomes the ledger.
Save(w) ==
  LET t == target[w]
      rowOf(e) == LedgerRow(e, prior[w][e] \cup Fetched(results[w], e), t,
                            priorCompleted[w][e])
  IN  /\ pc[w] = "saving"
      /\ ledger' = Replace({rowOf(e) : e \in Selected(order[w])}, t)
      /\ End(w)
      /\ UNCHANGED <<today, snapshots, overviews, overlapped, damaged, history, disturbances>>

\* The process dies, perhaps inside the write of a surface, or a slice run
\* raises and the exception ends the cycle.
Abort(w) ==
  /\ pc[w] # "idle"
  /\ SavedInPart(w)
  /\ damaged' \in {damaged, damaged \/ w \in Materializing}
  /\ Disturb
  /\ End(w)
  /\ UNCHANGED <<today, ledger, overlapped, history>>

\* A refresh or a look-up raises over a half-written file, which ends the cycle.
Raise(w) ==
  /\ w \in Materializing /\ (damaged \/ overlapped)
  /\ SavedInPart(w)
  /\ End(w)
  /\ UNCHANGED <<today, ledger, overlapped, damaged, history, disturbances>>

Step(w) ==
  \/ RunGroup(w) \/ StartMaterialize(w) \/ NothingToMaterialize(w)
  \/ PersistComponents(w) \/ PersistOverviews(w) \/ Save(w)
  \/ Abort(w) \/ Raise(w)

NightlyNext ==
  \/ NewNight
  \/ \E w \in Scheduler : NightlyCycle(w)
  \/ \E w \in Worker : Step(w)

OperatorNext == NightlyNext \/ \E w \in Operator : OperatorCycle(w)
Next         == OperatorNext \/ \E w \in Operator : PlanOnlyWorker(w)

OperatorSpec == Init /\ [][OperatorNext]_vars
Spec         == Init /\ [][Next]_vars

(***************************************************************************)
(* The scheduler keeps starting nights and a started process keeps         *)
(* running; nothing is asked of operators.  The source is only             *)
(* intermittently available: each slice and date answers in full           *)
(* infinitely often if it is asked infinitely often.                       *)
(***************************************************************************)
Answered(w, s, d) ==
  \E k \in todo[w] : SliceOf[k.endpoint] = s /\ k.date = d /\ RunSlice(w, k, EndpointsOf(s))

Fairness ==
  /\ WF_vars(NewNight)
  /\ \A w \in Scheduler :
       /\ WF_vars(NightlyCycle(w))
       /\ WF_vars(RunGroup(w)) /\ WF_vars(Save(w))
       /\ WF_vars(StartMaterialize(w)) /\ WF_vars(NothingToMaterialize(w))
       /\ WF_vars(PersistComponents(w)) /\ WF_vars(PersistOverviews(w))
       /\ \A s \in Slice, d \in Date : SF_vars(Answered(w, s, d))

FairOperatorSpec == OperatorSpec /\ Fairness

-----------------------------------------------------------------------------
TypeOK ==
  /\ today \in Date
  /\ ledger \subseteq Row
  /\ snapshots \subseteq Slice \X Date /\ overviews \subseteq Date
  /\ overlapped \in BOOLEAN /\ damaged \in BOOLEAN
  /\ pc \in [Worker -> Stage]
  /\ target \in [Worker -> Date]
  /\ order \in [Worker -> OperatorOrders \cup {Registry}]
  /\ prior \in [Worker -> [Endpoint -> SUBSET Date]]
  /\ priorCompleted \in [Worker -> [Endpoint -> Date \cup {NoDate}]]
  /\ todo \in [Worker -> SUBSET Task]
  /\ results \in [Worker -> SUBSET Result]
  /\ landed \subseteq Endpoint \X Date /\ windowed \subseteq landed
  /\ disturbances \in 0 .. MaxDisturbances

(* The ledger never claims a business date the source has not delivered:   *)
(* a date is usable for an endpoint only after some run of its slice       *)
(* completed it, however cycles overlap, die or are retried.               *)
LedgerSound ==
  \A r \in ledger : \A d \in UsableDates(r) : <<r.endpoint, d>> \in landed

(* A row that says current_and_complete speaks the truth: every date of    *)
(* the history window up to its target was delivered (the target alone for *)
(* a profile endpoint, which has no historical backfill).                  *)
CompletionIsReal ==
  \A r \in ledger : r.status = "current_and_complete" =>
    \A d \in (IF r.endpoint \in Profile THEN {r.target} ELSE Expected(r.target)) :
      <<r.endpoint, d>> \in landed

(* The ledger's key: one row per endpoint and target, and next_backfill is *)
(* the newest gap, so all newer dates below the target have landed.        *)
BackfillPointerIsNewestGap ==
  \A r \in ledger : r.nextBackfill # NoDate =>
    /\ r.nextBackfill \notin r.covered
    /\ \A d \in Expected(r.target) :
         r.nextBackfill < d /\ d < r.target => <<r.endpoint, d>> \in landed

(* Owner surfaces are never behind the ledger: once the ledger credits a   *)
(* date to an endpoint of a component slice, that slice's surface of the   *)
(* date has been saved; and a date credited in every component has had its *)
(* daily overview saved, unless two materialisations have overlapped: then *)
(* the index may lack an entry, and the cycle skips the overview and saves *)
(* the ledger all the same.  A cycle that dies, or raises, between or      *)
(* inside its writes may leave a part of them, but then the ledger does    *)
(* not credit the date.                                                    *)
CreditedDates(s) ==
  UNION {r.covered : r \in {q \in ledger : SliceOf[q.endpoint] = s}}

ServingKeepsUp ==
  /\ \A s \in Component : \A d \in CreditedDates(s) : <<s, d>> \in snapshots
  /\ ~ overlapped =>
       \A d \in Date : (\A s \in Component : d \in CreditedDates(s)) => d \in overviews

(* Inside a cycle no history run starts before every selected endpoint     *)
(* that owed the target date had its slice run for it.                     *)
CurrentnessAttemptedFirst ==
  \A w \in Worker : \A r \in results[w] : r.date # target[w] =>
    \A e \in Selected(order[w]) :
      \/ target[w] \in prior[w][e]
      \/ \E q \in results[w] : q.date = target[w] /\ q.slice = SliceOf[e]

(* A profile endpoint counts as current for a target only if it was        *)
(* fetched over the whole profile window, not as a by-product of another   *)
(* endpoint's one-day run of the same slice.                               *)
ProfileWindowHonoured ==
  \A r \in ledger : r.endpoint \in Profile /\ r.target \in r.covered =>
    <<r.endpoint, r.target>> \in windowed

(* The cursor carries forward: what the planner would be given for the     *)
(* night's target never shrinks, from one step or one night to the next.   *)
CarryForward == [][\A e \in Endpoint : Cursor(e, today) \subseteq Cursor(e, today)']_vars

(* A night's backlog is worked off: with a source that answers now and     *)
(* then, the ledger of the last night ends, for good, with every endpoint  *)
(* current and every history date of the others credited; unless a process *)
(* has died inside the write of a surface, over which every later cycle    *)
(* may raise.                                                              *)
CaughtUp ==
  \A e \in Endpoint : \E r \in ledger :
    r.endpoint = e /\ r.target = LastDate /\ r.status = "current_and_complete"

EventuallyCaughtUp == []~ damaged => <>[]CaughtUp

-----------------------------------------------------------------------------
(***************************************************************************)
(* A single process implements the abstract coverage ledger.               *)
(***************************************************************************)
Credited == {c \in Endpoint \X Date : c[2] \in Cursor(c[1], today)}

Coverage == INSTANCE CoverageLedger WITH Cell <- Endpoint \X Date, credited <- Credited

ImplementsCoverage == Coverage!Spec
=============================================================================
