----------------------- MODULE NightlySyncPlannerCheck -----------------------
(***************************************************************************)
(* One call of the scheduler with its own coverage, selection, target and  *)
(* budgets, loop by loop: the planner collects what each endpoint owes and *)
(* queues the gaps in rounds, the scheduler dispatches from both queues    *)
(* until a budget is spent.  What it returns is compared with the          *)
(* declarative Dispatch of NightlySyncPlanner, and the promises of the     *)
(* nightly policy are checked on it.                                       *)
(***************************************************************************)
EXTENDS NightlySyncPlanner

CONSTANTS
  Orders,          \* the selections callers pass
  TaskBudgets,     \* values of max_dispatch_tasks
  BackfillBudgets  \* values of max_backfill_dispatch_tasks

ASSUME PlannerCheckAssumption ==
  /\ \A o \in Orders : IsSelection(o)
  /\ TaskBudgets \subseteq Nat
  /\ BackfillBudgets \subseteq Nat \cup {NoBudget}

VARIABLES
  question,          \* the arguments of the call
  pc,                \* the loop it is in
  place,             \* the position in selected_endpoint_ids
  depth,             \* backfill_depth, counted from 1
  currentnessTasks,  \* the endpoints that owe the target
  backfillDates,     \* backfill_dates_by_endpoint
  backfillTasks,     \* gaps (endpoint, date) in the order they are queued
  dispatchPlan,      \* the tasks dispatched so far
  backfillBudget,    \* resolved_backfill_dispatch_budget
  backfillCount,     \* dispatched_backfill_count
  answer             \* the dispatch_plan the call has returned

planning == <<place, depth, currentnessTasks, backfillDates, backfillTasks>>
dispatching == <<dispatchPlan, backfillBudget, backfillCount, answer>>
vars == <<question, pc, planning, dispatching>>

Question == [covered : [Endpoint -> SUBSET Date], order : Orders, target : Date,
             maxTasks : TaskBudgets, maxBackfill : BackfillBudgets]

PlanFor(q) == Dispatch(q.covered, q.order, q.target, q.maxTasks, q.maxBackfill)

answered == pc = "returned"

Init ==
  /\ question \in Question
  /\ pc = "planning" /\ place = 1 /\ depth = 1
  /\ currentnessTasks = << >> /\ backfillTasks = << >> /\ dispatchPlan = << >>
  /\ backfillDates = [e \in Endpoint |-> << >>]
  /\ backfillBudget = 0 /\ backfillCount = 0 /\ answer = {}

-----------------------------------------------------------------------------
(***************************************************************************)
(* build_nightly_sync_plan.                                                *)
(***************************************************************************)
\* mutant: reverse=True forgotten
Ascending(dates) ==
  CHOOSE s \in [1 .. Cardinality(dates) -> dates] :
    \A i, j \in DOMAIN s : i < j => s[i] < s[j]

Descending(dates) ==
  CHOOSE s \in [1 .. Cardinality(dates) -> dates] :
    \A i, j \in DOMAIN s : i < j => s[i] > s[j]

DescendingGaps(q, e) ==
  IF e \in Profile THEN << >> ELSE Descending(OlderMissing(q.covered[e], q.target))

LastPlace == place = Len(question.order)
NextPlace == IF LastPlace THEN 1 ELSE place + 1

\* What one endpoint owes.
PlanEndpoint ==
  /\ pc = "planning"
  /\ LET e == question.order[place]
     IN  /\ currentnessTasks' = IF question.target \in question.covered[e] THEN currentnessTasks
                                ELSE Append(currentnessTasks, e)
         /\ backfillDates' = [backfillDates EXCEPT ![e] = DescendingGaps(question, e)]
  /\ place' = NextPlace
  /\ pc' = IF LastPlace THEN "queueing" ELSE pc
  /\ UNCHANGED <<question, depth, backfillTasks, dispatching>>

\* mutant: the loops nested the other way round
QueuedAtOnce(e) ==
  IF depth = 1 THEN [i \in DOMAIN backfillDates[e] |-> <<e, backfillDates[e][i]>>] ELSE << >>

\* mutant: the last candidate of an endpoint is skipped
QueuedButLast(e) ==
  IF depth < Len(backfillDates[e]) THEN << <<e, backfillDates[e][depth]>> >> ELSE << >>

\* what endpoint e adds to the queue in this round
Queued(e) ==
  IF depth <= Len(backfillDates[e]) THEN << <<e, backfillDates[e][depth]>> >> ELSE << >>

MoreRounds == \E e \in Endpoint : depth <= Len(backfillDates[e])

QueueGap ==
  /\ pc = "queueing" /\ MoreRounds
  /\ backfillTasks' = backfillTasks \o Queued(question.order[place])
  /\ place' = NextPlace
  /\ depth' = IF LastPlace THEN depth + 1 ELSE depth
  /\ UNCHANGED <<question, pc, currentnessTasks, backfillDates, dispatching>>

PlanReturned ==
  /\ pc = "queueing" /\ ~ MoreRounds
  /\ pc' = "currentness"
  /\ UNCHANGED <<question, planning, dispatching>>

-----------------------------------------------------------------------------
(***************************************************************************)
(* build_nightly_sync_scheduler_snapshot.  A dispatch_sequence is the      *)
(* position in the dispatch plan.                                          *)
(***************************************************************************)
Dispatched(priority, e, d) ==
  Append(dispatchPlan, [seq |-> Len(dispatchPlan) + 1, priority |-> priority,
                        endpoint |-> e, date |-> d])

\* mutant: > for >= in the exit test of the loop
RoomForOneMore == Len(dispatchPlan) <= question.maxTasks

RoomForTask == Len(dispatchPlan) < question.maxTasks

CurrentnessLeft == Len(dispatchPlan) < Len(currentnessTasks) /\ RoomForTask

DispatchCurrentness ==
  /\ pc = "currentness" /\ CurrentnessLeft
  /\ dispatchPlan' = Dispatched("currentness", currentnessTasks[Len(dispatchPlan) + 1],
                                question.target)
  /\ UNCHANGED <<question, pc, planning, backfillBudget, backfillCount, answer>>

\* mutant: deferred currentness tasks do not close the budget
BudgetDespiteDeferred ==
  IF question.maxBackfill # NoBudget THEN question.maxBackfill
  ELSE question.maxTasks - Len(dispatchPlan)

\* max(0, ...) never bites: at most max_dispatch_tasks are in the plan here
ResolvedBudget ==
  IF Len(currentnessTasks) > Len(dispatchPlan) THEN 0
  ELSE IF question.maxBackfill # NoBudget THEN question.maxBackfill
  ELSE question.maxTasks - Len(dispatchPlan)

ResolveBudget ==
  /\ pc = "currentness" /\ ~ CurrentnessLeft
  /\ backfillBudget' = ResolvedBudget
  /\ pc' = "backfill"
  /\ UNCHANGED <<question, planning, dispatchPlan, backfillCount, answer>>

BackfillLeft == backfillCount < Len(backfillTasks) /\ backfillCount < backfillBudget

DispatchBackfill ==
  /\ pc = "backfill" /\ BackfillLeft
  /\ LET gap == backfillTasks[backfillCount + 1]
     IN  dispatchPlan' = Dispatched("backfill", gap[1], gap[2])
  /\ backfillCount' = backfillCount + 1
  /\ UNCHANGED <<question, pc, planning, backfillBudget, answer>>

Return ==
  /\ pc = "backfill" /\ ~ BackfillLeft
  /\ answer' = {dispatchPlan[i] : i \in DOMAIN dispatchPlan}
  /\ pc' = "returned"
  /\ UNCHANGED <<question, planning, dispatchPlan, backfillBudget, backfillCount>>

Next ==
  \/ PlanEndpoint \/ QueueGap \/ PlanReturned
  \/ DispatchCurrentness \/ ResolveBudget \/ DispatchBackfill \/ Return

Spec == Init /\ [][Next]_vars

-----------------------------------------------------------------------------
Backfills == {k \in answer : k.priority = "backfill"}

(* The loops dispatch exactly what Dispatch says, by counting ranks: same  *)
(* tasks, same order, same cut-off.  NightlySync, which plans in one step, *)
(* stands on this.                                                         *)
DispatchIsTheLoop == answered => answer = PlanFor(question)

(* Currentness is protected first: a history task is dispatched only when  *)
(* every endpoint that still owes the target date is dispatched too, and   *)
(* it runs after all of them.                                              *)
CurrentnessProtected ==
  \A k \in Backfills :
    \A e \in Stale(question.covered, question.order, question.target) :
      \E u \in answer : u.endpoint = e /\ u.date = question.target /\ u.seq < k.seq

(* History is filled from the newest missing date to older ones: a         *)
(* dispatched gap never leaves a newer gap of its endpoint behind, and the *)
(* newer one runs first.                                                   *)
NewestGapFirst ==
  \A k \in Backfills :
    \A d \in OlderMissing(question.covered[k.endpoint], question.target) :
      d > k.date => \E u \in answer : u.endpoint = k.endpoint /\ u.date = d /\ u.seq < k.seq

(* No endpoint is starved by the order of the selection: when an endpoint  *)
(* still has undispatched gaps, no other endpoint got two gaps more.       *)
RoundRobinBackfill ==
  \A k \in Backfills :
    \A e \in Selected(question.order) \ Profile :
      LET gaps == OlderMissing(question.covered[e], question.target)
          done == {u.date : u \in {v \in Backfills : v.endpoint = e}}
      IN  gaps \subseteq done
            \/ Cardinality({u \in Backfills : u.endpoint = k.endpoint}) <= Cardinality(done) + 1

\* what the answer leaves for later
Deferred == {e \in Stale(question.covered, question.order, question.target) :
               \A u \in answer : <<u.endpoint, u.date>> # <<e, question.target>>}

GapsLeft == {g \in Gaps(question.covered, question.order, question.target) :
               \A u \in answer : <<u.endpoint, u.date>> # g}

\* work is left for later only where a budget is spent to the last task
BudgetsAreSpent ==
  /\ Deferred # {} => Cardinality(answer) = question.maxTasks
  /\ Deferred = {} /\ GapsLeft # {} =>
       IF question.maxBackfill # NoBudget
       THEN Cardinality(Backfills) = question.maxBackfill
       ELSE Cardinality(answer) = question.maxTasks

(* A dispatch asks for nothing twice and for nothing that is already       *)
(* usable, never goes past the budgets it was given, and leaves nothing of *)
(* them unused while there is work.                                        *)
NoWastedDispatch ==
  /\ \A k \in answer : k.date \notin question.covered[k.endpoint]
  /\ \A j, k \in answer : j # k => j.seq # k.seq /\ <<j.endpoint, j.date>> # <<k.endpoint, k.date>>
  /\ Cardinality(answer \ Backfills) <= question.maxTasks
  /\ question.maxBackfill # NoBudget => Cardinality(Backfills) <= question.maxBackfill
  /\ question.maxBackfill = NoBudget => Cardinality(answer) <= question.maxTasks
  /\ answered => BudgetsAreSpent
=============================================================================
