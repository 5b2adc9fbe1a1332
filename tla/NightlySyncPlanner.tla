-------------------------- MODULE NightlySyncPlanner --------------------------
(***************************************************************************)
(* The planning arithmetic of the data platform's nightly sync:            *)
(* build_nightly_sync_plan decides what an org still owes for a target     *)
(* business date, build_nightly_sync_scheduler_snapshot cuts that plan to  *)
(* the dispatch budget, and the runtime groups the dispatched tasks into   *)
(* one vertical-slice run each.                                            *)
(*                                                                         *)
(* Business dates are 1..LastDate (ISO dates in the code, which compare    *)
(* the same way).  What an endpoint has usable is the set of business      *)
(* dates covered[e].                                                       *)
(***************************************************************************)
EXTENDS Integers, FiniteSets, Sequences

CONSTANTS
  Endpoint,      \* governed endpoint contracts of the source system
  Slice,         \* vertical slices: one run of a slice fetches all its endpoints
  SliceOf,       \* the slice that serves an endpoint
  Profile,       \* endpoints whose increment strategy is profile_refresh_windowed
  LastDate,      \* the last business date of the calendar
  HistoryStart   \* history_start_business_date; past LastDate when not configured

ASSUME PlannerAssumption ==
  /\ SliceOf \in [Endpoint -> Slice]
  /\ Profile \subseteq Endpoint
  /\ LastDate \in Nat \ {0}
  /\ HistoryStart \in Nat

Date     == 1 .. LastDate
NoDate   == 0    \* a business date field that is None
NoBudget == -1   \* max_backfill_dispatch_tasks = None

(***************************************************************************)
(* A selection is endpoint_contract_ids: an ordering without repetition of *)
(* the endpoints a caller asked for.                                       *)
(***************************************************************************)
Selected(order) == {order[i] : i \in DOMAIN order}

IsSelection(order) ==
  /\ order \in Seq(Endpoint) /\ order # <<>>
  /\ \A i, j \in DOMAIN order : order[i] = order[j] => i = j

\* f is planned no later than e
NotAfter(order, f, e) ==
  \E i, j \in DOMAIN order : order[i] = f /\ order[j] = e /\ i <= j

EndpointsOf(slice) == {e \in Endpoint : SliceOf[e] = slice}

-----------------------------------------------------------------------------
(***************************************************************************)
(* What one endpoint owes for target t.                                    *)
(***************************************************************************)
Expected(t) == {t} \cup {d \in Date : HistoryStart <= d /\ d <= t}

Missing(dates, t) == Expected(t) \ dates

\* mutant: the day before the target is not counted as history
OlderMissingOffByOne(dates, t) == {d \in Missing(dates, t) : d < t - 1}

OlderMissing(dates, t) == {d \in Missing(dates, t) : d < t}

\* latest_usable_business_date: max(covered) or None
Latest(dates) ==
  IF dates = {} THEN NoDate ELSE CHOOSE d \in dates : \A x \in dates : x <= d

\* recommended_next_backfill_business_date: the newest older gap, none for a
\* strategy that does not allow historical backfill
NextBackfill(e, dates, t) ==
  IF e \in Profile THEN NoDate ELSE Latest(OlderMissing(dates, t))

-----------------------------------------------------------------------------
(***************************************************************************)
(* Dispatch: currentness tasks first, in selection order and up to the     *)
(* task budget; backfill only when no currentness task had to be deferred, *)
(* one round over the endpoints per depth, newest gap first.               *)
(***************************************************************************)
Task == [seq : Nat, priority : {"currentness", "backfill"},
         endpoint : Endpoint, date : Date]

Stale(covered, order, t) == {e \in Selected(order) : t \notin covered[e]}

CurrentnessRank(covered, order, t, e) ==
  Cardinality({f \in Stale(covered, order, t) : NotAfter(order, f, e)})

\* mutant: the oldest date of the history is never a gap
GapsPastStart(covered, order, t) ==
  {g \in (Selected(order) \ Profile) \X Date :
     g[2] \in OlderMissing(covered[g[1]], t) \ {HistoryStart}}

\* mutant: the history starts a day early
GapsBeforeStart(covered, order, t) ==
  {g \in (Selected(order) \ Profile) \X (0 .. LastDate) :
     HistoryStart - 1 <= g[2] /\ g[2] < t /\ g[2] \notin covered[g[1]]}

Gaps(covered, order, t) ==
  {g \in (Selected(order) \ Profile) \X Date :
     g[2] \in OlderMissing(covered[g[1]], t)}

Depth(covered, t, g) ==
  Cardinality({d \in OlderMissing(covered[g[1]], t) : d >= g[2]})

\* gap h is queued no later than gap g: by depth, then by selection order
QueuedNotAfter(covered, order, t, h, g) ==
  \/ Depth(covered, t, h) < Depth(covered, t, g)
  \/ /\ Depth(covered, t, h) = Depth(covered, t, g)
     /\ NotAfter(order, h[1], g[1])

BackfillRank(covered, order, t, g) ==
  Cardinality({h \in Gaps(covered, order, t) : QueuedNotAfter(covered, order, t, h, g)})

DispatchedStale(covered, order, t, maxTasks) ==
  {e \in Stale(covered, order, t) : CurrentnessRank(covered, order, t, e) <= maxTasks}

BackfillBudget(covered, order, t, maxTasks, maxBackfill) ==
  LET dispatched == DispatchedStale(covered, order, t, maxTasks)
  IN  IF dispatched # Stale(covered, order, t) THEN 0
      ELSE IF maxBackfill # NoBudget THEN maxBackfill
      ELSE maxTasks - Cardinality(dispatched)

Dispatch(covered, order, t, maxTasks, maxBackfill) ==
  LET now    == DispatchedStale(covered, order, t, maxTasks)
      budget == BackfillBudget(covered, order, t, maxTasks, maxBackfill)
  IN  {[seq |-> CurrentnessRank(covered, order, t, e), priority |-> "currentness",
        endpoint |-> e, date |-> t] : e \in now}
      \cup
      {[seq |-> Cardinality(now) + BackfillRank(covered, order, t, g),
        priority |-> "backfill", endpoint |-> g[1], date |-> g[2]] :
         g \in {h \in Gaps(covered, order, t) :
                  BackfillRank(covered, order, t, h) <= budget}}

(***************************************************************************)
(* _group_dispatch_plan: tasks of one priority and slice share a run; a    *)
(* backfill run is also for one business date.  Runs start in the order of *)
(* their first task.                                                       *)
(***************************************************************************)
\* mutant: groups run in any order
AnyTask(tasks, k) == k \in tasks

IsFirst(tasks, k) == k \in tasks /\ \A u \in tasks : k.seq <= u.seq

GroupOf(tasks, k) ==
  {u \in tasks : /\ u.priority = k.priority
                 /\ SliceOf[u.endpoint] = SliceOf[k.endpoint]
                 /\ u.priority = "backfill" => u.date = k.date}

\* mutant: the window of the group's narrowest task
AllWindowed(group) ==
  \A u \in group : u.priority = "currentness" /\ u.endpoint \in Profile

\* _business_window reaches back over the profile window only when the group
\* holds a profile_refresh_window task
IsWindowed(group) ==
  \E u \in group : u.priority = "currentness" /\ u.endpoint \in Profile

-----------------------------------------------------------------------------
(***************************************************************************)
(* What the plan says of an endpoint in the cursor ledger.                 *)
(***************************************************************************)
CursorStatus(e, dates, t) ==
  CASE t \notin dates                        -> "currentness_pending"
    [] t \in dates /\ NextBackfill(e, dates, t) # NoDate -> "backfill_pending"
    [] OTHER                                 -> "current_and_complete"

LedgerRow(e, dates, t, priorCompleted) ==
  [endpoint      |-> e,
   target        |-> t,
   covered       |-> dates,
   lastCompleted |-> IF dates # {} THEN Latest(dates) ELSE priorCompleted,
   nextBackfill  |-> NextBackfill(e, dates, t),
   status        |-> CursorStatus(e, dates, t)]

Status == {"currentness_pending", "backfill_pending", "current_and_complete"}

Row == [endpoint : Endpoint, target : Date, covered : SUBSET Date,
        lastCompleted : Date \cup {NoDate}, nextBackfill : Date \cup {NoDate}, status : Status]

\* build_latest_usable_states_from_cursor_ledger_entries
UsableDates(row) ==
  row.covered \cup (IF row.lastCompleted = NoDate THEN {} ELSE {row.lastCompleted})
=============================================================================
