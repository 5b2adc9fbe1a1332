----------------------------- MODULE TruthStore -----------------------------
(***************************************************************************)
(* PostgresTruthSubstrate, the store behind the Temporal sync plane: what  *)
(* each of its operations makes of the whole store.  A store is a record;  *)
(* every operation maps a store to the next one, and the processes that    *)
(* call them are in TruthPlane.                                            *)
(*                                                                         *)
(* Append-only logs whose rows no operation reads back (pages, replay      *)
(* artefacts, field coverage, quality issues) are the endpoint runs they   *)
(* are derived from; identifiers, times and payloads are left out.         *)
(***************************************************************************)
EXTENDS Integers, Sequences, FiniteSets

CONSTANTS
  Org,
  Endpoint,   \* the endpoint contracts of the member insight capability
  LastDate,   \* business dates are 1 .. LastDate
  MaxBackfillTasks   \* max_backfill_tasks_per_run

ASSUME TruthStoreAssumption ==
  /\ IsFiniteSet(Endpoint) /\ Endpoint # {}
  /\ LastDate \in Nat \ {0}
  /\ MaxBackfillTasks \in Nat \ {0}   \* 0 is read as "take the policy's"

Date   == 1 .. LastDate
NoDate == 0

\* One row of ingestion_endpoint_run; ok is completed or source_empty.
EndpointRun == [org : Org, endpoint : Endpoint, date : Date, ok : BOOLEAN]

RunStatus == {"running", "completed", "partial_failed", "failed"}

\* One row of scheduler_run.  dates is what its execution_trace_refs stand for.
SchedulerRun == [trace : Nat, org : Org, dates : SUBSET Date, status : RunStatus]

\* One row of backfill_progress_state: gaps stands for its cursor (the newest),
\* its newest and oldest missing date and their number.
Progress   == [from : Date, target : Date, gaps : SUBSET Date, planned : SUBSET Date]
NoProgress == [from |-> NoDate, target |-> NoDate, gaps |-> {}, planned |-> {}]

Readiness == {"none", "ready", "failed"}

Store == [
  runs      : Seq(SchedulerRun),
  attempts  : SUBSET EndpointRun,
  completed : [Org -> [Endpoint -> SUBSET Date]],          \* derived, in memory only
  latest    : [Org -> [Endpoint -> Date \cup {NoDate}]],   \* latest_sync_state
  progress  : [Org -> [Endpoint -> Progress \cup {NoProgress}]],
  ready     : [Org -> [Date -> Readiness]] ]               \* readiness and projection

EmptyStore == [
  runs      |-> << >>,
  attempts  |-> {},
  completed |-> [o \in Org |-> [e \in Endpoint |-> {}]],
  latest    |-> [o \in Org |-> [e \in Endpoint |-> NoDate]],
  progress  |-> [o \in Org |-> [e \in Endpoint |-> NoProgress]],
  ready     |-> [o \in Org |-> [d \in Date |-> "none"]] ]

-----------------------------------------------------------------------------
(***************************************************************************)
(* Scheduler runs.                                                         *)
(***************************************************************************)
RecordRun(st, trace, org) ==
  [st EXCEPT !.runs = Append(@, [trace |-> trace, org |-> org, dates |-> {},
                                 status |-> "running"])]

\* mutant: anything that is not a plain failure counts as completed
AnyCompleted(outcomes) ==
  IF "completed" \in outcomes THEN "completed" ELSE "failed"

\* the status of a workflow from the statuses of its ingestion runs
WorkflowStatus(outcomes) ==
  IF outcomes = {"completed"} THEN "completed"
  ELSE IF "completed" \in outcomes THEN "partial_failed"
  ELSE "failed"

\* The first record that carries the trace ref is the one that is updated.
IsFirstOf(runs, i, trace) ==
  /\ runs[i].trace = trace
  /\ \A j \in 1 .. i - 1 : runs[j].trace # trace

FinalizeRun(st, trace, dates, outcomes) ==
  [st EXCEPT !.runs = [i \in DOMAIN @ |->
     IF IsFirstOf(@, i, trace)
     THEN [@[i] EXCEPT !.status = WorkflowStatus(outcomes), !.dates = dates]
     ELSE @[i]]]

-----------------------------------------------------------------------------
(***************************************************************************)
(* persist_vertical_slice_result: one slice run of org for date, ok being  *)
(* the endpoints that completed or were empty at the source.               *)
(***************************************************************************)
EndpointRuns(org, date, ok) ==
  {[org |-> org, endpoint |-> e, date |-> date, ok |-> e \in ok] : e \in Endpoint}

MarkCompleted(st, org, date, ok) ==
  [e \in Endpoint |-> st.completed[org][e] \cup {d \in {date} : e \in ok}]

\* mutant: whatever was synced last is the latest
LatestIsLast(st, org, date, ok) ==
  [e \in Endpoint |-> IF e \in ok THEN date ELSE st.latest[org][e]]

\* a candidate replaces the latest state only if it is not older
UpdateLatest(st, org, date, ok) ==
  [e \in Endpoint |->
     IF e \in ok /\ date >= st.latest[org][e] THEN date ELSE st.latest[org][e]]

\* mutant: one endpoint's data makes the capability ready
ReadyIfAny(ok) == IF ok # {} THEN "ready" ELSE "failed"

\* backbone_ready needs every endpoint; otherwise some endpoint run failed
RunReadiness(ok) == IF ok = Endpoint THEN "ready" ELSE "failed"

RunOutcome(ok) ==
  IF ok = Endpoint THEN "completed"
  ELSE IF ok # {} THEN "partial_failed" ELSE "failed"

Persist(st, org, date, ok) ==
  [st EXCEPT !.attempts = @ \cup EndpointRuns(org, date, ok),
             !.completed = [@ EXCEPT ![org] = MarkCompleted(st, org, date, ok)],
             !.latest = [@ EXCEPT ![org] = UpdateLatest(st, org, date, ok)],
             !.ready = [@ EXCEPT ![org][date] = RunReadiness(ok)]]

-----------------------------------------------------------------------------
(***************************************************************************)
(* Backfill progress and the nightly plan.                                 *)
(***************************************************************************)
\* mutant: the day before the history start is expected as well
MissingOffByOne(st, org, e, from, target) ==
  {d \in from - 1 .. target - 1 : d \notin st.completed[org][e]}

\* the business dates from .. target - 1 that endpoint e has not completed
MissingBefore(st, org, e, from, target) ==
  {d \in from .. target - 1 : d \notin st.completed[org][e]}

\* reconcile_backfill_progress
Reconcile(st, org, from, target) ==
  [st EXCEPT !.progress = [@ EXCEPT ![org] = [e \in Endpoint |->
     [from |-> from, target |-> target,
      gaps |-> MissingBefore(st, org, e, from, target), planned |-> {}]]]]

\* mutant: the progress rows are taken as they are
NotReconciled(st, org, from, target) == st

\* build_plan begins by reconciling
Prepared(st, org, from, target) == Reconcile(st, org, from, target)

\* what the plan takes to be missing: nothing newer than the carried cursor
PlanGaps(st, org, e, from, target) ==
  LET carried == st.progress[org][e].gaps IN
  {d \in MissingBefore(st, org, e, from, target) :
     carried # {} => \E c \in carried : d <= c}

\* the backfill dates of the plan: the newest of any endpoint's gaps
Planned(st, org, from, target) ==
  LET all == UNION {PlanGaps(st, org, e, from, target) : e \in Endpoint}
  IN  {d \in all : Cardinality({x \in all : x > d}) < MaxBackfillTasks}

\* the progress rows build_plan leaves: planned dates no longer count as gaps
Dispatched(st, org, from, target) ==
  [st EXCEPT !.progress = [@ EXCEPT ![org] = [e \in Endpoint |->
     [from |-> from, target |-> target,
      gaps |-> PlanGaps(st, org, e, from, target) \ Planned(st, org, from, target),
      planned |-> PlanGaps(st, org, e, from, target) \cap Planned(st, org, from, target)]]]]

-----------------------------------------------------------------------------
(***************************************************************************)
(* The snapshot file.  It has no completed dates: they are rebuilt from    *)
(* the endpoint runs and the latest states.                                *)
(***************************************************************************)
\* mutant: the endpoint runs are not consulted
RebuiltFromLatest(st) ==
  [o \in Org |-> [e \in Endpoint |-> {st.latest[o][e]} \ {NoDate}]]

Rebuilt(st) ==
  [o \in Org |-> [e \in Endpoint |->
     {d \in Date : [org |-> o, endpoint |-> e, date |-> d, ok |-> TRUE] \in st.attempts}
       \cup ({st.latest[o][e]} \ {NoDate})]]

\* mutant: every session starts from nothing
FreshStore(st) == EmptyStore

\* from_snapshot
FromSnapshot(st) == [st EXCEPT !.completed = Rebuilt(st)]

-----------------------------------------------------------------------------
(***************************************************************************)
(* What a store must be.                                                   *)
(***************************************************************************)
Succeeded(st, o, e) == {a \in st.attempts : a.org = o /\ a.endpoint = e /\ a.ok}

LatestIsNewestIn(st) == \A o \in Org, e \in Endpoint :
  /\ \A a \in Succeeded(st, o, e) : a.date <= st.latest[o][e]
  /\ st.latest[o][e] # NoDate => \E a \in Succeeded(st, o, e) : a.date = st.latest[o][e]

CompletedIsAttestedIn(st) == \A o \in Org, e \in Endpoint :
  st.completed[o][e] = {a.date : a \in Succeeded(st, o, e)}

ReadyIsCompleteIn(st) == \A o \in Org, d \in Date :
  st.ready[o][d] = "ready" => \A e \in Endpoint : d \in st.completed[o][e]

ProgressCoversIn(st) == \A o \in Org, e \in Endpoint :
  LET p == st.progress[o][e] IN
  p # NoProgress => MissingBefore(st, o, e, p.from, p.target) \subseteq p.gaps
=============================================================================
