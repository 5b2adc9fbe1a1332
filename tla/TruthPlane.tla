----------------------------- MODULE TruthPlane -----------------------------
(***************************************************************************)
(* The Temporal sync plane and the operator surface over one snapshot file *)
(* of the truth store.  A session is one process: the nightly runner, or   *)
(* run_operator_surface with one request.  It loads the file, runs a       *)
(* workflow on its own copy of the store and writes the whole copy back.   *)
(* Nothing locks the file, the write truncates it first, and a session may *)
(* die anywhere.                                                           *)
(***************************************************************************)
EXTENDS TruthStore

CONSTANTS
  Session,       \* processes
  NightlyOrgs,   \* org_ids of the nightly runner, in its order
  NightlyStart,  \* backfill_start_business_date of the nightly runner
  HistoryStart,  \* history start of the policy, NoDate when not configured
  Request,       \* requests operators make of the surface
  MaxSessions    \* bound on requests and nightly runs

Capability == {"sync_status", "sync_rerun", "sync_backfill", "unregistered"}

\* a request, with the arguments its guards look at
RequestShape ==
  [capability : Capability, org : Org \cup {"none"},
   object : {"omitted", "default", "foreign"}, path : BOOLEAN, secret : BOOLEAN,
   transport : BOOLEAN, target : Date, from : Date \cup {NoDate}, to : Date \cup {NoDate}]

ASSUME TruthPlaneAssumption ==
  /\ NightlyOrgs \in Seq(Org)
  /\ NightlyStart \in Date
  /\ HistoryStart \in Date \cup {NoDate}
  /\ Request \subseteq RequestShape
  /\ MaxSessions \in Nat
  /\ "none" \notin Org

VARIABLES
  file,     \* the snapshot file: a store, or Torn after truncation
  pc,       \* per session: how far it has come
  mem,      \* per session: its copy of the store
  job,      \* per session: what it was asked for
  orgs,     \* per session: orgs whose workflow has not started
  tasks,    \* per session: dates its current workflow still has to run
  ran,      \* per session: dates its current workflow has run
  outcomes, \* per session: statuses of the ingestion runs of that workflow
  answers,  \* answers given: the request, readiness and service status
  started,  \* number of requests and nightly runs so far
  overlap,  \* history: two sessions were at work at the same time
  cutShort  \* history: a session died between truncating the file and writing it

session == <<pc, mem, job, orgs, tasks, ran, outcomes>>
vars    == <<file, session, answers, started, overlap, cutShort>>

Torn == [torn |-> TRUE]

Stage == {"idle", "planning", "running", "saving", "writing"}

\* trace stands for the scheduler_trace_ref the session draws, asked holds the
\* request of an operator action
Job   == [kind : {"nightly", "rerun", "backfill"}, from : Date, target : Date,
          trace : Nat, asked : SUBSET Request]
NoJob == [kind |-> "none", from |-> NoDate, target |-> NoDate, trace |-> 0, asked |-> {}]

Answer == [request : Request, readiness : {"ready", "pending"},
           service : {"served", "not_ready", "scope_mismatch"}]

-----------------------------------------------------------------------------
(***************************************************************************)
(* The guards of run_operator_surface, in their order.                     *)
(***************************************************************************)
ReadOnly == {"sync_status"}   \* for the three report capabilities

Guards(r) == <<
  [fails |-> r.capability = "unregistered", readiness |-> "pending", service |-> "scope_mismatch"],
  [fails |-> r.org = "none",                readiness |-> "pending", service |-> "not_ready"],
  [fails |-> r.object = "foreign",          readiness |-> "ready",   service |-> "scope_mismatch"],
  [fails |-> ~r.path,                       readiness |-> "pending", service |-> "not_ready"],
  [fails |-> r.capability \notin ReadOnly /\ ~r.secret,
                                            readiness |-> "pending", service |-> "not_ready"],
  [fails |-> r.capability \notin ReadOnly /\ ~r.transport,
                                            readiness |-> "pending", service |-> "not_ready"] >>

Refusals(r) == {i \in 1 .. Len(Guards(r)) : Guards(r)[i].fails}

\* the answer of the first guard that fails
RefusalOf(r) ==
  LET i == CHOOSE i \in Refusals(r) : \A j \in Refusals(r) : i <= j
  IN  [request |-> r, readiness |-> Guards(r)[i].readiness, service |-> Guards(r)[i].service]

\* _normalize_backfill_window: one end stands for a window of one date
NormalizedWindow(r) ==
  LET given == {r.from, r.to} \ {NoDate} IN
  IF given = {} THEN [from |-> NoDate, to |-> r.target]
  ELSE IF NoDate \in {r.from, r.to}
       THEN LET d == CHOOSE d \in given : TRUE IN [from |-> d, to |-> d]
  ELSE [from |-> r.from, to |-> r.to]

\* without a window the whole history is backfilled, where one is configured
BackfillWindow(r) ==
  IF NormalizedWindow(r).from = NoDate THEN [from |-> HistoryStart, to |-> r.target]
  ELSE NormalizedWindow(r)

\* what raises a ValueError in _execute_operator_action
Raises(r) ==
  /\ r.capability = "sync_backfill"
  /\ \/ BackfillWindow(r).from = NoDate
     \/ BackfillWindow(r).from > BackfillWindow(r).to

\* the dates an accepted action is asked to run
RequestedDates(r) ==
  IF r.capability = "sync_rerun" THEN {r.target}
  ELSE BackfillWindow(r).from .. BackfillWindow(r).to

JobOf(r, trace) ==
  IF r.capability = "sync_rerun"
  THEN [kind |-> "rerun", from |-> r.target, target |-> r.target, trace |-> trace,
        asked |-> {r}]
  ELSE [kind |-> "backfill", from |-> BackfillWindow(r).from,
        target |-> BackfillWindow(r).to, trace |-> trace, asked |-> {r}]

-----------------------------------------------------------------------------
Init ==
  /\ file = EmptyStore   \* no file: from_snapshot_file starts a new store
  /\ pc = [s \in Session |-> "idle"]
  /\ mem = [s \in Session |-> EmptyStore]
  /\ job = [s \in Session |-> NoJob]
  /\ orgs = [s \in Session |-> << >>]
  /\ tasks = [s \in Session |-> {}]
  /\ ran = [s \in Session |-> {}]
  /\ outcomes = [s \in Session |-> {}]
  /\ answers = {}
  /\ started = 0
  /\ overlap = FALSE
  /\ cutShort = FALSE

\* A session ends, normally or not: its memory goes with it.
End(s) ==
  /\ pc' = [pc EXCEPT ![s] = "idle"]
  /\ mem' = [mem EXCEPT ![s] = EmptyStore]
  /\ job' = [job EXCEPT ![s] = NoJob]
  /\ orgs' = [orgs EXCEPT ![s] = << >>]
  /\ tasks' = [tasks EXCEPT ![s] = {}]
  /\ ran' = [ran EXCEPT ![s] = {}]
  /\ outcomes' = [outcomes EXCEPT ![s] = {}]

Arrive(s) ==
  /\ pc[s] = "idle"
  /\ started < MaxSessions
  /\ started' = started + 1

\* from_snapshot_file; a torn file is no JSON and the session fails on it
Load(s) ==
  /\ file # Torn
  /\ mem' = [mem EXCEPT ![s] = FromSnapshot(file)]
  /\ overlap' = (overlap \/ \E q \in Session : pc[q] # "idle")

-----------------------------------------------------------------------------
\* The nightly runner starts.
StartNightly(s, target) ==
  /\ Arrive(s)
  /\ Load(s)
  /\ pc' = [pc EXCEPT ![s] = "planning"]
  /\ job' = [job EXCEPT ![s] = [kind |-> "nightly", from |-> NightlyStart, target |-> target,
                                trace |-> started + 1, asked |-> {}]]
  /\ orgs' = [orgs EXCEPT ![s] = NightlyOrgs]
  /\ UNCHANGED <<file, tasks, ran, outcomes, answers, cutShort>>

\* run_operator_surface answers without touching the store.
Refuse(s, r) ==
  /\ Arrive(s)
  /\ Refusals(r) # {}
  /\ answers' = answers \cup {RefusalOf(r)}
  /\ UNCHANGED <<file, session, overlap, cutShort>>

\* A backfill without a usable window ends in a ValueError and no answer.
RaiseOnWindow(s, r) ==
  /\ Arrive(s)
  /\ Refusals(r) = {}
  /\ Raises(r)
  /\ UNCHANGED <<file, session, answers, overlap, cutShort>>

\* A read-only capability reports from the file alone.
ReportStatus(s, r) ==
  /\ Arrive(s)
  /\ Refusals(r) = {}
  /\ r.capability \in ReadOnly
  /\ file # Torn
  /\ answers' = answers \cup {[request |-> r, readiness |-> "ready", service |-> "served"]}
  /\ UNCHANGED <<file, session, overlap, cutShort>>

\* An accepted action: load the file and record the run of its one workflow.
StartAction(s, r) ==
  /\ Arrive(s)
  /\ Refusals(r) = {}
  /\ r.capability \notin ReadOnly
  /\ ~Raises(r)
  /\ file # Torn
  /\ mem' = [mem EXCEPT ![s] = RecordRun(FromSnapshot(file), started + 1, r.org)]
  /\ overlap' = (overlap \/ \E q \in Session : pc[q] # "idle")
  /\ pc' = [pc EXCEPT ![s] = "running"]
  /\ job' = [job EXCEPT ![s] = JobOf(r, started + 1)]
  /\ orgs' = [orgs EXCEPT ![s] = <<r.org>>]
  /\ tasks' = [tasks EXCEPT ![s] = RequestedDates(r)]
  /\ UNCHANGED <<file, ran, outcomes, answers, cutShort>>

\* build_plan and record_scheduler_run for the next org of the night
PlanOrg(s) ==
  /\ pc[s] = "planning"
  /\ orgs[s] # << >>
  /\ LET org  == Head(orgs[s])
         st   == Prepared(mem[s], org, job[s].from, job[s].target)
     IN  /\ tasks' = [tasks EXCEPT ![s] =
                        {job[s].target} \cup Planned(st, org, job[s].from, job[s].target)]
         /\ mem' = [mem EXCEPT ![s] =
                      RecordRun(Dispatched(st, org, job[s].from, job[s].target),
                                job[s].trace, org)]
  /\ pc' = [pc EXCEPT ![s] = "running"]
  /\ ran' = [ran EXCEPT ![s] = {}]
  /\ outcomes' = [outcomes EXCEPT ![s] = {}]
  /\ UNCHANGED <<file, job, orgs, answers, started, overlap, cutShort>>

\* The target date first, then the backfill dates from the newest to the oldest.
IsNextTask(s, d) == d \in tasks[s] /\ \A x \in tasks[s] : x <= d

\* execute_task: one slice run of the source and its persistence
ExecuteTask(s, d, ok) ==
  /\ pc[s] = "running"
  /\ IsNextTask(s, d)
  /\ mem' = [mem EXCEPT ![s] = Persist(@, Head(orgs[s]), d, ok)]
  /\ tasks' = [tasks EXCEPT ![s] = @ \ {d}]
  /\ ran' = [ran EXCEPT ![s] = @ \cup {d}]
  /\ outcomes' = [outcomes EXCEPT ![s] = @ \cup {RunOutcome(ok)}]
  /\ UNCHANGED <<file, pc, job, orgs, answers, started, overlap, cutShort>>

\* mutant: progress is left as the plan predicted it
ClosedUnreconciled(s) ==
  FinalizeRun(mem[s], job[s].trace, ran[s], outcomes[s])

\* the end of a workflow: reconcile, unless it was a rerun, and finalize
Closed(s) ==
  LET st == IF job[s].kind = "rerun" THEN mem[s]
            ELSE Reconcile(mem[s], Head(orgs[s]), job[s].from, job[s].target)
  IN  FinalizeRun(st, job[s].trace, ran[s], outcomes[s])

CloseOrg(s) ==
  /\ pc[s] = "running"
  /\ tasks[s] = {}
  /\ mem' = [mem EXCEPT ![s] = Closed(s)]
  /\ orgs' = [orgs EXCEPT ![s] = Tail(@)]
  /\ pc' = [pc EXCEPT ![s] = IF job[s].kind = "nightly" THEN "planning" ELSE "saving"]
  /\ UNCHANGED <<file, job, tasks, ran, outcomes, answers, started, overlap, cutShort>>

\* The nightly runner has been through its orgs.
NightDone(s) ==
  /\ pc[s] = "planning"
  /\ orgs[s] = << >>
  /\ pc' = [pc EXCEPT ![s] = "saving"]
  /\ UNCHANGED <<file, mem, job, orgs, tasks, ran, outcomes, answers, started, overlap, cutShort>>

\* write_snapshot_file opens the file for writing: its old content is gone.
Truncate(s) ==
  /\ pc[s] = "saving"
  /\ file' = Torn
  /\ pc' = [pc EXCEPT ![s] = "writing"]
  /\ UNCHANGED <<mem, job, orgs, tasks, ran, outcomes, answers, started, overlap, cutShort>>

\* The new content is written; an operator action is answered after it, unless
\* the process dies first.  When another session has written since this one
\* truncated, the end of a longer content may stay behind the new one.
Write(s) ==
  /\ pc[s] = "writing"
  /\ \/ file' = mem[s]
     \/ file # Torn /\ file' = Torn
  /\ End(s)
  /\ \/ answers' = answers \cup {[request |-> r, readiness |-> "ready", service |-> "served"] :
                                   r \in job[s].asked}
     \/ job[s].asked # {} /\ answers' = answers
  /\ UNCHANGED <<started, overlap, cutShort>>

\* The process dies, or the source or the store raises: nothing is written, and
\* inside write_text the truncated file is all that is left.
Die(s) ==
  /\ pc[s] # "idle"
  /\ End(s)
  /\ cutShort' = (cutShort \/ pc[s] = "writing")
  /\ UNCHANGED <<file, answers, started, overlap>>

Next == \E s \in Session :
  \/ \E target \in Date : StartNightly(s, target)
  \/ \E r \in Request : Refuse(s, r) \/ RaiseOnWindow(s, r) \/ ReportStatus(s, r) \/ StartAction(s, r)
  \/ PlanOrg(s)
  \/ \E d \in Date, ok \in SUBSET Endpoint : ExecuteTask(s, d, ok)
  \/ CloseOrg(s) \/ NightDone(s)
  \/ Truncate(s) \/ Write(s) \/ Die(s)

Spec == Init /\ [][Next]_vars
-----------------------------------------------------------------------------
(***************************************************************************)
(* Properties.                                                             *)
(***************************************************************************)
TypeOK ==
  /\ file \in Store \cup {Torn}
  /\ pc \in [Session -> Stage]
  /\ mem \in [Session -> Store]
  /\ job \in [Session -> Job \cup {NoJob}]
  /\ orgs \in [Session -> Seq(Org)]
  /\ tasks \in [Session -> SUBSET Date]
  /\ ran \in [Session -> SUBSET Date]
  /\ outcomes \in [Session -> SUBSET {"completed", "partial_failed", "failed"}]
  /\ answers \subseteq Answer
  /\ started \in Nat
  /\ overlap \in BOOLEAN
  /\ cutShort \in BOOLEAN

Intact == file # Torn

\* "historical backfill must not overwrite newer latest_sync_state": whatever
\* reruns and backfills came last, the latest state of an endpoint is the newest
\* date of its successful runs, in the file and in every session.
LatestIsNewest ==
  /\ Intact => LatestIsNewestIn(file)
  /\ \A s \in Session : LatestIsNewestIn(mem[s])

\* The completed dates are not persisted, yet no reload forgets one or invents
\* one: what a session knows to be completed is what the next will rebuild.
ReloadForgetsNothing == \A s \in Session : Rebuilt(mem[s]) = mem[s].completed

\* The progress rows a session leaves behind never hide a gap of their own
\* window: a planned date that failed, or was never reached, is a gap again.
ProgressCovers == Intact => ProgressCoversIn(FromSnapshot(file))

\* A capability that is ready for a date has every endpoint's data for it.
ReadyIsComplete == Intact => ReadyIsCompleteIn(FromSnapshot(file))

\* A scheduler run recorded as completed completed all its dates for its org.
CompletedRunIsComplete == Intact =>
  \A i \in DOMAIN file.runs : file.runs[i].status = "completed" =>
    \A d \in file.runs[i].dates, e \in Endpoint :
      d \in FromSnapshot(file).completed[file.runs[i].org][e]

\* the runs that are on disk, or about to be: those of the file or, while it is
\* being rewritten, those of the session that writes it
Kept(run) == \/ Intact /\ run \in file.attempts
             \/ ~Intact /\ \E s \in Session : pc[s] = "writing" /\ run \in mem[s].attempts

\* As long as sessions follow one another, only a death inside write_text loses
\* what an operator was told is served, and that one loses all of it: until then
\* the runs of an answered action are in the file or in the memory of the one
\* session that is rewriting it, whatever else died, failed or was refused.
ServedIsDurable == ~overlap /\ ~cutShort =>
  \A a \in answers : a.service = "served" /\ a.request.capability \notin ReadOnly =>
    \A d \in RequestedDates(a.request), e \in Endpoint :
      \E run \in EndpointRun : /\ run.org = a.request.org /\ run.endpoint = e
                               /\ run.date = d /\ Kept(run)

\* the dates before the target no run has delivered for endpoint e
TrueGaps(s, e) ==
  {d \in NightlyStart .. job[s].target - 1 :
     [org |-> Head(orgs[s]), endpoint |-> e, date |-> d, ok |-> TRUE] \notin mem[s].attempts}

\* "older missing business dates must produce non-empty backfill_tasks": whatever
\* narrow window an operator's backfill left in the progress rows, the nightly
\* plan dispatches or keeps every true gap, and dispatches the newest.
NightFindsEveryGap == [][\A s \in Session :
  pc[s] = "planning" /\ pc'[s] = "running" =>
    LET kept == mem'[s].progress[Head(orgs[s])] IN
    /\ \A e \in Endpoint : TrueGaps(s, e) \subseteq tasks'[s] \cup kept[e].gaps
    /\ \A d \in tasks'[s] \ {job[s].target}, e \in Endpoint :
         \A gap \in TrueGaps(s, e) : gap > d => gap \in tasks'[s]]_vars

\* "scheduler_trace_ref text not null unique"
TraceRefUnique == Intact =>
  \A i, j \in DOMAIN file.runs : file.runs[i].trace = file.runs[j].trace => i = j
=============================================================================
