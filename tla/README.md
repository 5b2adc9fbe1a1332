# Navly: models, checks and proofs

Navly is a store copilot built around two kernels: a data platform that turns a
source system (Qinqin) into governed business-date data, and an auth kernel that
decides who may ask for it.  A thin runtime executes a capability request between
the two, and a host bridge connects a chat host to the runtime.  This directory
keeps the TLA+ models of that code, the TLC instances that check them and the
TLAPS proofs about them.  `PROJECT.json` is the index: which definition models
which lines, which run checks what, which mutation each property detects.

Run, from this directory:

    tlc -workers 2 -config NightlyOverlap.cfg MCNightlySync
    tlc -workers 2 -config ServingOverlap.cfg MCServingStore
    tlc -workers 2 -config TruthPlane.cfg MCTruthPlane
    tlc -workers 2 -config SliceRun.cfg MCSliceRun
    tlc -workers 2 -config GuardedRuntime.cfg MCGuardedRuntime
    tlc -workers 2 -config HostHandoff.cfg MCHostHandoff
    tlapm NightlySyncProofs.tla       # and NightlySyncPlannerProofs,
                                      # NightlyCoverageProofs, ServingStoreProofs,
                                      # TruthPlaneProofs, SliceRunProofs,
                                      # GuardedRuntimeProofs, HostHandoffProofs

## 1. Inventory

Paths are relative to the repository root.

| Component | State it keeps | Operations | Talks to |
| --- | --- | --- | --- |
| Nightly planner and scheduler (`platforms/data-platform/ingestion/nightly_sync_planner.py`, `workflows/nightly_sync_scheduler.py`) | none | plan for a target date; cut to the dispatch budgets | called by the runtime and by the plan-only worker, before and after the slice runs |
| Nightly runtime (`workflows/nightly_sync_runtime.py`) | locals of one cycle | load, dispatch group by group, materialise, save | ledger store, slices, materialiser |
| Cursor ledger and store (`sync-state/nightly_sync_cursor_*.py`) | SQL rows keyed by org, endpoint, target date | load effective rows, save a ledger | every cycle and the plan-only worker share it |
| Temporal worker (`workflows/nightly_sync_temporal_worker.py`) | none | one activity per night, timeout 3600 s, retried | runtime |
| Vertical slices (`ingestion/*_slice.py`, `workflows/commission_setting_endpoint_sync.py`, `ingestion/parallel_execution.py`) | artefacts of one run | page loop per endpoint, parallel fetch, ordered record keeping, artefact files | connector, raw store |
| Connector (`connectors/qinqin/qinqin_substrate.py`) | none | build a page request, exchange it, classify what comes back | source system |
| Readiness, theme services, owner surfaces (`completeness/`, `serving/`, `workflows/*_owner_surface.py`) | none | functions of a slice run; aggregates over several | slices, runtime adapters |
| Materialiser and snapshot store (`workflows/persisted_phase1_owner_surface_materializer.py`, `serving/persisted_owner_surface_snapshot_store.py`) | JSON files and one index file per org | save, refresh index, load strict or latest usable | runtime writes, owner surfaces read |
| Truth substrate (`backbone_support/postgres_truth_substrate.py`, `workflows/postgres_temporal_nightly_sync.py`) | scheduler runs, backfill progress, latest sync state | plan, execute, finalize, rerun, backfill per org | slices, operator surface |
| Operator surface (`workflows/postgres_temporal_operator_surface.py`) | one snapshot file | status, rerun, backfill | truth substrate |
| Auth kernel (`platforms/auth-kernel/`) | seed and override files, audit events of one chain | resolve actor, bindings, gate 0, capability decision, session grant, envelope | bridge and runtime adapters |
| Runtime (`runtimes/navly-runtime/`) | run cache of owner surfaces (32 entries, 5 min) | ingress, route, guarded execution, answer, outcome event | auth and data adapters |
| Host bridge (`bridges/openclaw-host-bridge/`) | none per call | normalise, enforce gate 0, link session, hand off, dispatch | auth kernel, runtime |
| Shared contracts, quality reports, scripts | none | schemas, reports, test orchestration | - |

What is hard, and what makes each component correct:

* **Planner and scheduler.** Two budgets, two loops and an order that later
  readers rely on.  Correct when the target date is protected before history, no
  endpoint starves another, gaps are taken newest first, and no work is asked for
  twice.
* **Runtime and ledger.** Every cycle reads the ledger, works for up to an hour
  and writes the ledger, without a lock.  An activity that times out is retried
  beside the first attempt; operators start reruns and a plan-only worker on the
  same database; a process may die between two writes.  Correct when the ledger
  never claims a date that was not delivered, the cursor carries over from night
  to night, and the backlog is eventually worked off.
* **Slices and owner surfaces.** Five page loops, each with its own reading of
  empty, refused and malformed answers, fetches that end in any order, and a
  readiness derived from the endpoint statuses through two intermediate states.
  Correct when a surface that is served holds all the source has, the records are
  those of their endpoints, and every loop ends.
* **Materialiser and snapshot store.** Files written in two passes between the
  slice runs and the save, each truncated before it is written, and an index file
  through which everything is found.  Correct when readers never miss a surface of a
  date the ledger calls done, the index lists every file, and what a dead process
  left half-written costs no other surface.
* **Truth substrate and operator surface.** Derived workflow states, progress rows
  that shrink before the work is done, read-modify-write of a whole snapshot file.
  Correct when the latest state never regresses, no gap is lost, a reload knows
  what the session before knew, and what was answered as served stays.
* **Auth kernel and bridge.** One call is decided twice, each time from four files
  read one after the other, any of which may be replaced in between, with scopes
  that pass through a hint, a selection, an envelope and a plan.  Correct when
  nobody is served on the strength of a file replaced before the call, no scope is
  guessed, and both decisions agree.
* **Runtime.** Four awaits, each of which can fail; a cache that also guarantees
  that a write capability runs once.  Correct when every failure is fail-closed and
  nothing is run twice that the cache could know.

The hazards, each at its line and with the properties that cover it, are in
`PROJECT.json` under `hazards`.

## 2. Plan

| # | Module | Question |
| --- | --- | --- |
| 1 | `NightlySyncPlanner`, `NightlySyncPlannerCheck`, `NightlySyncPlannerProofs` | Is the dispatch what the policy promises, for every coverage and budget? |
| 2 | `CoverageLedger` (abstract), `NightlySync` (composes the planner) | What do overlapping, dying cycles do to ledger and surfaces? |
| 3 | `NightlySyncProofs`, `NightlyCoverageProofs` | The same for every registry, calendar and number of processes |
| 4 | `ServingStore`, `ServingStoreProofs` | Truncation and text of each file, scan and index as separate steps of concurrent writers that die; latest-usable reads |
| 5 | `TruthStore`, `TruthPlane` (composes it), `TruthPlaneProofs` | Nights, reruns and backfills over one snapshot file that is rewritten whole |
| 6 | `QinqinTransport`, `OwnerSurface`, `SliceRun` (composes both), `SliceRunProofs` | From what the wire does to a page to what a reader is served |
| 7 | `GuardedRuntime`, `GuardedRuntimeProofs` | Fail-closed after every await; owner surface runs shared through a cache |
| 8 | `AuthKernel`, `HostHandoff` (composes it), `HostHandoffProofs` | Two decisions on one call over files that change |

All eight are done, and every safety property that a passing run checks is proved.
What could still be proved: weaker hypotheses for the conditional theorems.  `TruthPlane`
does not refine `CoverageLedger`: a session that dies between truncating the file and
writing it takes back all that was saved.

## 3. The modules

**`NightlySyncPlanner`** holds the planning arithmetic as operators without
state.  Business dates are `1 .. LastDate` and `NoDate` stands for `None`; an
endpoint's coverage is a set of dates; `HistoryStart` beyond the calendar means
that no history start is configured.  `Expected`, `Missing`, `OlderMissing`,
`NextBackfill` are `build_nightly_sync_plan` for one endpoint.  The scheduler's two
loops are given by rank: a currentness task is dispatched when its rank in
selection order is within `maxTasks`; a gap when its rank, by depth and then by
selection order, is within the backfill budget.  `GroupOf`, `IsFirst` and
`IsWindowed` are the runtime's grouping, its order and the window of a run.
`LedgerRow` and `UsableDates` are the writing and the reading of a ledger row.
The explicit `expected_business_dates` of a caller is the target alone, which is
what the scripts pass by default; other expected dates come from the history start.

**`NightlySyncPlannerCheck`** is one call of the scheduler with its `question`
(coverage, selection, target, budgets), loop by loop as the code runs it, one action
per iteration.

| Action | In the code |
| --- | --- |
| `PlanEndpoint` | one endpoint of `selected_endpoint_ids`: `currentness_tasks`, `backfill_dates_by_endpoint` |
| `QueueGap`, `PlanReturned` | one endpoint in one round of `backfill_depth`: `backfill_tasks`; the plan is complete |
| `DispatchCurrentness`, `ResolveBudget` | one currentness task into `dispatch_plan`; the loop is over or broken off, `resolved_backfill_dispatch_budget` |
| `DispatchBackfill`, `Return` | one history task; the dispatch plan is returned |

`DispatchIsTheLoop` compares the `answer` with the declarative `Dispatch` of
`NightlySyncPlanner`, which `NightlySync` uses to plan in one step.  The other
properties are the promises of the policy; `BudgetsAreSpent` is the half of
`NoWastedDispatch` that keeps the planner from dispatching too little.

**`CoverageLedger`** is the promise of the cursor ledger: a set of credited cells
(endpoint, business date) that only grows.

**`NightlySync`** is the runtime over shared stores.

| Variable | In the code |
| --- | --- |
| `ledger` | rows of `nightly_sync_cursor_ledger_entries` of one source system and org |
| `snapshots`, `overviews` | component surfaces and daily overviews ever persisted |
| `overlapped`, `damaged` | whether two materialisations have been under way at once; whether a process has died inside the write of a surface |
| `pc`, `target`, `order`, `prior`, `priorCompleted`, `todo`, `results` | locals of a running cycle, one per process |
| `today` | the business date the nightly schedule targets |
| `landed`, `windowed` | history: what the source really delivered, and what of it by a run over the profile window |
| `disturbances` | a bound on operator starts and deaths |

| Action | In the code |
| --- | --- |
| `NightlyCycle`, `OperatorCycle` | `run_nightly_sync_runtime_cycle` up to the dispatch plan: load effective rows, plan |
| `RunGroup` | one iteration of `execute_dispatch_plan`: the slice fetches all its endpoints, the source decides which complete |
| `StartMaterialize`, `NothingToMaterialize` | `materialize_phase1_owner_surface_snapshots` is entered with component runs, or without any |
| `PersistComponents`, `PersistOverviews` | its two passes; the second builds what its look-ups through the index find |
| `Raise` | a refresh or look-up of the cycle raises over a half-written file |
| `Save` | the final plan over loaded and fetched states, and `save_ledger` (one transaction) |
| `Abort` | the process dies, or a slice run raises and nothing after it happens |
| `PlanOnlyWorker` | `run_nightly_sync_worker` as its script calls it without a states file |
| `NewNight` | the calendar (external) |

A retry of a timed-out activity is a second process in the middle of the first
one's cycle: `OperatorCycle` of another process covers it, since it may choose the
same target and selection.

A group's run is atomic: what happens inside a slice touches only its own
artefact directory, and its outcome reaches shared state only through the later
steps.  A materialisation pass is one step, of which a cycle that ends before its
time may have done any part (`SavedInPart`), and a snapshot is its key.

Files and index are the subject of `ServingStore`, and `NightlySync` takes over what
that module shows of them.  Until two materialisations have overlapped no refresh
unlists anything (`NothingUnlisted`) and a cycle has listed what it saved before it
looks, so a look-up finds every saved component: `PersistOverviews` builds exactly
`FullDates`.  Afterwards the index may lack any entry, and `PersistOverviews` builds
any part of them; the cycle goes on to its save all the same.  As long as nobody has
died inside a write and nothing overlapped, no file is half-written and nothing
raises; otherwise `Raise` may end any cycle that is materialising.

**`ServingStore`** splits those passes into the steps other processes can come
between.  It abstracts from the planner: a cycle is handed any set of component
runs, at most one per component and date (a group runs once), each ready or
failed.  A third readiness, pending, needs a slice without endpoint states and does
not occur.

| Variable | In the code |
| --- | --- |
| `files` | the snapshot files of one org, reduced to the readiness they state; `empty` when truncated, `mixed` when the file holds a part of a text or of two |
| `index`, `indexFile` | `available_business_dates` of the last `index.json` written in full, as (capability, date) pairs; whether the file still holds that text |
| `stage`, `runs`, `toSave`, `writing`, `toBuild`, `found` | where a cycle is; its execution results, the part not saved yet, the run whose file it has open, `affected_business_dates` not visited yet, the component snapshots loaded for the next of them |
| `toScan`, `scanned` | locals of one `_refresh_index` |
| `executed` | a bound on runs |
| `settled`, `overlapped`, `unfinished` | history: runs whose cycle reached its ledger save; whether two cycles were ever in flight at once; dates of cycles that died and were not materialised since |

| Action | In the code |
| --- | --- |
| `StartMaterialize` | entering `materialize_phase1_owner_surface_snapshots` |
| `OpenComponent`, `SaveComponent`, `OpenOverview`, `SaveOverview` | `save_snapshot` up to its file: `write_text` truncates it, then writes the text |
| `ListDates`, `ScanDate`, `OpenIndex`, `WriteIndex` | `_refresh_index`: the directory listing, the reading of one date, the truncation and the text of the index |
| `LookUp` | one `load_snapshot` in `strict_date` mode, of a component for the date at hand |
| `SkipOverview` | a component is missing: `continue` |
| `Settle` | `save_ledger`, the end of the cycle |
| `DieBetween`, `DieWriting` | the process dies before anything, or with a part, of a text is written, or it raises over a half-written file it reads |

The runs of a cycle are saved in any order, a superset of the dispatch order.  One
date is scanned in one step, and one look-up reads index and file in one step: files
are never removed, so while no other cycle is in flight nothing can come between the
two reads; when cycles overlap, what a look-up returned matters to no property but
`NothingDangles`, for which only the existence of the file counts.

What a death inside `write_text` does to the store:

* a half-written **snapshot** makes every `_refresh_index` of the org raise, hence
  every save of every later cycle, until that very file is written whole again,
  which only a cycle does that saves it before any other;
* a half-written **overview** does so for good: no cycle comes as far as rewriting it,
  since its component saves refresh the index first;
* a half-written **index** makes every reader raise until the next refresh, which
  does not read the index but rewrites it.

A cycle that raises saves no ledger, so the ledger does not advance over such a store
(the last part of `SettledIsServed`): nothing is claimed falsely, but the nights
stand still.  `EventuallyCaughtUp` therefore excepts runs in which somebody dies
inside a write.

**`TruthStore`** is `PostgresTruthSubstrate` as functions: every operation maps a
store (one record) to the next one.  The append-only logs of pages, replay
artefacts, field coverage and quality issues are read back by nobody and stand
behind the endpoint runs (`attempts`) they are derived from.  The store keeps
`completed` only in memory; `FromSnapshot` rebuilds it from the endpoint runs and
the latest states, as the code does.

**`TruthPlane`** has the processes over it.

| Variable | In the code |
| --- | --- |
| `file` | the snapshot file: a store, or `Torn` after `open(..., 'w')` has emptied it |
| `pc`, `mem`, `job`, `orgs`, `tasks`, `ran`, `outcomes` | one session: its stage, its own copy of the store, the command, the orgs left, the dates its workflow has to run and has run, the statuses of those runs |
| `answers` | what `run_operator_surface` answered |
| `started`, `overlap`, `cutShort` | a bound; history: two sessions were at work at once; a session died between truncating the file and writing it |

| Action | In the code |
| --- | --- |
| `StartNightly`, `PlanOrg`, `NightDone` | the nightly runner: load, `build_plan` and `record_scheduler_run` per org |
| `Refuse`, `RaiseOnWindow`, `ReportStatus`, `StartAction` | `run_operator_surface`: the guards in their order, a window that raises, a report, an accepted rerun or backfill |
| `ExecuteTask` | `execute_task`: one slice run and `persist_vertical_slice_result`; the source decides which endpoints succeed |
| `CloseOrg` | reconcile (not after a rerun) and `finalize_scheduler_run` |
| `Truncate`, `Write` | `write_snapshot_file`; the end of a longer file may stay behind a shorter one written over it |
| `Die` | the process dies, or anything raises (an unsupported fact kind among it) |

A torn file stops every later session, since `from_snapshot_file` cannot parse it:
nothing in the code repairs it, and all that was ever answered as served is gone with
it.  `ServedIsDurable` says that this death inside `write_text`, and overlap, are the
only ways to lose it: until then what was answered is in the file or, while the file
is being rewritten, in the memory of the one session that rewrites it (`Kept`).  `CompletedRunIsComplete` and `TraceRefUnique` are
about the records of scheduler runs, the other properties about what was synced.

**`QinqinTransport`** is the connector: which parameters reach the request, what the
fixture answers, and how everything that can happen on the wire ends in an error
class and an envelope.  An endpoint whose binding has no page index is asked for the
same thing on every page.

**`OwnerSurface`** is the chain of functions from the endpoint statuses of a run to
latest states, backbone or prerequisite state, readiness and service status, one
operator for each function of the code even where two are alike.

**`SliceRun`** composes both with the run of a slice.

| Variable | In the code |
| --- | --- |
| `caller`, `ask` | the surface a reader queries, or the slice a script runs; whether the reader asks for the surface's own capability and object |
| `stage`, `todo`, `built`, `answer` | how far the call is; component slices still to run; component surfaces built; what the caller got |
| `content` | what the source holds, fixed for the run |
| `fetch`, `recorded` | the page loop of each endpoint; endpoint runs in the artefact store |
| `toWrite`, `files`, `runs` | the payload map and the files under the output root, with the run whose text each holds whole; canonical artefacts and quality reports are several files each and count as one, written only when all of them are |
| `begun` | history: the last run that truncated a file |

| Action | In the code |
| --- | --- |
| `Start`, `StartSlice` | the owner surface or script calls a slice; `start_ingestion_run` |
| `FetchPage` | one turn of a page loop in a worker of `ordered_parallel_map` |
| `Raise` | a worker raised: the slice raises, nothing is recorded |
| `RecordEndpoint`, `Finalize` | the loop over the ordered results; `finalize_ingestion_run` |
| `OpenFile`, `WriteFile` | one file of the payload map is truncated, then written; a reader's run passes no output root |
| `ReturnSlice`, `AnswerReader` | the component surface; the answer of the surface or aggregate |
| `Die` | the process dies |

`Exchanges` lists the ten behaviours of the wire that are modelled: the page asked
for, a page without records, null data, a 404 that says there is no data and one that
does not, a refusal, a refusal whose message says there is no data (an empty source
to the staff slice, an error to the others), a timeout, an HTTP error status with a
body, and a body that is no JSON.  They are one for each branch that a verdict takes;
other codes and messages fall into the same branches.

What the code does, and its neighbours do differently: the generic slice pages
through every endpoint, so an endpoint without page index is read twice and its
records are counted twice; it counts an `items` object as one record; it records a
404 with "no data" as failed, where
`docs/api/qinqin/member/1.3-user-recharge-details.md:10` calls that case
`source_empty` and the finance slice records it so; it writes the latest states
before the canonical artefacts.  The member slice raises on a null or list
`RetData`.  The staff slice takes any body with code 404 as an empty source.  An
empty page ends a loop with `completed` once records were seen, whatever total was
announced; `ServedIsComplete` counts that as the source's own word.  What is served
is complete because of two facts about the seeded endpoint registry, which
`RegistryAssumption` names: an endpoint that answers in pages with a total takes a
page index, and no endpoint of the member slice answers with an `items` object.

**`GuardedRuntime`** is the guarded execution of several runtime chains over the run
cache.

| Variable | In the code |
| --- | --- |
| `request`, `stage`, `decision`, `reply`, `waits`, `outcome` | one chain: its request, the await it is at, its decision, how its data query is answered and by which run, the dependency stage it ends with |
| `readyBy`, `servedBy` | history: the runs its readiness and its service came from |
| `started`, `run`, `cache` | owner surface runs (child processes), and those whose promise the cache holds |
| `clock` | `Date.now()` |

| Action | In the code |
| --- | --- |
| `Start`, `Decide` | ingress and route, then the decision query and what follows in the same turn |
| `ReadinessFails`, `Explain`, `Serve` | the three ways on from the readiness query |
| `Blocked`, `ServiceAnswered` | the end of the companion explanation and of the theme query |
| `Resolve`, `Reject` | a run ends; the rejection handler deletes the cache entry of its key, whichever run that is by now |
| `Tick` | time passes |

What happens between two awaits is one step, since all chains share one thread and
one adapter (a process-wide default).  The key of a run includes the request id, so
chains share runs only when a request is delivered again.  A theme query carries no
freshness mode (`runtimes/navly-runtime/execution/guarded-execution-backbone.mjs:138`),
so when a strict-date entry has left the cache its second run is one of the default
mode.

**`AuthKernel`** is the access chain as functions of the actor, alias, role and scope files:
`Resolve`, `SnapshotOf`, `Selecting`, `Gate0`, `Allowed`, `GrantIssued` and their
composition `AccessChain`.

**`HostHandoff`** follows a tool call through both chains.

| Variable | In the code |
| --- | --- |
| `files` | the actor registry, identity alias, role binding and scope binding files (seed with override) |
| `call` | the tool input with the identity of the requester and the plugin's `defaultScopeRef` |
| `layer`, `reading`, `read`, `envelope` | whose chain is under way; the file it reads next and what it has read; the access context envelope the bridge handed over |
| `outcome`, `grant` | how it ended; actor and scope it is served under |
| `seen` | history: per file, its contents since the call arrived |

| Action | In the code |
| --- | --- |
| `Arrive` | `execute` of a tool of the plugin |
| `ReadFile` | one of the four reads of a chain: `loadActorRegistryBackbone` reads the actors, then the aliases, `loadBindingBackbone` the roles, then the scopes |
| `HostDecides` | the rest of the bridge's chain and `enforceGate0Result` |
| `RuntimeDecides` | the rest of the runtime's own chain for the same evidence and the scope `chooseTargetScopeRef` picked |
| `Administer` | one of the four override files is replaced, between any two reads |
| `ReadFails` | a file cannot be parsed |

A chain may so decide on a mixture of files that never stood together: a role read
before it was taken away, with a scope given only afterwards.  The code does nothing
against that, and the properties do not deny it.  `Mixtures` are the combinations of
contents that each file had at some moment of the call; `GrantedWasEntitled` says that
some mixture entitles the sender, which rules out whatever was replaced before the
call arrived, in particular all that an older envelope may still say.
`LayersAgree` is about calls during which nothing changed.  The conversation profile,
whose override is a fifth file (`binding-backbone.mjs:49`), does not change.

Gate 0 never escalates and a capability decision is never `restricted` in this code,
so those outcomes of the contract do not occur; a call whose capability is denied
ends as `blocked_missing_access_context`, since no envelope is issued for it.
Every published tool is in the capability vocabulary and in the route registry, so
unresolved routes do not occur either.

**The `MC` modules** define the instances.

## 4. What the runs check

| Run | Behaviour | Properties |
| --- | --- | --- |
| `planner` | every coverage of three endpoints (one profile) over three dates, two selections, task budgets 0, 1, 3, 4, backfill budgets none, 0, 1, 3; every iteration of the four loops | the loops dispatch what the ranks say; currentness protected; newest gap first; round robin; nothing asked twice or in vain, no budget unused while there is work |
| `nightly_overlap` | one scheduler and one operator process, all operations, interleaved step by step, up to two operator starts or deaths | type invariant; ledger soundness; completion is real; surfaces never behind the ledger, nor overviews until two materialisations overlap; currentness attempted first |
| `nightly_single` | one fair process, three endpoints with a profile and a windowed one in the same slice, two nights, one operator rerun or death, sources that answer now and then | the cursor carries forward; refinement of `CoverageLedger`; the profile window is honoured; currentness attempted first; the backlog is worked off for good |
| `subset_selection` | one process, operator may name one endpoint | `CarryForward` is violated (finding) |
| `serving_overlap` | two processes, two components and the overview, two dates, every interleaving of truncations, texts, scans, look-ups and deaths | type invariant; the index never dangles; settled runs are served; overviews agree with their components; nothing is unlisted |
| `latest_usable` | the same | `LatestUsableIsUsable` is violated (finding) |
| `truth_plane` | two sessions over one file, up to two nights or operator requests (one good request per capability, one that fails each guard), three dates, endpoints that fail arbitrarily, deaths and torn writes anywhere | type invariant; the latest state is the newest; a reload forgets nothing; progress rows hide no gap; ready and completed mean complete; what was served stays until sessions overlap or one dies inside its write; a night finds every gap |
| `trace_ref` | one night over two orgs | `TraceRefUnique` is violated (finding) |
| `slice_run` | six slices, five surfaces, two aggregates and the explanation; sources of 0, 2 or 3 records with pages of two; ten behaviours of the wire for each page; a pool of three workers; two runs under one output root; deaths, also inside a file | what is served is complete; records are those of their endpoints in order; a latest state is backed by its own run, or that run is no longer on disk; every run ends |
| `guarded_runtime` | two chains, six requests (operator, store, explanations, strict date, without context), a cache of one entry that expires | type invariant; nothing is run twice that the cache could know; nothing is run or served without its decision and readiness |
| `host_handoff` | every call of a manager of two stores and a staff member of one, for two capabilities and four scope arguments; three actor, two alias, two role and four scope files, with up to four mixtures in one call | what a grant rests on stood in its file during the call; the scope is never guessed; both layers agree |
| `primary_scope` | the same, on unchanged files | `PrimaryScopeStandsIn` is violated (finding) |

**Bounds of the nightly runs.**  Two slices, one with two endpoints, are the least
with which grouping, partial failure inside a slice and a daily overview over two
components are distinct from each other.  Two dates give a target with one day of
history, so that a rerun of an older target, a row of a newer target and a backfill
exist, and with `MaxTasks` = 2 for three endpoints a backlog that takes more cycles
than there are nights, which is what the liveness property is about; the planner run
has three dates, so that there is a newest gap among several.  `MaxTasks = 2` is less than the registry in `nightly_single`, so
currentness can be deferred, and equal to it in the overlap run, so that history is
dispatched.  `MaxDisturbances` bounds deaths and operator starts: two are enough for
a death after an overlap, or for an operator cycle that outlives a nightly one; the
single process has one, a death anywhere or a rerun of either target.  In
`nightly_overlap` the operator passes the default selection; the theorems cover
every selection.  `CHECK_DEADLOCK FALSE` appears where the system stops: in the
planner run, whose call has returned, and in runs that stop at a bound
(runs of the serving store, sessions of the truth plane, runs under an output root)
or when every chain is done.

**Bounds of the other runs.**  Serving: `MaxRuns` is three component runs of all
cycles together: two complete a date and the third repeats one of them, with
another outcome or in another process; two components are the least for an overview
that may be incomplete, two dates for a scan that is overtaken.  With one process
and four runs the same properties hold too.  Truth plane: two sessions in all, since
every pair of a night, a rerun and a backfill, overlapping or one after the other,
with the file as the only thing they share, is what the properties are about; three
dates and one backfill task per night leave a gap behind a planned one.
`CompletedRunIsComplete` is checked with one nightly org; with two it would fail as
`trace_ref` shows, and the theorem has the same hypothesis.  Slice run: sources of none, one full page, and one page and a
half; three records with pages of two are the least with a page boundary inside and
behind the data.  Guarded runtime: with one cache entry any second key evicts the
first, and two ticks make it expire; three runs let a failed run delete the entry of
a newer one.  Host hand-off: `MaxMixtures` = 4 lets two files be replaced once each, or one of them
up to three times, between any two of the eight reads of a call: a role taken away
before a scope is given is among these.  The theorems hold for any number.

**Overlap and the index.**  `NothingDangles` holds for all interleavings.  The
other serving properties are conditional on `overlapped`: two refreshes of one
index that interleave can drop an entry, since the later one writes what it scanned
earlier.  The next save of any date lists it again, but an overview that was skipped
meanwhile stays missing until its date is run again, although the ledger credits
it: this is why `ServingKeepsUp` asks for overviews only until two materialisations
have overlapped, and for component surfaces always.  The code has no lock and its documents do not promise one; the properties say
exactly what is guaranteed as long as cycles follow one another, deaths included.
`ServedIsDurable` is conditional in the same way: of two sessions over one snapshot
file the later write wins and the other's dates are gone, answered or not.  So they are after a
death between the truncation of that file and its text.

**What lets a query run again.**  `NoNeedlessRun` names the four reasons: the first
run failed, expired, was evicted by as many newer runs as the cache holds, or lost
its entry to the failure of an older run of its key.  A rerun or backfill whose
readiness query was slower than the lifetime of an entry, or which 32 others
overtook, is therefore executed a second time by its theme query.

**Fairness.**  `FairOperatorSpec` of `NightlySync`: weak fairness of the calendar, of the start of a
nightly cycle and of the steps of a running cycle: the schedule fires every night
and a live process executes its next statement.  Nothing is asked of operators and of
deaths, which may happen or not.  Strong fairness that each slice,
asked for one date again and again, is sometimes answered in full: the source is
intermittently available.  Without it a source that never delivers a date blocks
the older gaps of that endpoint for ever, because the newest gap is always retried
first; this is what the planner does and what its documents say.  The run gives
backfill its own budget; the runbook
(`docs/runbooks/data-platform/nightly-sync-currentness-and-backfill-planner.md:75`)
warns that history may starve otherwise.  `FairSpec` of `SliceRun`: weak fairness of
the steps of a live process together, nothing about the source, which may answer
every page in any way: `SliceEnds` needs only that what it holds is finite and fixed
for the run.  A source that grows faster than it is read would keep a loop going.

**Findings.**  (1) `save_ledger` deletes the rows of the target that are not in the
saved ledger, so a cycle for one endpoint removes the others' rows.  It contradicts
the notes of `nightly-sync-policy.seed.json:38` and the carry-forward promise of
`docs/specs/data-platform/2026-04-11-nightly-sync-currentness-and-backfill-planner.md:15`.
It never makes the ledger claim anything false: `LedgerSound` holds with it.
Overlapping cycles also lose coverage (the later save wins), and so does the
plan-only worker, whose script passes it no states: this is why `CarryForward` and
the refinement are checked for one process without it.  (2) `load_snapshot` with
`latest_usable` returns the last persisted date up to the target whatever its
surface says, so a failed run hides the ready surface of the day before;
`docs/specs/navly-v1/shared-contracts/2026-04-06-navly-v1-shared-contracts-enums-and-trace.md:77`
defines the mode as the latest *usable* business date.  (3) A night over several
orgs records its scheduler runs under one trace ref, which the migration declares
unique; `finalize_scheduler_run` finds the first, so the first org's record ends
with the last org's outcome and the others stay `running`.  (4) A call that names no scope,
of a sender entitled in its primary scope and bound to several, is not served in the
primary scope: `buildBindingSnapshot` leaves the scope open (`binding-backbone.mjs:134`,
with `pending_scope` from `conversation-binding.seed.json:6`) and the call ends in a
request to confirm one.  This is what `ScopeIsNeverGuessed` demands and the
auth kernel's tests expect (`tests/milestone-b-backbone.test.mjs:44`), but the schema of every tool tells the host that the scope
may be omitted "to let Navly fall back to the actor primary scope when available"
(`bridges/openclaw-host-bridge/extensions/navly-first-party-host/runtime.mjs:13`).

## 5. What is proved

`NightlySyncPlannerProofs` proves, of the planner and the scheduler asked any
question, for every finite registry, calendar, history start, set of profile
endpoints, coverage, selection, target and pair of budgets:

| Theorem | Statement |
| --- | --- |
| `LoopsDispatchTheRanks` | `[]DispatchIsTheLoop` |
| `CurrentnessComesFirst` | `[]CurrentnessProtected` |
| `NewestGapComesFirst` | `[]NewestGapFirst` |
| `RoundsAreFair` | `[]RoundRobinBackfill` |
| `NoDispatchIsWasted` | `[]NoWastedDispatch` |

`NightlySyncProofs` proves, for every finite registry, every slice map, calendar,
history start, budget, selection and set of processes, of `Spec` (nightly cycles,
operator reruns and plan-only workers in any interleaving, with deaths):

| Theorem | Statement |
| --- | --- |
| `TypeCorrect` | `[]TypeOK` |
| `LedgerIsSound` | `[]LedgerSound` |
| `RowsTellTheTruth` | `[](CompletionIsReal /\ BackfillPointerIsNewestGap)` |
| `ServingIsNeverBehind` | `[]ServingKeepsUp` |
| `CurrentnessBeforeHistory` | `[]CurrentnessAttemptedFirst` |

`NightlyCoverageProofs` has what holds under conditions that the system may or may not
be run under, each named as the hypothesis of its theorem:

| Theorem | Hypotheses | Statement |
| --- | --- | --- |
| `ProfileWindowIsHonoured` | `ProfileEndpointsFirst` | `Spec => []ProfileWindowHonoured` |
| `CursorCarriesForward` | `OneProcess`, `FullSelection` | `OperatorSpec => CarryForward` |
| `SyncImplementsCoverage` | `OneProcess`, `FullSelection` | `OperatorSpec => ImplementsCoverage` |

`ProfileEndpointsFirst`: a selection names the profile endpoints of a slice before the
other endpoints of that slice, as the registry does.  Without it the property fails:
with the order consume, customers, recharge and a budget of one task, the one-day
run for the first endpoint fetches the other two as a by-product, and the profile
endpoint counts as current without its window.  `OneProcess`: no two cycles overlap;
of two that do, the later save discards what the earlier one learned.
`FullSelection`: the operator passes the default selection; a smaller one deletes
rows (finding 1).  `OperatorSpec` is `Spec` without the plan-only worker, which saves
a ledger without what was loaded.

`ServingStoreProofs`, for every finite set of components, calendar, bound and set of
processes:

| Theorem | Statement |
| --- | --- |
| `ServingTypeCorrect` | `[]TypeOK` |
| `IndexNeverDangles` | `[]NothingDangles` |
| `SettledRunsAreServed` | `[]SettledIsServed` |
| `NothingIsUnlisted` | `NothingUnlisted` |
| `OverviewsAgree` | `[]OverviewAgrees` |

`TruthPlaneProofs`, for every set of orgs, endpoints and sessions, every calendar,
history start, budget, order of orgs and set of requests:

| Theorem | Statement |
| --- | --- |
| `PlaneTypeCorrect` | `[]TypeOK` |
| `LatestStateIsNewest` | `[]LatestIsNewest` |
| `NothingIsForgotten` | `[]ReloadForgetsNothing` |
| `ReadinessIsComplete` | `[]ReadyIsComplete` |
| `ProgressHidesNoGap` | `[]ProgressCovers` |
| `WhatIsServedStays` | `[]ServedIsDurable` |
| `NightMissesNoGap` | `NightFindsEveryGap` |
| `CompletedMeansDelivered` | `[]CompletedRunIsComplete`, if `OneNightlyOrg` |
| `SequentialSavesLoseNothing` | `[]SavesLoseNothing` |

`OneNightlyOrg`: a night has at most one org.  With two, the record of the first ends
with the outcome of the second (finding 3), and TLC finds the property violated.

`SavesLoseNothing`: unless sessions have overlapped, the copy with which a session will
overwrite the file has every endpoint run of the file, every scheduler run as it was
recorded, and no older latest state.  Nothing but the order of sessions ensures it:
with two at work, the last to write takes back what the other saved.

`SliceRunProofs`, for every set of endpoints with their shapes, every assignment of
endpoints to slices, page size, source content, number of workers and of runs:

| Theorem | Statement |
| --- | --- |
| `SliceInvariant` | `[]SliceInv`, type correctness included |
| `ReadersGetEverything` | `[]ServedIsComplete` |
| `EndpointRunsInOrder` | `[]RecordedInOrder` |
| `NoLatestWithoutTruth` | `[]LatestStateIsBacked` |
| `PageLoopsAreBounded` | `[]NoPageInVain` |

`NoPageInVain`: a further page of an endpoint is asked for only while the source holds
more records than the pages before had room for, whichever of the modelled behaviours
the wire showed.

`GuardedRuntimeProofs`, for every set of chains and requests, every cache bound and
lifetime, zero and negative ones included:

| Theorem | Statement |
| --- | --- |
| `RuntimeTypeCorrect` | `[]TypeOK` |
| `RunsAreShared` | `[]NoNeedlessRun` |
| `ServingIsGuarded` | `[]ServedIsGuarded` |

`HostHandoffProofs`, for every content of the four files, grant profile, conversation
profile and any number of replacements during a call:

| Theorem | Statement |
| --- | --- |
| `ServedWasEntitled` | `[]GrantedWasEntitled` |
| `NoScopeGuessed` | `[]ScopeIsNeverGuessed` |
| `LayersNeverDisagree` | `[]LayersAgree` |

Assumptions: `PlannerAssumption` and `NightlySyncAssumption`, which say that the
registry is finite, that a selection is an ordering without repetition, and that
the default selection names every endpoint; `PlannerCheckAssumption`: the questions
have selections and budgets of that kind; `SliceAssumption` and `RegistryAssumption`:
a slice has endpoints and names none twice, and what the endpoint registry says of
paging (section 3); `ServingAssumption`: finitely many
components, at least one, and the overview is none of them; `TruthStoreAssumption`
and `TruthPlaneAssumption`: finitely many endpoints, at least one, a backfill bound
that is not zero (the code reads zero as the policy's), requests of the right
shape; `RuntimeAssumption`: operator and explanation requests are for the one
object they have; `AuthKernelAssumption` and `HandoffAssumption`: grants are sets of
capabilities, `None` is nobody's name, files have their shape.  TLC evaluates them
on every run.

The arguments:

* *The loops.*  `LoopInv`: each queue holds its entries at their ranks and is as long
  as what the iterations so far have passed (`OwedNext`, `HolesNext`): the owing
  endpoints before this place, the gaps of lesser depth or of this depth before this
  place.  The end of a round is the beginning of the next (`HolesEnds`), and when no
  list reaches the round any more every gap has been passed.  The dispatch plan is
  the beginning of one queue, then of the other (`Begins`); where the loops stop is
  where ranks exceed a budget (`NowCount`, `LoopsEnd`).
* *The dispatch.*  The queues of both loops are total orders: of the owing endpoints
  by place in the selection, of the gaps by depth and then by place (`StaleRank`,
  `DepthOrder`, `GapRank`).  A rank counts what is not after its element, so ranks
  number a queue from one without repetition (`RankOrder`, `Numbered`) and without
  holes (`AllNumbersUsed`), and a cut-off at `n` takes `n` tasks or all of them
  (`NowSpent`, `GapSpent`).  Order and budget promises follow from ranks alone; for
  the rounds, an endpoint that gets two gaps more than another has one of greater
  depth than the other's first undispatched gap, which contradicts the order
  (`AheadByOne`).
* *Soundness of the ledger.*  `LedgerSound` is not inductive: a cycle saves what it
  loaded long before.  `SoundInv` adds that what a running cycle loaded (`prior`,
  `priorCompleted`) and what it holds in `results` was delivered.  `landed` only
  grows, so the facts survive whatever other processes do.
* *Truth of rows.*  Every row was computed by `LedgerRow` (`RowsComputed`); the
  meaning of its status and of its pointer follows from the lemma that `Latest`
  returns the greatest date (`LatestIsGreatest`, by the well-foundedness of
  the naturals) and from soundness.
* *Surfaces.*  A date is *pledged* to a component when the ledger, a load, or the
  results of a cycle that has passed the first pass credit it.  `ServingInv` says
  that every pledge has its snapshot and that an idle process holds no results; and,
  until two materialisations have overlapped, that a date pledged in every component
  has its overview.  A cycle in its second pass has the snapshots of its own runs, so
  as long as its look-ups find what is saved it builds the overview of every date it
  completes; cycles that die or raise pledge nothing.
* *Currentness first.*  When a history task is in the dispatch, the budget was
  positive, so no currentness task was deferred (`HistoryOnlyAfterCurrentness`);
  ranks are counts, so every currentness task comes before it; grouping runs a
  group at its first task and takes whole groups, so when a history group runs no
  currentness task is left in `todo` (`AttemptInv`).
* *The profile window.*  `WindowInv` says that rows and running cycles know of no date
  past their target, and of the target itself for a profile endpoint only after a
  windowed run.  Tasks still to do carry the reason: a currentness task whose slice
  has a profile endpoint owing the target is accompanied by a profile task of that
  slice, which turns the group's run into a windowed one (`Bound`); the cut-off
  keeps this because profile endpoints come first.
* *The cursor.*  `CarryInv`: what a running cycle loaded is still the cursor of the
  ledger, since nobody else writes it, so its save replaces rows of its own target by
  rows that hold at least as much.  The refinement of `CoverageLedger` follows
  step by step: every save credits cells or none, every other step stutters, and a
  new night's cursor starts from the last.
* *The index.*  `DangleInv` adds that what a refresh has read and what a look-up
  found are files that exist; files are overwritten, never removed, so this
  survives the steps of others.
* *Settled runs.*  `ServedInv` follows the one cycle in flight: saved runs have a
  file, and outside a refresh they are listed (`Saves`); a scan has read every file
  or still has its date ahead; a date already visited has its overview whenever the
  ledger and this cycle together have a run of every component (`Overviews`).  A
  look-up that finds nothing proves that some component has no such run, which is
  why skipping the overview is harmless.  `Sound` is about half-written files: a
  scan that has not raised has read whole ones, so from the end of the first refresh
  the store is whole but for the file the cycle has open itself; `Blamed` says that
  any other one belongs to a date of a cycle that died.
* *Overviews.*  `AgreeInv`: of a date that is not unfinished, the overview agrees with
  the components unless the one cycle in flight has the date still to visit; what it
  has looked at so far is what the files say (`LooksRight`), so the overview it writes
  agrees with them.
* *The truth store.*  A store is `Faithful` when its completed dates are those of
  its successful runs, the latest state is one of them and not older than any, and
  ready dates are complete.  Every operation keeps a store faithful (one lemma
  each), and loading one rebuilds exactly what it had (`RebuiltIsCompleted`), so
  `PInv` holds of the file and of every session's copy, however they overlap.
* *Gaps.*  `Covers` says that the progress rows of an org list every gap of their
  window.  A plan breaks it on purpose, by taking the dates it dispatches out; only
  the org a night is at work on (`Open`) may be without it, and the reconciliation
  that closes the org restores it before the session can write.
  `PlanIsNewestFirst`: the plan takes the newest dates, so a gap it leaves is
  older than any it takes and stays in the rows.
* *What was served.*  `AloneInv` follows the one session at work as long as there
  was no overlap: its copy holds what was answered before, so that the file may be
  emptied, and unless a session died in the middle a torn file has the session that is
  writing it.
* *Saves.*  `KeepInv`: a trace ref is higher than all that the file and any copy hold
  when it is drawn, so the record that finalisation changes is never one the file
  had; every other operation on a store only adds (`Grown`).
* *Scheduler runs.*  `RunInv`: no store holds a trace ref that was not handed out; a
  session at work on an org has the only record of its trace, still running, in its
  own copy; and as long as every outcome was `completed`, what it ran is delivered.
  Finalisation therefore writes its own record and nobody else's.
* *Slices.*  `SliceInv` follows a page loop: a paged endpoint that is still open has
  been read up to its page, one that ended well has been read to the end or to where
  the source itself ended it, and no page is past the records (`Wanted`), also where
  every page answers the same (`FetchesSound`); nothing is recorded before every fetch
  of the slice has ended (`RecordsSound`), from where the chain of readiness
  functions carries it to the reader (`NothingLacks`); a run in the middle of its
  payload map has written exactly the files before, and the one it has open holds
  nothing (`WritesSound`).  Every map begins with `ingestion-runs.json` and has the
  latest states behind what they are derived from (`BackedInTheMiddle`), so an older
  latest state has lost the record of its run before anything else of it.
* *Sharing.*  `CacheInv`: a run that is not in the cache was lost for one of the
  four reasons (`Lost`), each of which lasts; a run in the cache is the newest of
  its key.  A new run starts only when no entry has its key, so every older run of
  the key is lost.  `DroppedIsOld` counts what the bound evicts.
* *Guarding.*  `GuardInv` says of each chain and stage which run its readiness and
  its service came from, and that the chain that started a run was granted access.
  Results of finished runs never change (`RunsKept`), so the steps of other chains
  keep it.
* *Two decisions.*  `CallInv`: a call remembers nothing but answers of the access
  chain on mixtures of files it has seen (`ReadIsSeen`: a chain that has read its four
  files holds one).  What an answer implies is then a fact about the chain alone:
  `AllowedIsHeld` (what is allowed is held under the policy read directly),
  `EnvelopeTellsTheScope` and `HandedScope` (the runtime asks for the scope the
  bridge decided), and the converse `EntitledIsAllowed`, by which an entitled
  sender is refused by neither layer.  A replaced file only adds mixtures
  (`MixturesStay`), so what was seen stays seen.

Only model-checked: `EventuallyCaughtUp` and `SliceEnds`, which are liveness under
fairness, beyond the prover.  What `SliceEnds` needs besides fairness, that no page
loop goes on past the source, is proved (`PageLoopsAreBounded`).  The sort of the planner is not computed: `Descending`
is the list that sorting promises, and the proof shows that there is one and that
its k-th entry has rank k.

## 6. What is not modelled

Content of records, signing and headers of requests, formatting of traces and
identifiers, SQL dialects, service payloads and the text of answers.  The retryable
flag of a transport error and the distinction of business, auth and sign errors,
which no caller in the repository acts on.
`last_attempted_business_date` and `pending_business_dates` are derived from modelled
fields and read by nobody.  Several orgs and source systems in the nightly ledger
and the serving store: rows are keyed by them and never cross.

Data platform: the read-only status reports of the truth substrate, quality and
governance reports, the field mapping of the warehouse, and
`capability_explanation_owner_surface.py`, of which only the answer is modelled,
since it depends on no data.  Nothing in the repository calls
`run_nightly_scheduler` or `run_retry_workflow`; the first is modelled as a session
that loads and writes the snapshot file like an operator action, the second, one
retry of one date, is what `ExecuteTask` of a rerun does.

Runtime and bridge: validation of the ingress envelope, routing by service object or
by tokens of a message, outcome events, host traces and dispatch results, which
report what has been decided and change nothing.  Child processes of the adapter
have no time limit in the code, so a run that never ends holds its chains for ever;
no liveness is claimed for them.

Auth kernel: the audit events of a chain, which it builds, returns and never reads
again; the decision trace view and the linkage of downstream outcomes; times:
`expires_at` is copied along and compared with no clock, which is why a call may be
served on an envelope of any age and `GrantedWasEntitled` speaks of what each file held
while the call was under way.  The override of the conversation profile is taken not to
change during a call.  Overrides can add or replace entries of
a seed and never remove one; the models let a file take any of its states.
