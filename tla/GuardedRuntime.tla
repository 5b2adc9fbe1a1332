--------------------------- MODULE GuardedRuntime ---------------------------
(***************************************************************************)
(* The guarded execution of runtime requests over the run cache of the     *)
(* owner-side data adapter.  A chain asks the auth kernel for a decision,  *)
(* then the data platform for readiness, then for the theme service or an  *)
(* explanation; each of the two data queries runs an owner surface, or     *)
(* joins a run that the cache holds, finished or not.  For an operator     *)
(* action a run IS the action, and both queries rely on the cache not to   *)
(* run it twice.                                                           *)
(*                                                                         *)
(* Chains share one thread: what happens between two awaits is one step.   *)
(* Reason codes, fragments, trace refs and the content of services are     *)
(* left out; a request id stands for all of the request, its scope and its *)
(* data context, and may come again (a redelivered message).               *)
(***************************************************************************)
EXTENDS Integers, FiniteSets

CONSTANTS
  Chain,        \* executions of the runtime chain
  RequestId,
  Requests,     \* the requests a chain may be for
  MaxEntries,   \* runCacheMaxEntries
  RunTtl,       \* runCacheTtlMs, in ticks of the clock
  MaxRuns, MaxClock   \* bounds of the model

\* What the route of a request selected.  context tells whether the adapter
\* can resolve its data context (org, date, secret).
Request ==
  [id : RequestId, capability : {"store", "operator", "explanation"},
   object : {"own", "explanation"}, freshness : {"latest_usable", "strict_date"},
   context : BOOLEAN]

ASSUME RuntimeAssumption ==
  /\ Requests \subseteq Request
  /\ \A q \in Requests : /\ q.capability = "operator" => q.object = "own"
                         /\ q.capability = "explanation" => q.object = "explanation"
  /\ MaxEntries \in Int /\ RunTtl \in Int /\ MaxRuns \in Nat /\ MaxClock \in Nat

Key == [mode : {"base", "explanation"}, id : RequestId,
        capability : {"store", "operator", "explanation"}, date : {"target", "earlier"}]

\* What an owner surface run yields; latest is the date it is usable for.
Result == [readiness : {"ready", "blocked", "invalid"},
           service : {"served", "not_served", "invalid"}, latest : {"target", "earlier"}]

NoResult == [readiness |-> "invalid", service |-> "invalid", latest |-> "target"]

RunRecord == [key : Key, by : Chain, at : 0 .. MaxClock,
              status : {"running", "resolved", "rejected"}, result : Result]

Decision == {"allow", "restricted", "deny", "escalation", "unusable"}
Granted  == {"allow", "restricted"}

DependencyStage == {"access_denied", "access_escalated", "readiness_blocked",
                    "service_not_served", "served", "dependency_error"}

VARIABLES
  clock,
  request,    \* chain -> what it is for
  stage,      \* chain -> what it awaits
  decision,   \* chain -> the decision it got
  reply,      \* chain -> how its data query is answered: by a run, or at once
  waits,      \* chain -> the run that answers its data query, 0 if none
  readyBy,    \* chain -> the run that told its readiness, 0 if none
  servedBy,   \* chain -> the run that served it, 0 if none
  outcome,    \* chain -> its dependency stage
  started,    \* number of runs started
  run,        \* run -> what it is
  cache       \* runs whose promise the cache holds

chains == <<request, stage, decision, reply, waits, readyBy, servedBy, outcome>>
runs   == <<started, run, cache>>
vars   == <<clock, chains, runs>>

-----------------------------------------------------------------------------
(***************************************************************************)
(* The run cache.  Runs are numbered as their entries are inserted, so the *)
(* insertion order of the map is the order of the numbers.                 *)
(***************************************************************************)
\* mutant: whatever is asked for first answers every request
KeyWithoutId(q, mode, date) ==
  [mode |-> mode, id |-> CHOOSE i \in RequestId : TRUE, capability |-> q.capability,
   date |-> date]

KeyOf(q, mode, date) ==
  [mode |-> mode, id |-> q.id, capability |-> q.capability, date |-> date]

\* mutant: an entry expires when its lifetime is up, not after it
ExpiresEarly(r) == RunTtl > 0 /\ clock - run[r].at >= RunTtl

Expired(r) == RunTtl > 0 /\ clock - run[r].at > RunTtl

Pruned == {r \in cache : ~ Expired(r)}

\* mutant: the bound is checked before the new entry is in
BoundedBefore(entries) ==
  {r \in entries : Cardinality({s \in entries : r < s}) <= MaxEntries}

\* a bound of zero or less keeps nothing
Bounded(entries) ==
  {r \in entries : Cardinality({s \in entries : r < s}) < MaxEntries}

\* loadPublishedOwnerSurface: join the run of the key, or start one
Load(c, key) ==
  \/ \E r \in Pruned :
       /\ run[r].key = key
       /\ waits' = [waits EXCEPT ![c] = r]
       /\ cache' = Pruned
       /\ UNCHANGED <<started, run>>
  \/ /\ \A r \in Pruned : run[r].key # key
     /\ started < MaxRuns
     /\ started' = started + 1
     /\ run' = [r \in 1 .. started' |-> IF r <= started THEN run[r] ELSE
          [key |-> key, by |-> c, at |-> clock, status |-> "running", result |-> NoResult]]
     /\ waits' = [waits EXCEPT ![c] = started + 1]
     /\ cache' = Bounded(Pruned \cup {started + 1})

\* A run of an operator or store surface that says something says both
\* things alike; an explanation is served or not whatever the readiness.
Yields(key) ==
  IF key.mode = "explanation" THEN {res \in Result : res.readiness = "blocked"}
  ELSE {res \in Result :
    /\ res.readiness = "ready" => res.service \in {"served", "invalid"}
    /\ res.readiness = "blocked" => res.service = "not_served" /\ res.latest = "target"
    /\ res.readiness = "invalid" => res = NoResult
    /\ res.latest = "earlier" => key.capability = "store"}

Resolve(r) ==
  /\ run[r].status = "running"
  /\ \E res \in Yields(run[r].key) :
       run' = [run EXCEPT ![r].status = "resolved", ![r].result = res]
  /\ UNCHANGED <<clock, chains, started, cache>>

\* The handler deletes the entry of the key, whichever run it is of by now.
Reject(r) ==
  /\ run[r].status = "running"
  /\ run' = [run EXCEPT ![r].status = "rejected"]
  /\ cache' = {s \in cache : run[s].key # run[r].key}
  /\ UNCHANGED <<clock, chains, started>>

-----------------------------------------------------------------------------
(***************************************************************************)
(* Data queries of a chain: answered at once, by a throw, or by a run.     *)
(***************************************************************************)
AtOnce(c, answer) ==
  /\ reply' = [reply EXCEPT ![c] = answer]
  /\ waits' = [waits EXCEPT ![c] = 0]
  /\ UNCHANGED runs

ByRun(c, key) ==
  IF ~ request[c].context THEN AtOnce(c, "threw")
  ELSE reply' = [reply EXCEPT ![c] = "run"] /\ Load(c, key)

\* queryCapabilityReadiness: explanations are in no catalog
QueryReadiness(c) ==
  IF request[c].capability = "explanation" THEN AtOnce(c, "unsupported")
  ELSE ByRun(c, KeyOf(request[c], "base", "target"))

\* queryThemeService: an operator surface has no object but its own
QueryTheme(c, object, date) ==
  IF request[c].capability = "operator" /\ object # "own" THEN AtOnce(c, "mismatch")
  ELSE ByRun(c, KeyOf(request[c], IF object = "own" THEN "base" ELSE "explanation", date))

Answered(c) ==
  reply[c] = "run" => run[waits[c]].status # "running"

Failed(c) ==
  reply[c] = "threw" \/ (reply[c] = "run" /\ run[waits[c]].status = "rejected")

\* what the chain makes of the answer; a failed query is as good as invalid
ReadinessOf(c) ==
  CASE reply[c] = "unsupported" -> "blocked"
    [] Failed(c) -> "invalid"
    [] OTHER     -> run[waits[c]].result.readiness

ServiceOf(c) ==
  CASE reply[c] = "mismatch" -> "not_served"
    [] Failed(c) -> "invalid"
    [] OTHER     -> run[waits[c]].result.service

\* resolveServiceBusinessDate
ServiceDate(c) ==
  IF request[c].freshness = "latest_usable" /\ reply[c] = "run"
  THEN run[waits[c]].result.latest ELSE "target"

-----------------------------------------------------------------------------
Init ==
  /\ clock = 0
  /\ request \in [Chain -> Requests]
  /\ stage = [c \in Chain |-> "idle"]
  /\ decision = [c \in Chain |-> "none"]
  /\ reply = [c \in Chain |-> "none"]
  /\ waits = [c \in Chain |-> 0]
  /\ readyBy = [c \in Chain |-> 0]
  /\ servedBy = [c \in Chain |-> 0]
  /\ outcome = [c \in Chain |-> "none"]
  /\ started = 0
  /\ run = [r \in 1 .. 0 |-> NoResult]
  /\ cache = {}

\* The chain validates its envelope, resolves its route and its clients, and
\* asks for the decision.  What fails before that asks nobody anything.
Start(c) ==
  /\ stage[c] = "idle"
  /\ stage' = [stage EXCEPT ![c] = "access"]
  /\ UNCHANGED <<clock, request, decision, reply, waits, readyBy, servedBy, outcome, runs>>

Finish(c, result) ==
  /\ stage' = [stage EXCEPT ![c] = "done"]
  /\ outcome' = [outcome EXCEPT ![c] = result]
  /\ reply' = [reply EXCEPT ![c] = "none"]
  /\ waits' = [waits EXCEPT ![c] = 0]

\* unusable: the auth kernel throws, or answers without a valid decision
StageOf(d) ==
  CASE d = "deny"       -> "access_denied"
    [] d = "escalation" -> "access_escalated"
    [] d = "unusable"   -> "dependency_error"
    [] d \in Granted    -> "granted"

Decide(c, d) ==
  /\ stage[c] = "access"
  /\ decision' = [decision EXCEPT ![c] = d]
  /\ \/ /\ StageOf(d) # "granted" /\ Finish(c, StageOf(d))
        /\ UNCHANGED runs
     \/ /\ StageOf(d) = "granted"
        /\ stage' = [stage EXCEPT ![c] = "readiness"]
        /\ QueryReadiness(c)
        /\ UNCHANGED outcome
  /\ UNCHANGED <<clock, request, readyBy, servedBy>>

\* The readiness query failed, or its answer has no valid shape.
ReadinessFails(c) ==
  /\ stage[c] = "readiness" /\ Answered(c)
  /\ ReadinessOf(c) = "invalid"
  /\ Finish(c, "dependency_error")
  /\ UNCHANGED <<clock, request, decision, readyBy, servedBy, runs>>

\* Not ready: ask for an explanation, of the requested date.
Explain(c) ==
  /\ stage[c] = "readiness" /\ Answered(c)
  /\ ReadinessOf(c) = "blocked"
  /\ readyBy' = [readyBy EXCEPT ![c] = waits[c]]
  /\ stage' = [stage EXCEPT ![c] = "explanation"]
  /\ QueryTheme(c, "explanation", "target")
  /\ UNCHANGED <<clock, request, decision, servedBy, outcome>>

\* Ready: ask for the selected service object, of the date that is ready.
Serve(c) ==
  /\ stage[c] = "readiness" /\ Answered(c)
  /\ ReadinessOf(c) = "ready"
  /\ readyBy' = [readyBy EXCEPT ![c] = waits[c]]
  /\ stage' = [stage EXCEPT ![c] = "theme"]
  /\ QueryTheme(c, request[c].object, ServiceDate(c))
  /\ UNCHANGED <<clock, request, decision, servedBy, outcome>>

\* The companion explanation of what is blocked is best effort.
Blocked(c) ==
  /\ stage[c] = "explanation" /\ request[c].object = "own" /\ Answered(c)
  /\ Finish(c, "readiness_blocked")
  /\ UNCHANGED <<clock, request, decision, readyBy, servedBy, runs>>

IsAsked(c) == stage[c] = "theme" \/ (stage[c] = "explanation" /\ request[c].object # "own")

ServiceAnswered(c) ==
  /\ IsAsked(c) /\ Answered(c)
  /\ \/ ServiceOf(c) = "invalid" /\ Finish(c, "dependency_error") /\ UNCHANGED servedBy
     \/ ServiceOf(c) = "not_served" /\ Finish(c, "service_not_served") /\ UNCHANGED servedBy
     \/ ServiceOf(c) = "served" /\ Finish(c, "served")
        /\ servedBy' = [servedBy EXCEPT ![c] = waits[c]]
  /\ UNCHANGED <<clock, request, decision, readyBy, runs>>

Tick ==
  /\ clock < MaxClock
  /\ clock' = clock + 1
  /\ UNCHANGED <<chains, runs>>

ChainStep(c) ==
  \/ Start(c) \/ (\E d \in Decision : Decide(c, d)) \/ ReadinessFails(c)
  \/ Explain(c) \/ Serve(c) \/ Blocked(c) \/ ServiceAnswered(c)

Next ==
  \/ \E c \in Chain : ChainStep(c)
  \/ \E r \in 1 .. started : Resolve(r) \/ Reject(r)
  \/ Tick

Spec == Init /\ [][Next]_vars

-----------------------------------------------------------------------------
TypeOK ==
  /\ clock \in 0 .. MaxClock
  /\ request \in [Chain -> Requests]
  /\ stage \in [Chain -> {"idle", "access", "readiness", "explanation", "theme", "done"}]
  /\ decision \in [Chain -> Decision \cup {"none"}]
  /\ reply \in [Chain -> {"none", "run", "unsupported", "mismatch", "threw"}]
  /\ outcome \in [Chain -> DependencyStage \cup {"none"}]
  /\ started \in 0 .. MaxRuns
  /\ run \in [1 .. started -> RunRecord]
  /\ waits \in [Chain -> 0 .. started]
  /\ readyBy \in [Chain -> 0 .. started] /\ servedBy \in [Chain -> 0 .. started]
  /\ cache \subseteq 1 .. started
  /\ Cardinality(cache) <= MaxEntries \/ cache = {}

(* An owner surface is run again for the same request, mode and date only  *)
(* if the cache could not know better: the earlier run failed, had outlived *)
(* the lifetime of an entry, had given way to MaxEntries newer ones, or     *)
(* lost its entry to an older run of its key that failed.  So readiness and *)
(* service of a chain come from one run, and an operator action is executed *)
(* once, unless one of these came between.                                  *)
NoNeedlessRun ==
  \A r, s \in 1 .. started :
    r < s /\ run[r].key = run[s].key =>
      \/ run[r].status = "rejected"
      \/ RunTtl > 0 /\ run[s].at - run[r].at > RunTtl
      \/ s - r > MaxEntries
      \/ \E q \in 1 .. r - 1 : run[q].key = run[r].key /\ run[q].status = "rejected"

(* Whatever fails and however chains share runs: a chain that ends served  *)
(* was granted access and got the answer of a finished run for its own     *)
(* request, which served, and its own object only after a run for its own  *)
(* request had said that it is ready.  And nothing is ever run, a write    *)
(* least of all, for a chain that was not granted access.                  *)
ServedIsGuarded ==
  /\ \A c \in Chain : outcome[c] = "served" =>
       /\ decision[c] \in Granted
       /\ servedBy[c] # 0
       /\ LET s == run[servedBy[c]] IN
            /\ s.status = "resolved" /\ s.result.service = "served"
            /\ s.key.id = request[c].id /\ s.key.capability = request[c].capability
            /\ s.key.mode = "base" <=> request[c].object = "own"
       /\ request[c].object = "own" =>
            /\ readyBy[c] # 0
            /\ run[readyBy[c]].result.readiness = "ready"
            /\ run[readyBy[c]].key.id = request[c].id
  /\ \A r \in 1 .. started : decision[run[r].by] \in Granted
=============================================================================
