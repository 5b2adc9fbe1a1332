---------------------------- MODULE OwnerSurface ----------------------------
(***************************************************************************)
(* From the endpoint runs of a slice to what a reader is told: the latest  *)
(* states of the endpoints, whether the backbone (or the finance           *)
(* prerequisite) is ready, the readiness of the capability and the status  *)
(* of its theme service, and the two aggregates over the components.       *)
(*                                                                         *)
(* Trace refs, reason codes, dates of the data window and the service      *)
(* payloads are left out: the date of a state is the requested one.        *)
(***************************************************************************)
EXTENDS Integers, Sequences

EndpointStatus == {"completed", "source_empty", "failed"}
RunStatus      == {"completed", "partial_failed", "failed"}
Readiness      == {"ready", "pending", "failed", "unsupported_scope"}

\* What a reader asks of a surface: its own capability and service object,
\* another service object, or another capability.
Ask == {"own", "other_object", "other_capability"}

Some(statuses, S) == \E i \in DOMAIN statuses : statuses[i] \in S
All(statuses, S)  == \A i \in DOMAIN statuses : statuses[i] \in S

-----------------------------------------------------------------------------
\* _run_status, the same in every slice
RunStatusOf(statuses) ==
  IF statuses = << >> THEN "failed"
  ELSE IF All(statuses, {"completed", "source_empty"}) THEN "completed"
  ELSE IF Some(statuses, {"completed", "source_empty"}) THEN "partial_failed"
  ELSE "failed"

Availability(status) ==
  CASE status = "completed"    -> "available"
    [] status = "source_empty" -> "source_empty"
    [] status = "failed"       -> "unavailable"

\* the latest usable endpoint states of one run
LatestStates(statuses) == [i \in DOMAIN statuses |-> Availability(statuses[i])]

FinanceLatestStates(statuses) == [i \in DOMAIN statuses |-> Availability(statuses[i])]

BackboneReady(states) == states # << >> /\ All(states, {"available", "source_empty"})

\* the prerequisite state: ready, or blocked by the unavailable endpoints
PrerequisiteReady(states) == states # << >> /\ ~ Some(states, {"unavailable"})

-----------------------------------------------------------------------------
(***************************************************************************)
(* Readiness of one capability.                                            *)
(***************************************************************************)
MemberReadiness(ask, statuses) ==
  IF ask = "other_capability" THEN "unsupported_scope"
  ELSE IF BackboneReady(LatestStates(statuses)) THEN "ready"
  ELSE IF Some(statuses, {"failed"}) THEN "failed"
  ELSE "pending"

\* the generic surface of the phase-1 capabilities
Phase1Readiness(ask, statuses) ==
  IF ask = "other_capability" THEN "unsupported_scope"
  ELSE IF BackboneReady(LatestStates(statuses)) THEN "ready"
  ELSE IF Some(statuses, {"failed"}) THEN "failed"
  ELSE "pending"

FinanceReadiness(ask, statuses) ==
  IF ask = "other_capability" THEN "unsupported_scope"
  ELSE IF statuses = << >> THEN "pending"
  ELSE IF PrerequisiteReady(FinanceLatestStates(statuses)) THEN "ready"
  ELSE "failed"

StaffReadiness(ask, statuses) ==
  IF ask = "other_capability" THEN "unsupported_scope"
  ELSE IF statuses = << >> THEN "pending"
  ELSE IF BackboneReady(LatestStates(statuses)) THEN "ready"
  ELSE "failed"

\* of the daily overview, from the readiness of its components
DailyOverviewReadiness(ask, components) ==
  IF ask = "other_capability" THEN "unsupported_scope"
  ELSE IF All(components, {"ready"}) THEN "ready"
  ELSE IF Some(components, {"failed"}) THEN "failed"
  ELSE "pending"

Phase1OverviewReadiness(components) ==
  IF All(components, {"ready"}) THEN "ready"
  ELSE IF Some(components, {"failed"}) THEN "failed"
  ELSE "pending"

-----------------------------------------------------------------------------
(***************************************************************************)
(* Theme services: a request for something else is a mismatch, one before  *)
(* its data is ready is not served.                                        *)
(***************************************************************************)
ServedIf(readiness) == IF readiness = "ready" THEN "served" ELSE "not_ready"

MemberService(ask, readiness) ==
  IF ask = "own" THEN ServedIf(readiness) ELSE "scope_mismatch"

FinanceService(ask, readiness) ==
  IF ask = "own" THEN ServedIf(readiness) ELSE "scope_mismatch"

StaffService(ask, readiness) ==
  IF ask = "own" THEN ServedIf(readiness) ELSE "scope_mismatch"

Phase1Service(ask, readiness) ==
  IF ask = "own" THEN ServedIf(readiness) ELSE "scope_mismatch"

DailyOverviewService(ask, readiness) ==
  IF ask = "own" THEN ServedIf(readiness) ELSE "scope_mismatch"

Phase1OverviewService(ask, readiness) ==
  IF ask = "own" THEN ServedIf(readiness) ELSE "scope_mismatch"

\* An explanation depends on no data.
ExplanationService(ask) == IF ask = "own" THEN "served" ELSE "scope_mismatch"
=============================================================================
