-------------------------- MODULE MCGuardedRuntime --------------------------
(* An operator action, a store surface that may be ready for an earlier date *)
(* and the same for a strict date under another id, an explanation of it, and *)
(* requests for the explanation capability and without a data context.       *)
EXTENDS GuardedRuntime, TLC

Req(i, cap, obj, ctx) ==
  [id |-> i, capability |-> cap, object |-> obj, freshness |-> "latest_usable", context |-> ctx]

MCRequests ==
  { Req("a", "operator", "own", TRUE),
    Req("a", "store", "own", TRUE), Req("a", "store", "explanation", TRUE),
    [Req("b", "store", "own", TRUE) EXCEPT !.freshness = "strict_date"],
    Req("a", "explanation", "explanation", TRUE), Req("a", "store", "own", FALSE) }

Chains == Permutations(Chain)
=============================================================================
