---------------------------- MODULE MCNightlySync ----------------------------
(* Small instances of the registry: the member slice holds the profile and   *)
(* the windowed endpoint, the finance slice one windowed endpoint.           *)
EXTENDS NightlySync

MCEndpoint == {"customers", "consume", "recharge"}
MCSlice    == {"member", "finance"}
MCSliceOf  == [e \in Endpoint |-> IF e = "recharge" THEN "finance" ELSE "member"]
MCProfile  == {"customers"}
MCRegistry == <<"customers", "consume", "recharge">>

MCTwo         == {"consume", "recharge"}
MCTwoRegistry == <<"consume", "recharge">>

\* what operators pass: nothing, or one endpoint
MCRegistryOnly == {Registry}
MCAnyOrders    == {Registry, <<"recharge">>}
=============================================================================
