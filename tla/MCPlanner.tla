------------------------------ MODULE MCPlanner ------------------------------
(* Two slices: member (a profile and a windowed endpoint) and finance.       *)
EXTENDS NightlySyncPlannerCheck

MCEndpoint == {"customers", "consume", "recharge"}
MCSlice    == {"member", "finance"}
MCSliceOf  == [e \in MCEndpoint |-> IF e = "recharge" THEN "finance" ELSE "member"]
MCProfile  == {"customers"}

\* the registry order, and an operator's own selection
MCOrders == {<<"customers", "consume", "recharge">>, <<"recharge", "consume">>}

MCTaskBudgets     == {0, 1, 3, 4}
MCBackfillBudgets == {NoBudget, 0, 1, 3}
=============================================================================
