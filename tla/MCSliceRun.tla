----------------------------- MODULE MCSliceRun -----------------------------
(* The endpoints of the phase-1 slices, with pages of two records.  The      *)
(* third endpoint of the staff board, a list like the first, is left out.    *)
EXTENDS SliceRun

MCEndpoint == {"customers", "consume_bill", "recharge_bill", "user_trade",
               "person", "tech_up_clock", "commission_set"}

MCPaged == {"customers", "consume_bill", "recharge_bill"}

MCShape == [e \in MCEndpoint |->
  IF e \in MCPaged THEN "page" ELSE IF e = "tech_up_clock" THEN "items" ELSE "list"]

MCEndpoints == [
  member          |-> <<"customers", "consume_bill">>,
  finance         |-> <<"recharge_bill", "user_trade">>,
  staff           |-> <<"person", "tech_up_clock">>,
  generic_finance |-> <<"recharge_bill", "user_trade">>,
  generic_staff   |-> <<"person", "tech_up_clock">>,
  commission      |-> <<"commission_set">> ]
=============================================================================
