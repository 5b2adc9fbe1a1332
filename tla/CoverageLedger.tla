---------------------------- MODULE CoverageLedger ----------------------------
(***************************************************************************)
(* What the nightly sync promises: data lands from the source, landed      *)
(* cells (an endpoint's business date) are credited, and neither is ever   *)
(* taken back.                                                             *)
(***************************************************************************)
CONSTANT Cell

VARIABLES landed, credited

Init == landed = {} /\ credited = {}

Land   == \E S \in SUBSET Cell : landed' = landed \cup S /\ UNCHANGED credited

Credit == \E S \in SUBSET landed : credited' = credited \cup S /\ UNCHANGED landed

Spec == Init /\ [][Land \/ Credit]_<<landed, credited>>
=============================================================================
