---------------------------- MODULE MCTruthPlane ----------------------------
(* Small instances of the plane: what operators ask is one good request per  *)
(* capability and, for every guard of the surface, one request that fails it. *)
EXTENDS TruthPlane

Good(capability, target, from, to) ==
  [capability |-> capability, org |-> "o1", object |-> "omitted", path |-> TRUE,
   secret |-> TRUE, transport |-> TRUE, target |-> target, from |-> from, to |-> to]

MCActions == {
  Good("sync_rerun", 1, NoDate, NoDate),
  Good("sync_backfill", 2, 1, 2),
  Good("sync_backfill", 2, NoDate, 2),
  Good("sync_backfill", 2, NoDate, NoDate) }

MCRefused == {
  [Good("sync_backfill", 2, 1, 2) EXCEPT !.capability = "unregistered"],
  [Good("sync_backfill", 2, 1, 2) EXCEPT !.org = "none"],
  [Good("sync_backfill", 2, 1, 2) EXCEPT !.object = "foreign"],
  [Good("sync_backfill", 2, 1, 2) EXCEPT !.path = FALSE],
  [Good("sync_backfill", 2, 1, 2) EXCEPT !.secret = FALSE],
  [Good("sync_rerun", 2, NoDate, NoDate) EXCEPT !.transport = FALSE],
  Good("sync_backfill", 2, 2, 1) }

MCRequest == MCActions \cup MCRefused \cup {Good("sync_status", 2, NoDate, NoDate)}

MCNightlyOrgs == <<"o1">>
MCTwoOrgs     == <<"o1", "o2">>
=============================================================================
