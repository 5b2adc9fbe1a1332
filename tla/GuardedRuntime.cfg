SPECIFICATION Spec
CONSTANTS
  Chain = {c1, c2}
  RequestId = {"a", "b"}
  Requests <- MCRequests
  MaxEntries = 1
  RunTtl = 1
  MaxRuns = 3
  MaxClock = 2
SYMMETRY Chains
INVARIANTS TypeOK NoNeedlessRun ServedIsGuarded
CHECK_DEADLOCK FALSE
