SPECIFICATION Spec
CONSTANTS
  Org = {"o1", "o2"}
  Endpoint = {"customers", "consume"}
  LastDate = 3
  MaxBackfillTasks = 1
  Session = {s1, s2}
  NightlyOrgs <- MCTwoOrgs
  NightlyStart = 1
  HistoryStart = 1
  Request <- MCRequest
  MaxSessions = 1
INVARIANTS TraceRefUnique
CHECK_DEADLOCK FALSE
