SPECIFICATION Spec
CONSTANTS
  Org = {"o1"}
  Endpoint = {"customers", "consume"}
  LastDate = 3
  MaxBackfillTasks = 1
  Session = {s1, s2}
  NightlyOrgs <- MCNightlyOrgs
  NightlyStart = 1
  HistoryStart = 1
  Request <- MCRequest
  MaxSessions = 2
INVARIANTS TypeOK LatestIsNewest ReloadForgetsNothing ProgressCovers ReadyIsComplete CompletedRunIsComplete ServedIsDurable
PROPERTY NightFindsEveryGap
CHECK_DEADLOCK FALSE
