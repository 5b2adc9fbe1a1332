SPECIFICATION FairOperatorSpec
CONSTANTS
  Endpoint <- MCEndpoint
  Slice <- MCSlice
  SliceOf <- MCSliceOf
  Profile <- MCProfile
  Registry <- MCRegistry
  Component <- MCSlice
  Scheduler = {cron}
  Operator = {cron}
  HistoryStart = 1
  LastDate = 2
  OperatorOrders <- MCRegistryOnly
  MaxTasks = 2
  MaxBackfill = 1
  MaxDisturbances = 1
INVARIANTS
  ProfileWindowHonoured
  CurrentnessAttemptedFirst
PROPERTIES
  CarryForward
  ImplementsCoverage
  EventuallyCaughtUp
