SPECIFICATION Spec
CONSTANTS
  Endpoint <- MCTwo
  Slice <- MCSlice
  SliceOf <- MCSliceOf
  Profile = {}
  Registry <- MCTwoRegistry
  Component <- MCSlice
  Scheduler = {cron}
  Operator = {operator}
  LastDate = 2
  HistoryStart = 1
  OperatorOrders <- MCRegistryOnly
  MaxTasks = 1
  MaxBackfill = 1
  MaxDisturbances = 2
INVARIANTS
  TypeOK
  LedgerSound
  CompletionIsReal
  ServingKeepsUp
  CurrentnessAttemptedFirst
