SPECIFICATION OperatorSpec
CONSTANTS
  Endpoint <- MCEndpoint
  Slice <- MCSlice
  SliceOf <- MCSliceOf
  Profile <- MCProfile
  Registry <- MCRegistry
  Component <- MCSlice
  Scheduler = {cron}
  Operator = {cron}
  HistoryStart = 1
  LastDate = 2
  OperatorOrders <- MCAnyOrders
  MaxTasks = 2
  MaxBackfill = 1
  MaxDisturbances = 2
PROPERTIES
  CarryForward
