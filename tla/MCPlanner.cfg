SPECIFICATION Spec
CONSTANTS
  Endpoint <- MCEndpoint
  Slice <- MCSlice
  SliceOf <- MCSliceOf
  Profile <- MCProfile
  LastDate = 3
  HistoryStart = 1
  Orders <- MCOrders
  TaskBudgets <- MCTaskBudgets
  BackfillBudgets <- MCBackfillBudgets
INVARIANTS
  DispatchIsTheLoop
  CurrentnessProtected
  NewestGapFirst
  RoundRobinBackfill
  NoWastedDispatch
CHECK_DEADLOCK FALSE
