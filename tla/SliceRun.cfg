SPECIFICATION FairSpec
CONSTANTS
  Endpoint <- MCEndpoint
  Shape <- MCShape
  Paged <- MCPaged
  PageSize = 2
  MaxRows = 3
  Endpoints <- MCEndpoints
  MaxWorkers = 3
  Sizes = {0, 2, 3}
  MaxRuns = 2
INVARIANTS ServedIsComplete RecordedInOrder LatestStateIsBacked
PROPERTY SliceEnds
CHECK_DEADLOCK FALSE
