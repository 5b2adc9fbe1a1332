SPECIFICATION Spec
CONSTANTS
  Component = {member, finance}
  Overview = overview
  LastDate = 2
  Process = {cron, retry}
  MaxRuns = 3
INVARIANTS
  LatestUsableIsUsable
CHECK_DEADLOCK FALSE
