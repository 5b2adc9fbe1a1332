SPECIFICATION Spec
CONSTANTS
  Component = {member, finance}
  Overview = overview
  LastDate = 2
  Process = {cron, retry}
  MaxRuns = 3
SYMMETRY Alike
INVARIANTS
  TypeOK
  NothingDangles
  SettledIsServed
  OverviewAgrees
PROPERTIES
  NothingUnlisted
CHECK_DEADLOCK FALSE
