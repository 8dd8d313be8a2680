SPECIFICATION FairSpec
CONSTANTS
  Requests = {r1, r2}
  Providers = {p1}
  MaxFaults = 0
PROPERTY
  ReportsComplete
CHECK_DEADLOCK FALSE
