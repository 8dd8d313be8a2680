SPECIFICATION Spec
CONSTANTS
  Requests = {r1, r2}
  Providers = {p1}
  MaxFaults = 0
INVARIANT
  ChangesAreRecorded
CHECK_DEADLOCK FALSE
