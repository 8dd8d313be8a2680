SPECIFICATION Spec
CONSTANTS
  Requests = {r1, r2, r3}
  Providers = {p1, p2}
  MaxFaults = 1
SYMMETRY Symmetry
INVARIANTS
  TypeOK
  NoDuplicateProviders
  ProvidersKept
  AckedRowsKept
CHECK_DEADLOCK FALSE
