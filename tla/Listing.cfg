SPECIFICATION Spec
CONSTANTS
  Bound = 128
  None = None
  Failed = Failed
  Clusters = {c1, c2}
  Limits = {None, 1, 2, 127}
  MaxItems = 3
  Time <- MCTime
  Readers = {r1, r2}
  PageNos = {2}
  Names = {"web"}
  MaxReleases = 2
  Lines = {"x", "y"}
  MaxLines = 3
SYMMETRY Symmetry
INVARIANTS
  TypeOK
  NothingMissed
  NothingTwice
  WalkSucceeds
  IdsLeadBack
  DiffReplays
  ExactWhenReachable
CHECK_DEADLOCK FALSE
