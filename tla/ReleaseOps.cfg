SPECIFICATION Spec
CONSTANTS
  Requests = {r1, r2}
  MaxCrashes = 1
INVARIANTS
  TypeOK
  KubeconfigLivesWithHelm
  ToldChangesAreRecorded
  SuccessIsReported
PROPERTIES
  ImplementsAuditedChange
  EveryOperationAnswered
CHECK_DEADLOCK FALSE
