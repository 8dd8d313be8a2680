SPECIFICATION Spec
CONSTANTS
  Requests = {r1, r2}
  Old = Old
  Names = {http, ecr}
  Oci = {ecr}
  Urls <- MCUrls
  Keys <- MCKeys
  Values = {"a", "b"}
  Blank = Blank
  Forms <- MCForms
  OldForm <- MCOldForm
  Processes = {p1, p2}
  None = None
  Answered = Answered
  MaxFaults = 2
SYMMETRY Symmetry
INVARIANTS
  TypeOK
  PendingIsExplained
  OkRowsAreInHelm
  CredentialsKept
  TestLeavesNothing
  AddedRowsAreRecorded
PROPERTIES
  RowsComeFromAdds
CHECK_DEADLOCK FALSE
