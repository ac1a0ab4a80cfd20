CONSTANTS
  Ids = {"a", "b"}
  Names = {1, 2}
  Data = {1, 2}
  Conflicts = FALSE
  MaxCalls = 1
  MaxFailures = 1
  MaxOthers = 1
SPECIFICATION Spec
CHECK_DEADLOCK FALSE
INVARIANTS
  TypeOK
  TrackedAgrees
  DeletionIsFinal
PROPERTIES
  SyncKeepsChanges
  Converges
