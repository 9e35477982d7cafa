SPECIFICATION Spec
CONSTANTS
  Jobs = {j1, j2}
  Edits = {e1, e2}
  MaxOthers = 1
  MaxRetries = 3
INVARIANTS PersistedIsRemote PublishedOnce SuccessIsSafe
 
CHECK_DEADLOCK FALSE
