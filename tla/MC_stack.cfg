SPECIFICATION Spec
CONSTANTS
  Pids = {1, 2, 3, 4}
  Shells = {a, b}
  NoPid = 0
  Nobody = Nobody
  MaxCrashes = 1
  MaxReboots = 1
INVARIANTS NoOrphans OneStack
PROPERTIES DownStops DownStopsWhatItRead FailedUpCleansUp CommandsEnd
CHECK_DEADLOCK FALSE
