SPECIFICATION RuntimeSpec
CONSTANTS
  Jobs = {j1, j2}
  Children = {c1, c2, c3}
  Dirs = {c1, c2}
  Bundles = {{c1, c2}, {c2, c3}, {c1, c2, c3}}
  Limit = 2
  MaxConcurrent = 2
INVARIANTS ReadyMeansSynced ReadyMeansLoaded RefusalExplained
CHECK_DEADLOCK FALSE
