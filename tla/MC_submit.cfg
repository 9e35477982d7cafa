SPECIFICATION Spec
CONSTANTS
  NFiles = 2
  MaxLength = 2
  Runs = {r1, r2}
  MaxTasks = 1
  MaxFaults = 1
INVARIANTS StampTrue OkMeansStored StampEarned
PROPERTIES EventuallyStamped
