SPECIFICATION Spec
CONSTANTS
  Modes = {"all", "task", "job", "watch"}
  Filters = {{"root", "created", "child", "other"}, {"root", "child"}}
  PageLimit = 2
  ScanLimit = 3
  HistoryLimit = 2
  MaxEvents = 4
INVARIANTS NothingSkipped HistoryWhole
PROPERTIES ShownInOrder EventuallyShown
CHECK_DEADLOCK FALSE
