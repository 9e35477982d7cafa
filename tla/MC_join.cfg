SPECIFICATION JoinSpec
CONSTANTS
  Tasks = {t1, t2}
  TaskData <- MCTaskData
  JobData <- MCJobData
  Committed = {"task.completed", "task.failed", "job.completed"}
  PageLimit = 1
  TraceShown = 1
  MaxLog = 3
  MaxFailures = 1
INVARIANTS FirstAndNewest UnknownExplained
CHECK_DEADLOCK FALSE
