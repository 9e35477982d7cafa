SPECIFICATION Spec
CONSTANTS
  Root = root
  Subtasks = {sub}
  Outcomes = {completed, failed}
  Completed = completed
  MaxEvents = 2
INVARIANTS RowsTrue ExitTrue
PROPERTY WaitEnds
CHECK_DEADLOCK FALSE
