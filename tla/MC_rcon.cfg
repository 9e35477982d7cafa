SPECIFICATION Spec
CONSTANTS
  Nothing = Nothing
  Garbage = Garbage
  Refused = Refused
  MaxJobs = 2
  MaxCalls = 7
PROPERTIES Promise CallsEnd
CHECK_DEADLOCK FALSE
