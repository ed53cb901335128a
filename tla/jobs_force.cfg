SPECIFICATION FairSpec
CONSTANTS
  c1 = c1
  c2 = c2
  Callers = {c1, c2}
  Requests = {"start", "status", "cancel"}
  Retained = 2
  MaxJobs = 1
  MaxCrashes = 0
PROPERTIES CancelledEnds
CHECK_DEADLOCK FALSE
