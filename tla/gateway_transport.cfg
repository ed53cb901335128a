SPECIFICATION FairSpec
CONSTANTS
  s1 = s1
  c1 = c1
  c2 = c2
  Sessions = {s1}
  NoSession = NoSession
  Calls = {c1, c2}
  NoCall = NoCall
  Responses = {"a"}
  Errors = {"b"}
  InvalidResponses = {}
  NoAnswer = "none"
  MaxRequests = 1
  StaleAfter = 1
  ClaimLease = 2
  ReplayAge = 2
  MaxReplays = 2
  MaxReplayBytes = 2
  Bytes <- MCBytes
  MaxActiveJobs = 2
  MaxRetainedJobs = 2
  AutoWake = FALSE
  MixedCompletions = FALSE
  MaxTime = 2
  MaxGeneration = 1
  MaxCrashes = 0
  MaxFaults = 0
INVARIANTS NothingStranded
PROPERTIES RequestsEnd
CHECK_DEADLOCK FALSE
