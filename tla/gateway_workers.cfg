SPECIFICATION Spec
CONSTANTS
  s1 = s1
  s2 = s2
  c1 = c1
  Sessions = {s1, s2}
  NoSession = NoSession
  Calls = {c1}
  NoCall = NoCall
  Responses = {"a", "malformed"}
  Errors = {"b"}
  InvalidResponses = {"malformed"}
  NoAnswer = "none"
  MaxRequests = 2
  StaleAfter = 0
  ClaimLease = 2
  ReplayAge = 2
  MaxReplays = 1
  MaxReplayBytes = 1
  Bytes <- MCBytes
  MaxActiveJobs = 2
  MaxRetainedJobs = 2
  AutoWake = FALSE
  MixedCompletions = TRUE
  MaxTime = 2
  MaxGeneration = 0
  MaxCrashes = 0
  MaxFaults = 0
INVARIANTS TypeOK OneDelivery RetrySafe
PROPERTIES LeaseHonoured
SYMMETRY Symmetry
CHECK_DEADLOCK FALSE
