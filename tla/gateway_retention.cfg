SPECIFICATION Spec
CONSTANTS
  s1 = s1
  c1 = c1
  Sessions = {s1}
  NoSession = NoSession
  Calls = {c1}
  NoCall = NoCall
  Responses = {"a"}
  Errors = {"b"}
  InvalidResponses = {}
  NoAnswer = "none"
  MaxRequests = 2
  StaleAfter = 1
  ClaimLease = 2
  ReplayAge = 2
  MaxReplays = 2
  MaxReplayBytes = 2
  Bytes <- MCBytes
  MaxActiveJobs = 2
  MaxRetainedJobs = 1
  AutoWake = FALSE
  MixedCompletions = FALSE
  MaxTime = 2
  MaxGeneration = 0
  MaxCrashes = 0
  MaxFaults = 0
INVARIANTS NoLostResult
SYMMETRY Symmetry
CHECK_DEADLOCK FALSE
