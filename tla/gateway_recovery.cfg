SPECIFICATION Spec
CONSTANTS
  s1 = s1
  c1 = c1
  Sessions = {s1}
  NoSession = NoSession
  Calls = {c1}
  NoCall = NoCall
  Responses = {"a", "malformed"}
  Errors = {}
  InvalidResponses = {"malformed"}
  NoAnswer = "none"
  MaxRequests = 2
  StaleAfter = 0
  ClaimLease = 1
  ReplayAge = 1
  MaxReplays = 1
  MaxReplayBytes = 2
  Bytes <- MCBytes
  MaxActiveJobs = 1
  MaxRetainedJobs = 1
  AutoWake = TRUE
  MixedCompletions = FALSE
  MaxTime = 1
  MaxGeneration = 0
  MaxCrashes = 1
  MaxFaults = 1
INVARIANTS OutcomeDurable AnswerOfLastDelivery
PROPERTIES KeepsPromise
SYMMETRY Symmetry
CHECK_DEADLOCK FALSE
