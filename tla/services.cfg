SPECIFICATION ServicesSpec
CONSTANTS
  Off = Off  None = None
  s1 = s1  s2 = s2
  Tasks = {1, 2, 3}  Sessions = {s1, s2}  Context <- Contexts  Metadata <- SomeMetadata
  Files <- SomeFiles  MaxLease = 1  MaxTime = 2
  x = x  y = y  k = k  c1 = c1  c2 = c2  q1 = q1  q2 = q2
  x1 = x1  x2 = x2  b1 = b1  n1 = n1  n2 = n2
  k1 = k1  k2 = k2  NoKey = NoKey  d1 = d1  d2 = d2  r1 = r1
  t1 = t1  t2 = t2  t3 = t3  j1 = j1  j2 = j2
  g1 = g1  g2 = g2  g3 = g3  p1 = p1  p2 = p2
  NoRequest = NoRequest
  MaxRequests = 2  MaxExchanges = 1  MaxSupervisors = 2  MaxAttempts = 2  MaxLapses = 1
  Waiters = {q1, q2}  MaxMutations = 3
  McpClients = {c1, c2}  McpRequests = {q1, q2}  MaxSessions = 3  PerClient = 1  Total = 2
  IdleTimeout = 2  ReclaimGrace = 1  MaxVersion = 2  MaxMcpTime = 2
  JobCallers = {j1, j2}  JobRequests = {"start"}  Retained = 1  MaxJobs = 3  MaxCrashes = 0
  Functions = {f1, f2}  Unlisted = f3  WorkerIds = {1}  MaxCalls = 2  MaxMessages = 7  MaxTurns = 2
  MaxActions = 3  MaxHelpers = 3  MaxOddLines = 1
  Setups = {p1, p2}  MaxBuilds = 2
  Installers = {p1, p2}  Sources = {"pinned", "custom", "broken"}  Known = {"pinned"}
  Working = {"pinned", "custom"}  Bad = Bad
  Builds = {p1, p2}  Checkouts = {"here", "elsewhere"}  Commands <- TwoCommands
  Search <- TwoDirectories  Preferred <- LocalFirst  MaxLinkChanges = 1
CONSTRAINT Explored
INVARIANTS ScheduleSound MemoryGoverned CredentialsEnd TablesBounded RecordsComplete
INVARIANTS WakeBounded ServersAccounted AnswersBelong InstalledIsRight
PROPERTIES PastStands
CHECK_DEADLOCK FALSE
