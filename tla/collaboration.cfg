SPECIFICATION AllSpec
CONSTANTS
  Off = Off
  b1 = b1  b2 = b2  ann = ann  bob = bob  r1 = r1  r2 = r2
  None = None  NoRequest = NoRequest  NoOne = NoOne  NoState = NoState
  Linux = TRUE  DefaultTtl = 1  ResumeGrace = 0  ResumeRecovery = 1
  MaxLivePerActor = 1  MaxSessions = 2  Runtimes = {r1, r2}  Pids = {1, 2}
  Bindings = {b1, b2}  ActorOf <- TwoActors  MaxRefs = 1  MaxQueue = 1  MaxContexts = 3
  MaxCreated = 3  MaxStarts = 3  MaxBoots = 2  MaxFaults = 1  MaxTime = 4
  Ids = {m, w}  Managers = {m}  Tasks = {t1}  Calls = {c1, c2}
  MaxParticipants = 1  MaxTimeouts = 1  MaxRevision = 4
  MaxConcurrentAgents = 1  MaxRetainedAgents = 1  MaxAgents = 2  MaxWaiting = 1  MaxFailures = 1
  Processes = {p1}  Readers = {x1, x2}  HistoryLimit = 2  MaxPosts = 3  MaxChatFaults = 2
  Agents = {a1, a2}  Controller = Controller  ChatLimit = 2  TaskLimit = 2  AuditLimit = 3
  ReadLimit = 1  MaxTasks = 3  MaxEvents = 4  MaxClock = 1
CONSTRAINT Explored
SYMMETRY Symmetry
INVARIANTS HandlesKept ActorsContained ReleasedOwnsNothing AgentsContained ReadersMissNothing AuditTrail
PROPERTIES SessionsEndForCause KeepsLifecycle DecisionsFinal
CHECK_DEADLOCK FALSE
