SPECIFICATION Spec
CONSTANTS
  ann = ann
  bob = bob
  s1 = s1
  s2 = s2
  None = None
  Agents = {ann, bob}
  Sessions = {s1, s2}
  Identities <- Scheduled
  Files = {}
  Limit = 2
  MaxLease = 1
  MaxTasks = 3
  MaxRevision = 2
  MaxTime = 3
INVARIANTS DependenciesExist
CHECK_DEADLOCK FALSE
