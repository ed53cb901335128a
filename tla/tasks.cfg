SPECIFICATION Spec
CONSTANTS
  ann = ann  bob = bob  s1 = s1  s2 = s2  None = None
  Agents = {ann, bob}
  Sessions = {s1, s2}
  Identities <- Siblings
  Files = {"f"}
  Limit = 2
  MaxLease = 1
  MaxTasks = 3
  MaxRevision = 3
  MaxTime = 3
CONSTRAINT Explored
INVARIANTS BoardReadable RevisionIdentifiesState ScopesDisjoint DependenciesDone
PROPERTIES ClaimRespected KeepsStatus
CHECK_DEADLOCK FALSE
