SPECIFICATION Spec
CONSTANTS
  p1 = p1
  p2 = p2
  p3 = p3
  Processes = {p1, p2, p3}
  MaxLocks = 3
  MaxDeaths = 3
INVARIANTS ReplacementKept
CHECK_DEADLOCK FALSE
