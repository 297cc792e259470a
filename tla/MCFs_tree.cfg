CONSTANTS
  Procs = {p1, p2}
  NInodes = 3
  Names = {"a", "b"}
  MaxLinks = 2
  Paths <- DeepPaths
  Ops <- TwoOps
  p1 = p1
  p2 = p2
  Nobody = Nobody
SPECIFICATION Spec
INVARIANTS RefsCounted LinksHold NoDangling
PROPERTIES FreedUnused
CHECK_DEADLOCK FALSE
