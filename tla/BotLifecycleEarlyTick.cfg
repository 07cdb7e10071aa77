CONSTANTS
  Starters = {s1}
  Pausers = {p1}
  Levels = {l1, l2}
  Overlap = {"earlyTick"}
  StartFaults = {}
  MaxInst = 1
  MaxPauses = 0
  MaxCopies = 2
SPECIFICATION StartSpec
INVARIANT NoDuplicateOrders
CHECK_DEADLOCK FALSE
