CONSTANTS
  Starters = {s1}
  Pausers = {p1}
  Levels = {l1, l2}
  Overlap = {"pause"}
  StartFaults = {}
  MaxInst = 1
  MaxPauses = 1
  MaxCopies = 2
SPECIFICATION StartSpec
INVARIANT PauseStopsTrading
CHECK_DEADLOCK FALSE
