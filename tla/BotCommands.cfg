CONSTANTS
  Closers = {rest, monitor}
  StartPos <- MCStartPos
  GridDeltas <- MCGridDeltas
  CloseLot = 1
  MinOrder = 1
  MaxReprice = 1
  Polls = 1
  MaxCalls = 1
  MaxPos = 3
  FaultSets <- MCFaultSets
  NoOrder = NoOrder
  Starters = {s1}
  Pausers = {p1, p2}
  Levels = {l1, l2}
  Overlap = {"pause", "lateTick"}
  StartFaults = {"read", "prepare", "purchase", "create", "cancel", "restart"}
  MaxInst = 2
  MaxPauses = 1
  MaxCopies = 2
SPECIFICATION CommandsSpec
INVARIANTS
  CommandsTypeOK StoppedIsFlat SoleActivationNeverStacks
  NeverDoubles NoInstanceUnlessRunning GridIsBacked
PROPERTIES
  CloseNeverFlips CallReturns
CHECK_DEADLOCK FALSE
