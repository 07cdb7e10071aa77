CONSTANTS
  Closers = {rest}
  StartPos <- SmallStartPos
  GridDeltas = {}
  CloseLot = 10
  MinOrder = 1
  MaxReprice = 1
  Polls = 1
  MaxCalls = 1
  MaxPos = 12
  FaultSets <- NoFaults
  NoOrder = NoOrder
SPECIFICATION Spec
PROPERTY NeverThrowsUnprovoked
CHECK_DEADLOCK FALSE
