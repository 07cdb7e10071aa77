CONSTANTS
  N = 4
  MaxOpen = 4
  Faults = {}
  MaxFills = 3
  MaxMoves = 3
  MaxFaults = 0
SPECIFICATION Spec
PROPERTIES
  KillerKeepsGrid
