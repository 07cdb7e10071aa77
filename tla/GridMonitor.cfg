CONSTANTS
  N = 3
  MaxOpen = 3
  Faults <- MCFaults
  MaxFills = 2
  MaxMoves = 3
  MaxFaults = 1
SPECIFICATION FairSpec
INVARIANTS
  TypeOK
PROPERTIES
  TicksAddNoThird
  PlacesOnlyMissing
  Heals
