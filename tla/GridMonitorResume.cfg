CONSTANTS
  N = 3
  MaxOpen = 3
  Faults = {"restart", "read"}
  MaxFills = 1
  MaxMoves = 2
  MaxFaults = 2
SPECIFICATION FairSpec
PROPERTIES
  ResumeRecovers
