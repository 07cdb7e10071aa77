CONSTANTS
  Bots = {b1, b2}
  Levels = {l1, l2}
  Inserts = {w1}
  Creators = {c1}
  NoBot = NoBot
  DbFaults = {"insert", "delete", "commit", "crash"}
  Ranges = {"low", "high"}
  Top = 2
  GapOf <- MCGapOf
  Outside = {"low"}
  Users = {q1}
  AutoTo = "high"
  MaxBuy = 2
  SampleSize = 1
  ShiftFaults = {"read", "buy", "cancel", "place", "crash", "pause"}
  MaxShiftFaults = 1
  Rungs = 3
  Equities = {4, 6}
  Capital = 5
  CacheLife = 2
  MaxSwings = 2
  MaxBrakeFaults = 1
  Degrees = {5, 10}
  Boots = {b1, b2}
  Setters = {s1}
  MaxMishaps = 1
  Highest = 4
  StopAt = 2
  NearLiq = 0
  GapSize = 2
  Actions = {"off", "pause", "pause_close"}
  MaxTurns = 3
  MaxMisses = 2
  Rates = {0, 1, 2}
  Lengths = {1, 2}
  Plausible = {1, 2, 3}
  PauseRate = 4
  AlertRate = 2
  PauseAfter = 2
  MaxCharges = 3
  N = 5
  Window = 3
  MaxOps = 1
  MaxCrossings = 2
  MaxFailings = 1
  Channels = {c}
  MaxSockets = 5
  MaxTroubles = 1
  MaxLogins = 1
  MaxMounts = 2
SPECIFICATION JobsSpec
INVARIANTS
  JobsTypeOK NoPartialGrid AckedIsStored TransactionHasOwner
   OrdersOfARange BusMatchesSockets
  LeverageAgrees BrakesSeeTrue
PROPERTIES
  ImplementsStore ComesToRest StreamSettles StopLossActs
CHECK_DEADLOCK FALSE
