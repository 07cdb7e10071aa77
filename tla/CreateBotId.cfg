CONSTANTS
  Bots = {b1}
  Levels = {l1}
  Inserts = {w1}
  Creators = {c1, c2}
  NoBot = NoBot
  DbFaults = {}
SPECIFICATION ConnSpec
INVARIANT LedgerFromDayOne
CHECK_DEADLOCK FALSE
