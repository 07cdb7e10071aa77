CONSTANTS
  Forms <- MCSmallForms
  TrueRanges <- MCRanges
  LastPrices <- MCLastPrices
  FeeRate = 5
  MaxDrifts = 0
SPECIFICATION PlanSpec
INVARIANT PreviewIsBuilt
CHECK_DEADLOCK FALSE
