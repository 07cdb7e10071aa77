CONSTANTS
  MaxTotal = 2
  MaxPayments = 3
  MaxEpochs = 1
SPECIFICATION FundingSpec
INVARIANT PaidFundingCounts
CHECK_DEADLOCK FALSE
