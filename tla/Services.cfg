CONSTANTS
 Owners = {o1,o2}
 Known = {o1}
 PageSize = 2
 Batch = 2
 MaxTrips = 3
 MaxNews = 1
 MaxNotifyFaults = 1
 Traders = {t1}
 MaxVersions = 2
 Makers = {m1, m2}
 MaxRows = 2
 RowLevels = 1
 MaxSlotFaults = 1
 Callers = {c1, c2}
 TTL = 2
 MaxFetch = 1
 Horizon = 7
 Starts = {a1, a2}
 Stops = {s1, s2}
 Signals = {s2}
 Tasks = {t1, t2}
 SignUps = {u1}
 Forgets = {f1, f2}
 Resets = {r1}
 MaxLinks = 3
 MaxAccountFaults = 1
 BotIds = {1, 2}
 OldBots = {1}
 FillIds = {x1, x2}
 OldFills = {x1}
 Deposits = {1}
 MaxStarts = 2
 MaxInvested = 2
 Senders = {d1, d2}
 MaxRequests = 2
 Window = 3
 Margin = 1
 LastTick = 7
 Mutations = {g1}
 Reads = {g2}
 Tickers = {g3, g4}
 NoCall = NoCall
 MaxRetries = 1
 MaxSessions = 2
 MaxLosses = 1
 Polls = {p1, p2}
 Incidents = {i1}
 MaxPairs = 2
 MaxOutages = 1
 LastDay = 3
 MaxPairings = 2
 MaxReboots = 2
 Holders = {h1, h2}
 Clicks = {k1, k2}
 MaxSubs = 2
 MaxDeaths = 1
 Tabs = {t1, t2}
 People = {u1, u2}
 MaxTokens = 2
 MaxAsked = 2
 AllBots = {b1, b2}
 FirstBot = b1
 Unattributed = Unattributed
 GrvtCap = 1
 MaxBatches = 3
 MaxTrades = 2
 Start = 4
 Threshold = 2
 Pcts = {0, 50}
 Parcel = 2
 MaxEarned = 4
 MaxManual = 1
 MaxCrashes = 1
 MaxTotal = 2
 MaxPayments = 4
 MaxEpochs = 1
 Prices = {0, 1, 2}
 Spacings = {1, 2}
 MaxFills = 4
 MaxMoves = 1
 Forms <- MCForms
 TrueRanges <- MCRanges
 LastPrices <- MCLastPrices
 FeeRate = 5
 MaxDrifts = 1
 NumGrids = 4
 Bottom = 10
 Resting = 3
 Stake = 100
 MakerPct = 1
 TakerPct = 2
 SlipPct = 1
 FundingPcts <- MCFundingPcts
 Epoch = 2
 Candles <- MCCandles
 MaxCandles = 4
 Histories <- MCHistories
 Parts = 2
 MinCandles = 2
 TopN = 2
 Spans <- MCSpans
 RecentRange <- MCRecent
 Multipliers = 2
 GridCounts = {0, 3, 9}
 MostGrids = 5
 Returns <- MCReturns
SPECIFICATION ServicesSpec
INVARIANTS
 ServicesTypeOK NewsIsTold CacheIsCurrent OneActivePerSlot
 QuietWhenStopped SignInsAreSound EveryRowOwned TrafficIsClean BooksAreTrue OneDefault
 MoneyIsBooked PlanIsSound
PROPERTIES
 OriginalIsKept
CHECK_DEADLOCK FALSE
