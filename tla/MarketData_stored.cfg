SPECIFICATION MarketFairSpec
CONSTANTS
  None = None
  Last = 5
  Length = 2
  MinuteAge = 1
  StreamAge = 3
  Inserters = {i1}
  Pricers = {p1, p2}
  MaxRetries = 2
  BatchLimit = 1
  Jobs = {j1}
  Windows <- MCWindows
  MaxEvents = 2
  MaxFaults = 1
CONSTRAINT OneSide
INVARIANTS MarketTypeOK PriceIsNewest BackfillStores
PROPERTY JobsEnd JobsAdvance
CHECK_DEADLOCK FALSE
