SPECIFICATION FairSpec
CONSTANTS
  Auctions = {a1}
  Buyers = {b1}
  Workers = {w1}
  Sweepers = {s1, s2}
  Durations <- MCDurations
  Reserves <- MCNoReserve
  StartPrice = 1
  MinIncrement = 1
  LeadFactor = 2
  StartFactor = 2
  MaxStoredMoney = 1
  NotifyWins = {b1}
  NotifyOutbid = {}
  MaxAttempts = 2
  MaxStalled = 1
  MaxTime = 2
  NoSale = NoSale
  NoWorker = NoWorker
  NoAuction = NoAuction
PROPERTIES OverdueSettles
CHECK_DEADLOCK FALSE
