SPECIFICATION Spec
CONSTANTS
  Auctions = {a1}
  Buyers = {b1, b2}
  Workers = {w1, w2}
  Sweepers = {s1}
  Durations <- MCDurations
  Reserves <- MCReserves
  StartPrice = 1
  MinIncrement = 1
  LeadFactor = 2
  StartFactor = 2
  MaxStoredMoney = 3
  NotifyWins = {b1}
  NotifyOutbid = {b1, b2}
  MaxAttempts = 2
  MaxStalled = 1
  MaxTime = 2
  NoSale = NoSale
  NoWorker = NoWorker
  NoAuction = NoAuction


PROPERTIES CancelledNeverSold
CHECK_DEADLOCK FALSE
