SPECIFICATION FairSpec
CONSTANTS
  Listings = {l1}
  Buyers = {b1, b2}
  Sweepers = {s1, s2}
  MaxAmount = 2
  PaymentDeadlines <- MCTimes
  ReviewTimeouts <- MCTimes
  MaxTime = 3
  NoSale = NoSale
  NoListing = NoListing
  NoBuyer = NoBuyer
PROPERTIES UnpaidGivenUp ShipmentsResolve
CHECK_DEADLOCK FALSE
