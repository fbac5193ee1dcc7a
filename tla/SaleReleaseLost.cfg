SPECIFICATION FairSpec
CONSTANTS
  Listings = {l1}
  Buyers = {b1}
  Sweepers = {s1, s2}
  MaxAmount = 1
  PaymentDeadlines <- MCTimes
  ReviewTimeouts <- MCTimes
  MaxTime = 2
  NoSale = NoSale
  NoListing = NoListing
  NoBuyer = NoBuyer
PROPERTIES ReleasedIsPaidOut
CHECK_DEADLOCK FALSE
