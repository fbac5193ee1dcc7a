SPECIFICATION Spec
CONSTANTS
  Listings = {l1}
  Buyers = {b1, b2, b3}
  Sweepers = {s1, s2}
  MaxAmount = 3
  PaymentDeadlines <- MCTimes
  ReviewTimeouts <- MCTimes
  MaxTime = 3
  NoSale = NoSale
  NoListing = NoListing
  NoBuyer = NoBuyer
SYMMETRY Symmetry
INVARIANTS TypeOK RowIsWinners MoneyFollowsDispute OfferOrder VoidsAudited OffersWork
PROPERTIES SweepsNotEarly DecisionFinal
CHECK_DEADLOCK FALSE
