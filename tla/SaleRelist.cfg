SPECIFICATION Spec
CONSTANTS
  Listings = {l1, l2}
  Buyers = {b1, b2}
  Sweepers = {s1}
  MaxAmount = 2
  PaymentDeadlines <- MCAtOnce
  ReviewTimeouts <- MCAtOnce
  MaxTime = 1
  NoSale = NoSale
  NoListing = NoListing
  NoBuyer = NoBuyer
SYMMETRY Symmetry
INVARIANTS LedgerBalances ItemSoldOnce
PROPERTIES DeadSaleStaysDead ImplementsEscrow
CHECK_DEADLOCK FALSE
