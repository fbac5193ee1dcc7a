SPECIFICATION Spec
CONSTANTS
  Listings = {l1}
  Admins = {d1, d2, d3}
  SellerTabs = {t1, t2}
  APPROVE_ALL_BATCH_SIZE = 2
  MaxEdits = 2
  NoListing = NoListing
SYMMETRY Symmetry
INVARIANTS AuctionWithListing ChangesAudited RemovedNotLive ItemsInOneStage
PROPERTIES NothingComesBack
CHECK_DEADLOCK FALSE
