SPECIFICATION Spec
CONSTANTS
  Listings = {l1}
  Admins = {d1, d2}
  SellerTabs = {t1}
  APPROVE_ALL_BATCH_SIZE = 1
  MaxEdits = 1
  NoListing = NoListing
INVARIANTS RejectedNeverApproved
CHECK_DEADLOCK FALSE
