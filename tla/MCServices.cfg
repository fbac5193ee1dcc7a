SPECIFICATION Spec
CONSTANTS
  Users = {u1}
  Processes = {p1, p2}
  Requests = {r1, r2}
  NoUser = NoUser
  NoProcess = NoProcess
  TTL = 2
  MaxQuery = 1
  MaxTime = 3
  Details = {d1, d2}
  NoDetails = NoDetails
  MaxLog = 2
  MAX_OTP_ATTEMPTS = 2
  MaxCodes = 2
  Updates = {w1}
  Values = {v1, v2}
  Closed = {v2}
  DEFAULTS = v1
  NoValue = NoValue
  Rooms = {k1, k2, k3}
  MAX_AUCTION_ROOMS = 2
  BUCKET_CAPACITY = 3
  REFILL_WINDOW = 2
  Stars = {1, 2}
  Comments = {c1}
  Replies = {t1}
  NoText = NoText
  NotGiven = NotGiven
  MaxReviews = 2
  Ids = {1, 2, 3}
  Instants = {1, 2}
  Limits = {1, 2}
  MaxReturns = 1
  AtRest = AtRest
SYMMETRY Symmetry
INVARIANTS
  TypesOK AnswersAreRecent AuditExplainsRow GuessesBounded SettingsAreRecent
  SubscriptionsHold ReviewsDontCross WalksAreFaithful
PROPERTIES DeletedFreeOfOldDebts ReplacedIsDead
CHECK_DEADLOCK FALSE
