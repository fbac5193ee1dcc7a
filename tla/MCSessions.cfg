SPECIFICATION Spec
CONSTANTS
  Accounts = {a1}
  Tokens = {t1, t2, t3}
  Requests = {r1, r2}
  REFRESH_REUSE_INTERVAL = 1
  REFRESH_EXPIRES_IN = 3
  MaxTime = 3
  MaxChanges = 1
  NoAccount = NoAccount
  NoToken = NoToken
SYMMETRY Symmetry
INVARIANTS OneLivePerSession SameAnswer AlertsAreWarranted
PROPERTIES ImplementsSessionBook
CHECK_DEADLOCK FALSE
