SPECIFICATION Spec
CONSTANTS
  Accounts = {a1}
  Tokens = {t1, t2}
  Requests = {r1, r2}
  REFRESH_REUSE_INTERVAL = 1
  REFRESH_EXPIRES_IN = 3
  MaxTime = 1
  MaxChanges = 1
  NoAccount = NoAccount
  NoToken = NoToken
SYMMETRY Symmetry
INVARIANT PasswordAsLastSet
CHECK_DEADLOCK FALSE
