\* Three logins of two accounts side by side, and deletions of users.
SPECIFICATION Spec
CONSTANTS
  Null = Null
  Logins = {l1, l2, l3}
  Refreshes = {}
  Logouts = {}
  Deletes = {d1, d2}
  g1 = g1
  g2 = g2
  a1 = a1
  a2 = a2
  y1 = y1
  y2 = y2
  y3 = y3
  Account = {a1, a2}
  YandexToken = {y1, y2, y3}
  Owner <- MCOwner
  Agent = {g1}
  Browser = {b1}
SYMMETRY RequestSymmetry
CHECK_DEADLOCK FALSE
INVARIANTS
  SessionOwner
  AccountIdentity
  LoggedInUserStays
  ProviderlessUser
  CookieAlive
