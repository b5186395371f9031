\* Two logins of one browser, which changes its User-Agent; refreshes and a logout
\* with its cookies race.
SPECIFICATION Spec
CONSTANTS
  Null = Null
  Logins = {l1, l2}
  Refreshes = {r1, r2}
  Logouts = {o1}
  Deletes = {}
  g1 = g1
  g2 = g2
  a1 = a1
  a2 = a2
  y1 = y1
  y2 = y2
  y3 = y3
  Account = {a1}
  YandexToken = {y1}
  Owner <- MCOwner
  Agent = {g1, g2}
  Browser = {b1}
SYMMETRY RequestSymmetry
CHECK_DEADLOCK FALSE
INVARIANTS TypeOK RotationSingleUse LogoutIsFinal CookieAlive SessionlessToken
PROPERTY ImplementsCredentials
