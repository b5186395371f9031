\* A login, a refresh and calls of check-auth.
SPECIFICATION CheckSpec
CONSTANTS
  Null = Null
  Logins = {l1}
  Refreshes = {r1}
  Logouts = {}
  Deletes = {}
  g1 = g1
  g2 = g2
  a1 = a1
  a2 = a2
  y1 = y1
  y2 = y2
  y3 = y3
  Account = {a1}
  YandexToken = {y1}
  Owner <- MCOwner
  Agent = {g1}
  Browser = {b1}
SYMMETRY RequestSymmetry
CHECK_DEADLOCK FALSE
INVARIANT CheckAuthRenews
