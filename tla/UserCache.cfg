\* One user; a lookup, two PUTs and a deletion, each
\* sent over and over.
CONSTANTS
  u1 = u1
  n1 = n1
  l1 = l1
  p1 = p1
  p2 = p2
  d1 = d1
  Null = Null
  User = {u1}
  Nick = {n1}
  Lookups = {l1}
  Puts = {p1, p2}
  Bodies <- MCBodies
  Dels = {d1}
SPECIFICATION Spec
INVARIANT TypeOK
PROPERTIES
  PutWritesItsFields
  DeletedStaysDeleted
  OutStaysOut
  CacheConverges
  BlockedIsRefused
