\* Two users, whose roles one PUT after the other changes; requests of one route
\* of each kind, and deletions, sent over and over.
SPECIFICATION AccessSpec
CONSTANTS
  u1 = u1
  u2 = u2
  l1 = l1
  p1 = p1
  d1 = d1
  Null = Null
  User = {u1, u2}
  Nick = {}
  Lookups = {l1}
  Puts = {p1}
  Bodies <- MCBodies
  Dels = {d1}
  Routes = {"courses", "themes", "task", "editTask"}
SYMMETRY UserSymmetry
INVARIANTS
  AccessTypeOK
  RolesAreFresh
  TeacherSeesThemesAndTests
