\* One user, whose role may change, and one request for the list of courses.
SPECIFICATION AccessSpec
CONSTANTS
  u1 = u1
  u2 = u2
  l1 = l1
  p1 = p1
  d1 = d1
  Null = Null
  User = {u1}
  Nick = {}
  Lookups = {l1}
  Puts = {p1}
  Bodies <- MCBodies
  Dels = {}
  Routes = {"courses"}
INVARIANT TeacherSeesAllCourses
