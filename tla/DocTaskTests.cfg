\* Two updates of one task.  The system stops when both have been served.
CONSTANTS
  course1 = course1
  theme1 = theme1
  task1 = task1
  task2 = task2
  up1 = up1
  up2 = up2
  rem1 = rem1
  run1 = run1
  cUp1 = cUp1
  hUp1 = hUp1
  cRem1 = cRem1
  tRem1 = tRem1
  Null = Null
  NewCourses = {course1}
  NewThemes = {theme1}
  NewTasks = {task1}
  CourseUpdates = {}
  ThemeUpdates = {}
  TaskUpdates = {up1, up2}
  CourseRemovals = {}
  ThemeRemovals = {}
  TaskRemovals = {}
  Executions = {}
  MaxNew <- OneNew
  Ids <- NoId
SPECIFICATION Spec
CHECK_DEADLOCK FALSE
INVARIANTS
  UpdateLeavesOnlySent
