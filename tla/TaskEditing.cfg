\* Two tasks, one of which has up to two tests; two updates that overlap, of which
\* one may name a test of either task and the other may bring one; and a removal.
\* The system stops when every request has been served.
CONSTANTS
  course1 = course1
  theme1 = theme1
  task1 = task1
  task2 = task2
  up1 = up1
  up2 = up2
  rem1 = rem1
  run1 = run1
  cUp1 = cUp1
  hUp1 = hUp1
  cRem1 = cRem1
  tRem1 = tRem1
  Null = Null
  NewCourses = {course1}
  NewThemes = {theme1}
  NewTasks = {task1, task2}
  CourseUpdates = {}
  ThemeUpdates = {}
  TaskUpdates = {up1, up2}
  CourseRemovals = {}
  ThemeRemovals = {}
  TaskRemovals = {rem1}
  Executions = {}
  MaxNew <- ThreeTests
  Ids <- OneId
SPECIFICATION FairSpec
CHECK_DEADLOCK FALSE
INVARIANTS
  TypeOK
  
  
  NothingLeftBehind
PROPERTIES
  
  EditsEnd
  SerialUpdatesLeaveOnlySent
