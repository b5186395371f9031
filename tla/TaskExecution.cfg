\* One run of a user's code beside an update that may bring a new test, and the
\* removal of its theme and course.  The system stops when every request has been
\* served.
CONSTANTS
  course1 = course1
  theme1 = theme1
  task1 = task1
  task2 = task2
  up1 = up1
  up2 = up2
  rem1 = rem1
  run1 = run1
  cUp1 = cUp1
  hUp1 = hUp1
  cRem1 = cRem1
  tRem1 = tRem1
  Null = Null
  NewCourses = {course1}
  NewThemes = {theme1}
  NewTasks = {task1}
  CourseUpdates = {cUp1}
  ThemeUpdates = {hUp1}
  TaskUpdates = {up1}
  CourseRemovals = {cRem1}
  ThemeRemovals = {tRem1}
  TaskRemovals = {}
  Executions = {run1}
  MaxNew <- OneNew
  Ids <- NoId
SPECIFICATION FairSpec
CHECK_DEADLOCK FALSE
INVARIANTS
  NothingLeftBehind
  AnswerMatchesHistory
PROPERTIES
  ImplementsRunHistory
  RemovedStaysRemoved
  RunsEnd
