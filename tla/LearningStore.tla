---------------------------- MODULE LearningStore ----------------------------
(***************************************************************************)
(* The tables of the learning part: courses, their themes, the tasks of a  *)
(* theme with their tests, and the builds a user's code has had with one   *)
(* solution per test run.  Every foreign key here cascades on delete.      *)
(*                                                                         *)
(* As in AuthStore a row is named by the request that inserts it; the k-th *)
(* new test of a request r is <<r, k>>.  Names, texts and limits are left  *)
(* out of the rows.  "by" stands for the contents: of a course, theme or   *)
(* test, the request that wrote it; of a task, the request that was the    *)
(* last to commit a change of the task or its tests.  A build keeps no     *)
(* user: who runs code has logged in, and the database deletes no such     *)
(* user (see AuthStore).                                                   *)
(*                                                                         *)
(* Transactions run at READ COMMITTED.  A row that a statement has updated *)
(* or deleted is locked until its transaction ends, and what it wrote is   *)
(* seen by nobody until then; a new row keeps the row its foreign key      *)
(* names from being deleted.  Statements lock rows one after the other,    *)
(* and reads wait for nobody.                                              *)
(***************************************************************************)
EXTENDS Naturals

CONSTANTS
  NewCourses,     \* POST learning/course
  CourseUpdates,  \* PUT learning/course/:id
  CourseRemovals, \* DELETE learning/course/:id
  NewThemes,      \* POST learning/theme
  ThemeUpdates,   \* PUT learning/theme/:id
  ThemeRemovals,  \* DELETE learning/theme/:id
  NewTasks,       \* POST learning/task
  TaskUpdates,    \* PUT learning/task/:id
  TaskRemovals,   \* DELETE learning/task/:id
  Executions,     \* POST learning/task/:id/execute
  MaxNew,         \* per request for a task, new or old, its new tests at most
  Null

Nullable(S) == S \cup {Null}

TaskWriter == NewTasks \cup TaskUpdates

Removals == CourseRemovals \cup ThemeRemovals \cup TaskRemovals

ASSUME MaxNewAssumption == MaxNew \in [TaskWriter -> Nat]

NewTests(w, n) == {w} \X (1..n)

Test == UNION {NewTests(w, MaxNew[w]) : w \in TaskWriter}

\* What a statement can lock.
Rows == NewCourses \cup NewThemes \cup NewTasks \cup Test \cup Executions

CourseRow == [by : NewCourses \cup CourseUpdates]
ThemeRow  == [courseId : NewCourses, by : NewThemes \cup ThemeUpdates]
TaskRow   == [themeId : NewThemes, by : TaskWriter]
TestRow   == [taskId : NewTasks, by : TaskWriter]
BuildRow  == [taskId : NewTasks]

ASSUME LearningNullAssumption ==
  /\ Null \notin TaskUpdates \cup NewTasks \cup BOOLEAN
  /\ \A tests \in SUBSET Test : Null # tests
  /\ Null \notin CourseRow \cup ThemeRow \cup TaskRow \cup TestRow \cup BuildRow

ASSUME NamesAssumption ==
  /\ NewTasks \cap TaskUpdates = {} /\ TaskUpdates \cap Removals = {}
  /\ TaskRemovals \cap (CourseRemovals \cup ThemeRemovals) = {}
  /\ CourseRemovals \cap ThemeRemovals = {}
  /\ NewCourses \cap NewThemes = {}
  /\ (NewCourses \cup NewThemes) \cap (NewTasks \cup Executions) = {}
  /\ NewTasks \cap Executions = {}
  /\ Test \cap (NewCourses \cup NewThemes \cup NewTasks \cup Executions) = {}

VARIABLES
  course, theme, task, test, build,  \* rows, Null where there is none
  solution,  \* isPassed of the solution of a build for a test
  lock,      \* the open transaction that has updated a task
  draft,     \* per transaction the tests it has written, Null where deleted
  found,     \* per DELETE under way the rows that it has found and not come to
  taken      \* per removal the rows that its DELETE has locked to delete them

openVars == <<lock, draft, found, taken>>
storeVars == <<course, theme, task, test, build, solution, openVars>>

NoSolutions == [i \in Test |-> Null]

NoDraft == [i \in {} |-> Null]

StoreTypeOK ==
  /\ course \in [NewCourses -> Nullable(CourseRow)]
  /\ theme \in [NewThemes -> Nullable(ThemeRow)]
  /\ task \in [NewTasks -> Nullable(TaskRow)]
  /\ test \in [Test -> Nullable(TestRow)]
  /\ build \in [Executions -> Nullable(BuildRow)]
  /\ solution \in [Executions -> [Test -> Nullable(BOOLEAN)]]
  /\ lock \in [NewTasks -> Nullable(TaskUpdates)]
  /\ DOMAIN draft = TaskUpdates
  /\ \A u \in TaskUpdates :
       /\ DOMAIN draft[u] \subseteq Test
       /\ draft[u] \in [DOMAIN draft[u] -> Nullable(TestRow)]
  /\ found \in [TaskUpdates \cup Removals -> SUBSET Rows]
  /\ taken \in [Removals -> SUBSET Rows]

StoreInit ==
  /\ course = [c \in NewCourses |-> Null]
  /\ theme = [h \in NewThemes |-> Null]
  /\ task = [t \in NewTasks |-> Null]
  /\ test = [i \in Test |-> Null]
  /\ build = [e \in Executions |-> Null]
  /\ solution = [e \in Executions |-> NoSolutions]
  /\ lock = [t \in NewTasks |-> Null]
  /\ draft = [u \in TaskUpdates |-> NoDraft]
  /\ found = [q \in TaskUpdates \cup Removals |-> {}]
  /\ taken = [r \in Removals |-> {}]

TestsOf(t) == {i \in Test : test[i] # Null /\ test[i].taskId = t}

TasksOf(h) == {t \in NewTasks : task[t] # Null /\ task[t].themeId = h}

ThemesOf(c) == {h \in NewThemes : theme[h] # Null /\ theme[h].courseId = c}

BuildsOf(gone) == {e \in Executions : build[e] # Null /\ build[e].taskId \in gone}

-----------------------------------------------------------------------------
(* Locks.                                                                  *)

\* The removals that are about to delete a row: new rows that name it wait for
\* them, and so does every write of the row.
Deleters(x) == {r \in Removals : x \in taken[r]}

\* Who has written or is about to delete a row: every other write waits for them.
Writers(x) ==
  Deleters(x) \cup {u \in TaskUpdates : x \in DOMAIN draft[u]}
    \cup {u \in TaskUpdates : x \in NewTasks /\ lock[x] = u}

\* The tasks that new tests of an open transaction name.
KeyShared(u) ==
  {draft[u][i].taskId : i \in {j \in DOMAIN draft[u] : j[1] = u}}

\* Whom a DELETE waits for at a row.
Holders(x) == Writers(x) \cup {u \in TaskUpdates : x \in KeyShared(u)}

-----------------------------------------------------------------------------
(* What has gone when a DELETE ends: course -> theme -> task -> test,      *)
(* task -> build -> solution.                                              *)

DeleteBuilds(gone) ==
  /\ build' = [e \in Executions |-> IF e \in gone THEN Null ELSE build[e]]
  /\ solution' = [e \in Executions |->
                    IF e \in gone THEN NoSolutions ELSE solution[e]]

\* task_test.taskId without onDelete: Cascade.
DeleteTasksOnly(gone) ==
  /\ task' = [t \in NewTasks |-> IF t \in gone THEN Null ELSE task[t]]
  /\ DeleteBuilds(BuildsOf(gone))
  /\ UNCHANGED test

DeleteTasks(gone) ==
  /\ task' = [t \in NewTasks |-> IF t \in gone THEN Null ELSE task[t]]
  /\ test' = [i \in Test |->
       IF test[i] # Null /\ test[i].taskId \in gone THEN Null ELSE test[i]]
  /\ DeleteBuilds(BuildsOf(gone))

=============================================================================
