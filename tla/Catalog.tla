------------------------------- MODULE Catalog -------------------------------
(***************************************************************************)
(* CourseService and ThemeService.  Every operation is one statement, save *)
(* CourseService.update, which looks for the row first.  A request that    *)
(* finds no row, or whose parent row is missing, answers with an error and *)
(* changes nothing; one that names a row which a removal is about to       *)
(* delete waits for the end of it.                                         *)
(***************************************************************************)
EXTENDS Removal

ASSUME ServedAssumption ==
  NewTasks \cap (NewCourses \cup NewThemes \cup ThemeUpdates) = {}

VARIABLES
  served,          \* one-statement requests that have been served
  courseUpdatePc,
  updatedCourse    \* local "id" of CourseService.update

catalogVars == <<removePc, served, courseUpdatePc, updatedCourse>>

CatalogTypeOK ==
  /\ RemovalTypeOK
  /\ served \subseteq NewCourses \cup NewThemes \cup NewTasks \cup ThemeUpdates
  /\ courseUpdatePc \in [CourseUpdates -> {"idle", "update", "done", "failed"}]
  /\ updatedCourse \in [CourseUpdates -> Nullable(NewCourses)]
  /\ \A r \in CourseUpdates :
       courseUpdatePc[r] = "update" => updatedCourse[r] \in NewCourses

CatalogInit ==
  /\ RemovalInit
  /\ served = {}
  /\ courseUpdatePc = [r \in CourseUpdates |-> "idle"]
  /\ updatedCourse = [r \in CourseUpdates |-> Null]

-----------------------------------------------------------------------------

Serve(r) ==
  /\ r \notin served
  /\ served' = served \cup {r}
  /\ UNCHANGED <<removePc, courseUpdatePc, updatedCourse>>

CreateCourse(r) ==
  /\ Serve(r)
  /\ course' = [course EXCEPT ![r] = [by |-> r]]
  /\ UNCHANGED <<theme, task, test, build, solution, openVars>>

\* theme.courseId -> course.id
CreateTheme(r, c) ==
  /\ Serve(r)
  /\ Deleters(c) = {}
  /\ theme' = IF course[c] = Null THEN theme
                ELSE [theme EXCEPT ![r] = [courseId |-> c, by |-> r]]
  /\ UNCHANGED <<course, task, test, build, solution, openVars>>

\* theme.update fails without the row.  A theme stays with its course.
UpdateTheme(r, h) ==
  /\ Serve(r)
  /\ Deleters(h) = {}
  /\ theme' = IF theme[h] = Null THEN theme ELSE [theme EXCEPT ![h].by = r]
  /\ UNCHANGED <<course, task, test, build, solution, openVars>>

\* theme.delete and course.delete begin.
Remove(r, x) ==
  /\ removePc[r] = "idle"
  /\ Delete(r, x)
  /\ UNCHANGED <<served, courseUpdatePc, updatedCourse>>

RemoveTheme(r, h) == Remove(r, h)

RemoveCourse(r, c) == Remove(r, c)

FindCourse(r, c) ==
  /\ courseUpdatePc[r] = "idle"
  /\ updatedCourse' = [updatedCourse EXCEPT ![r] = c]
  /\ courseUpdatePc' = [courseUpdatePc EXCEPT ![r] =
       IF course[c] = Null THEN "failed" ELSE "update"]
  /\ UNCHANGED <<removePc, served, storeVars>>

\* course.upsert: a course that has gone since the check is written again.
UpsertCourse(r) ==
  /\ courseUpdatePc[r] = "update"
  /\ course' = [course EXCEPT ![updatedCourse[r]] = [by |-> r]]
  /\ courseUpdatePc' = [courseUpdatePc EXCEPT ![r] = "done"]
  /\ UNCHANGED <<removePc, served, updatedCourse,
                 theme, task, test, build, solution, openVars>>

UpdateCourse(r) ==
  /\ courseUpdatePc[r] = "update"
  /\ Deleters(updatedCourse[r]) = {}
  /\ IF course[updatedCourse[r]] # Null
       THEN /\ course' = [course EXCEPT ![updatedCourse[r]].by = r]
            /\ courseUpdatePc' = [courseUpdatePc EXCEPT ![r] = "done"]
       ELSE /\ courseUpdatePc' = [courseUpdatePc EXCEPT ![r] = "failed"]
            /\ UNCHANGED course
  /\ UNCHANGED <<removePc, served, updatedCourse,
                 theme, task, test, build, solution, openVars>>

\* The steps of a DELETE under way, of a task too.
DeleteStep(r) ==
  /\ EndDelete(r) \/ (\E x \in Rows : TakeRow(r, x))
  /\ UNCHANGED <<served, courseUpdatePc, updatedCourse>>

CatalogStep ==
  \/ \E r \in NewCourses : CreateCourse(r)
  \/ \E r \in NewThemes, c \in NewCourses : CreateTheme(r, c)
  \/ \E r \in ThemeUpdates, h \in NewThemes : UpdateTheme(r, h)
  \/ \E r \in ThemeRemovals, h \in NewThemes : RemoveTheme(r, h)
  \/ \E r \in CourseRemovals, c \in NewCourses : RemoveCourse(r, c)
  \/ \E r \in CourseUpdates :
       \/ \E c \in NewCourses : FindCourse(r, c)
       \/ UpdateCourse(r)
  \/ \E r \in Removals :
       \/ DeleteStep(r)
       \/ RemoveCutOff(r) /\ UNCHANGED <<served, courseUpdatePc, updatedCourse>>

=============================================================================
