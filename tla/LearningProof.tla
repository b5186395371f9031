---------------------------- MODULE LearningProof ----------------------------
(***************************************************************************)
(* The learning part for every number of courses, themes, tasks, tests and *)
(* requests: types, what removals leave behind, what runs promise          *)
(* (RunHistory), and what stays away.                                      *)
(*                                                                         *)
(* The argument.  Every test and every build has its task, and a build has *)
(* the solutions its run has stored (TableInv: ParentsExist, RunsMatch).   *)
(* What a transaction has written and what a removal is about to delete    *)
(* are never the same row (LocksHeld), so a DELETE that ends takes no row  *)
(* that a transaction still builds on (DraftFits).  A step either deletes  *)
(* tasks together with all that hangs on them (Cascades) or leaves tasks,  *)
(* builds and solutions alone (RowsStay), unless it is a step of a run;    *)
(* what it inserts meets its foreign key.  So of all other steps only a    *)
(* Cascade is seen in the history of a run.                                *)
(***************************************************************************)
EXTENDS Learning, TLAPS

USE MaxNewAssumption, LearningNullAssumption, NamesAssumption, ServedAssumption,
    RunAssumption

-----------------------------------------------------------------------------
(* Types.                                                                  *)

\* The types of a part that a step leaves alone.
LEMMA StoreTypesKept ==
  ASSUME StoreTypeOK, UNCHANGED <<course, theme, task, test, build, solution>>,
         UNCHANGED <<lock, draft>>,
         found' \in [TaskUpdates \cup Removals -> SUBSET Rows],
         taken' \in [Removals -> SUBSET Rows]
  PROVE  StoreTypeOK'
BY DEF StoreTypeOK

\* Requests for courses and themes keep their types while no removal moves.
LEMMA CatalogTypesKept ==
  ASSUME CatalogTypeOK, UNCHANGED <<catalogVars, taken>>,
         \A r \in Removals : found'[r] = found[r]
  PROVE  CatalogTypeOK'
BY DEF CatalogTypeOK, RemovalTypeOK, catalogVars

\* Requests for tasks keep their types when none of them moves and the locks and
\* transactions stay.
LEMMA EditTypesKept ==
  ASSUME EditTypeOK, UNCHANGED <<editVars, lock, draft>>,
         \A u \in TaskUpdates : found'[u] = found[u],
         \A r \in TaskRemovals : removePc[r] = "idle" => removePc'[r] = "idle"
  PROVE  EditTypeOK'
BY DEF EditTypeOK, editVars, updateVars

\* Runs keep their types when none of them moves.
LEMMA ExecuteTypesKept ==
  ASSUME ExecuteTypeOK, UNCHANGED executeVars
  PROVE  ExecuteTypeOK'
BY DEF ExecuteTypeOK, executeVars

\* The tests of a request are tests.
LEMMA NewTestsAreTests ==
  ASSUME NEW w \in TaskWriter, NEW n \in 0..MaxNew[w]
  PROVE  NewTests(w, n) \subseteq Test
BY DEF NewTests, Test

\* A test is named after the task or the update that brought it.
LEMMA TestParts ==
  ASSUME NEW i \in Test
  PROVE  i[1] \in NewTasks \/ i[1] \in TaskUpdates
BY DEF Test, NewTests, TaskWriter

\* A build without solutions is a row of solutions.
LEMMA NoSolutionsType == NoSolutions \in [Test -> Nullable(BOOLEAN)]
BY DEF NoSolutions, Nullable

\* Rows are rows.
LEMMA RowsAreRows ==
  /\ NewCourses \subseteq Rows /\ NewThemes \subseteq Rows /\ NewTasks \subseteq Rows
  /\ Test \subseteq Rows /\ Executions \subseteq Rows
  /\ Present \subseteq Rows
BY DEF Rows, Present

\* The tests of a task are tests.
LEMMA TestsOfType ==
  ASSUME NEW t
  PROVE  TestsOf(t) \subseteq Test
BY DEF TestsOf

\* A removal that moves on changes what it has found and taken, and no more.
LEMMA RemovalMoves ==
  ASSUME TypeOK, NEW r \in Removals, NEW pc \in RemovePc \ {"idle"},
         NEW rows \in SUBSET Rows, NEW held \in SUBSET Rows,
         pc \notin {"takeTests", "takeRows"} => rows = {} /\ held = {},
         removePc' = [removePc EXCEPT ![r] = pc],
         found' = [found EXCEPT ![r] = rows],
         taken' = [taken EXCEPT ![r] = held]
  PROVE  /\ RemovalTypeOK'
         /\ found' \in [TaskUpdates \cup Removals -> SUBSET Rows]
         /\ taken' \in [Removals -> SUBSET Rows]
         /\ removePc'[r] = pc /\ found'[r] = rows /\ taken'[r] = held
         /\ \A u \in TaskUpdates : found'[u] = found[u]
         /\ \A s \in Removals \ {r} :
              removePc'[s] = removePc[s] /\ found'[s] = found[s] /\ taken'[s] = taken[s]
<1>1. /\ found' \in [TaskUpdates \cup Removals -> SUBSET Rows]
      /\ taken' \in [Removals -> SUBSET Rows]
      /\ removePc' \in [Removals -> RemovePc]
  BY DEF TypeOK, StoreTypeOK, CatalogTypeOK, RemovalTypeOK
<1>2. /\ removePc'[r] = pc /\ found'[r] = rows /\ taken'[r] = held
      /\ \A u \in TaskUpdates : found'[u] = found[u]
      /\ \A s \in Removals \ {r} :
           removePc'[s] = removePc[s] /\ found'[s] = found[s] /\ taken'[s] = taken[s]
  BY DEF TypeOK, StoreTypeOK, CatalogTypeOK, RemovalTypeOK
<1>3. RemovalTypeOK'
  BY <1>1, <1>2 DEF TypeOK, CatalogTypeOK, RemovalTypeOK
<1> QED BY <1>1, <1>2, <1>3

\* A removal that comes to rows has a statement under way.
LEMMA ComesToRows ==
  ASSUME TypeOK, NEW r \in Removals, ToTake(r) # {}
  PROVE  removePc[r] \in {"takeTests", "takeRows"}
<1> SUFFICES ASSUME found[r] = {}, taken[r] = {}
             PROVE  ToTake(r) = {}
  BY DEF TypeOK, CatalogTypeOK, RemovalTypeOK
<1> QED BY DEF ToTake, HangingOn, BuildsOf

\* What the steps of a removal do to it.
LEMMA TakeRowMoves ==
  ASSUME TypeOK, NEW r \in Removals, NEW x \in Rows, TakeRow(r, x)
  PROVE  /\ RemovalTypeOK' /\ StoreTypeOK'
         /\ removePc[r] \in {"takeTests", "takeRows"}
         /\ UNCHANGED removePc
         /\ taken'[r] = taken[r] \cup ({x} \cap Present)
         /\ \A u \in TaskUpdates : found'[u] = found[u]
         /\ \A s \in Removals \ {r} : found'[s] = found[s] /\ taken'[s] = taken[s]
<1>1. removePc[r] \in {"takeTests", "takeRows"}
  BY ComesToRows DEF TakeRow
<1>2. /\ removePc' = [removePc EXCEPT ![r] = removePc[r]]
      /\ removePc[r] \in RemovePc \ {"idle"}
  BY <1>1 DEF TakeRow, TypeOK, CatalogTypeOK, RemovalTypeOK
<1>3. /\ found' = [found EXCEPT ![r] = found[r] \ {x}]
      /\ taken' = [taken EXCEPT ![r] = taken[r] \cup ({x} \cap Present)]
  BY DEF TakeRow
<1>4. found[r] \in SUBSET Rows /\ taken[r] \in SUBSET Rows
  BY DEF TypeOK, StoreTypeOK
<1>5. /\ RemovalTypeOK'
      /\ found' \in [TaskUpdates \cup Removals -> SUBSET Rows]
      /\ taken' \in [Removals -> SUBSET Rows]
      /\ taken'[r] = taken[r] \cup ({x} \cap Present)
      /\ \A u \in TaskUpdates : found'[u] = found[u]
      /\ \A s \in Removals \ {r} : found'[s] = found[s] /\ taken'[s] = taken[s]
  <2> DEFINE rows == found[r] \ {x}
             held == taken[r] \cup ({x} \cap Present)
  <2>1. rows \in SUBSET Rows /\ held \in SUBSET Rows
    BY <1>4
  <2> HIDE DEF rows, held
  <2>2. found' = [found EXCEPT ![r] = rows] /\ taken' = [taken EXCEPT ![r] = held]
    BY <1>3 DEF rows, held
  <2>3. /\ RemovalTypeOK'
        /\ found' \in [TaskUpdates \cup Removals -> SUBSET Rows]
        /\ taken' \in [Removals -> SUBSET Rows]
        /\ taken'[r] = held
        /\ \A u \in TaskUpdates : found'[u] = found[u]
        /\ \A s \in Removals \ {r} : found'[s] = found[s] /\ taken'[s] = taken[s]
    BY <1>1, <1>2, <2>1, <2>2, RemovalMoves
  <2> QED BY <2>3 DEF held
<1>6. StoreTypeOK'
  BY <1>5, StoreTypesKept DEF TakeRow, TypeOK
<1> QED BY <1>1, <1>5, <1>6 DEF TakeRow

\* A removal that ends its statement or is cut off, and one that begins, gives back
\* all it has taken.
LEMMA LetsGo ==
  ASSUME TypeOK, NEW r \in Removals, NEW pc \in RemovePc \ {"idle"},
         NEW rows \in SUBSET Rows,
         pc \notin {"takeTests", "takeRows"} => rows = {},
         removePc' = [removePc EXCEPT ![r] = pc],
         found' = [found EXCEPT ![r] = rows],
         taken' = [taken EXCEPT ![r] = {}]
  PROVE  /\ RemovalTypeOK'
         /\ found' \in [TaskUpdates \cup Removals -> SUBSET Rows]
         /\ taken' \in [Removals -> SUBSET Rows]
         /\ removePc'[r] = pc /\ found'[r] = rows /\ taken'[r] = {}
         /\ \A u \in TaskUpdates : found'[u] = found[u]
         /\ \A s \in Removals \ {r} :
              removePc'[s] = removePc[s] /\ found'[s] = found[s] /\ taken'[s] = taken[s]
<1> QED BY RemovalMoves

\* The end of a DELETE moves one removal only, which holds no row then.
LEMMA EndDeleteMoves ==
  ASSUME TypeOK, NEW r \in Removals, EndDelete(r)
  PROVE  /\ RemovalTypeOK' /\ StoreTypeOK'
         /\ removePc[r] = "takeRows" /\ removePc'[r] \in {"done", "failed"}
         /\ taken'[r] = {} /\ UNCHANGED <<lock, draft>>
         /\ \A u \in TaskUpdates : found'[u] = found[u]
         /\ \A s \in Removals \ {r} :
              removePc'[s] = removePc[s] /\ found'[s] = found[s] /\ taken'[s] = taken[s]
<1>1. PICK pc \in {"done", "failed"} : removePc' = [removePc EXCEPT ![r] = pc]
  BY DEF EndDelete
<1>2. pc \in RemovePc \ {"idle"} /\ pc \notin {"takeTests", "takeRows"}
  BY DEF RemovePc
<1>3. /\ RemovalTypeOK'
      /\ found' \in [TaskUpdates \cup Removals -> SUBSET Rows]
      /\ taken' \in [Removals -> SUBSET Rows]
      /\ removePc'[r] = pc /\ taken'[r] = {}
      /\ \A u \in TaskUpdates : found'[u] = found[u]
      /\ \A s \in Removals \ {r} :
           removePc'[s] = removePc[s] /\ found'[s] = found[s] /\ taken'[s] = taken[s]
  BY <1>1, <1>2, LetsGo DEF EndDelete
<1>4. /\ course' \in [NewCourses -> Nullable(CourseRow)]
      /\ theme' \in [NewThemes -> Nullable(ThemeRow)]
      /\ task' \in [NewTasks -> Nullable(TaskRow)]
      /\ test' \in [Test -> Nullable(TestRow)]
  BY DEF EndDelete, DeleteTasks, TypeOK, StoreTypeOK, Nullable
<1>5. build' \in [Executions -> Nullable(BuildRow)]
  BY DEF EndDelete, DeleteTasks, DeleteBuilds, TypeOK, StoreTypeOK, Nullable
<1>6. solution' \in [Executions -> [Test -> Nullable(BOOLEAN)]]
  BY NoSolutionsType DEF EndDelete, DeleteTasks, DeleteBuilds, TypeOK, StoreTypeOK
<1>7. UNCHANGED <<lock, draft>>
  BY DEF EndDelete
<1> QED BY <1>3, <1>4, <1>5, <1>6, <1>7 DEF TypeOK, StoreTypeOK, EndDelete

\* A removal that is cut off gives its rows back and moves no other.
LEMMA CutOffMoves ==
  ASSUME TypeOK, NEW r \in Removals, RemoveCutOff(r)
  PROVE  /\ RemovalTypeOK' /\ StoreTypeOK'
         /\ removePc[r] # "idle" /\ removePc'[r] = "failed" /\ taken'[r] = {}
         /\ found'[r] = {}
         /\ \A u \in TaskUpdates : found'[u] = found[u]
         /\ \A s \in Removals \ {r} :
              removePc'[s] = removePc[s] /\ found'[s] = found[s] /\ taken'[s] = taken[s]
<1>1. "failed" \in RemovePc \ {"idle"}
  BY DEF RemovePc
<1>2. /\ RemovalTypeOK'
      /\ found' \in [TaskUpdates \cup Removals -> SUBSET Rows]
      /\ taken' \in [Removals -> SUBSET Rows]
      /\ removePc'[r] = "failed" /\ taken'[r] = {} /\ found'[r] = {}
      /\ \A u \in TaskUpdates : found'[u] = found[u]
      /\ \A s \in Removals \ {r} :
           removePc'[s] = removePc[s] /\ found'[s] = found[s] /\ taken'[s] = taken[s]
  BY <1>1, LetsGo DEF RemoveCutOff
<1>3. StoreTypeOK'
  BY <1>2, StoreTypesKept DEF RemoveCutOff, TypeOK
<1> QED BY <1>2, <1>3 DEF RemoveCutOff

\* A DELETE begins: of a theme or course, or of the tests of a task.
LEMMA BeginMoves ==
  ASSUME TypeOK, NEW r \in Removals, NEW pc \in {"takeTests", "takeRows"},
         NEW rows \in SUBSET Rows,
         removePc[r] \notin {"takeTests", "takeRows"},
         removePc' = [removePc EXCEPT ![r] = pc],
         found' = [found EXCEPT ![r] = rows],
         UNCHANGED <<course, theme, task, test, build, solution, lock, draft, taken>>
  PROVE  /\ RemovalTypeOK' /\ StoreTypeOK'
         /\ removePc'[r] = pc /\ found'[r] = rows /\ taken[r] = {}
         /\ \A u \in TaskUpdates : found'[u] = found[u]
         /\ \A s \in Removals \ {r} :
              removePc'[s] = removePc[s] /\ found'[s] = found[s]
<1>1. pc \in RemovePc \ {"idle"}
  BY DEF RemovePc
<1>2. taken[r] = {} /\ taken' = [taken EXCEPT ![r] = {}]
  BY DEF TypeOK, CatalogTypeOK, RemovalTypeOK, StoreTypeOK
<1>3. /\ RemovalTypeOK'
      /\ found' \in [TaskUpdates \cup Removals -> SUBSET Rows]
      /\ taken' \in [Removals -> SUBSET Rows]
      /\ removePc'[r] = pc /\ found'[r] = rows
      /\ \A u \in TaskUpdates : found'[u] = found[u]
      /\ \A s \in Removals \ {r} :
           removePc'[s] = removePc[s] /\ found'[s] = found[s]
  BY <1>1, <1>2, LetsGo
<1> QED BY <1>2, <1>3, StoreTypesKept DEF TypeOK

\* The steps of courses and themes, and those of a DELETE under way, keep the types.
LEMMA CatalogTypes ==
  ASSUME TypeOK, CatalogStep, UNCHANGED <<editVars, executeVars>>
  PROVE  TypeOK'
<1> USE DEF TypeOK
<1>0. SUFFICES /\ StoreTypeOK' /\ CatalogTypeOK' /\ UNCHANGED <<lock, draft>>
               /\ \A u \in TaskUpdates : found'[u] = found[u]
               /\ \A r \in TaskRemovals : removePc[r] = "idle" => removePc'[r] = "idle"
  BY EditTypesKept, ExecuteTypesKept
<1> DEFINE Typed == /\ StoreTypeOK' /\ CatalogTypeOK' /\ UNCHANGED <<lock, draft>>
                    /\ \A u \in TaskUpdates : found'[u] = found[u]
                    /\ \A r \in TaskRemovals :
                         removePc[r] = "idle" => removePc'[r] = "idle"
<1>1. ASSUME NEW r \in NewCourses, CreateCourse(r)
      PROVE  Typed
  BY <1>1 DEF CreateCourse, CourseRow, Serve, StoreTypeOK, CatalogTypeOK,
              RemovalTypeOK, openVars, Nullable
<1>2. ASSUME NEW r \in NewThemes, NEW c \in NewCourses, CreateTheme(r, c)
      PROVE  Typed
  <2>1. theme' \in [NewThemes -> Nullable(ThemeRow)]
    BY <1>2 DEF CreateTheme, ThemeRow, StoreTypeOK, Nullable
  <2>2. UNCHANGED <<course, task, test, build, solution, openVars, removePc>>
    BY <1>2 DEF CreateTheme, Serve
  <2>3. CatalogTypeOK'
    BY <1>2, <2>2 DEF CreateTheme, Serve, CatalogTypeOK, RemovalTypeOK, openVars
  <2> QED BY <2>1, <2>2, <2>3 DEF StoreTypeOK, openVars
<1>3. ASSUME NEW r \in ThemeUpdates, NEW h \in NewThemes, UpdateTheme(r, h)
      PROVE  Typed
  <2>1. CatalogTypeOK'
    BY <1>3 DEF UpdateTheme, Serve, CatalogTypeOK, RemovalTypeOK, openVars
  <2>2. theme' \in [NewThemes -> Nullable(ThemeRow)]
    <3>1. ASSUME theme[h] # Null
          PROVE  [theme[h] EXCEPT !.by = r] \in ThemeRow
      BY <3>1 DEF StoreTypeOK, Nullable, ThemeRow
    <3>2. theme' = IF theme[h] = Null THEN theme
                     ELSE [theme EXCEPT ![h] = [theme[h] EXCEPT !.by = r]]
      BY <1>3 DEF UpdateTheme
    <3> QED BY <3>1, <3>2 DEF StoreTypeOK, Nullable
  <2>3. UNCHANGED <<course, task, test, build, solution, openVars, removePc>>
    BY <1>3 DEF UpdateTheme, Serve
  <2> QED BY <2>1, <2>2, <2>3 DEF StoreTypeOK, openVars
<1>4. ASSUME NEW r \in CourseRemovals \cup ThemeRemovals,
             NEW x \in NewCourses \cup NewThemes, Remove(r, x)
      PROVE  Typed
  <2>1. r \in Removals /\ r \notin TaskRemovals /\ {x} \in SUBSET Rows
    BY RowsAreRows DEF Removals
  <2>2. /\ RemovalTypeOK' /\ StoreTypeOK'
        /\ \A u \in TaskUpdates : found'[u] = found[u]
        /\ \A s \in Removals \ {r} :
             removePc'[s] = removePc[s] /\ found'[s] = found[s]
    BY <1>4, <2>1, BeginMoves DEF Remove, Delete
  <2>3. CatalogTypeOK' /\ UNCHANGED <<lock, draft>>
    BY <1>4, <2>2 DEF Remove, Delete, CatalogTypeOK
  <2> QED BY <2>1, <2>2, <2>3 DEF Removals
<1>5. ASSUME NEW r \in CourseUpdates, NEW c \in NewCourses, FindCourse(r, c)
      PROVE  Typed
  <2>1. CatalogTypeOK'
    BY <1>5 DEF FindCourse, CatalogTypeOK, RemovalTypeOK, storeVars, openVars, Nullable
  <2>2. UNCHANGED <<storeVars, removePc>>
    BY <1>5 DEF FindCourse
  <2> QED BY <2>1, <2>2 DEF StoreTypeOK, storeVars, openVars
<1>6. ASSUME NEW r \in CourseUpdates, UpdateCourse(r)
      PROVE  Typed
  <2>1. CatalogTypeOK'
    BY <1>6 DEF UpdateCourse, CatalogTypeOK, RemovalTypeOK, openVars
  <2>2. course' \in [NewCourses -> Nullable(CourseRow)]
    <3>1. CASE course[updatedCourse[r]] # Null
      <4>1. /\ updatedCourse[r] \in NewCourses
            /\ course[updatedCourse[r]] \in CourseRow
        BY <1>6, <3>1 DEF UpdateCourse, CatalogTypeOK, StoreTypeOK, Nullable
      <4>2. [course[updatedCourse[r]] EXCEPT !.by = r] \in CourseRow
        BY <4>1 DEF CourseRow
      <4>3. course' = [course EXCEPT ![updatedCourse[r]] =
                         [course[updatedCourse[r]] EXCEPT !.by = r]]
        BY <1>6, <3>1 DEF UpdateCourse
      <4> QED BY <4>1, <4>2, <4>3 DEF StoreTypeOK, Nullable
    <3>2. CASE course[updatedCourse[r]] = Null
      BY <1>6, <3>2 DEF UpdateCourse, StoreTypeOK
    <3> QED BY <3>1, <3>2
  <2>3. UNCHANGED <<theme, task, test, build, solution, openVars, removePc>>
    BY <1>6 DEF UpdateCourse
  <2> QED BY <2>1, <2>2, <2>3 DEF StoreTypeOK, openVars
<1>7. ASSUME NEW r \in Removals,
             UNCHANGED <<served, courseUpdatePc, updatedCourse>>,
             RemovalTypeOK', StoreTypeOK', UNCHANGED <<lock, draft>>,
             removePc[r] # "idle",
             \A u \in TaskUpdates : found'[u] = found[u],
             \A s \in Removals \ {r} : removePc'[s] = removePc[s]
      PROVE  Typed
  BY <1>7 DEF CatalogTypeOK, Removals
<1>8. ASSUME NEW r \in Removals, DeleteStep(r)
      PROVE  Typed
  <2>1. CASE EndDelete(r)
    BY <1>7, <1>8, <2>1, EndDeleteMoves DEF DeleteStep
  <2>2. ASSUME NEW x \in Rows, TakeRow(r, x)
        PROVE  Typed
    <3>1. UNCHANGED <<lock, draft>>
      BY <2>2 DEF TakeRow
    <3> QED BY <1>7, <1>8, <2>2, <3>1, TakeRowMoves DEF DeleteStep
  <2> QED BY <1>8, <2>1, <2>2 DEF DeleteStep
<1>9. ASSUME NEW r \in Removals, RemoveCutOff(r),
             UNCHANGED <<served, courseUpdatePc, updatedCourse>>
      PROVE  Typed
  <2>1. UNCHANGED <<lock, draft>>
    BY <1>9 DEF RemoveCutOff
  <2> QED BY <1>7, <1>9, <2>1, CutOffMoves
<1> HIDE DEF Typed
<1>10. Typed
  BY <1>1, <1>2, <1>3, <1>4, <1>5, <1>6, <1>8, <1>9
  DEF CatalogStep, RemoveTheme, RemoveCourse
<1> QED BY <1>10 DEF Typed

\* The steps of a run keep the types.
LEMMA ExecuteTypes ==
  ASSUME TypeOK, ExecuteStep, UNCHANGED <<catalogVars, editVars>>
  PROVE  TypeOK'
<1> USE DEF TypeOK
<1> DEFINE Typed == StoreTypeOK' /\ ExecuteTypeOK' /\ UNCHANGED openVars
<1>0. SUFFICES Typed
  BY EditTypesKept, CatalogTypesKept DEF openVars, catalogVars
<1>1. ASSUME NEW e \in Executions, NEW t \in NewTasks, FindTask(e, t)
      PROVE  Typed
  <2>1. [i \in Test |-> IF i \in TestsOf(t) THEN "posted" ELSE Null]
          \in [Test -> Nullable(Pending \cup Settled)]
    BY DEF Nullable, Pending
  <2>2. run' \in [Executions -> [Test -> Nullable(Pending \cup Settled)]]
    BY <1>1, <2>1 DEF FindTask, ExecuteTypeOK
  <2>3. ExecuteTypeOK'
    BY <1>1, <2>2 DEF FindTask, ExecuteTypeOK, Nullable
  <2> QED BY <1>1, <2>3, StoreTypesKept DEF FindTask, storeVars, openVars, StoreTypeOK
<1>2. ASSUME NEW e \in Executions, CreateBuild(e)
      PROVE  Typed
  <2>1. ExecuteTypeOK'
    BY <1>2 DEF CreateBuild, ExecuteTypeOK
  <2>2. executedTask[e] \in NewTasks
    BY <1>2 DEF CreateBuild, ExecuteTypeOK
  <2>3. build' \in [Executions -> Nullable(BuildRow)]
    BY <1>2, <2>2 DEF CreateBuild, StoreTypeOK, BuildRow, Nullable
  <2>4. UNCHANGED <<course, theme, task, test, solution, openVars>>
    BY <1>2 DEF CreateBuild
  <2> QED BY <2>1, <2>3, <2>4 DEF StoreTypeOK, openVars
<1>3. ASSUME NEW e \in Executions, NEW i \in Test, NEW from, NEW to,
             to \in Pending \cup Settled, Advance(e, i, from, to)
      PROVE  ExecuteTypeOK'
  <2>1. run' \in [Executions -> [Test -> Nullable(Pending \cup Settled)]]
    BY <1>3 DEF Advance, ExecuteTypeOK, Nullable
  <2> QED BY <1>3, <2>1 DEF Advance, ExecuteTypeOK
<1>4. ASSUME NEW e \in Executions, NEW i \in Test, NEW passed \in BOOLEAN,
             SaveSolution(e, i, passed)
      PROVE  Typed
  <2>1. PICK to \in Settled : Advance(e, i, Verdict(passed), to)
    BY <1>4 DEF SaveSolution, Settled
  <2>2. ExecuteTypeOK'
    BY <1>3, <2>1
  <2>3. solution' \in [Executions -> [Test -> Nullable(BOOLEAN)]]
    <3>1. UNCHANGED solution \/ solution' = [solution EXCEPT ![e][i] = passed]
      BY <1>4 DEF SaveSolution
    <3> QED BY <3>1 DEF StoreTypeOK, Nullable
  <2>4. UNCHANGED <<course, theme, task, test, build, openVars>>
    BY <1>4 DEF SaveSolution
  <2> QED BY <2>2, <2>3, <2>4 DEF StoreTypeOK, openVars
<1>5. ASSUME NEW e \in Executions, NEW i \in Test, PistonAnswers(e, i)
      PROVE  Typed
  <2>1. PICK to \in Pending \cup Settled : Advance(e, i, "posted", to)
    BY <1>5 DEF PistonAnswers, Settled, Pending
  <2> QED
    BY <1>3, <1>5, <2>1, StoreTypesKept DEF PistonAnswers, storeVars, openVars, StoreTypeOK
<1>6. ASSUME NEW e \in Executions, Answer(e) \/ ExecuteCutOff(e)
      PROVE  Typed
  <2>1. ExecuteTypeOK'
    BY <1>6 DEF Answer, ExecuteCutOff, ExecuteTypeOK
  <2>2. UNCHANGED storeVars
    BY <1>6 DEF Answer, ExecuteCutOff
  <2> QED BY <2>1, <2>2, StoreTypesKept DEF storeVars, openVars, StoreTypeOK
<1> QED
  BY <1>0, <1>1, <1>2, <1>4, <1>5, <1>6 DEF ExecuteStep, ExecuteProgress

\* COMMIT and ROLLBACK keep the types of lock and draft.
LEMMA ReleaseTypes ==
  ASSUME StoreTypeOK, NEW u \in TaskUpdates, Release(u)
  PROVE  /\ lock' \in [NewTasks -> Nullable(TaskUpdates)]
         /\ DOMAIN draft' = TaskUpdates
         /\ draft'[u] = NoDraft
         /\ \A v \in TaskUpdates \ {u} : draft'[v] = draft[v]
         /\ \A v \in TaskUpdates :
              /\ DOMAIN draft'[v] \subseteq Test
              /\ draft'[v] \in [DOMAIN draft'[v] -> Nullable(TestRow)]
<1>1. lock' \in [NewTasks -> Nullable(TaskUpdates)]
  BY DEF StoreTypeOK, Release, Nullable
<1>2. /\ DOMAIN draft' = TaskUpdates
      /\ draft'[u] = NoDraft
      /\ \A v \in TaskUpdates \ {u} : draft'[v] = draft[v]
  BY DEF StoreTypeOK, Release
<1>3. DOMAIN NoDraft = {} /\ NoDraft \in [{} -> Nullable(TestRow)]
  BY DEF NoDraft
<1> QED BY <1>1, <1>2, <1>3 DEF StoreTypeOK

\* So does a write.
LEMMA WriteTypes ==
  ASSUME StoreTypeOK, NEW u \in TaskUpdates, NEW i \in Test, NEW row,
         row \in Nullable(TestRow), Write(u, i, row)
  PROVE  /\ DOMAIN draft' = TaskUpdates
         /\ DOMAIN draft'[u] = {i} \cup DOMAIN draft[u]
         /\ \A j \in DOMAIN draft'[u] :
              draft'[u][j] = IF j = i THEN row ELSE draft[u][j]
         /\ \A v \in TaskUpdates \ {u} : draft'[v] = draft[v]
         /\ \A v \in TaskUpdates :
              /\ DOMAIN draft'[v] \subseteq Test
              /\ draft'[v] \in [DOMAIN draft'[v] -> Nullable(TestRow)]
<1> DEFINE new == [j \in {i} \cup DOMAIN draft[u] |->
                     IF j = i THEN row ELSE draft[u][j]]
<1>1. draft' = [draft EXCEPT ![u] = new]
  BY DEF Write
<1>2. /\ DOMAIN new \subseteq Test
      /\ new \in [DOMAIN new -> Nullable(TestRow)]
  BY DEF StoreTypeOK
<1>3. /\ DOMAIN draft' = TaskUpdates
      /\ draft'[u] = new
      /\ \A v \in TaskUpdates \ {u} : draft'[v] = draft[v]
  BY <1>1 DEF StoreTypeOK
<1>4. /\ DOMAIN new = {i} \cup DOMAIN draft[u]
      /\ \A j \in DOMAIN new : new[j] = IF j = i THEN row ELSE draft[u][j]
  OBVIOUS
<1> HIDE DEF new
<1> QED BY <1>2, <1>3, <1>4 DEF StoreTypeOK

\* An update that has come to another statement of its transaction, or has left
\* it, keeps the types when it leaves the locks of the others alone.
LEMMA GotoTypes ==
  ASSUME TypeOK, NEW u \in TaskUpdates, NEW pc \in UpdatePc \ {"idle"},
         GotoUpdate(u, pc), updatePc[u] # "idle",
         task' \in [NewTasks -> Nullable(TaskRow)],
         test' \in [Test -> Nullable(TestRow)],
         lock' \in [NewTasks -> Nullable(TaskUpdates)],
         DOMAIN draft' = TaskUpdates,
         \A v \in TaskUpdates :
           /\ DOMAIN draft'[v] \subseteq Test
           /\ draft'[v] \in [DOMAIN draft'[v] -> Nullable(TestRow)],
         existing' \in [TaskUpdates -> SUBSET Test],
         found' \in [TaskUpdates \cup Removals -> SUBSET Rows],
         \A q \in (TaskUpdates \cup Removals) \ {u} : found'[q] = found[q],
         pc \in InTransaction /\ columns[u] => lock'[updatedTask[u]] = u,
         pc \notin InTransaction => draft'[u] = NoDraft,
         pc # "deleteFound" => found'[u] = {},
         pc = "writeTests" => sent[u] # Null,
         \A v \in TaskUpdates \ {u} : draft'[v] = draft[v],
         \A v \in TaskUpdates \ {u}, t \in NewTasks :
           lock[t] = v => lock'[t] = v
  PROVE  StoreTypeOK' /\ CatalogTypeOK' /\ EditTypeOK'
<1>1. /\ updatePc' \in [TaskUpdates -> UpdatePc]
      /\ updatePc'[u] = pc
      /\ \A v \in TaskUpdates \ {u} : updatePc'[v] = updatePc[v]
  BY DEF TypeOK, EditTypeOK, GotoUpdate
<1>2. UNCHANGED <<sent, columns, updatedTask, removePc, removedTask>>
  BY DEF GotoUpdate, catalogVars
<1>3. ASSUME NEW v \in TaskUpdates
      PROVE  /\ updatePc'[v] # "idle" => updatedTask'[v] \in NewTasks
             /\ updatePc'[v] \in InTransaction /\ columns'[v]
                  => lock'[updatedTask'[v]] = v
             /\ updatePc'[v] \notin InTransaction => draft'[v] = NoDraft
             /\ updatePc'[v] # "deleteFound" => found'[v] = {}
             /\ updatePc'[v] = "writeTests" => sent'[v] # Null
  <2>1. CASE v = u
    BY <1>1, <1>2, <2>1 DEF TypeOK, EditTypeOK
  <2>2. CASE v # u
    <3>1. updatePc[v] \in InTransaction => updatedTask[v] \in NewTasks
      BY DEF TypeOK, EditTypeOK, InTransaction
    <3> QED BY <1>1, <1>2, <2>2, <3>1 DEF TypeOK, EditTypeOK
  <2> QED BY <2>1, <2>2
<1>4. EditTypeOK'
  BY <1>1, <1>2, <1>3 DEF TypeOK, EditTypeOK
<1>5. CatalogTypeOK'
  BY CatalogTypesKept DEF GotoUpdate, TypeOK
<1>6. StoreTypeOK'
  BY DEF GotoUpdate, TypeOK, StoreTypeOK
<1> QED BY <1>4, <1>5, <1>6

\* An update under way has a task, and in its transaction the lock it wants.
LEMMA UnderWayTypes ==
  ASSUME TypeOK, NEW u \in TaskUpdates, updatePc[u] # "idle"
  PROVE  /\ updatedTask[u] \in NewTasks
         /\ updatePc[u] \in InTransaction /\ columns[u] => lock[updatedTask[u]] = u
         /\ updatePc[u] \notin InTransaction => draft[u] = NoDraft
         /\ updatePc[u] # "deleteFound" => found[u] = {}
         /\ existing \in [TaskUpdates -> SUBSET Test]
         /\ found \in [TaskUpdates \cup Removals -> SUBSET Rows]
         /\ lock \in [NewTasks -> Nullable(TaskUpdates)]
         /\ DOMAIN draft = TaskUpdates
         /\ \A v \in TaskUpdates :
              /\ DOMAIN draft[v] \subseteq Test
              /\ draft[v] \in [DOMAIN draft[v] -> Nullable(TestRow)]
         /\ task \in [NewTasks -> Nullable(TaskRow)]
         /\ test \in [Test -> Nullable(TestRow)]
BY DEF TypeOK, StoreTypeOK, EditTypeOK

\* A write of the transaction that goes on.
LEMMA GoesOnWriting ==
  ASSUME TypeOK, NEW u \in TaskUpdates, updatePc[u] \in InTransaction,
         NEW pc \in InTransaction, NEW i \in Test, NEW row \in Nullable(TestRow),
         GotoUpdate(u, pc),
         Write(u, i, row) \/ UNCHANGED <<test, lock, draft>>,
         UNCHANGED <<existing, task>>,
         found' \in [TaskUpdates \cup Removals -> SUBSET Rows],
         \A q \in (TaskUpdates \cup Removals) \ {u} : found'[q] = found[q],
         pc # "deleteFound" => found'[u] = {},
         pc = "writeTests" => sent[u] # Null
  PROVE  StoreTypeOK' /\ CatalogTypeOK' /\ EditTypeOK'
<1>1. updatePc[u] # "idle" /\ pc \in UpdatePc \ {"idle"}
  BY DEF InTransaction, UpdatePc
<1>2. /\ DOMAIN draft' = TaskUpdates
      /\ \A v \in TaskUpdates :
           /\ DOMAIN draft'[v] \subseteq Test
           /\ draft'[v] \in [DOMAIN draft'[v] -> Nullable(TestRow)]
      /\ \A v \in TaskUpdates \ {u} : draft'[v] = draft[v]
      /\ UNCHANGED <<test, lock>>
  <2>1. CASE Write(u, i, row)
    BY <2>1, WriteTypes DEF TypeOK, Write
  <2>2. CASE UNCHANGED <<test, lock, draft>>
    BY <1>1, <2>2, UnderWayTypes
  <2> QED BY <2>1, <2>2
<1> QED BY <1>1, <1>2, UnderWayTypes, GotoTypes

\* A transaction that ends.
LEMMA EndsTypes ==
  ASSUME TypeOK, NEW u \in TaskUpdates, updatePc[u] # "idle",
         NEW pc \in {"done", "failed"}, GotoUpdate(u, pc), Release(u),
         existing' \in [TaskUpdates -> SUBSET Test],
         found' = [found EXCEPT ![u] = {}] \/ (UNCHANGED found /\ found[u] = {}),
         task' \in [NewTasks -> Nullable(TaskRow)],
         test' \in [Test -> Nullable(TestRow)]
  PROVE  StoreTypeOK' /\ CatalogTypeOK' /\ EditTypeOK'
<1>1. pc \in UpdatePc \ {"idle"} /\ pc \notin InTransaction /\ pc # "deleteFound"
  BY DEF UpdatePc, InTransaction
<1>2. /\ found' \in [TaskUpdates \cup Removals -> SUBSET Rows]
      /\ found'[u] = {}
      /\ \A q \in (TaskUpdates \cup Removals) \ {u} : found'[q] = found[q]
  BY UnderWayTypes
<1>3. \A v \in TaskUpdates \ {u}, s \in NewTasks : lock[s] = v => lock'[s] = v
  BY DEF Release
<1>4. /\ lock' \in [NewTasks -> Nullable(TaskUpdates)]
      /\ DOMAIN draft' = TaskUpdates
      /\ draft'[u] = NoDraft
      /\ \A v \in TaskUpdates \ {u} : draft'[v] = draft[v]
      /\ \A v \in TaskUpdates :
           /\ DOMAIN draft'[v] \subseteq Test
           /\ draft'[v] \in [DOMAIN draft'[v] -> Nullable(TestRow)]
  BY ReleaseTypes DEF TypeOK
<1> QED BY <1>1, <1>2, <1>3, <1>4, GotoTypes

\* The steps of an update keep the types.
LEMMA UpdateTypes ==
  ASSUME TypeOK, NEW u \in TaskUpdates, UpdateProgress(u) \/ RollBack(u)
  PROVE  StoreTypeOK' /\ CatalogTypeOK' /\ EditTypeOK'
<1> DEFINE t == updatedTask[u]
<1>1. CASE UpdateTaskRow(u)
  <2>1. updatePc[u] = "updateTask" /\ UNCHANGED <<existing, found, task, test, draft>>
    BY <1>1 DEF UpdateTaskRow
  <2>2. PICK pc \in {"deleteTests", "failed"} :
          /\ GotoUpdate(u, pc)
          /\ pc = "deleteTests" /\ columns[u] => lock' = [lock EXCEPT ![t] = u]
          /\ ~ (pc = "deleteTests" /\ columns[u]) => lock' = lock
    BY <1>1 DEF UpdateTaskRow
  <2>3. /\ t \in NewTasks /\ draft[u] = NoDraft /\ found[u] = {}
        /\ lock \in [NewTasks -> Nullable(TaskUpdates)]
    BY <2>1, UnderWayTypes DEF InTransaction
  <2>4. lock' \in [NewTasks -> Nullable(TaskUpdates)]
    BY <2>2, <2>3 DEF Nullable
  <2>5. pc \in InTransaction /\ columns[u] => lock'[updatedTask[u]] = u
    BY <2>2, <2>3 DEF InTransaction
  <2>6. \A v \in TaskUpdates \ {u}, s \in NewTasks :
          lock[s] = v => lock'[s] = v
    <3>1. columns[u] => Writers(t) \subseteq {u}
      BY <1>1 DEF UpdateTaskRow
    <3>2. columns[u] => \A v \in TaskUpdates \ {u} : lock[t] # v
      BY <2>3, <3>1 DEF Writers
    <3> QED BY <2>2, <2>3, <3>2
  <2>7. pc \in UpdatePc \ {"idle"} /\ pc # "deleteFound" /\ pc # "writeTests"
    BY <2>2 DEF UpdatePc, InTransaction
  <2>8. updatePc[u] # "idle"
    BY <2>1
  <2> QED
    BY <2>1, <2>2, <2>3, <2>4, <2>5, <2>6, <2>7, <2>8, UnderWayTypes, GotoTypes
<1>2. CASE BeginDelete(u)
  <2>1. /\ updatePc[u] = "deleteTests"
        /\ UNCHANGED <<task, test, lock, draft>>
    BY <1>2 DEF BeginDelete
  <2>2. /\ t \in NewTasks /\ existing \in [TaskUpdates -> SUBSET Test]
        /\ found \in [TaskUpdates \cup Removals -> SUBSET Rows]
        /\ columns[u] => lock[t] = u
    BY <2>1, UnderWayTypes DEF InTransaction
  <2>3. PICK gone \in SUBSET Test :
          /\ found' = [found EXCEPT ![u] = gone]
          /\ GotoUpdate(u, IF gone = {} THEN AfterDelete(u) ELSE "deleteFound")
    BY <1>2, TestsOfType DEF BeginDelete
  <2>4. existing' \in [TaskUpdates -> SUBSET Test]
    BY <1>2, <2>2 DEF BeginDelete
  <2>5. /\ found' \in [TaskUpdates \cup Removals -> SUBSET Rows]
        /\ found'[u] = gone
        /\ \A q \in (TaskUpdates \cup Removals) \ {u} : found'[q] = found[q]
    BY <2>2, <2>3, RowsAreRows
  <2>6. PICK pc \in InTransaction :
          /\ GotoUpdate(u, pc)
          /\ pc # "deleteFound" => gone = {}
          /\ pc = "writeTests" => sent[u] # Null
    BY <2>3 DEF AfterDelete, InTransaction
  <2>7. pc \in UpdatePc \ {"idle"}
    BY DEF UpdatePc, InTransaction
  <2>8. updatePc[u] # "idle"
    BY <2>1
  <2> QED BY <2>1, <2>2, <2>4, <2>5, <2>6, <2>7, <2>8, UnderWayTypes, GotoTypes
<1>3. ASSUME NEW i \in Test, DeleteTest(u, i)
      PROVE  StoreTypeOK' /\ CatalogTypeOK' /\ EditTypeOK'
  <2>1. /\ updatePc[u] \in InTransaction
        /\ UNCHANGED <<existing, task>>
        /\ Write(u, i, Null) \/ UNCHANGED <<test, lock, draft>>
        /\ found' = [found EXCEPT ![u] = @ \ {i}]
    BY <1>3 DEF DeleteTest, InTransaction
  <2>2. found \in [TaskUpdates \cup Removals -> SUBSET Rows]
    BY DEF TypeOK, StoreTypeOK
  <2>3. /\ found' \in [TaskUpdates \cup Removals -> SUBSET Rows]
        /\ found'[u] = found[u] \ {i}
        /\ \A q \in (TaskUpdates \cup Removals) \ {u} : found'[q] = found[q]
    BY <2>1, <2>2
  <2>4. PICK pc \in InTransaction :
          /\ GotoUpdate(u, pc)
          /\ pc # "deleteFound" => found[u] = {i}
          /\ pc = "writeTests" => sent[u] # Null
    BY <1>3 DEF DeleteTest, AfterDelete, InTransaction
  <2>5. Null \in Nullable(TestRow)
    BY DEF Nullable
  <2> QED BY <2>1, <2>3, <2>4, <2>5, GoesOnWriting
<1>4. ASSUME NEW i \in Test, NEW row \in Nullable(TestRow), NEW there,
             updatePc[u] = "writeTests", WriteOrFail(u, i, row, there)
      PROVE  StoreTypeOK' /\ CatalogTypeOK' /\ EditTypeOK'
  <2>1. /\ "writeTests" \in InTransaction /\ sent[u] # Null /\ found[u] = {}
        /\ UNCHANGED <<existing, found, task>>
        /\ found \in [TaskUpdates \cup Removals -> SUBSET Rows]
        /\ existing \in [TaskUpdates -> SUBSET Test]
    BY <1>4 DEF WriteOrFail, InTransaction, TypeOK, EditTypeOK, StoreTypeOK
  <2>2. CASE Write(u, i, row) /\ GotoUpdate(u, "writeTests")
    BY <1>4, <2>1, <2>2, GoesOnWriting
  <2>3. CASE Release(u) /\ GotoUpdate(u, "failed") /\ UNCHANGED test
    <3>1. /\ task' \in [NewTasks -> Nullable(TaskRow)]
          /\ test' \in [Test -> Nullable(TestRow)]
      BY <2>1, <2>3 DEF TypeOK, StoreTypeOK
    <3> QED BY <1>4, <2>1, <2>3, <3>1, EndsTypes
  <2> QED BY <1>4, <2>2, <2>3 DEF WriteOrFail
<1>5. ASSUME NEW i \in Test, UpdateTest(u, i)
      PROVE  StoreTypeOK' /\ CatalogTypeOK' /\ EditTypeOK'
  <2>1. CASE test[i] = Null
    <3>1. WriteOrFail(u, i, Null, FALSE)
      BY <1>5, <2>1 DEF UpdateTest, WriteOrFail
    <3> QED BY <1>4, <1>5, <3>1 DEF UpdateTest, Nullable
  <2>2. CASE test[i] # Null
    <3>1. [taskId |-> test[i].taskId, by |-> u] \in Nullable(TestRow)
      BY <2>2 DEF TypeOK, StoreTypeOK, TestRow, TaskWriter, Nullable
    <3> QED BY <1>4, <1>5, <3>1 DEF UpdateTest
  <2> QED BY <2>1, <2>2
<1>6. ASSUME NEW i \in Test, InsertTest(u, i)
      PROVE  StoreTypeOK' /\ CatalogTypeOK' /\ EditTypeOK'
  <2>1. [taskId |-> t, by |-> u] \in Nullable(TestRow)
    BY <1>6, UnderWayTypes DEF InsertTest, TestRow, TaskWriter, Nullable
  <2> QED BY <1>4, <1>6, <2>1 DEF InsertTest
<1>7. CASE Commit(u)
  <2>1. /\ updatePc[u] \in {"commit", "writeTests"}
        /\ Release(u) /\ UNCHANGED <<existing, found>>
    BY <1>7 DEF Commit
  <2>2. /\ existing' \in [TaskUpdates -> SUBSET Test]
        /\ found[u] = {} /\ t \in NewTasks /\ updatePc[u] # "idle"
    BY <2>1, UnderWayTypes
  <2>3. PICK pc \in {"done", "failed"} : GotoUpdate(u, pc)
    BY <1>7 DEF Commit
  <2>4. test' \in [Test -> Nullable(TestRow)]
    BY <1>7 DEF Commit, TypeOK, StoreTypeOK
  <2>5. task' \in [NewTasks -> Nullable(TaskRow)]
    <3>1. CASE task[t] # Null
      <4>0. task[t] \in TaskRow
        BY <2>2, <3>1 DEF TypeOK, StoreTypeOK, Nullable
      <4>1. [task[t] EXCEPT !.by = u] \in TaskRow
        BY <4>0 DEF TaskRow, TaskWriter
      <4>2. task' = [task EXCEPT ![t] = [task[t] EXCEPT !.by = u]]
        BY <1>7, <3>1 DEF Commit
      <4> QED BY <4>1, <4>2, <2>2 DEF TypeOK, StoreTypeOK, Nullable
    <3>2. CASE task[t] = Null
      BY <1>7, <3>2 DEF Commit, TypeOK, StoreTypeOK
    <3> QED BY <3>1, <3>2
  <2> QED BY <2>1, <2>2, <2>3, <2>4, <2>5, EndsTypes
<1>8. CASE RollBack(u)
  <2>1. /\ updatePc[u] # "idle"
        /\ GotoUpdate(u, "failed") /\ Release(u)
        /\ UNCHANGED <<task, test>>
        /\ found' = [found EXCEPT ![u] = {}]
    BY <1>8 DEF RollBack, InTransaction
  <2>2. /\ existing' \in [TaskUpdates -> SUBSET Test]
        /\ task' \in [NewTasks -> Nullable(TaskRow)]
        /\ test' \in [Test -> Nullable(TestRow)]
    BY <1>8, <2>1 DEF RollBack, TypeOK, EditTypeOK, StoreTypeOK
  <2> QED BY <2>1, <2>2, EndsTypes
<1> QED BY <1>1, <1>2, <1>3, <1>5, <1>6, <1>7, <1>8 DEF UpdateProgress

\* The steps of a removal outside its DELETEs keep the types.
LEMMA RemoveTypes ==
  ASSUME TypeOK, NEW r \in TaskRemovals,
         \/ \E t \in NewTasks : FindRemoved(r, t)
         \/ BeginRemoveTests(r)
         \/ RemoveTests(r)
  PROVE  StoreTypeOK' /\ CatalogTypeOK' /\ EditTypeOK'
<1>0. r \in Removals
  BY DEF Removals
<1>1. ASSUME NEW t \in NewTasks, FindRemoved(r, t)
      PROVE  StoreTypeOK' /\ CatalogTypeOK' /\ EditTypeOK'
  <2>1. /\ UNCHANGED <<storeVars, served, courseUpdatePc, updatedCourse, sent, updateVars>>
        /\ removedTask' = [removedTask EXCEPT ![r] = t]
        /\ removePc[r] = "idle"
    BY <1>1 DEF FindRemoved
  <2>2. PICK pc \in {"failed", "deleteTests"} : removePc' = [removePc EXCEPT ![r] = pc]
    BY <1>1 DEF FindRemoved
  <2>3. StoreTypeOK'
    BY <2>1 DEF TypeOK, StoreTypeOK, storeVars, openVars
  <2>4. CatalogTypeOK'
    <3>1. UNCHANGED <<found, taken>>
      BY <2>1 DEF storeVars, openVars
    <3>2. removePc' \in [Removals -> RemovePc]
      BY <2>2 DEF TypeOK, CatalogTypeOK, RemovalTypeOK, RemovePc
    <3>3. \A s \in Removals : removePc'[s] \notin {"takeTests", "takeRows"} =>
            removePc[s] \notin {"takeTests", "takeRows"}
      BY <2>1, <2>2 DEF TypeOK, CatalogTypeOK, RemovalTypeOK
    <3>4. RemovalTypeOK'
      BY <3>1, <3>2, <3>3 DEF TypeOK, CatalogTypeOK, RemovalTypeOK
    <3> QED BY <2>1, <3>4 DEF TypeOK, CatalogTypeOK
  <2>5. EditTypeOK'
    <3>1. /\ removedTask' \in [TaskRemovals -> Nullable(NewTasks)]
          /\ \A s \in TaskRemovals : removePc'[s] # "idle" => removedTask'[s] \in NewTasks
      BY <1>0, <2>1, <2>2 DEF TypeOK, EditTypeOK, CatalogTypeOK, RemovalTypeOK, Nullable
    <3> QED BY <2>1, <3>1 DEF TypeOK, EditTypeOK, updateVars, storeVars, openVars
  <2> QED BY <2>3, <2>4, <2>5
<1>2. CASE BeginRemoveTests(r)
  <2>1. /\ removePc[r] = "deleteTests"
        /\ removePc' = [removePc EXCEPT ![r] = "takeTests"]
        /\ found' = [found EXCEPT ![r] = TestsOf(removedTask[r])]
        /\ UNCHANGED <<served, courseUpdatePc, updatedCourse, editVars>>
        /\ UNCHANGED <<course, theme, task, test, build, solution, lock, draft, taken>>
    BY <1>2 DEF BeginRemoveTests
  <2>2. TestsOf(removedTask[r]) \in SUBSET Rows
    BY TestsOfType, RowsAreRows
  <2>3. /\ RemovalTypeOK' /\ StoreTypeOK'
        /\ \A u \in TaskUpdates : found'[u] = found[u]
        /\ \A s \in Removals \ {r} : removePc'[s] = removePc[s]
    BY <1>0, <2>1, <2>2, BeginMoves
  <2>4. EditTypeOK'
    BY <2>1, <2>3, EditTypesKept DEF TypeOK, Removals
  <2> QED BY <2>1, <2>3, <2>4 DEF TypeOK, CatalogTypeOK
<1>3. CASE RemoveTests(r)
  <2>1. /\ removePc[r] = "takeTests"
        /\ removePc' = [removePc EXCEPT ![r] = "takeRows"]
        /\ found' = [found EXCEPT ![r] = {removedTask[r]}]
        /\ taken' = [taken EXCEPT ![r] = {}]
        /\ UNCHANGED <<served, courseUpdatePc, updatedCourse, editVars>>
        /\ UNCHANGED <<course, theme, task, build, solution, lock, draft>>
    BY <1>3 DEF RemoveTests
  <2>2. {removedTask[r]} \in SUBSET Rows
    BY <2>1, RowsAreRows DEF TypeOK, EditTypeOK
  <2>3. "takeRows" \in RemovePc \ {"idle"}
    BY DEF RemovePc
  <2>4. /\ RemovalTypeOK'
        /\ found' \in [TaskUpdates \cup Removals -> SUBSET Rows]
        /\ taken' \in [Removals -> SUBSET Rows]
        /\ \A u \in TaskUpdates : found'[u] = found[u]
        /\ \A s \in Removals \ {r} : removePc'[s] = removePc[s]
    BY <1>0, <2>1, <2>2, <2>3, LetsGo
  <2>5. test' \in [Test -> Nullable(TestRow)]
    BY <1>3 DEF RemoveTests, TypeOK, StoreTypeOK, Nullable
  <2>6. StoreTypeOK'
    BY <2>1, <2>4, <2>5 DEF TypeOK, StoreTypeOK
  <2>7. EditTypeOK'
    BY <2>1, <2>4, EditTypesKept DEF TypeOK, Removals
  <2> QED BY <2>1, <2>4, <2>6, <2>7 DEF TypeOK, CatalogTypeOK
<1> QED BY <1>1, <1>2, <1>3

\* The steps of editing keep the types.
LEMMA EditTypes ==
  ASSUME TypeOK, EditStep, UNCHANGED executeVars
  PROVE  TypeOK'
<1>1. ASSUME NEW r \in NewTasks, NEW h \in NewThemes, NEW n \in 0..MaxNew[r],
             CreateTask(r, h, n)
      PROVE  StoreTypeOK' /\ CatalogTypeOK' /\ EditTypeOK'
  <2>1. NewTests(r, n) \subseteq Test
    BY NewTestsAreTests DEF TaskWriter
  <2>2. /\ sent' \in [TaskWriter -> Nullable(SUBSET Test)]
        /\ \A u \in TaskUpdates : sent'[u] = sent[u]
    BY <1>1, <2>1 DEF CreateTask, TypeOK, EditTypeOK, Nullable, TaskWriter
  <2>3. task' \in [NewTasks -> Nullable(TaskRow)]
    BY <1>1 DEF CreateTask, TypeOK, StoreTypeOK, TaskRow, TaskWriter, Nullable
  <2>4. test' \in [Test -> Nullable(TestRow)]
    BY <1>1 DEF CreateTask, TypeOK, StoreTypeOK, TestRow, TaskWriter, Nullable
  <2>5. UNCHANGED <<course, theme, build, solution, openVars>>
    BY <1>1 DEF CreateTask
  <2>6. StoreTypeOK'
    BY <2>3, <2>4, <2>5 DEF TypeOK, StoreTypeOK, openVars
  <2>7. CatalogTypeOK'
    BY <1>1, <2>5 DEF CreateTask, Serve, TypeOK, CatalogTypeOK, RemovalTypeOK, openVars
  <2>8. UNCHANGED <<columns, updatePc, updatedTask, existing, removePc, removedTask>>
    BY <1>1 DEF CreateTask, Serve, updateVars
  <2>9. EditTypeOK'
    BY <2>2, <2>5, <2>8 DEF TypeOK, EditTypeOK, openVars
  <2> QED BY <2>6, <2>7, <2>9
<1>2. ASSUME NEW u \in TaskUpdates, NEW t \in NewTasks, NEW cols \in BOOLEAN,
             NEW dto \in Dtos(u), FindExisting(u, t, dto, cols)
      PROVE  StoreTypeOK' /\ CatalogTypeOK' /\ EditTypeOK'
  <2>1. dto \in Nullable(SUBSET Test)
    <3>1. KnownTests \subseteq Test
      BY DEF KnownTests
    <3>2. \A n \in 0..MaxNew[u] : NewTests(u, n) \subseteq Test
      BY NewTestsAreTests DEF TaskWriter
    <3> QED BY <3>1, <3>2 DEF Dtos, Nullable
  <2>2. sent' \in [TaskWriter -> Nullable(SUBSET Test)]
    BY <1>2, <2>1 DEF FindExisting, TypeOK, EditTypeOK
  <2>3. /\ columns' \in [TaskUpdates -> BOOLEAN]
        /\ updatePc' \in [TaskUpdates -> UpdatePc]
        /\ updatedTask' \in [TaskUpdates -> Nullable(NewTasks)]
    BY <1>2 DEF FindExisting, TypeOK, EditTypeOK, Nullable, UpdatePc
  <2>4. existing' \in [TaskUpdates -> SUBSET Test]
    BY <1>2, TestsOfType DEF FindExisting, TypeOK, EditTypeOK
  <2>5. UNCHANGED <<removePc, removedTask, found, lock, draft, taken>>
    BY <1>2 DEF FindExisting, catalogVars, storeVars, openVars
  <2>6. ASSUME NEW v \in TaskUpdates
        PROVE  /\ updatePc'[v] # "idle" => updatedTask'[v] \in NewTasks
               /\ updatePc'[v] \in InTransaction /\ columns'[v]
                    => lock'[updatedTask'[v]] = v
               /\ updatePc'[v] \notin InTransaction => draft'[v] = NoDraft
               /\ updatePc'[v] # "deleteFound" => found'[v] = {}
               /\ updatePc'[v] = "writeTests" => sent'[v] # Null
    <3>1. CASE v = u
      BY <1>2, <2>5, <3>1 DEF FindExisting, TypeOK, EditTypeOK, InTransaction
    <3>2. CASE v # u
      BY <1>2, <2>5, <3>2 DEF FindExisting, TypeOK, EditTypeOK, TaskWriter
    <3> QED BY <3>1, <3>2
  <2>7. EditTypeOK'
    BY <2>2, <2>3, <2>4, <2>5, <2>6 DEF TypeOK, EditTypeOK
  <2>8. StoreTypeOK' /\ CatalogTypeOK'
    <3>1. UNCHANGED storeVars
      BY <1>2 DEF FindExisting
    <3>2. StoreTypeOK'
      BY <3>1 DEF TypeOK, StoreTypeOK, storeVars, openVars
    <3> QED BY <1>2, <2>5, <3>2, CatalogTypesKept DEF FindExisting, TypeOK
  <2> QED BY <2>7, <2>8
<1> QED
  BY <1>1, <1>2, UpdateTypes, RemoveTypes, ExecuteTypesKept
  DEF EditStep, TypeOK

\* The types hold initially.
LEMMA InitTypes == Init => TypeOK
<1> SUFFICES ASSUME Init PROVE TypeOK
  OBVIOUS
<1>1. DOMAIN NoDraft = {} /\ NoDraft \in [{} -> Nullable(TestRow)]
  BY DEF NoDraft
<1>2. StoreTypeOK
  BY <1>1, NoSolutionsType DEF Init, StoreInit, StoreTypeOK, Nullable
<1>3. CatalogTypeOK
  BY DEF Init, CatalogInit, RemovalInit, StoreInit, CatalogTypeOK, RemovalTypeOK,
         RemovePc, Nullable
<1>4. EditTypeOK
  <2>1. "idle" \notin InTransaction
    BY DEF InTransaction
  <2> QED
    BY <2>1 DEF Init, EditInit, StoreInit, CatalogInit, RemovalInit, EditTypeOK,
                Nullable, UpdatePc, Removals
<1>5. ExecuteTypeOK
  BY DEF Init, ExecuteInit, ExecuteTypeOK, Nullable
<1> QED BY <1>2, <1>3, <1>4, <1>5 DEF TypeOK

\* Every step keeps the types.
LEMMA StepTypes ==
  ASSUME TypeOK, [Next]_vars
  PROVE  TypeOK'
<1>1. CASE UNCHANGED vars
  <2>1. UNCHANGED <<storeVars, catalogVars, editVars, executeVars>>
    BY <1>1 DEF vars
  <2>2. StoreTypeOK'
    BY <2>1 DEF TypeOK, StoreTypeOK, storeVars, openVars
  <2>3. UNCHANGED <<lock, draft, found, taken, removePc>>
    BY <2>1 DEF storeVars, openVars, catalogVars
  <2> QED
    BY <2>1, <2>2, <2>3, CatalogTypesKept, EditTypesKept, ExecuteTypesKept DEF TypeOK
<1> QED BY <1>1, CatalogTypes, EditTypes, ExecuteTypes DEF Next

\* Tables hold rows, a transaction whose first statement has columns holds the lock
\* of its task until it ends, and a removal without a statement under way holds
\* nothing.
THEOREM TypeCorrect == Spec => []TypeOK
BY InitTypes, StepTypes, PTL DEF Spec
-----------------------------------------------------------------------------
(* Rows and what hangs on them.                                            *)

\* Tests and builds have their task.
ParentsExist ==
  /\ \A i \in Test : test[i] # Null => task[test[i].taskId] # Null
  /\ \A e \in Executions : build[e] # Null => task[build[e].taskId] # Null

\* What a transaction has written: new tests of its task, and tests that are there
\* and stay with their task.
DraftFits(u) ==
  \A i \in DOMAIN draft[u] :
    /\ i[1] = u => /\ test[i] = Null /\ draft[u][i] # Null
                   /\ draft[u][i].taskId = updatedTask[u]
    /\ i[1] # u => /\ test[i] # Null
                   /\ draft[u][i] # Null => draft[u][i].taskId = test[i].taskId

\* No test is written or about to be deleted by two requests.
LocksHeld ==
  /\ \A u, v \in TaskUpdates : u # v => DOMAIN draft[u] \cap DOMAIN draft[v] = {}
  /\ \A r, s \in Removals : r # s => taken[r] \cap taken[s] = {}
  /\ \A r \in Removals : \A u \in TaskUpdates : taken[r] \cap DOMAIN draft[u] = {}
  /\ \A r \in Removals : \A i \in taken[r] \cap Test : test[i] # Null

\* A request's new tests are not there before it is through.
NotYetWritten ==
  \A i \in Test :
    /\ i[1] \in TaskUpdates /\ updatePc[i[1]] # "done" => test[i] = Null
    /\ i[1] \in NewTasks /\ i[1] \notin served => test[i] = Null

\* The solutions of a build say what its run found, one that is missing aside;
\* before the build is created nothing has settled, and afterwards everything.
RunsMatch ==
  \A e \in Executions :
    /\ build[e] = Null => solution[e] = NoSolutions
    /\ build[e] # Null => \A i \in Test :
         /\ run[e][i] = "true" <=> solution[e][i] = TRUE
         /\ solution[e][i] # Null => run[e][i] \in Settled
    /\ executePc[e] \in {"idle", "createBuild"} =>
         /\ build[e] = Null
         /\ \A i \in Test : run[e][i] \in {Null, "posted"}
    /\ executePc[e] = "done" => \A i \in Test : run[e][i] \notin Pending

DraftInv == (\A u \in TaskUpdates : DraftFits(u)) /\ LocksHeld /\ NotYetWritten

TableInv == ParentsExist /\ DraftInv /\ RunsMatch

\* Without a DELETE of tasks, builds and solutions stay and so do tasks.
RowsStay ==
  /\ UNCHANGED <<build, solution>>
  /\ \A t \in NewTasks : task[t] # Null => task'[t] # Null

\* The end of a DELETE takes tasks together with what hangs on them.
Cascades == \E gone \in SUBSET NewTasks : DeleteTasks(gone)

\* A step after which tests are as before, and nobody has written or taken more.
Quiet ==
  /\ UNCHANGED <<task, test, build, solution>>
  /\ \A u \in TaskUpdates :
       /\ draft'[u] = NoDraft
            \/ (draft'[u] = draft[u] /\ updatedTask'[u] = updatedTask[u])
       /\ updatePc[u] = "done" => updatePc'[u] = "done"
  /\ \A r \in Removals : taken'[r] \subseteq taken[r]
  /\ served \subseteq served'

\* A step that writes no test and moves no transaction keeps the drafts right.
LEMMA QuietKeeps ==
  ASSUME TypeOK, DraftInv, Quiet
  PROVE  DraftInv'
<1>1. \A u \in TaskUpdates : DOMAIN draft'[u] \subseteq DOMAIN draft[u]
  BY DEF Quiet, NoDraft
<1>2. ASSUME NEW u \in TaskUpdates
      PROVE  DraftFits(u)'
  <2>1. CASE draft'[u] = NoDraft
    BY <2>1 DEF DraftFits, NoDraft
  <2>2. CASE draft'[u] = draft[u] /\ updatedTask'[u] = updatedTask[u]
    BY <2>2 DEF DraftInv, DraftFits, Quiet
  <2> QED BY <2>1, <2>2 DEF Quiet
<1>3. LocksHeld'
  BY <1>1 DEF DraftInv, LocksHeld, Quiet
<1>4. NotYetWritten'
  BY DEF DraftInv, NotYetWritten, Quiet
<1> QED BY <1>2, <1>3, <1>4 DEF DraftInv

\* What hangs on the rows that a DELETE has taken is taken when it ends.
LEMMA Closed ==
  ASSUME NEW r \in Removals, ToTake(r) = {}
  PROVE  /\ \A c \in taken[r] \cap NewCourses : ThemesOf(c) \subseteq taken[r]
         /\ \A h \in taken[r] \cap NewThemes : TasksOf(h) \subseteq taken[r]
         /\ \A t \in taken[r] \cap NewTasks : TestsOf(t) \subseteq taken[r]
<1>1. HangingOn(taken[r]) \subseteq taken[r]
  BY DEF ToTake
<1> QED BY <1>1 DEF HangingOn

\* A removal takes a row that nobody else holds.
LEMMA TakeRowKeeps ==
  ASSUME TypeOK, DraftInv, NEW r \in Removals, NEW x \in Rows, TakeRow(r, x),
         UNCHANGED <<updatePc, updatedTask, served>>
  PROVE  DraftInv'
<1>1. /\ taken'[r] = taken[r] \cup ({x} \cap Present)
      /\ \A s \in Removals \ {r} : taken'[s] = taken[s]
      /\ UNCHANGED <<test, draft>>
  BY TakeRowMoves DEF TakeRow
<1>2. /\ \A s \in Removals \ {r} : x \notin taken[s]
      /\ \A u \in TaskUpdates : x \notin DOMAIN draft[u]
  <2>1. Holders(x) \subseteq {r}
    BY DEF TakeRow
  <2>2. \A s \in Removals : x \in taken[s] => s \in {r}
    BY <2>1 DEF Holders, Writers, Deleters
  <2>3. \A u \in TaskUpdates : x \in DOMAIN draft[u] => u \in {r}
    BY <2>1 DEF Holders, Writers
  <2> QED BY <2>2, <2>3
<1>3. x \in Present \cap Test => test[x] # Null
  BY DEF Present
<1>4. LocksHeld'
  <2>1. \A s, q \in Removals : s # q => taken'[s] \cap taken'[q] = {}
    BY <1>1, <1>2 DEF DraftInv, LocksHeld
  <2>2. \A s \in Removals : \A u \in TaskUpdates : taken'[s] \cap DOMAIN draft'[u] = {}
    BY <1>1, <1>2 DEF DraftInv, LocksHeld
  <2>3. \A s \in Removals : \A i \in taken'[s] \cap Test : test'[i] # Null
    BY <1>1, <1>3 DEF DraftInv, LocksHeld
  <2> QED BY <1>1, <2>1, <2>2, <2>3 DEF DraftInv, LocksHeld
<1>5. \A u \in TaskUpdates : DraftFits(u)'
  BY <1>1 DEF DraftInv, DraftFits
<1>6. NotYetWritten'
  BY <1>1 DEF DraftInv, NotYetWritten
<1> QED BY <1>4, <1>5, <1>6 DEF DraftInv

\* Tests go that only the removal holds.
LEMMA GoneKeeps ==
  ASSUME TypeOK, DraftInv, NEW r \in Removals,
         \A i \in Test : test'[i] = test[i] \/ (test'[i] = Null /\ i \in taken[r]),
         taken'[r] = {},
         \A s \in Removals \ {r} : taken'[s] = taken[s],
         UNCHANGED <<draft, updatePc, updatedTask, served>>
  PROVE  DraftInv'
<1>1. \A u \in TaskUpdates : \A i \in DOMAIN draft[u] : test'[i] = test[i]
  BY DEF DraftInv, LocksHeld, TypeOK, StoreTypeOK
<1>2. \A u \in TaskUpdates : DraftFits(u)'
  BY <1>1 DEF DraftInv, DraftFits
<1>3. LocksHeld'
  BY DEF DraftInv, LocksHeld
<1>4. NotYetWritten'
  BY DEF DraftInv, NotYetWritten
<1> QED BY <1>2, <1>3, <1>4 DEF DraftInv

\* The end of a DELETE takes tests that it has locked, and no others.
LEMMA EndDeleteTakesTests ==
  ASSUME TypeOK, NEW r \in Removals, EndDelete(r)
  PROVE  \A i \in Test : test'[i] = test[i] \/ (test'[i] = Null /\ i \in taken[r])
<1>1. test' = [i \in Test |-> IF test[i] # Null /\ test[i].taskId \in taken[r] \cap NewTasks
                                THEN Null ELSE test[i]]
  BY DEF EndDelete, DeleteTasks
<1>2. ASSUME NEW i \in Test, test[i] # Null, test[i].taskId \in taken[r] \cap NewTasks
      PROVE  i \in taken[r]
  BY <1>2, Closed DEF EndDelete, TestsOf
<1> QED BY <1>1, <1>2

\* The end of a DELETE takes tasks together with all that hangs on them.
LEMMA EndDeleteCascades ==
  ASSUME NEW r \in Removals, EndDelete(r)
  PROVE  Cascades
BY DEF EndDelete, Cascades

\* A DELETE that ends leaves no test and no build without its task.
LEMMA CascadeKeeps ==
  ASSUME TypeOK, ParentsExist, RunsMatch, Cascades, UNCHANGED executeVars
  PROVE  ParentsExist' /\ RunsMatch'
<1>1. PICK gone \in SUBSET NewTasks : DeleteTasks(gone)
  BY DEF Cascades
<1>2. ParentsExist'
  BY <1>1 DEF ParentsExist, DeleteTasks, DeleteBuilds, BuildsOf, TypeOK,
              StoreTypeOK, TestRow, BuildRow, Nullable
<1>3. UNCHANGED <<executePc, run>>
  BY DEF executeVars
<1>4. \A e \in Executions :
        \/ build'[e] = build[e] /\ solution'[e] = solution[e]
        \/ build'[e] = Null /\ solution'[e] = NoSolutions
  BY <1>1 DEF DeleteTasks, DeleteBuilds, TypeOK, StoreTypeOK
<1>5. RunsMatch'
  BY <1>3, <1>4 DEF RunsMatch
<1> QED BY <1>2, <1>5

\* Of the steps of courses, themes and DELETEs under way only the end of a DELETE
\* changes tasks and what hangs on them.
LEMMA CatalogKinds ==
  ASSUME TypeOK, CatalogStep, UNCHANGED <<editVars, executeVars>>
  PROVE  \/ \E r \in Removals : EndDelete(r) /\ UNCHANGED served
         \/ \E r \in Removals, x \in Rows : TakeRow(r, x) /\ UNCHANGED served
         \/ Quiet
<1>0. UNCHANGED <<updatedTask, updatePc>>
  BY DEF editVars, updateVars
<1>1. ASSUME UNCHANGED <<task, test, build, solution, draft, taken>>, served \subseteq served'
      PROVE  Quiet
  BY <1>0, <1>1 DEF Quiet
<1>2. ASSUME NEW r \in Removals, DeleteStep(r)
      PROVE  \/ EndDelete(r) /\ UNCHANGED served
             \/ \E x \in Rows : TakeRow(r, x) /\ UNCHANGED served
  BY <1>2 DEF DeleteStep
<1>3. ASSUME NEW r \in Removals, RemoveCutOff(r), UNCHANGED served
      PROVE  Quiet
  <2>1. \A s \in Removals : taken'[s] \subseteq taken[s]
    BY <1>3, CutOffMoves
  <2> QED BY <1>0, <1>3, <2>1 DEF RemoveCutOff, Quiet
<1>4. ASSUME NEW r \in NewCourses, CreateCourse(r)
      PROVE  Quiet
  BY <1>1, <1>4 DEF CreateCourse, Serve, openVars
<1>5. ASSUME NEW r \in NewThemes, NEW c \in NewCourses, CreateTheme(r, c)
      PROVE  Quiet
  BY <1>1, <1>5 DEF CreateTheme, Serve, openVars
<1>6. ASSUME NEW r \in ThemeUpdates, NEW h \in NewThemes, UpdateTheme(r, h)
      PROVE  Quiet
  BY <1>1, <1>6 DEF UpdateTheme, Serve, openVars
<1>7. ASSUME NEW r, NEW x, Remove(r, x)
      PROVE  Quiet
  BY <1>1, <1>7 DEF Remove, Delete
<1>8. ASSUME NEW r \in CourseUpdates, UpdateCourse(r) \/ \E c \in NewCourses : FindCourse(r, c)
      PROVE  Quiet
  BY <1>1, <1>8 DEF FindCourse, UpdateCourse, storeVars, openVars
<1> QED
  BY <1>2, <1>3, <1>4, <1>5, <1>6, <1>7, <1>8
  DEF CatalogStep, RemoveTheme, RemoveCourse

\* Requests for courses and themes, and DELETEs under way, keep the tables right.
LEMMA CatalogKeeps ==
  ASSUME TypeOK, TableInv, CatalogStep, UNCHANGED <<editVars, executeVars>>
  PROVE  TableInv'
<1>0. UNCHANGED <<updatedTask, updatePc>>
  BY DEF editVars, updateVars
<1>1. ASSUME NEW r \in Removals, EndDelete(r), UNCHANGED served
      PROVE  TableInv'
  <2>1. DraftInv'
    <3>1. UNCHANGED draft /\ taken'[r] = {}
          /\ \A s \in Removals \ {r} : taken'[s] = taken[s]
      BY <1>1, EndDeleteMoves
    <3> QED BY <1>0, <1>1, <3>1, EndDeleteTakesTests, GoneKeeps DEF TableInv
  <2>2. ParentsExist' /\ RunsMatch'
    BY <1>1, EndDeleteCascades, CascadeKeeps DEF TableInv
  <2> QED BY <2>1, <2>2 DEF TableInv
<1>2. ASSUME NEW r \in Removals, NEW x \in Rows, TakeRow(r, x), UNCHANGED served
      PROVE  TableInv'
  <2>1. DraftInv'
    BY <1>0, <1>2, TakeRowKeeps DEF TableInv
  <2>2. UNCHANGED <<task, test, build, solution, executePc, run>>
    BY <1>2 DEF TakeRow, executeVars
  <2> QED BY <2>1, <2>2 DEF TableInv, ParentsExist, RunsMatch
<1>3. ASSUME Quiet
      PROVE  TableInv'
  <2>1. UNCHANGED <<task, test, build, solution, executePc, run>>
    BY <1>3 DEF Quiet, executeVars
  <2> QED BY <1>3, <2>1, QuietKeeps DEF TableInv, ParentsExist, RunsMatch
<1> QED BY <1>1, <1>2, <1>3, CatalogKinds

\* Of an editing step: tasks, builds and solutions stay.
LEMMA EditKinds ==
  ASSUME TypeOK, EditStep
  PROVE  RowsStay
<1>1. ASSUME NEW r \in NewTasks, NEW h \in NewThemes, NEW n \in 0..MaxNew[r],
             CreateTask(r, h, n)
      PROVE  RowsStay
  <2>1. [themeId |-> h, by |-> r] \in TaskRow
    BY DEF TaskRow, TaskWriter
  <2> QED BY <1>1, <2>1 DEF CreateTask, RowsStay, TypeOK, StoreTypeOK
<1>2. ASSUME NEW u \in TaskUpdates, NEW t, NEW cols, NEW dto, FindExisting(u, t, dto, cols)
      PROVE  RowsStay
  BY <1>2 DEF FindExisting, RowsStay, storeVars
<1>3. ASSUME NEW u \in TaskUpdates, UpdateProgress(u) \/ RollBack(u)
      PROVE  RowsStay
  <2>1. UNCHANGED <<build, solution>>
    BY <1>3 DEF UpdateProgress, UpdateTaskRow, BeginDelete, DeleteTest, UpdateTest,
                InsertTest, WriteOrFail, Commit, RollBack, GotoUpdate
  <2>2. ~ Commit(u) => UNCHANGED task
    BY <1>3 DEF UpdateProgress, UpdateTaskRow, BeginDelete, DeleteTest, UpdateTest,
                InsertTest, WriteOrFail, RollBack
  <2>3. ASSUME Commit(u), NEW t \in NewTasks, task[t] # Null
        PROVE  task'[t] # Null
    <3>1. updatePc[u] # "idle"
      BY <2>3 DEF Commit
    <3>2. updatedTask[u] \in NewTasks /\ task \in [NewTasks -> Nullable(TaskRow)]
      BY <3>1, UnderWayTypes
    <3>3. CASE task[updatedTask[u]] = Null
      BY <2>3, <3>3 DEF Commit
    <3>4. CASE task[updatedTask[u]] # Null
      <4>1. task' = [task EXCEPT ![updatedTask[u]] =
                       [task[updatedTask[u]] EXCEPT !.by = u]]
        BY <2>3, <3>4 DEF Commit
      <4>2. task[updatedTask[u]] \in TaskRow
        BY <3>2, <3>4 DEF Nullable
      <4>3. [task[updatedTask[u]] EXCEPT !.by = u] \in TaskRow
        BY <4>2 DEF TaskRow, TaskWriter
      <4> QED BY <2>3, <3>2, <4>1, <4>3
    <3> QED BY <3>3, <3>4
  <2> QED BY <2>1, <2>2, <2>3 DEF RowsStay
<1>4. ASSUME NEW r \in TaskRemovals,
             (\E t \in NewTasks : FindRemoved(r, t)) \/ BeginRemoveTests(r) \/ RemoveTests(r)
      PROVE  RowsStay
  BY <1>4 DEF FindRemoved, BeginRemoveTests, RemoveTests, RowsStay, storeVars
<1> QED BY <1>1, <1>2, <1>3, <1>4 DEF EditStep

\* Where a step of a transaction leads, the others aside.
LEMMA GotoMoves ==
  ASSUME TypeOK, NEW u \in TaskUpdates, NEW pc, GotoUpdate(u, pc)
  PROVE  /\ UNCHANGED <<updatedTask, sent, columns, served, removePc, taken>>
         /\ updatePc'[u] = pc
         /\ \A v \in TaskUpdates \ {u} : updatePc'[v] = updatePc[v]
BY DEF GotoUpdate, catalogVars, TypeOK, EditTypeOK

\* A transaction ends without writing, or has come to its end before.
LEMMA ReleaseKeeps ==
  ASSUME TypeOK, DraftInv, NEW u \in TaskUpdates, updatePc[u] # "done",
         Release(u) \/ UNCHANGED draft, NEW pc, GotoUpdate(u, pc),
         UNCHANGED <<task, test>>
  PROVE  DraftInv'
<1>1. UNCHANGED <<updatedTask, served, taken, build, solution>>
  BY GotoMoves DEF GotoUpdate
<1>2. \A v \in TaskUpdates : draft'[v] = NoDraft \/ draft'[v] = draft[v]
  BY ReleaseTypes DEF TypeOK
<1>3. \A v \in TaskUpdates : updatePc[v] = "done" => updatePc'[v] = "done"
  BY GotoMoves
<1>4. Quiet
  BY <1>1, <1>2, <1>3 DEF Quiet
<1> QED BY <1>4, QuietKeeps

\* A transaction writes a test that nobody else has written or takes, or a new one of
\* its own.
LEMMA WriteKeeps ==
  ASSUME TypeOK, DraftInv, NEW u \in TaskUpdates, NEW i \in Test,
         NEW row \in Nullable(TestRow), Write(u, i, row),
         updatePc[u] \in InTransaction, NEW pc \in InTransaction, GotoUpdate(u, pc),
         i[1] = u => row # Null /\ row.taskId = updatedTask[u],
         i[1] # u => /\ test[i] # Null /\ Writers(i) \subseteq {u}
                     /\ row # Null => row.taskId = test[i].taskId
  PROVE  DraftInv'
<1>1. /\ DOMAIN draft'[u] = {i} \cup DOMAIN draft[u]
      /\ \A j \in DOMAIN draft'[u] : draft'[u][j] = IF j = i THEN row ELSE draft[u][j]
      /\ \A v \in TaskUpdates \ {u} : draft'[v] = draft[v]
  BY WriteTypes DEF TypeOK
<1>2. /\ UNCHANGED <<test, updatedTask, served, taken>>
      /\ \A v \in TaskUpdates : updatePc'[v] # "done" => updatePc[v] # "done"
      /\ updatePc[u] # "done"
  BY GotoMoves DEF Write, InTransaction
<1>3. i[1] = u => test[i] = Null
  BY <1>2 DEF DraftInv, NotYetWritten
<1>4. \A v \in TaskUpdates \ {u} : i \notin DOMAIN draft[v]
  <2>1. ASSUME NEW v \in TaskUpdates \ {u}, i \in DOMAIN draft[v], i[1] # u
        PROVE  FALSE
    BY <2>1 DEF Writers
  <2>2. ASSUME NEW v \in TaskUpdates \ {u}, i \in DOMAIN draft[v], i[1] = u
        PROVE  FALSE
    BY <1>3, <2>2 DEF DraftInv, DraftFits
  <2> QED BY <2>1, <2>2
<1>5. \A r \in Removals : i \notin taken[r]
  <2>1. i[1] = u => \A r \in Removals : i \notin taken[r]
    BY <1>3 DEF DraftInv, LocksHeld
  <2>2. ASSUME i[1] # u, NEW r \in Removals, i \in taken[r]
        PROVE  FALSE
    <3>1. r \in {u}
      BY <2>2 DEF Writers, Deleters
    <3> QED BY <3>1
  <2> QED BY <2>1, <2>2
<1>6. DraftFits(u)'
  BY <1>1, <1>2, <1>3 DEF DraftInv, DraftFits
<1>7. \A v \in TaskUpdates \ {u} : DraftFits(v)'
  BY <1>1, <1>2 DEF DraftInv, DraftFits
<1>8. LocksHeld'
  <2>1. \A v, w \in TaskUpdates : v # w => DOMAIN draft'[v] \cap DOMAIN draft'[w] = {}
    <3>1. ASSUME NEW v \in TaskUpdates \ {u}
          PROVE  DOMAIN draft'[v] \cap DOMAIN draft'[u] = {}
      BY <1>1, <1>4, <3>1 DEF DraftInv, LocksHeld
    <3> QED BY <1>1, <3>1 DEF DraftInv, LocksHeld
  <2>2. \A r \in Removals : \A v \in TaskUpdates : taken'[r] \cap DOMAIN draft'[v] = {}
    BY <1>1, <1>2, <1>5 DEF DraftInv, LocksHeld
  <2> QED BY <1>2, <2>1, <2>2 DEF DraftInv, LocksHeld
<1>9. NotYetWritten'
  BY <1>2 DEF DraftInv, NotYetWritten
<1> QED BY <1>6, <1>7, <1>8, <1>9 DEF DraftInv

\* A new task with its tests keeps the tables right.
LEMMA CreateTaskKeeps ==
  ASSUME TypeOK, TableInv, NEW r \in NewTasks, NEW h \in NewThemes,
         NEW n \in 0..MaxNew[r], CreateTask(r, h, n), UNCHANGED executeVars
  PROVE  TableInv'
<1>1. /\ UNCHANGED <<build, solution, draft, taken, updatedTask, updatePc>>
      /\ r \notin served /\ served' = served \cup {r}
  BY DEF CreateTask, Serve, openVars, updateVars
<1>2. \A i \in Test : i[1] = r => test[i] = Null
  BY <1>1 DEF TableInv, DraftInv, NotYetWritten
<1>3. \A i \in NewTests(r, n) : i[1] = r
  BY DEF NewTests
<1>4. \A i \in Test : \/ test'[i] = test[i]
                      \/ /\ i[1] = r /\ test[i] = Null /\ test'[i] # Null
                         /\ test'[i].taskId = r /\ task'[r] # Null
  <2>1. CASE theme[h] = Null
    BY <2>1 DEF CreateTask
  <2>2. CASE theme[h] # Null
    <3>1. [taskId |-> r, by |-> r] \in TestRow /\ [themeId |-> h, by |-> r] \in TaskRow
      BY DEF TestRow, TaskRow, TaskWriter
    <3> QED BY <1>2, <1>3, <2>2, <3>1 DEF CreateTask, TypeOK, StoreTypeOK
  <2> QED BY <2>1, <2>2
<1>5. ParentsExist'
  <2>1. RowsStay
    BY EditKinds DEF EditStep
  <2> QED BY <1>1, <1>4, <2>1 DEF TableInv, ParentsExist, RowsStay, TypeOK, StoreTypeOK,
                                 TestRow, BuildRow, Nullable
<1>6. r \notin TaskUpdates
  OBVIOUS
<1>7. DraftInv'
  <2>1. ASSUME NEW u \in TaskUpdates, NEW i \in DOMAIN draft[u]
        PROVE  test'[i] = test[i]
    <3>1. i \in Test
      BY DEF TypeOK, StoreTypeOK
    <3>2. i[1] = u \/ test[i] # Null
      BY DEF TableInv, DraftInv, DraftFits
    <3> QED BY <1>4, <1>6, <3>1, <3>2
  <2>2. \A u \in TaskUpdates : DraftFits(u)'
    BY <1>1, <2>1 DEF TableInv, DraftInv, DraftFits
  <2>3. LocksHeld'
    BY <1>1, <1>4 DEF TableInv, DraftInv, LocksHeld
  <2>4. NotYetWritten'
    BY <1>1, <1>4, <1>6 DEF TableInv, DraftInv, NotYetWritten
  <2> QED BY <2>2, <2>3, <2>4 DEF DraftInv
<1>8. RunsMatch'
  BY <1>1 DEF TableInv, RunsMatch, executeVars
<1> QED BY <1>5, <1>7, <1>8 DEF TableInv

\* What a transaction has written is there once it has committed.
LEMMA CommitMoves ==
  ASSUME TypeOK, NEW u \in TaskUpdates, Commit(u), task[updatedTask[u]] # Null
  PROVE  /\ updatedTask[u] \in NewTasks /\ updatePc[u] \in InTransaction
         /\ \A i \in Test :
              test'[i] = IF i \in DOMAIN draft[u] THEN draft[u][i] ELSE test[i]
         /\ updatePc'[u] = "done" /\ draft'[u] = NoDraft
         /\ \A v \in TaskUpdates \ {u} :
              draft'[v] = draft[v] /\ updatePc'[v] = updatePc[v]
         /\ UNCHANGED <<updatedTask, served, taken, build, solution, course, theme>>
<1>1. updatePc[u] \in {"commit", "writeTests"}
  BY DEF Commit
<1>2. updatedTask[u] \in NewTasks /\ updatePc[u] \in InTransaction
  BY <1>1, UnderWayTypes DEF InTransaction
<1>3. GotoUpdate(u, "done") /\ Release(u)
  BY DEF Commit
<1>4. \A i \in Test :
        test'[i] = IF i \in DOMAIN draft[u] THEN draft[u][i] ELSE test[i]
  BY DEF Commit
<1>5. /\ updatePc'[u] = "done" /\ UNCHANGED <<updatedTask, served, taken>>
      /\ \A v \in TaskUpdates \ {u} : updatePc'[v] = updatePc[v]
  BY <1>3, GotoMoves
<1>6. draft'[u] = NoDraft /\ \A v \in TaskUpdates \ {u} : draft'[v] = draft[v]
  BY <1>3, ReleaseTypes DEF TypeOK
<1> QED BY <1>2, <1>3, <1>4, <1>5, <1>6 DEF GotoUpdate

\* A transaction that commits leaves no test without its task, for the row of the
\* task is there and every test it writes stays with its own.
LEMMA CommitKeeps ==
  ASSUME TypeOK, TableInv, NEW u \in TaskUpdates, Commit(u),
         task[updatedTask[u]] # Null, UNCHANGED executeVars
  PROVE  TableInv'
<1> DEFINE t == updatedTask[u]
<1>1. /\ t \in NewTasks /\ updatePc[u] # "done"
      /\ \A i \in Test :
           test'[i] = IF i \in DOMAIN draft[u] THEN draft[u][i] ELSE test[i]
      /\ updatePc'[u] = "done" /\ draft'[u] = NoDraft
      /\ \A v \in TaskUpdates \ {u} :
           draft'[v] = draft[v] /\ updatePc'[v] = updatePc[v]
      /\ UNCHANGED <<updatedTask, served, taken, build, solution>>
  BY CommitMoves DEF InTransaction
<1>2. RowsStay
  <2>1. EditStep
    BY DEF EditStep, UpdateProgress
  <2> QED BY <2>1, EditKinds
<1>3. ASSUME NEW i \in Test
      PROVE  \/ test'[i] = test[i]
             \/ /\ i \in DOMAIN draft[u] /\ test'[i] = Null
             \/ /\ i \in DOMAIN draft[u] /\ test'[i] # Null
                /\ test'[i].taskId = t /\ i[1] = u
             \/ /\ i \in DOMAIN draft[u] /\ test[i] # Null /\ test'[i] # Null
                /\ test'[i].taskId = test[i].taskId /\ i[1] # u
  BY <1>1 DEF TableInv, DraftInv, DraftFits
<1>4. ParentsExist'
  <2>1. ASSUME NEW i \in Test, test'[i] # Null
        PROVE  task'[test'[i].taskId] # Null
    <3>1. task'[t] # Null
      BY <1>1, <1>2 DEF RowsStay
    <3>2. ASSUME test[i] # Null
          PROVE  task'[test[i].taskId] # Null
      BY <1>2, <3>2 DEF RowsStay, TableInv, ParentsExist, TypeOK, StoreTypeOK, TestRow,
                        Nullable
    <3> QED BY <1>3, <2>1, <3>1, <3>2
  <2> QED BY <1>1, <1>2, <2>1 DEF TableInv, ParentsExist, RowsStay, TypeOK, StoreTypeOK,
                                 BuildRow, Nullable
<1>5. DraftInv'
  <2>1. ASSUME NEW v \in TaskUpdates \ {u}
        PROVE  DraftFits(v)'
    <3>1. \A i \in DOMAIN draft[v] : i \in Test /\ i \notin DOMAIN draft[u]
      BY DEF TableInv, DraftInv, LocksHeld, TypeOK, StoreTypeOK
    <3>2. \A i \in DOMAIN draft[v] : test'[i] = test[i]
      BY <1>1, <3>1
    <3> QED BY <1>1, <3>2 DEF TableInv, DraftInv, DraftFits
  <2>2. DraftFits(u)'
    BY <1>1 DEF DraftFits, NoDraft
  <2>3. LocksHeld'
    <3>1. \A v \in TaskUpdates : DOMAIN draft'[v] \subseteq DOMAIN draft[v]
      BY <1>1 DEF NoDraft
    <3>2. ASSUME NEW r \in Removals, NEW i \in taken[r] \cap Test
          PROVE  test'[i] # Null
      <4>1. i \notin DOMAIN draft[u] /\ test[i] # Null
        BY DEF TableInv, DraftInv, LocksHeld
      <4> QED BY <1>1, <4>1
    <3> QED BY <1>1, <3>1, <3>2 DEF TableInv, DraftInv, LocksHeld
  <2>4. NotYetWritten'
    <3>1. ASSUME NEW i \in Test, test[i] = Null, test'[i] # Null
          PROVE  i[1] = u
      BY <1>3, <3>1
    <3>2. u \notin NewTasks
      OBVIOUS
    <3> QED BY <1>1, <3>1, <3>2 DEF TableInv, DraftInv, NotYetWritten
  <2> QED BY <2>1, <2>2, <2>3, <2>4 DEF DraftInv
<1>6. RunsMatch'
  BY <1>1 DEF TableInv, RunsMatch, executeVars
<1> QED BY <1>4, <1>5, <1>6 DEF TableInv

\* A step that brings no test leaves none without its task.
LEMMA ParentsStay ==
  ASSUME TypeOK, TableInv, RowsStay, UNCHANGED executeVars, DraftInv',
         \A i \in Test : test'[i] = test[i] \/ test'[i] = Null
  PROVE  TableInv'
<1>1. ParentsExist'
  BY DEF TableInv, ParentsExist, RowsStay, TypeOK, StoreTypeOK, TestRow, BuildRow,
         Nullable
<1>2. RunsMatch'
  BY DEF TableInv, RunsMatch, RowsStay, executeVars
<1> QED BY <1>1, <1>2 DEF TableInv

\* The statements of an update keep the tables right.
LEMMA UpdateKeeps ==
  ASSUME TypeOK, TableInv, NEW u \in TaskUpdates, UpdateProgress(u) \/ RollBack(u),
         UNCHANGED executeVars
  PROVE  TableInv'
<1>0. DraftInv
  BY DEF TableInv
<1>1. ASSUME DraftInv', UNCHANGED test
      PROVE  TableInv'
  <2>1. RowsStay
    <3>1. EditStep
      BY DEF EditStep
    <3> QED BY <3>1, EditKinds
  <2> QED BY <1>1, <2>1, ParentsStay
<1>2. ASSUME UpdateTaskRow(u) \/ BeginDelete(u) \/ RollBack(u)
      PROVE  TableInv'
  <2>1. /\ UNCHANGED <<task, test>> /\ updatePc[u] # "done"
        /\ Release(u) \/ UNCHANGED draft
        /\ \E pc : GotoUpdate(u, pc)
    BY <1>2 DEF UpdateTaskRow, BeginDelete, RollBack, InTransaction
  <2> QED BY <1>0, <1>1, <2>1, ReleaseKeeps
<1>3. ASSUME NEW i \in Test, DeleteTest(u, i)
      PROVE  TableInv'
  <2>1. /\ UNCHANGED task /\ updatePc[u] \in InTransaction /\ updatePc[u] # "done"
        /\ \E pc \in InTransaction : GotoUpdate(u, pc)
        /\ Writers(i) \subseteq {u}
    BY <1>3 DEF DeleteTest, AfterDelete, InTransaction
  <2>2. CASE test[i] = Null
    <3>1. UNCHANGED <<test, draft>>
      BY <1>3, <2>2 DEF DeleteTest
    <3> QED BY <1>0, <1>1, <2>1, <3>1, ReleaseKeeps
  <2>3. CASE test[i] # Null
    <3>1. Write(u, i, Null)
      BY <1>3, <2>3 DEF DeleteTest
    <3>2. i[1] # u
      BY <1>0, <2>1, <2>3 DEF DraftInv, NotYetWritten
    <3>3. Null \in Nullable(TestRow)
      BY DEF Nullable
    <3>4. DraftInv'
      BY <1>0, <2>1, <2>3, <3>1, <3>2, <3>3, WriteKeeps
    <3> QED BY <1>1, <3>1, <3>4 DEF Write
  <2> QED BY <2>2, <2>3
<1>4. ASSUME NEW i \in Test, NEW row, NEW there, updatePc[u] = "writeTests",
             WriteOrFail(u, i, row, there),
             there => row \in Nullable(TestRow),
             there /\ i[1] = u => row # Null /\ row.taskId = updatedTask[u],
             there /\ i[1] # u => /\ test[i] # Null /\ Writers(i) \subseteq {u}
                                  /\ row # Null => row.taskId = test[i].taskId
      PROVE  TableInv'
  <2>1. updatePc[u] \in InTransaction /\ updatePc[u] # "done"
    BY <1>4 DEF InTransaction
  <2>2. CASE there
    <3>1. Write(u, i, row) /\ GotoUpdate(u, "writeTests")
      BY <1>4, <2>2 DEF WriteOrFail
    <3>2. "writeTests" \in InTransaction
      BY DEF InTransaction
    <3>3. DraftInv'
      BY <1>0, <1>4, <2>1, <2>2, <3>1, <3>2, WriteKeeps
    <3> QED BY <1>1, <3>1, <3>3 DEF Write
  <2>3. CASE ~ there
    <3>1. Release(u) /\ GotoUpdate(u, "failed") /\ UNCHANGED <<task, test>>
      BY <1>4, <2>3 DEF WriteOrFail
    <3> QED BY <1>0, <1>1, <2>1, <3>1, ReleaseKeeps
  <2> QED BY <2>2, <2>3
<1>5. ASSUME NEW i \in Test, UpdateTest(u, i)
      PROVE  TableInv'
  <2> DEFINE row == [taskId |-> test[i].taskId, by |-> u]
  <2>1. /\ updatePc[u] = "writeTests" /\ i[1] # u /\ Writers(i) \subseteq {u}
        /\ WriteOrFail(u, i, row, test[i] # Null)
    BY <1>5 DEF UpdateTest
  <2>2. test[i] # Null => row \in Nullable(TestRow)
    BY DEF TypeOK, StoreTypeOK, TestRow, TaskWriter, Nullable
  <2>3. row.taskId = test[i].taskId
    OBVIOUS
  <2> HIDE DEF row
  <2> QED BY <1>4, <2>1, <2>2, <2>3
<1>6. ASSUME NEW i \in Test, InsertTest(u, i)
      PROVE  TableInv'
  <2> DEFINE row == [taskId |-> updatedTask[u], by |-> u]
  <2>1. /\ updatePc[u] = "writeTests" /\ i[1] = u
        /\ WriteOrFail(u, i, row, task[updatedTask[u]] # Null)
    BY <1>6 DEF InsertTest
  <2>2. updatedTask[u] \in NewTasks
    BY <2>1, UnderWayTypes
  <2>3. row \in TestRow /\ row \in Nullable(TestRow) /\ row # Null
    BY <2>2 DEF TestRow, TaskWriter, Nullable
  <2>4. row.taskId = updatedTask[u]
    OBVIOUS
  <2> HIDE DEF row
  <2> QED BY <1>4, <2>1, <2>3, <2>4
<1>7. ASSUME Commit(u)
      PROVE  TableInv'
  <2>1. CASE task[updatedTask[u]] # Null
    BY <1>7, <2>1, CommitKeeps
  <2>2. CASE task[updatedTask[u]] = Null
    <3>1. /\ UNCHANGED <<task, test>> /\ updatePc[u] # "done"
          /\ Release(u) /\ GotoUpdate(u, "failed")
      BY <1>7, <2>2 DEF Commit
    <3> QED BY <1>0, <1>1, <3>1, ReleaseKeeps
  <2> QED BY <2>1, <2>2
<1> QED
  BY <1>2, <1>3, <1>5, <1>6, <1>7 DEF UpdateProgress

\* The steps of editing keep the tables in order.
LEMMA EditKeeps ==
  ASSUME TypeOK, TableInv, EditStep, UNCHANGED executeVars
  PROVE  TableInv'
<1>0. DraftInv
  BY DEF TableInv
<1>1. ASSUME NEW u \in TaskUpdates, NEW t \in NewTasks, NEW cols, NEW dto,
             FindExisting(u, t, dto, cols)
      PROVE  TableInv'
  <2>1. /\ UNCHANGED <<storeVars, served>>
        /\ draft[u] = NoDraft /\ updatePc[u] # "done"
        /\ \A v \in TaskUpdates \ {u} :
             updatedTask'[v] = updatedTask[v] /\ updatePc'[v] = updatePc[v]
    BY <1>1 DEF FindExisting, catalogVars, TypeOK, EditTypeOK, InTransaction
  <2>2. Quiet
    BY <2>1 DEF Quiet, storeVars, openVars
  <2> QED BY <1>0, <2>1, <2>2, QuietKeeps, EditKinds, ParentsStay DEF storeVars
<1>2. ASSUME NEW r \in TaskRemovals, (\E t \in NewTasks : FindRemoved(r, t)) \/ BeginRemoveTests(r)
      PROVE  TableInv'
  <2>1. UNCHANGED <<task, test, build, solution, draft, taken, served, updatedTask, updatePc>>
    BY <1>2 DEF FindRemoved, BeginRemoveTests, storeVars, openVars, editVars, updateVars
  <2>2. Quiet
    BY <2>1 DEF Quiet
  <2> QED BY <1>0, <2>1, <2>2, QuietKeeps, EditKinds, ParentsStay
<1>3. ASSUME NEW r \in TaskRemovals, RemoveTests(r)
      PROVE  TableInv'
  <2>1. /\ r \in Removals
        /\ \A i \in Test : test'[i] = test[i] \/ (test'[i] = Null /\ i \in taken[r])
        /\ taken' = [taken EXCEPT ![r] = {}]
        /\ UNCHANGED <<draft, updatePc, updatedTask, served>>
    BY <1>3 DEF RemoveTests, editVars, updateVars, Removals
  <2>2. taken'[r] = {} /\ \A s \in Removals \ {r} : taken'[s] = taken[s]
    BY <2>1 DEF TypeOK, StoreTypeOK
  <2>3. DraftInv'
    BY <1>0, <2>1, <2>2, GoneKeeps
  <2> QED BY <2>1, <2>3, EditKinds, ParentsStay
<1> QED
  BY <1>1, <1>2, <1>3, CreateTaskKeeps, UpdateKeeps DEF EditStep

\* The steps of a run keep the solutions in line with it.
LEMMA ExecuteKeeps ==
  ASSUME TypeOK, TableInv, ExecuteStep, UNCHANGED <<catalogVars, editVars>>
  PROVE  TableInv'
<1>1. UNCHANGED <<task, test, draft, taken, updatedTask, updatePc, served>>
  BY DEF ExecuteStep, ExecuteProgress, FindTask, CreateBuild, SaveSolution,
         PistonAnswers, Answer, ExecuteCutOff, storeVars, openVars, editVars,
         updateVars, catalogVars
<1>2. DraftInv'
  BY <1>1 DEF TableInv, DraftInv, DraftFits, LocksHeld, NotYetWritten
<1>3. ASSUME UNCHANGED build
      PROVE  ParentsExist'
  BY <1>1, <1>3 DEF TableInv, ParentsExist
<1>4. ASSUME NEW e \in Executions, NEW t \in NewTasks, FindTask(e, t)
      PROVE  ParentsExist' /\ RunsMatch'
  <2>1. UNCHANGED <<build, solution>>
    BY <1>4 DEF FindTask, storeVars
  <2>2. \A f \in Executions \ {e} :
          executePc'[f] = executePc[f] /\ run'[f] = run[f]
    BY <1>4 DEF FindTask, TypeOK, ExecuteTypeOK
  <2>3. /\ executePc[e] = "idle" /\ executePc'[e] \in {"createBuild", "failed"}
        /\ \A i \in Test : run'[e][i] \in {Null, "posted"}
    BY <1>4 DEF FindTask, TypeOK, ExecuteTypeOK, TableInv, RunsMatch
  <2> QED BY <1>3, <2>1, <2>2, <2>3 DEF TableInv, RunsMatch
<1>5. ASSUME NEW e \in Executions, CreateBuild(e)
      PROVE  ParentsExist' /\ RunsMatch'
  <2>1. UNCHANGED <<solution, run>>
    BY <1>5 DEF CreateBuild
  <2>2. \A f \in Executions \ {e} :
          executePc'[f] = executePc[f] /\ build'[f] = build[f]
    BY <1>5 DEF CreateBuild, TypeOK, ExecuteTypeOK, StoreTypeOK
  <2>3. /\ executePc'[e] \in {"running", "failed"}
        /\ build'[e] # Null => task[build'[e].taskId] # Null
        /\ solution[e] = NoSolutions
        /\ \A i \in Test : run[e][i] \in {Null, "posted"}
    BY <1>5 DEF CreateBuild, TypeOK, ExecuteTypeOK, StoreTypeOK, TableInv,
                RunsMatch, BuildRow
  <2>4. \A i \in Test : run[e][i] # "true" /\ solution[e][i] # TRUE
                          /\ solution[e][i] = Null
    <3>1. Null # "true" /\ Null # TRUE
      BY DEF Settled
    <3> QED BY <2>3, <3>1 DEF NoSolutions
  <2>5. RunsMatch'
    <3> SUFFICES ASSUME NEW f \in Executions
        PROVE  /\ build'[f] = Null => solution'[f] = NoSolutions
               /\ build'[f] # Null => \A i \in Test :
                    /\ run'[f][i] = "true" <=> solution'[f][i] = TRUE
                    /\ solution'[f][i] # Null => run'[f][i] \in Settled
               /\ executePc'[f] \in {"idle", "createBuild"} =>
                    /\ build'[f] = Null
                    /\ \A i \in Test : run'[f][i] \in {Null, "posted"}
               /\ executePc'[f] = "done" =>
                    \A i \in Test : run'[f][i] \notin Pending
      BY DEF RunsMatch
    <3>1. CASE f = e
      BY <2>1, <2>3, <2>4, <3>1
    <3>2. CASE f # e
      BY <2>1, <2>2, <3>2 DEF TableInv, RunsMatch
    <3> QED BY <3>1, <3>2
  <2> QED BY <1>1, <2>2, <2>3, <2>5 DEF TableInv, ParentsExist
<1>6. ASSUME NEW e \in Executions, NEW i \in Test, NEW passed \in BOOLEAN,
             SaveSolution(e, i, passed)
      PROVE  ParentsExist' /\ RunsMatch'
  <2>1. /\ UNCHANGED <<executePc, build>>
        /\ executePc[e] = "running"
    BY <1>6 DEF SaveSolution, Advance, TableInv, RunsMatch, Verdict, Pending
  <2>2. run[e][i] = Verdict(passed)
    BY <1>6 DEF SaveSolution, Advance
  <2>3. \A f \in Executions \ {e} :
          run'[f] = run[f] /\ solution'[f] = solution[f]
    BY <1>6 DEF SaveSolution, Advance, TypeOK, ExecuteTypeOK, StoreTypeOK
  <2>4. \A j \in Test \ {i} :
          run'[e][j] = run[e][j] /\ solution'[e][j] = solution[e][j]
    BY <1>6 DEF SaveSolution, Advance, TypeOK, ExecuteTypeOK, StoreTypeOK
  <2>5. CASE Advance(e, i, Verdict(passed), "false") /\ UNCHANGED solution
    <3>1. run'[e][i] = "false"
      BY <2>5 DEF Advance, TypeOK, ExecuteTypeOK
    <3>2. run[e][i] # "true" /\ run'[e][i] # "true" /\ run'[e][i] \in Settled
      BY <2>2, <3>1 DEF Verdict, Settled
    <3>3. RunsMatch'
      BY <2>1, <2>3, <2>4, <2>5, <3>2 DEF TableInv, RunsMatch
    <3> QED BY <1>3, <2>1, <3>3
  <2>6. CASE /\ build[e] # Null
             /\ Advance(e, i, Verdict(passed), IF passed THEN "true" ELSE "false")
             /\ solution' = [solution EXCEPT ![e][i] = passed]
    <3>1. /\ solution'[e][i] = passed
          /\ run'[e][i] = (IF passed THEN "true" ELSE "false")
      BY <2>6 DEF Advance, TypeOK, ExecuteTypeOK, StoreTypeOK
    <3>2. run'[e][i] \in Settled /\ (run'[e][i] = "true" <=> solution'[e][i] = TRUE)
      BY <1>6, <2>2, <3>1 DEF Verdict, Settled
    <3>3. RunsMatch'
      BY <2>1, <2>3, <2>4, <2>6, <3>2 DEF TableInv, RunsMatch
    <3> QED BY <1>3, <2>1, <3>3
  <2> QED BY <1>6, <2>5, <2>6 DEF SaveSolution
<1>7. ASSUME NEW e \in Executions, NEW i \in Test, PistonAnswers(e, i)
      PROVE  ParentsExist' /\ RunsMatch'
  <2>1. UNCHANGED <<build, solution, executePc>> /\ executePc[e] = "running"
    BY <1>7 DEF PistonAnswers, Advance, storeVars, TableInv, RunsMatch, Pending
  <2>2. /\ run[e][i] = "posted"
        /\ run'[e][i] \in {"savePassed", "saveFailed", "false"}
        /\ \A j \in Test \ {i} : run'[e][j] = run[e][j]
        /\ \A f \in Executions \ {e} : run'[f] = run[f]
    BY <1>7 DEF PistonAnswers, Advance, TypeOK, ExecuteTypeOK
  <2>3. run[e][i] # "true" /\ run'[e][i] # "true" /\ run[e][i] \notin Settled
    BY <2>2 DEF Pending, Settled
  <2>4. RunsMatch'
    BY <2>1, <2>2, <2>3 DEF TableInv, RunsMatch
  <2> QED BY <1>3, <2>1, <2>4
<1>8. ASSUME NEW e \in Executions, Answer(e) \/ ExecuteCutOff(e)
      PROVE  ParentsExist' /\ RunsMatch'
  <2>1. UNCHANGED <<build, solution, run>>
    BY <1>8 DEF Answer, ExecuteCutOff, storeVars
  <2>2. /\ \A f \in Executions \ {e} : executePc'[f] = executePc[f]
        /\ \/ executePc'[e] = "failed"
           \/ executePc'[e] = "done" /\ \A i \in Test : run[e][i] \notin Pending
    BY <1>8 DEF Answer, ExecuteCutOff, TypeOK, ExecuteTypeOK
  <2>3. RunsMatch'
    BY <2>1, <2>2 DEF TableInv, RunsMatch
  <2> QED BY <1>3, <2>1, <2>3
<1> QED
  BY <1>2, <1>4, <1>5, <1>6, <1>7, <1>8
  DEF TableInv, ExecuteStep, ExecuteProgress

\* Every step keeps the tables right.
LEMMA TablesKept ==
  ASSUME TypeOK, TableInv, [Next]_vars
  PROVE  TableInv'
<1>1. CASE UNCHANGED vars
  <2>1. UNCHANGED <<task, test, build, solution, draft, taken, served, updatedTask, updatePc>>
    BY <1>1 DEF vars, storeVars, openVars, catalogVars, editVars, updateVars
  <2>2. UNCHANGED executeVars
    BY <1>1 DEF vars
  <2>3. Quiet /\ RowsStay
    BY <2>1 DEF Quiet, RowsStay
  <2> QED BY <2>1, <2>2, <2>3, QuietKeeps, ParentsStay DEF TableInv
<1> QED BY <1>1, CatalogKeeps, EditKeeps, ExecuteKeeps DEF Next

\* The tables are right in every state.
LEMMA TablesInvariant == Spec => [](TypeOK /\ TableInv)
<1>1. Init => TableInv
  <2> SUFFICES ASSUME Init PROVE TableInv
    OBVIOUS
  <2>1. ParentsExist /\ NotYetWritten
    BY DEF Init, StoreInit, ParentsExist, NotYetWritten
  <2>2. LocksHeld /\ \A u \in TaskUpdates : DraftFits(u)
    BY DEF Init, StoreInit, NoDraft, LocksHeld, DraftFits
  <2>3. RunsMatch
    BY DEF Init, StoreInit, ExecuteInit, RunsMatch
  <2> QED BY <2>1, <2>2, <2>3 DEF TableInv, DraftInv
<1> QED BY <1>1, InitTypes, StepTypes, TablesKept, PTL DEF Spec

\* Themes have their course and tasks their theme.
CatalogHangs ==
  /\ \A h \in NewThemes : theme[h] # Null => course[theme[h].courseId] # Null
  /\ \A t \in NewTasks : task[t] # Null => theme[task[t].themeId] # Null

\* A step that removes no course and no theme, and leaves every theme with its
\* course and every task with its theme.
LEMMA HangsStays ==
  ASSUME TypeOK, CatalogHangs,
         \A c \in NewCourses : course[c] # Null => course'[c] # Null,
         \A h \in NewThemes : theme[h] # Null => theme'[h] # Null,
         \A h \in NewThemes : theme'[h] # Null =>
           \/ theme[h] # Null /\ theme'[h].courseId = theme[h].courseId
           \/ course'[theme'[h].courseId] # Null,
         \A t \in NewTasks : task'[t] # Null =>
           \/ task[t] # Null /\ task'[t].themeId = task[t].themeId
           \/ theme'[task'[t].themeId] # Null
  PROVE  CatalogHangs'
<1>1. \A h \in NewThemes : theme[h] # Null => theme[h].courseId \in NewCourses
  BY DEF TypeOK, StoreTypeOK, ThemeRow, Nullable
<1>2. \A t \in NewTasks : task[t] # Null => task[t].themeId \in NewThemes
  BY DEF TypeOK, StoreTypeOK, TaskRow, Nullable
<1> QED BY <1>1, <1>2 DEF CatalogHangs

\* Requests for tasks write no course and no theme.
LEMMA EditLeavesCatalog ==
  ASSUME EditStep
  PROVE  UNCHANGED <<course, theme>>
<1>1. ASSUME NEW u \in TaskUpdates, UpdateProgress(u) \/ RollBack(u)
      PROVE  UNCHANGED <<course, theme>>
  <2>1. \E pc : GotoUpdate(u, pc)
    BY <1>1 DEF UpdateProgress, UpdateTaskRow, BeginDelete, DeleteTest, UpdateTest,
                InsertTest, WriteOrFail, Commit, RollBack
  <2> QED BY <2>1 DEF GotoUpdate
<1> QED
  BY <1>1 DEF EditStep, CreateTask, FindExisting, FindRemoved, BeginRemoveTests,
              RemoveTests, storeVars

\* A task is created in a theme that is there, and stays in it.
LEMMA EditedThemes ==
  ASSUME TypeOK, EditStep, NEW t \in NewTasks, task'[t] # Null
  PROVE  \/ task[t] # Null /\ task'[t].themeId = task[t].themeId
         \/ theme'[task'[t].themeId] # Null
<1>1. ASSUME NEW r \in NewTasks, NEW h \in NewThemes, NEW n \in 0..MaxNew[r],
             CreateTask(r, h, n)
      PROVE  \/ task'[t] = task[t]
             \/ theme'[task'[t].themeId] # Null
  BY <1>1 DEF CreateTask, TypeOK, StoreTypeOK
<1>2. ASSUME NEW u \in TaskUpdates, Commit(u)
      PROVE  task[t] # Null /\ task'[t].themeId = task[t].themeId
  <2> DEFINE s == updatedTask[u]
  <2>1. /\ s \in NewTasks
        /\ \/ UNCHANGED task
           \/ task[s] # Null /\ task' = [task EXCEPT ![s] = [task[s] EXCEPT !.by = u]]
    BY <1>2 DEF Commit, TypeOK, EditTypeOK
  <2>2. task[s] # Null => [task[s] EXCEPT !.by = u].themeId = task[s].themeId
    BY <2>1 DEF TypeOK, StoreTypeOK, Nullable, TaskRow
  <2> QED BY <2>1, <2>2 DEF TypeOK, StoreTypeOK
<1>3. ASSUME NEW u \in TaskUpdates, ~ Commit(u), UpdateProgress(u) \/ RollBack(u)
      PROVE  UNCHANGED task
  BY <1>3 DEF UpdateProgress, UpdateTaskRow, BeginDelete, DeleteTest, UpdateTest,
              InsertTest, WriteOrFail, RollBack
<1> QED
  BY <1>1, <1>2, <1>3
  DEF EditStep, FindExisting, FindRemoved, BeginRemoveTests, RemoveTests, storeVars

\* Every step leaves themes with their course and tasks with their theme.
LEMMA HangsKept ==
  ASSUME TypeOK, CatalogHangs, [Next]_vars
  PROVE  CatalogHangs'
<1>1. ASSUME NEW r \in Removals, EndDelete(r)
      PROVE  CatalogHangs'
  <2>1. /\ \A c \in NewCourses : course'[c] = IF c \in taken[r] THEN Null ELSE course[c]
        /\ \A h \in NewThemes : theme'[h] = IF h \in taken[r] THEN Null ELSE theme[h]
        /\ \A t \in NewTasks : task'[t] = IF t \in taken[r] THEN Null ELSE task[t]
    BY <1>1 DEF EndDelete, DeleteTasks
  <2>2. ASSUME NEW h \in NewThemes, theme'[h] # Null
        PROVE  course'[theme'[h].courseId] # Null
    <3>1. /\ h \notin taken[r] /\ theme'[h] = theme[h]
          /\ theme[h].courseId \in NewCourses
      BY <2>1, <2>2 DEF TypeOK, StoreTypeOK, ThemeRow, Nullable
    <3>2. theme[h].courseId \notin taken[r]
      BY <1>1, <2>2, <3>1, Closed DEF EndDelete, ThemesOf
    <3> QED BY <2>1, <2>2, <3>1, <3>2 DEF CatalogHangs
  <2>3. ASSUME NEW t \in NewTasks, task'[t] # Null
        PROVE  theme'[task'[t].themeId] # Null
    <3>1. /\ t \notin taken[r] /\ task'[t] = task[t]
          /\ task[t].themeId \in NewThemes
      BY <2>1, <2>3 DEF TypeOK, StoreTypeOK, TaskRow, Nullable
    <3>2. task[t].themeId \notin taken[r]
      BY <1>1, <2>3, <3>1, Closed DEF EndDelete, TasksOf
    <3> QED BY <2>1, <2>3, <3>1, <3>2 DEF CatalogHangs
  <2> QED BY <2>2, <2>3 DEF CatalogHangs
<1>4. ASSUME NEW r \in NewCourses, CreateCourse(r)
      PROVE  CatalogHangs'
  <2>1. /\ UNCHANGED <<theme, task>> /\ [by |-> r] \in CourseRow
        /\ course' = [course EXCEPT ![r] = [by |-> r]]
    BY <1>4 DEF CreateCourse, CourseRow
  <2> QED BY <2>1, HangsStays DEF CatalogHangs, TypeOK, StoreTypeOK
<1>5. ASSUME NEW r \in NewThemes, NEW c \in NewCourses, CreateTheme(r, c)
      PROVE  CatalogHangs'
  <2>1. /\ UNCHANGED <<course, task>> /\ [courseId |-> c, by |-> r] \in ThemeRow
        /\ theme' = IF course[c] = Null THEN theme
                      ELSE [theme EXCEPT ![r] = [courseId |-> c, by |-> r]]
    BY <1>5 DEF CreateTheme, ThemeRow
  <2> QED BY <2>1, HangsStays DEF CatalogHangs, TypeOK, StoreTypeOK
<1>6. ASSUME NEW r \in ThemeUpdates, NEW h \in NewThemes, UpdateTheme(r, h)
      PROVE  CatalogHangs'
  <2>1. /\ UNCHANGED <<course, task>>
        /\ theme' = IF theme[h] = Null THEN theme
                      ELSE [theme EXCEPT ![h] = [theme[h] EXCEPT !.by = r]]
    BY <1>6 DEF UpdateTheme
  <2>2. theme[h] # Null => /\ [theme[h] EXCEPT !.by = r] \in ThemeRow
                           /\ [theme[h] EXCEPT !.by = r].courseId
                                 = theme[h].courseId
    BY DEF TypeOK, StoreTypeOK, Nullable, ThemeRow
  <2> QED BY <2>1, <2>2, HangsStays DEF CatalogHangs, TypeOK, StoreTypeOK
<1>7. ASSUME NEW r \in CourseUpdates, UpdateCourse(r)
      PROVE  CatalogHangs'
  <2> DEFINE c == updatedCourse[r]
  <2>1. /\ UNCHANGED <<theme, task>> /\ c \in NewCourses
        /\ \/ UNCHANGED course
           \/ /\ course[c] # Null
              /\ course' = [course EXCEPT ![c] = [course[c] EXCEPT !.by = r]]
    BY <1>7 DEF UpdateCourse, TypeOK, CatalogTypeOK
  <2>2. course[c] # Null => [course[c] EXCEPT !.by = r] \in CourseRow
    BY <2>1 DEF TypeOK, StoreTypeOK, Nullable, CourseRow
  <2> QED BY <2>1, <2>2, HangsStays DEF CatalogHangs, TypeOK, StoreTypeOK
<1>8. CASE UNCHANGED <<course, theme, task>>
  BY <1>8 DEF CatalogHangs
<1>9. CASE CatalogStep
  <2>1. ASSUME NEW r, NEW x, Remove(r, x) \/ TakeRow(r, x) \/ RemoveCutOff(r) \/ FindCourse(r, x)
        PROVE  UNCHANGED <<course, theme, task>>
    BY <2>1 DEF Remove, Delete, TakeRow, RemoveCutOff, FindCourse, storeVars
  <2> QED
    BY <1>1, <1>4, <1>5, <1>6, <1>7, <1>8, <1>9, <2>1
    DEF CatalogStep, DeleteStep, RemoveTheme, RemoveCourse
<1>10. ASSUME EditStep
       PROVE  CatalogHangs'
  <2>1. UNCHANGED <<course, theme>>
    BY <1>10, EditLeavesCatalog
  <2>2. \A t \in NewTasks : task'[t] # Null =>
          \/ task[t] # Null /\ task'[t].themeId = task[t].themeId
          \/ theme'[task'[t].themeId] # Null
    BY <1>10, <2>1, EditedThemes
  <2> QED BY <2>1, <2>2, HangsStays
<1>11. CASE ExecuteStep \/ UNCHANGED vars
  <2>1. UNCHANGED <<course, theme, task>>
    BY <1>11 DEF ExecuteStep, ExecuteProgress, FindTask, CreateBuild, SaveSolution,
                 PistonAnswers, Answer, ExecuteCutOff, storeVars, vars
  <2> QED BY <1>8, <2>1
<1> QED BY <1>9, <1>10, <1>11 DEF Next

\* A removed course, theme or task leaves nothing behind: no theme, task, test, build
\* or solution, whatever was created or written while it went.
THEOREM NothingLeftBehindHolds == Spec => []NothingLeftBehind
<1>1. Init => CatalogHangs
  BY DEF Init, StoreInit, CatalogHangs
<1>2. TypeOK /\ CatalogHangs /\ [Next]_vars => CatalogHangs'
  BY HangsKept
<1>3. TableInv /\ CatalogHangs => NothingLeftBehind
  BY DEF TableInv, ParentsExist, RunsMatch, CatalogHangs, NothingLeftBehind,
         TestsOf, BuildsOf, TasksOf, ThemesOf
<1> QED BY <1>1, <1>2, <1>3, TablesInvariant, PTL DEF Spec

\* The history of a run and its answer agree on the tests that passed.
THEOREM AnswerMatchesHistoryHolds == Spec => []AnswerMatchesHistory
<1>1. TypeOK /\ TableInv => AnswerMatchesHistory
  BY DEF TableInv, RunsMatch, AnswerMatchesHistory, History, Summary
<1> QED BY <1>1, TablesInvariant, PTL

\* Of the steps of courses, themes and DELETEs only the end of a DELETE is seen in
\* tasks, builds and solutions.
LEMMA CatalogCascades ==
  ASSUME TypeOK, CatalogStep, UNCHANGED <<editVars, executeVars>>
  PROVE  Cascades \/ UNCHANGED <<task, build, solution>>
<1>1. ASSUME NEW r \in Removals, EndDelete(r)
      PROVE  Cascades
  BY <1>1, EndDeleteCascades
<1>2. ASSUME NEW r \in Removals, NEW x \in Rows, TakeRow(r, x)
      PROVE  UNCHANGED <<task, build, solution>>
  BY <1>2 DEF TakeRow
<1> QED BY <1>1, <1>2, CatalogKinds DEF Quiet

\* Once the answer has been sent the history of the run changes no more, except
\* that it goes with its task.
HistorySettled ==
  [][\A e \in Executions :
       executePc[e] = "done" /\ build'[e] # Null
         => solution'[e] = solution[e] /\ build'[e] = build[e]]_vars

\* What a run has left in the history stays as the answer found it.
THEOREM HistorySettledHolds == Spec => HistorySettled
<1> DEFINE Settles ==
      \A e \in Executions : executePc[e] = "done" /\ build'[e] # Null
        => solution'[e] = solution[e] /\ build'[e] = build[e]
<1>1. ASSUME TypeOK, TableInv, [Next]_vars
      PROVE  Settles
  <2>1. CASE CatalogStep /\ UNCHANGED <<editVars, executeVars>>
    BY <1>1, <2>1, CatalogCascades
    DEF Cascades, DeleteTasks, DeleteBuilds, TypeOK, StoreTypeOK
  <2>2. CASE EditStep /\ UNCHANGED executeVars
    BY <1>1, <2>2, EditKinds DEF RowsStay
  <2>3. ASSUME NEW e \in Executions, executePc[e] = "done", ExecuteStep
        PROVE  solution'[e] = solution[e] /\ build'[e] = build[e]
    <3>1. PICK f \in Executions :
            \/ \E t \in NewTasks : FindTask(f, t)
            \/ ExecuteProgress(f)
            \/ \E i \in Test : PistonAnswers(f, i)
            \/ ExecuteCutOff(f)
      BY <2>3 DEF ExecuteStep
    <3>2. CASE CreateBuild(f)
      BY <1>1, <2>3, <3>2 DEF CreateBuild, TypeOK, StoreTypeOK
    <3>3. CASE \E i \in Test, passed \in BOOLEAN : SaveSolution(f, i, passed)
      <4>1. f # e
        BY <1>1, <2>3, <3>3 DEF SaveSolution, Advance, Verdict, Pending, TableInv,
                               RunsMatch
      <4> QED BY <1>1, <3>3, <4>1 DEF SaveSolution, TypeOK, StoreTypeOK
    <3> QED
      BY <3>1, <3>2, <3>3 DEF ExecuteProgress, FindTask, PistonAnswers, Answer,
                              ExecuteCutOff, storeVars
  <2>4. CASE UNCHANGED vars
    BY <2>4 DEF vars, storeVars
  <2> QED BY <1>1, <2>1, <2>2, <2>3, <2>4 DEF Next
<1>2. [Next]_vars /\ TypeOK /\ TableInv => [Settles]_vars
  BY <1>1
<1> QED BY <1>2, TablesInvariant, PTL DEF Spec, HistorySettled

-----------------------------------------------------------------------------
(* Runs and their history.  A step of a run is one of RunHistory or is not *)
(* seen; of the others only a cascading DELETE is seen, as Drop.           *)

seen == <<Asked, Shown, Counted, Answered>>

\* A step that moves no run and writes no build or solution is not seen in the
\* history.
LEMMA UnseenSteps ==
  ASSUME UNCHANGED <<executePc, run, build, solution>>
  PROVE  UNCHANGED seen
BY DEF seen, Asked, Shown, Counted, Answered, Summary

\* A DELETE that cascades takes whole builds.
LEMMA CascadesDrop ==
  ASSUME TypeOK, Cascades, UNCHANGED executeVars
  PROVE  \E gone \in SUBSET Executions : RunHistory!Drop(gone)
<1>1. PICK tasks \in SUBSET NewTasks : DeleteTasks(tasks)
  BY DEF Cascades
<1> DEFINE gone == BuildsOf(tasks)
<1>2. gone \in SUBSET Executions
  BY DEF BuildsOf
<1>3. \A e \in Executions :
        /\ e \in gone => build'[e] = Null
        /\ e \notin gone => build'[e] = build[e] /\ solution'[e] = solution[e]
  BY <1>1 DEF DeleteTasks, DeleteBuilds
<1>4. Shown' = [e \in DOMAIN Shown \ gone |-> Shown[e]]
  BY <1>3 DEF Shown
<1>5. UNCHANGED <<Asked, Counted, Answered>>
  BY DEF executeVars, Asked, Counted, Answered, Summary
<1>6. RunHistory!Drop(gone)
  BY <1>4, <1>5 DEF RunHistory!Drop
<1> QED BY <1>2, <1>6

\* What the steps of one run leave alone of the others.
LEMMA OthersRuns ==
  ASSUME NEW e \in Executions,
         \A f \in Executions \ {e} : executePc'[f] = executePc[f] /\ run'[f] = run[f]
  PROVE  \A f \in Executions \ {e} :
           /\ Asked'[f] = Asked[f]
           /\ Counted'[f] = Counted[f]
           /\ Answered'[f] = Answered[f]
BY DEF Asked, Counted, Answered, Summary

\* Before its build is created a run has counted nothing.
LEMMA NothingCounted ==
  ASSUME TypeOK, TableInv, NEW e \in Executions,
         executePc[e] \in {"idle", "createBuild"}
  PROVE  /\ e \notin DOMAIN Shown
         /\ Asked[e] = Null
         /\ Counted[e] = {}
         /\ Answered[e] = Null
<1>1. build[e] = Null /\ \A i \in Test : run[e][i] # "true"
  BY DEF TableInv, RunsMatch, Settled
<1> QED BY <1>1 DEF Shown, Asked, Counted, Answered, Summary

\* A run that finds its task is seen only when it has been refused.
LEMMA FindTaskSeen ==
  ASSUME TypeOK, TableInv, NEW e \in Executions, NEW t \in NewTasks, FindTask(e, t)
  PROVE  RunHistory!Begin(e) \/ UNCHANGED seen
<1>1. /\ executePc[e] = "idle"
      /\ \A f \in Executions \ {e} : executePc'[f] = executePc[f] /\ run'[f] = run[f]
      /\ UNCHANGED <<build, solution>>
  BY DEF FindTask, TypeOK, ExecuteTypeOK, storeVars
<1>2. UNCHANGED Shown
  BY <1>1 DEF Shown
<1>3. Asked[e] = Null /\ Counted[e] = {} /\ Answered[e] = Null
  BY <1>1, NothingCounted
<1>4. \A i \in Test : run'[e][i] # "true"
  BY DEF FindTask, TypeOK, ExecuteTypeOK, TableInv, RunsMatch, Settled
<1>5. Counted'[e] = {}
  BY <1>4 DEF Counted, Summary
<1>6. /\ executePc'[e] \in {"createBuild", "failed"}
      /\ Answered'[e] = Null
  BY DEF FindTask, TypeOK, ExecuteTypeOK, Answered
<1>7. UNCHANGED <<Counted, Answered>>
  <2>1. \A f \in Executions : Counted'[f] = Counted[f] /\ Answered'[f] = Answered[f]
    BY <1>1, <1>3, <1>5, <1>6, OthersRuns
  <2>2. UNCHANGED Counted
    BY <2>1 DEF Counted
  <2>3. UNCHANGED Answered
    BY <2>1 DEF Answered
  <2> QED BY <2>2, <2>3
<1>8. CASE executePc'[e] = "createBuild"
  <2>1. Asked'[e] = Null
    BY <1>8 DEF Asked
  <2> QED BY <1>1, <1>2, <1>3, <1>7, <2>1, OthersRuns DEF Asked, seen
<1>9. CASE executePc'[e] = "failed"
  <2>1. Asked'[e] \in SUBSET Test
    BY <1>9 DEF Asked, Summary
  <2>2. Asked' = [Asked EXCEPT ![e] = Asked'[e]]
    BY <1>1, OthersRuns DEF Asked
  <2> QED BY <1>2, <1>3, <1>7, <2>1, <2>2 DEF RunHistory!Begin
<1> QED BY <1>6, <1>8, <1>9

\* The insert of a build, or its failure, begins the run.
LEMMA CreateBuildSeen ==
  ASSUME TypeOK, TableInv, NEW e \in Executions,
         CreateBuild(e) \/ (ExecuteCutOff(e) /\ executePc[e] = "createBuild")
  PROVE  RunHistory!Begin(e)
<1>1. /\ executePc[e] = "createBuild" /\ executePc'[e] \in {"running", "failed"}
      /\ \A f \in Executions \ {e} :
           executePc'[f] = executePc[f] /\ build'[f] = build[f]
      /\ UNCHANGED <<run, solution>>
      /\ build'[e] # Null \/ UNCHANGED build
  BY DEF CreateBuild, ExecuteCutOff, TypeOK, ExecuteTypeOK, StoreTypeOK, storeVars,
         BuildRow
<1>2. Asked[e] = Null /\ Answered[e] = Null /\ e \notin DOMAIN Shown
  BY <1>1, NothingCounted
<1>3. Asked'[e] \in SUBSET Test /\ Answered'[e] = Null
  BY <1>1 DEF Asked, Answered, Summary
<1>4. /\ Asked' = [Asked EXCEPT ![e] = Asked'[e]]
      /\ UNCHANGED <<Counted, Answered>>
  <2>1. Asked' = [Asked EXCEPT ![e] = Asked'[e]]
    BY <1>1, OthersRuns DEF Asked
  <2>2. UNCHANGED Counted
    BY <1>1 DEF Counted, Summary
  <2>3. \A f \in Executions : Answered'[f] = Answered[f]
    BY <1>1, <1>2, <1>3, OthersRuns
  <2>4. UNCHANGED Answered
    BY <2>3 DEF Answered
  <2> QED BY <2>1, <2>2, <2>4
<1>5. CASE UNCHANGED build
  <2>1. UNCHANGED Shown
    BY <1>1, <1>5 DEF Shown
  <2> QED BY <1>2, <1>3, <1>4, <2>1 DEF RunHistory!Begin
<1>6. CASE build'[e] # Null
  <2>1. solution'[e] = RunHistory!NoVerdicts
    BY <1>1 DEF TableInv, RunsMatch, NoSolutions, RunHistory!NoVerdicts
  <2>2. Shown' = [f \in DOMAIN Shown \cup {e} |->
                    IF f = e THEN RunHistory!NoVerdicts ELSE Shown[f]]
    BY <1>1, <1>6, <2>1 DEF Shown
  <2> QED BY <1>2, <1>3, <1>4, <2>2 DEF RunHistory!Begin
<1> QED BY <1>1, <1>5, <1>6

\* A promise that moves on without storing anything is not seen.
LEMMA AdvanceUnseen ==
  ASSUME TypeOK, NEW e \in Executions, NEW i \in Test, NEW from, NEW to,
         from \in Pending, to \in (Pending \cup Settled) \ {"true"},
         Advance(e, i, from, to), UNCHANGED <<build, solution>>
  PROVE  UNCHANGED seen
<1>1. /\ UNCHANGED executePc
      /\ run[e][i] = from /\ run'[e][i] = to
      /\ \A j \in Test \ {i} : run'[e][j] = run[e][j]
      /\ \A f \in Executions \ {e} : run'[f] = run[f]
  BY DEF Advance, TypeOK, ExecuteTypeOK
<1>2. from # "true" /\ from # Null /\ to # Null
  BY DEF Pending
<1>3. \A f \in Executions : Summary(f)' = Summary(f)
  BY <1>1, <1>2 DEF Summary
<1> QED BY <1>1, <1>3 DEF seen, Asked, Shown, Counted, Answered

\* A verdict is stored and counted in one step, or not seen.
LEMMA SaveSolutionSeen ==
  ASSUME TypeOK, TableInv, NEW e \in Executions, NEW i \in Test,
         NEW passed \in BOOLEAN, SaveSolution(e, i, passed)
  PROVE  RunHistory!Store(e, i, passed) \/ UNCHANGED seen
<1>1. /\ UNCHANGED <<executePc, build>> /\ executePc[e] = "running"
      /\ run[e][i] = Verdict(passed) /\ run[e][i] \in Pending
  BY DEF SaveSolution, Advance, TableInv, RunsMatch, Verdict, Pending
<1>2. CASE Advance(e, i, Verdict(passed), "false") /\ UNCHANGED solution
  BY <1>1, <1>2, AdvanceUnseen DEF Settled
<1>3. CASE /\ build[e] # Null
           /\ Advance(e, i, Verdict(passed), IF passed THEN "true" ELSE "false")
           /\ solution' = [solution EXCEPT ![e][i] = passed]
  <2>1. /\ run'[e][i] = (IF passed THEN "true" ELSE "false")
        /\ \A j \in Test \ {i} : run'[e][j] = run[e][j]
        /\ \A f \in Executions \ {e} : run'[f] = run[f]
    BY <1>3 DEF Advance, TypeOK, ExecuteTypeOK
  <2>2. run[e][i] # "true" /\ run[e][i] # Null /\ run'[e][i] # Null
    BY <1>1, <2>1 DEF Pending, Settled
  <2>3. Summary(e)'.tests = Summary(e).tests
    BY <2>1, <2>2 DEF Summary
  <2>4. Summary(e)'.passed =
          IF passed THEN Summary(e).passed \cup {i} ELSE Summary(e).passed
    BY <2>1, <2>2 DEF Summary
  <2>5. UNCHANGED <<Asked, Answered>>
    BY <1>1, <2>1, <2>3, OthersRuns DEF Asked, Answered
  <2>6. Counted' = [Counted EXCEPT ![e] = IF passed THEN @ \cup {i} ELSE @]
    BY <1>1, <2>1, <2>4, OthersRuns DEF Counted
  <2>7. /\ Asked[e] # Null /\ i \in Asked[e]
        /\ Answered[e] = Null
    BY <1>1, <2>2 DEF Asked, Answered, Summary
  <2>8. e \in DOMAIN Shown /\ Shown[e][i] = Null
    BY <1>1, <1>3 DEF Shown, TableInv, RunsMatch, Pending, Settled
  <2>9. Shown' = [Shown EXCEPT ![e][i] = passed]
    BY <1>1, <1>3 DEF Shown, TypeOK, StoreTypeOK
  <2> QED BY <2>5, <2>6, <2>7, <2>8, <2>9 DEF RunHistory!Store
<1> QED BY <1>2, <1>3 DEF SaveSolution

\* The answer is given when every test has settled.
LEMMA AnswerSeen ==
  ASSUME TypeOK, NEW e \in Executions, Answer(e)
  PROVE  RunHistory!Reply(e)
<1>1. /\ executePc[e] = "running" /\ executePc'[e] = "done"
      /\ \A f \in Executions \ {e} : executePc'[f] = executePc[f]
      /\ UNCHANGED <<run, build, solution>>
  BY DEF Answer, TypeOK, ExecuteTypeOK, storeVars
<1>2. UNCHANGED <<Asked, Counted, Shown>>
  BY <1>1 DEF Asked, Counted, Shown, Summary
<1>3. /\ Asked[e] = Summary(e).tests /\ Asked[e] # Null
      /\ Counted[e] = Summary(e).passed
      /\ Answered[e] = Null
  BY <1>1 DEF Asked, Counted, Answered, Summary
<1>4. Answered'[e] = [passed |-> Counted[e], tests |-> Asked[e]]
  BY <1>1, <1>3 DEF Answered, Summary
<1>5. Answered' = [Answered EXCEPT ![e] =
                     [passed |-> Counted[e], tests |-> Asked[e]]]
  BY <1>1, <1>4, OthersRuns DEF Answered
<1> QED BY <1>2, <1>3, <1>5 DEF RunHistory!Reply

\* Every step of a run is one of RunHistory or not seen.
LEMMA ExecuteSeen ==
  ASSUME TypeOK, TableInv, ExecuteStep
  PROVE  RunHistory!Next \/ UNCHANGED seen
<1>1. ASSUME NEW e \in Executions, NEW t \in NewTasks, FindTask(e, t)
      PROVE  RunHistory!Next \/ UNCHANGED seen
  BY <1>1, FindTaskSeen DEF RunHistory!Next
<1>2. ASSUME NEW e \in Executions, CreateBuild(e) \/ ExecuteCutOff(e)
      PROVE  RunHistory!Next \/ UNCHANGED seen
  <2>1. CASE ExecuteCutOff(e) /\ executePc[e] = "running"
    <3>1. /\ executePc'[e] = "failed"
          /\ \A f \in Executions \ {e} : executePc'[f] = executePc[f]
          /\ UNCHANGED <<run, build, solution>>
      BY <2>1 DEF ExecuteCutOff, TypeOK, ExecuteTypeOK, storeVars
    <3> QED BY <2>1, <3>1 DEF seen, Asked, Shown, Counted, Answered, Summary
  <2>2. CASE CreateBuild(e) \/ (ExecuteCutOff(e) /\ executePc[e] = "createBuild")
    BY <2>2, CreateBuildSeen DEF RunHistory!Next
  <2> QED BY <1>2, <2>1, <2>2 DEF ExecuteCutOff
<1>3. ASSUME NEW e \in Executions, NEW i \in Test, NEW passed \in BOOLEAN,
             SaveSolution(e, i, passed)
      PROVE  RunHistory!Next \/ UNCHANGED seen
  BY <1>3, SaveSolutionSeen DEF RunHistory!Next
<1>4. ASSUME NEW e \in Executions, NEW i \in Test, PistonAnswers(e, i)
      PROVE  UNCHANGED seen
  <2>1. UNCHANGED <<build, solution>>
    BY <1>4 DEF PistonAnswers, storeVars
  <2>2. PICK to \in {"savePassed", "saveFailed", "false"} :
          Advance(e, i, "posted", to)
    BY <1>4 DEF PistonAnswers
  <2> QED BY <2>1, <2>2, AdvanceUnseen DEF Pending, Settled
<1>5. ASSUME NEW e \in Executions, Answer(e)
      PROVE  RunHistory!Next
  BY <1>5, AnswerSeen DEF RunHistory!Next
<1> QED
  BY <1>1, <1>2, <1>3, <1>4, <1>5 DEF ExecuteStep, ExecuteProgress

\* Every verdict is shown and counted together or not at all, at most once per test
\* and never after the answer, whatever is removed meanwhile.
THEOREM ImplementsRunHistoryHolds == Spec => ImplementsRunHistory
<1>1. Init => RunHistory!Init
  <2> SUFFICES ASSUME Init PROVE RunHistory!Init
    OBVIOUS
  <2>1. /\ executePc = [e \in Executions |-> "idle"]
        /\ run = [e \in Executions |-> [i \in Test |-> Null]]
        /\ \A e \in Executions : build[e] = Null
    BY DEF Init, StoreInit, ExecuteInit
  <2>2. Null # "true"
    BY DEF Settled
  <2>3. Asked = [e \in Executions |-> Null] /\ Answered = [e \in Executions |-> Null]
    BY <2>1 DEF Asked, Answered
  <2>4. Counted = [e \in Executions |-> {}]
    BY <2>1, <2>2 DEF Counted, Summary
  <2>5. Shown = [e \in {} |-> RunHistory!NoVerdicts]
    BY <2>1 DEF Shown
  <2> QED BY <2>3, <2>4, <2>5 DEF RunHistory!Init
<1>2. ASSUME TypeOK, TableInv, [Next]_vars
      PROVE  RunHistory!Next \/ UNCHANGED seen
  <2>1. ASSUME Cascades, UNCHANGED executeVars
        PROVE  RunHistory!Next
    BY <1>2, <2>1, CascadesDrop DEF RunHistory!Next
  <2>2. ASSUME UNCHANGED <<build, solution, executeVars>>
        PROVE  UNCHANGED seen
    BY <2>2, UnseenSteps DEF executeVars
  <2>3. CASE CatalogStep /\ UNCHANGED <<editVars, executeVars>>
    BY <1>2, <2>1, <2>2, <2>3, CatalogCascades
  <2>4. CASE EditStep /\ UNCHANGED executeVars
    BY <1>2, <2>2, <2>4, EditKinds DEF RowsStay
  <2>5. CASE ExecuteStep
    BY <1>2, <2>5, ExecuteSeen
  <2>6. CASE UNCHANGED vars
    BY <2>2, <2>6 DEF vars, storeVars
  <2> QED BY <1>2, <2>3, <2>4, <2>5, <2>6 DEF Next
<1>3. TypeOK /\ TableInv /\ [Next]_vars => [RunHistory!Next]_(RunHistory!vars)
  BY <1>2 DEF seen, RunHistory!vars
<1> QED
  BY <1>1, <1>3, TablesInvariant, PTL
  DEF Spec, ImplementsRunHistory, RunHistory!Spec

-----------------------------------------------------------------------------
(* What stays away.                                                        *)

\* What has been removed is not written again.
THEOREM RemovedStaysRemovedHolds == Spec => RemovedStaysRemoved
<1> DEFINE Stays ==
      /\ \A c \in NewCourses \cap served : course[c] = Null => course'[c] = Null
      /\ \A h \in NewThemes \cap served : theme[h] = Null => theme'[h] = Null
      /\ \A t \in NewTasks \cap served : task[t] = Null => task'[t] = Null
<1>1. ASSUME TypeOK, [Next]_vars
      PROVE  Stays
  <2>0. ASSUME NEW r, NEW x, Remove(r, x) \/ TakeRow(r, x) \/ RemoveCutOff(r) \/ FindCourse(r, x)
        PROVE  UNCHANGED <<course, theme>>
    BY <2>0 DEF Remove, Delete, TakeRow, RemoveCutOff, FindCourse, storeVars
  <2>1. ASSUME NEW r, EndDelete(r)
        PROVE  /\ \A c \in NewCourses : course[c] = Null => course'[c] = Null
               /\ \A h \in NewThemes : theme[h] = Null => theme'[h] = Null
    BY <2>1 DEF EndDelete
  <2>2. ASSUME NEW c \in NewCourses \cap served, course[c] = Null, CatalogStep
        PROVE  course'[c] = Null
    <3>1. ASSUME NEW r \in CourseUpdates, UpdateCourse(r)
          PROVE  course'[c] = Null
      BY <1>1, <2>2, <3>1 DEF UpdateCourse, TypeOK, StoreTypeOK
    <3>2. ASSUME NEW r \in NewCourses, CreateCourse(r)
          PROVE  course'[c] = Null
      BY <1>1, <2>2, <3>2 DEF CreateCourse, Serve, TypeOK, StoreTypeOK
    <3>3. ASSUME NEW r \in NewThemes, NEW d, NEW q, NEW h, CreateTheme(r, d) \/ UpdateTheme(q, h)
          PROVE  course'[c] = Null
      BY <2>2, <3>3 DEF CreateTheme, UpdateTheme
    <3> QED
      BY <2>0, <2>1, <2>2, <3>1, <3>2, <3>3
      DEF CatalogStep, DeleteStep, RemoveTheme, RemoveCourse
  <2>3. ASSUME NEW h \in NewThemes \cap served, theme[h] = Null, CatalogStep
        PROVE  theme'[h] = Null
    <3>1. ASSUME NEW r, CreateCourse(r) \/ UpdateCourse(r)
          PROVE  theme'[h] = Null
      BY <2>3, <3>1 DEF CreateCourse, UpdateCourse
    <3>2. ASSUME NEW r \in NewThemes, NEW c, CreateTheme(r, c)
          PROVE  theme'[h] = Null
      BY <1>1, <2>3, <3>2 DEF CreateTheme, Serve, TypeOK, StoreTypeOK
    <3>3. ASSUME NEW r, NEW g \in NewThemes, UpdateTheme(r, g)
          PROVE  theme'[h] = Null
      BY <1>1, <2>3, <3>3 DEF UpdateTheme, TypeOK, StoreTypeOK
    <3> QED
      BY <2>0, <2>1, <2>3, <3>1, <3>2, <3>3
      DEF CatalogStep, DeleteStep, RemoveTheme, RemoveCourse
  <2>4. ASSUME NEW t \in NewTasks, task[t] = Null, Cascades
        PROVE  task'[t] = Null
    BY <2>4 DEF Cascades, DeleteTasks
  <2>5. ASSUME NEW t \in NewTasks \cap served, task[t] = Null, EditStep
        PROVE  task'[t] = Null
    <3>1. ASSUME NEW r \in NewTasks, NEW h, NEW n, CreateTask(r, h, n)
          PROVE  task'[t] = Null
      BY <1>1, <2>5, <3>1 DEF CreateTask, Serve, TypeOK, StoreTypeOK
    <3>2. ASSUME NEW u \in TaskUpdates, Commit(u)
          PROVE  task'[t] = Null
      BY <1>1, <2>5, <3>2 DEF Commit, TypeOK, StoreTypeOK
    <3>3. ASSUME NEW u \in TaskUpdates, ~ Commit(u), UpdateProgress(u) \/ RollBack(u)
          PROVE  UNCHANGED task
      BY <3>3 DEF UpdateProgress, UpdateTaskRow, BeginDelete, DeleteTest, UpdateTest,
                  InsertTest, WriteOrFail, RollBack
    <3> QED
      BY <2>5, <3>1, <3>2, <3>3
      DEF EditStep, FindExisting, FindRemoved, BeginRemoveTests, RemoveTests, storeVars
  <2>6. CASE CatalogStep /\ UNCHANGED <<editVars, executeVars>>
    BY <1>1, <2>2, <2>3, <2>4, <2>6, CatalogCascades
  <2>7. CASE EditStep
    BY <2>5, <2>7, EditLeavesCatalog
  <2>8. CASE ExecuteStep \/ UNCHANGED vars
    BY <2>8 DEF ExecuteStep, ExecuteProgress, FindTask, CreateBuild, SaveSolution,
                PistonAnswers, Answer, ExecuteCutOff, storeVars, vars
  <2> QED BY <1>1, <2>6, <2>7, <2>8 DEF Next
<1>2. TypeOK /\ [Next]_vars => [Stays]_vars
  BY <1>1
<1> QED BY <1>2, TypeCorrect, PTL DEF Spec, RemovedStaysRemoved

=============================================================================
