---------------------------- MODULE ContentsProof ----------------------------
(***************************************************************************)
(* The contents of a task change by whole requests, for every value of the *)
(* constants: the proofs of LastUpdateWhole and of the refinement of       *)
(* TaskContents.  Updates in a row leave only what the last one sent, and  *)
(* careful updates wait in line.                                           *)
(*                                                                         *)
(* The argument.  A test stays with the task its request was for           *)
(* (TestFit), whichever updates name it.  What a transaction has written   *)
(* is what its request says (UpdateFit), no other transaction and no       *)
(* DELETE touches it (LocksHeld in LearningProof), and so the commit makes *)
(* of the table exactly what the request says.  While no other update of   *)
(* the task is under way it deletes all that it has not been sent          *)
(* (SerialInv).  The lock of a task belongs to an open transaction of it   *)
(* (LockFit), and a removal takes the task it is for and what hangs on     *)
(* that (RemovalFit): so who locks the row of its task, and names no test  *)
(* of another, is in the way of its own task only.                         *)
(***************************************************************************)
EXTENDS LearningProof

USE MaxNewAssumption, LearningNullAssumption, NamesAssumption, ServedAssumption,
    RunAssumption

-----------------------------------------------------------------------------
(* Who moves.                                                              *)

\* A step in which an update has no part.
Same(v) ==
  /\ updatePc'[v] = updatePc[v] /\ updatedTask'[v] = updatedTask[v]
  /\ sent'[v] = sent[v] /\ columns'[v] = columns[v] /\ existing'[v] = existing[v]
  /\ found'[v] = found[v] /\ draft'[v] = draft[v]

\* What the steps of a transaction leave alone.
LEMMA UpdateFrame ==
  ASSUME TypeOK, NEW u \in TaskUpdates, UpdateProgress(u) \/ RollBack(u)
  PROVE  /\ updatePc[u] \in {"updateTask"} \cup InTransaction
         /\ updatePc'[u] \in UpdatePc \ {"idle", "updateTask"}
         /\ UNCHANGED <<sent, columns, updatedTask, removedTask, served, removePc, taken>>
         /\ \A v \in TaskUpdates \ {u} : Same(v)
         /\ \A r \in Removals : found'[r] = found[r]
<1>1. PICK pc \in UpdatePc \ {"idle", "updateTask"} : GotoUpdate(u, pc)
  <2>1. ASSUME UpdateTaskRow(u)
        PROVE  \E pc \in UpdatePc \ {"idle", "updateTask"} : GotoUpdate(u, pc)
    BY <2>1 DEF UpdateTaskRow, UpdatePc, InTransaction
  <2>2. ASSUME NEW i, BeginDelete(u) \/ DeleteTest(u, i)
        PROVE  \E pc \in UpdatePc \ {"idle", "updateTask"} : GotoUpdate(u, pc)
    BY <2>2 DEF BeginDelete, DeleteTest, AfterDelete, UpdatePc, InTransaction
  <2>3. ASSUME NEW i, UpdateTest(u, i) \/ InsertTest(u, i)
        PROVE  \E pc \in UpdatePc \ {"idle", "updateTask"} : GotoUpdate(u, pc)
    BY <2>3 DEF UpdateTest, InsertTest, WriteOrFail, UpdatePc, InTransaction
  <2>4. ASSUME Commit(u) \/ RollBack(u)
        PROVE  \E pc \in UpdatePc \ {"idle", "updateTask"} : GotoUpdate(u, pc)
    BY <2>4 DEF Commit, RollBack, UpdatePc, InTransaction
  <2> QED BY <2>1, <2>2, <2>3, <2>4 DEF UpdateProgress
<1>2. updatePc[u] \in {"updateTask"} \cup InTransaction
  <2>1. ASSUME NEW i, DeleteTest(u, i) \/ UpdateTest(u, i) \/ InsertTest(u, i)
        PROVE  updatePc[u] \in InTransaction
    BY <2>1 DEF DeleteTest, UpdateTest, InsertTest, InTransaction
  <2> QED BY <2>1 DEF UpdateProgress, UpdateTaskRow, BeginDelete, Commit, RollBack,
                      InTransaction
<1>3. /\ \A v \in TaskUpdates \ {u} : found'[v] = found[v] /\ existing'[v] = existing[v]
      /\ \A r \in Removals : found'[r] = found[r]
  <2>0. u \notin Removals
    OBVIOUS
  <2>1. /\ UNCHANGED existing \/ existing' = [existing EXCEPT ![u] = {}]
        /\ UNCHANGED found \/ \E rows : found' = [found EXCEPT ![u] = rows]
    <3>1. ASSUME NEW i, DeleteTest(u, i)
          PROVE  UNCHANGED existing /\ \E rows : found' = [found EXCEPT ![u] = rows]
      BY <3>1 DEF DeleteTest
    <3>2. ASSUME NEW i, UpdateTest(u, i) \/ InsertTest(u, i)
          PROVE  UNCHANGED <<existing, found>>
      BY <3>2 DEF UpdateTest, InsertTest, WriteOrFail
    <3> QED BY <3>1, <3>2 DEF UpdateProgress, UpdateTaskRow, BeginDelete, Commit, RollBack
  <2> QED BY <2>0, <2>1 DEF TypeOK, StoreTypeOK, EditTypeOK
<1>4. \A v \in TaskUpdates \ {u} : draft'[v] = draft[v]
  <2>1. \/ UNCHANGED draft \/ Release(u)
        \/ \E i \in Test, row \in Nullable(TestRow) : Write(u, i, row)
    <3>1. ASSUME NEW i \in Test, DeleteTest(u, i)
          PROVE  UNCHANGED draft \/ Write(u, i, Null)
      BY <3>1 DEF DeleteTest
    <3>2. ASSUME NEW i \in Test, UpdateTest(u, i)
          PROVE  Release(u) \/ \E row \in Nullable(TestRow) : Write(u, i, row)
      <4>1. test[i] # Null => [taskId |-> test[i].taskId, by |-> u] \in Nullable(TestRow)
        BY DEF TypeOK, StoreTypeOK, TestRow, TaskWriter, Nullable
      <4> QED BY <3>2, <4>1 DEF UpdateTest, WriteOrFail
    <3>3. ASSUME NEW i \in Test, InsertTest(u, i)
          PROVE  Release(u) \/ \E row \in Nullable(TestRow) : Write(u, i, row)
      <4>1. [taskId |-> updatedTask[u], by |-> u] \in Nullable(TestRow)
        BY <3>3 DEF InsertTest, TypeOK, EditTypeOK, TestRow, TaskWriter, Nullable
      <4> QED BY <3>3, <4>1 DEF InsertTest, WriteOrFail
    <3>4. Null \in Nullable(TestRow)
      BY DEF Nullable
    <3> QED
      BY <3>1, <3>2, <3>3, <3>4
      DEF UpdateProgress, UpdateTaskRow, BeginDelete, Commit, RollBack
  <2> QED BY <2>1, ReleaseTypes, WriteTypes DEF TypeOK
<1>5. /\ updatePc'[u] = pc /\ \A v \in TaskUpdates \ {u} : updatePc'[v] = updatePc[v]
      /\ UNCHANGED <<sent, columns, updatedTask, removedTask, served, removePc, taken>>
  BY <1>1 DEF GotoUpdate, catalogVars, TypeOK, EditTypeOK
<1> QED BY <1>1, <1>2, <1>3, <1>4, <1>5 DEF Same

\* A step in which a removal has no part, one in which its DELETE comes to a row,
\* and one that ends it.
SameRemoval(r) ==
  /\ removePc'[r] = removePc[r] /\ removedTask'[r] = removedTask[r]
  /\ found'[r] = found[r] /\ taken'[r] = taken[r]

Takes(r) ==
  removedTask'[r] = removedTask[r] /\ \E x \in Rows : TakeRow(r, x)

Stops(r) ==
  /\ removePc[r] # "idle" /\ removePc'[r] \in {"done", "failed"}
  /\ found'[r] = {} /\ taken'[r] = {} /\ removedTask'[r] = removedTask[r]

\* Requests for courses and themes move no update; a removal of a task either has
\* no part in the step, or takes a row, or ends.
LEMMA CatalogMoves ==
  ASSUME TypeOK, CatalogStep, UNCHANGED <<editVars, executeVars>>
  PROVE  /\ UNCHANGED <<lock, draft, removedTask>>
         /\ served \subseteq served' /\ served' \cap NewTasks = served \cap NewTasks
         /\ \A u \in TaskUpdates : found'[u] = found[u]
         /\ \A r \in TaskRemovals :
              SameRemoval(r) \/ Takes(r) \/ Stops(r)
<1>0. UNCHANGED removedTask
  BY DEF editVars
<1>1. CASE /\ UNCHANGED <<openVars, removePc>>
           /\ \E r \in NewCourses \cup NewThemes \cup ThemeUpdates :
                served' \in {served, served \cup {r}}
  BY <1>0, <1>1 DEF openVars, SameRemoval
<1>2. ASSUME NEW s \in Removals \ TaskRemovals, NEW x \in Rows, Remove(s, x)
      PROVE  /\ UNCHANGED <<lock, draft, served>>
             /\ \A u \in TaskUpdates : found'[u] = found[u]
             /\ \A r \in TaskRemovals : SameRemoval(r)
  <2>1. /\ removePc[s] = "idle" /\ removePc' = [removePc EXCEPT ![s] = "takeRows"]
        /\ found' = [found EXCEPT ![s] = {x}]
        /\ UNCHANGED <<course, theme, task, test, build, solution, lock, draft, taken>>
        /\ UNCHANGED served
    BY <1>2 DEF Remove, Delete
  <2>2. {x} \in SUBSET Rows
    OBVIOUS
  <2>3. /\ \A u \in TaskUpdates : found'[u] = found[u]
        /\ \A r \in Removals \ {s} : removePc'[r] = removePc[r] /\ found'[r] = found[r]
    BY <2>1, <2>2, BeginMoves
  <2>4. TaskRemovals \subseteq Removals \ {s}
    BY DEF Removals
  <2> QED BY <1>0, <2>1, <2>3, <2>4 DEF SameRemoval
<1>3. ASSUME NEW s \in Removals, EndDelete(s) \/ RemoveCutOff(s)
      PROVE  /\ UNCHANGED <<lock, draft>>
             /\ \A u \in TaskUpdates : found'[u] = found[u]
             /\ \A r \in TaskRemovals : SameRemoval(r) \/ Stops(r)
  <2>1. CASE EndDelete(s)
    <3>1. found'[s] = {}
      BY <2>1 DEF EndDelete, TypeOK, StoreTypeOK
    <3> QED BY <1>0, <2>1, <3>1, EndDeleteMoves DEF SameRemoval, Stops, Removals
  <2>2. CASE RemoveCutOff(s)
    <3>1. UNCHANGED <<lock, draft>>
      BY <2>2 DEF RemoveCutOff
    <3> QED BY <1>0, <2>2, <3>1, CutOffMoves DEF SameRemoval, Stops, Removals
  <2> QED BY <1>3, <2>1, <2>2
<1>4. ASSUME NEW s \in Removals, NEW x \in Rows, TakeRow(s, x)
      PROVE  /\ UNCHANGED <<lock, draft>>
             /\ \A u \in TaskUpdates : found'[u] = found[u]
             /\ \A r \in TaskRemovals : SameRemoval(r) \/ Takes(r)
  <2>1. UNCHANGED <<lock, draft, removePc>>
    BY <1>4 DEF TakeRow
  <2> QED BY <1>0, <1>4, <2>1, TakeRowMoves DEF SameRemoval, Takes, Removals
<1>5. ASSUME NEW r \in NewCourses, CreateCourse(r)
      PROVE  UNCHANGED <<openVars, removePc>> /\ served' = served \cup {r}
  BY <1>5 DEF CreateCourse, Serve
<1>6. ASSUME NEW r \in NewThemes, NEW c \in NewCourses, CreateTheme(r, c)
      PROVE  UNCHANGED <<openVars, removePc>> /\ served' = served \cup {r}
  BY <1>6 DEF CreateTheme, Serve
<1>7. ASSUME NEW r \in ThemeUpdates, NEW h \in NewThemes, UpdateTheme(r, h)
      PROVE  UNCHANGED <<openVars, removePc>> /\ served' = served \cup {r}
  BY <1>7 DEF UpdateTheme, Serve
<1>8. ASSUME NEW r \in CourseUpdates,
             (\E c \in NewCourses : FindCourse(r, c)) \/ UpdateCourse(r)
      PROVE  UNCHANGED <<openVars, removePc, served>>
  BY <1>8 DEF FindCourse, UpdateCourse, storeVars
<1>9. /\ \A r \in ThemeRemovals \cup CourseRemovals : r \in Removals \ TaskRemovals
      /\ NewThemes \subseteq Rows /\ NewCourses \subseteq Rows
  BY RowsAreRows DEF Removals
<1>10. CASE UNCHANGED <<openVars, removePc, served>>
  BY <1>0, <1>10 DEF openVars, SameRemoval
<1>11. ASSUME NEW s \in Removals, DeleteStep(s) \/ (RemoveCutOff(s) /\ UNCHANGED served)
       PROVE  /\ UNCHANGED <<lock, draft, served>>
              /\ \A u \in TaskUpdates : found'[u] = found[u]
              /\ \A r \in TaskRemovals :
                   SameRemoval(r) \/ Takes(r) \/ Stops(r)
  <2>1. UNCHANGED served
    BY <1>11 DEF DeleteStep
  <2>2. \/ EndDelete(s) \/ RemoveCutOff(s)
        \/ \E x \in Rows : TakeRow(s, x)
    BY <1>11 DEF DeleteStep
  <2>3. CASE EndDelete(s) \/ RemoveCutOff(s)
    BY <1>3, <2>1, <2>3
  <2>4. ASSUME NEW x \in Rows, TakeRow(s, x)
        PROVE  /\ UNCHANGED <<lock, draft>>
               /\ \A u \in TaskUpdates : found'[u] = found[u]
               /\ \A r \in TaskRemovals : SameRemoval(r) \/ Takes(r)
    BY <1>4, <2>4
  <2> QED BY <2>1, <2>2, <2>3, <2>4
<1>12. CASE \E r \in ThemeRemovals, h \in NewThemes : RemoveTheme(r, h)
  BY <1>0, <1>2, <1>9, <1>12 DEF RemoveTheme
<1>13. CASE \E r \in CourseRemovals, c \in NewCourses : RemoveCourse(r, c)
  BY <1>0, <1>2, <1>9, <1>13 DEF RemoveCourse
<1> QED
  BY <1>0, <1>1, <1>5, <1>6, <1>7, <1>8, <1>10, <1>11, <1>12, <1>13 DEF CatalogStep

\* A removal's own statements move no update and no other removal.
LEMMA RemoveMoves ==
  ASSUME TypeOK, NEW s \in TaskRemovals,
         \/ \E t \in NewTasks : FindRemoved(s, t)
         \/ BeginRemoveTests(s)
         \/ RemoveTests(s)
  PROVE  /\ UNCHANGED <<lock, draft, served, sent, updateVars>>
         /\ \A u \in TaskUpdates : found'[u] = found[u]
         /\ \A r \in TaskRemovals \ {s} : SameRemoval(r)
<1>0. s \notin TaskUpdates /\ TaskRemovals \subseteq Removals
  BY DEF Removals
<1>1. ASSUME NEW t \in NewTasks, FindRemoved(s, t)
      PROVE  /\ UNCHANGED <<lock, draft, served, sent, updateVars>>
             /\ \A u \in TaskUpdates : found'[u] = found[u]
             /\ \A r \in TaskRemovals \ {s} : SameRemoval(r)
  BY <1>0, <1>1
  DEF FindRemoved, storeVars, openVars, SameRemoval, TypeOK, CatalogTypeOK,
      RemovalTypeOK, EditTypeOK
<1>2. CASE BeginRemoveTests(s)
  BY <1>0, <1>2
  DEF BeginRemoveTests, editVars, SameRemoval, TypeOK, StoreTypeOK, CatalogTypeOK,
      RemovalTypeOK, EditTypeOK
<1>3. CASE RemoveTests(s)
  BY <1>0, <1>3
  DEF RemoveTests, editVars, SameRemoval, TypeOK, StoreTypeOK, CatalogTypeOK,
      RemovalTypeOK, EditTypeOK
<1> QED BY <1>1, <1>2, <1>3

\* The arrival of an update moves no other update.
LEMMA FindMoves ==
  ASSUME TypeOK, NEW u \in TaskUpdates, NEW t \in NewTasks, NEW dto,
         NEW cols \in BOOLEAN, FindExisting(u, t, dto, cols)
  PROVE  /\ updatePc[u] = "idle"
         /\ updatePc'[u] = IF task[t] = Null THEN "failed" ELSE "updateTask"
         /\ updatedTask'[u] = t /\ columns'[u] = cols /\ existing'[u] = TestsOf(t)
         /\ UNCHANGED <<task, test, lock, draft, found, taken, served, removePc,
                        removedTask>>
         /\ \A v \in TaskUpdates \ {u} : Same(v)
         /\ \A w \in TaskWriter \ {u} : sent'[w] = sent[w]
BY DEF FindExisting, catalogVars, storeVars, openVars, Same, TypeOK, EditTypeOK,
       TaskWriter

\* The creation of a task moves no update and no removal.
LEMMA CreateMoves ==
  ASSUME TypeOK, NEW r \in NewTasks, NEW h \in NewThemes, NEW n \in 0..MaxNew[r],
         CreateTask(r, h, n)
  PROVE  /\ UNCHANGED <<openVars, removePc, removedTask, updateVars>>
         /\ r \notin served /\ served' = served \cup {r}
         /\ sent'[r] = NewTests(r, n)
         /\ \A w \in TaskWriter \ {r} : sent'[w] = sent[w]
         /\ \A u \in TaskUpdates : Same(u)
  BY DEF CreateTask, Serve, openVars, updateVars, Same, TypeOK, EditTypeOK, TaskWriter

\* Of the updates and removals of tasks one moves at most, and only an update
\* changes what is locked.
LEMMA OwnMoves ==
  ASSUME TypeOK, [Next]_vars
  PROVE  \/ \E u \in TaskUpdates :
              \/ \E t \in NewTasks, cols \in BOOLEAN : \E dto \in Dtos(u) :
                   FindExisting(u, t, dto, cols)
              \/ UpdateProgress(u)
              \/ RollBack(u)
         \/ /\ UNCHANGED lock /\ \A u \in TaskUpdates : Same(u)
            /\ \A r \in TaskRemovals :
                 \/ SameRemoval(r) \/ Takes(r) \/ Stops(r)
                 \/ \E t \in NewTasks : FindRemoved(r, t)
                 \/ BeginRemoveTests(r)
                 \/ RemoveTests(r)
<1>1. CASE CatalogStep /\ UNCHANGED <<editVars, executeVars>>
  BY <1>1, CatalogMoves DEF editVars, updateVars, Same, TypeOK, EditTypeOK
<1>2. CASE \/ ExecuteStep /\ UNCHANGED <<catalogVars, editVars>>
           \/ UNCHANGED vars
  <2>1. UNCHANGED openVars
    BY <1>2 DEF ExecuteStep, ExecuteProgress, FindTask, CreateBuild, SaveSolution,
                PistonAnswers, Answer, ExecuteCutOff, storeVars, vars
  <2> QED
    BY <1>2, <2>1
    DEF vars, catalogVars, editVars, updateVars, openVars, Same, SameRemoval
<1>3. ASSUME NEW r \in NewTasks, NEW h \in NewThemes, NEW n \in 0..MaxNew[r],
             CreateTask(r, h, n)
      PROVE  /\ UNCHANGED lock
             /\ \A u \in TaskUpdates : Same(u)
             /\ \A s \in TaskRemovals : SameRemoval(s)
  BY <1>3, CreateMoves DEF openVars, SameRemoval
<1>4. ASSUME NEW s \in TaskRemovals,
             \/ \E t \in NewTasks : FindRemoved(s, t)
             \/ BeginRemoveTests(s)
             \/ RemoveTests(s)
      PROVE  /\ UNCHANGED lock
             /\ \A u \in TaskUpdates : Same(u)
             /\ \A r \in TaskRemovals \ {s} : SameRemoval(r)
  BY <1>4, RemoveMoves DEF updateVars, Same
<1>5. CASE EditStep
  <2>1. CASE \E r \in NewTasks, h \in NewThemes : \E n \in 0..MaxNew[r] :
               CreateTask(r, h, n)
    BY <1>3, <2>1
  <2>2. ASSUME NEW s \in TaskRemovals,
               \/ \E t \in NewTasks : FindRemoved(s, t)
               \/ BeginRemoveTests(s)
               \/ RemoveTests(s)
        PROVE  \A r \in TaskRemovals :
                 \/ SameRemoval(r)
                 \/ \E t \in NewTasks : FindRemoved(r, t)
                 \/ BeginRemoveTests(r)
                 \/ RemoveTests(r)
    BY <1>4, <2>2
  <2> QED BY <1>4, <1>5, <2>1, <2>2 DEF EditStep
<1> QED BY <1>1, <1>2, <1>5 DEF Next

-----------------------------------------------------------------------------
(* What is always so.                                                      *)

\* The task a test was created for.
TaskOf(i) == IF i[1] \in NewTasks THEN i[1] ELSE updatedTask[i[1]]

\* A test in the table belongs to that task, and who wrote it last is through.
TestFit(i) ==
  test[i] # Null =>
    /\ test[i].taskId = TaskOf(i)
    /\ test[i].by \in TaskUpdates => updatePc[test[i].by] = "done"

\* The request that changed a task last is its own or an update that is done.
TaskFit(t) ==
  task[t] # Null =>
    /\ t \in served
    /\ \/ task[t].by = t
       \/ /\ task[t].by \in TaskUpdates
          /\ updatePc[task[t].by] = "done"
          /\ updatedTask[task[t].by] = t

\* A request names tests of its own and such as were there.
SentFit(w) ==
  \A i \in Wanted(w) : i[1] \in NewTasks \cup {w} \/ updatePc[i[1]] = "done"

\* What a transaction has written is what its request says; it deletes tests of
\* its task only, and none that it was sent.
UpdateFit(u) ==
  /\ updatePc[u] = "idle" => updatedTask[u] = Null
  /\ updatePc[u] \notin {"idle", "failed"} => updatedTask[u] \in served
  /\ updatePc[u] = "commit" => sent[u] = Null
  /\ \A i \in found[u] :
       i \in Test /\ TaskOf(i) = updatedTask[u] /\ i \notin Wanted(u)
  /\ \A i \in DOMAIN draft[u] :
       /\ draft[u][i] # Null => i \in Wanted(u) /\ draft[u][i].by = u
       /\ draft[u][i] = Null => i \notin Wanted(u) /\ TaskOf(i) = updatedTask[u]

\* A removal comes to its task, tests of it and builds.
Removable(t) == {t} \cup {i \in Test : TaskOf(i) = t} \cup Executions

RemovalFit(r) == found[r] \cup taken[r] \subseteq Removable(removedTask[r])

\* A lock belongs to an open transaction of that task.
LockFit(t) ==
  lock[t] # Null =>
    updatedTask[lock[t]] = t /\ updatePc[lock[t]] \in InTransaction

ContentsInv ==
  /\ \A i \in Test : TestFit(i)
  /\ \A t \in NewTasks : TaskFit(t) /\ LockFit(t)
  /\ \A w \in TaskWriter : SentFit(w)
  /\ \A u \in TaskUpdates : UpdateFit(u)
  /\ \A r \in TaskRemovals : RemovalFit(r)

-----------------------------------------------------------------------------
(* What a step does to tasks and tests.                                    *)

Commits(u) == Commit(u) /\ task[updatedTask[u]] # Null

Removes(gone) ==
  /\ DeleteTasks(gone)
  /\ served' \cap NewTasks = served \cap NewTasks
  /\ UNCHANGED <<updatePc, updatedTask, sent>>

Still ==
  /\ UNCHANGED <<task, test>>
  /\ served' \cap NewTasks = served \cap NewTasks
  /\ \A u \in TaskUpdates : updatePc'[u] = "done" <=> updatePc[u] = "done"

\* Only four kinds of steps change a task or a test.
LEMMA ContentsKinds ==
  ASSUME TypeOK, [Next]_vars
  PROVE  \/ \E r \in NewTasks, h \in NewThemes : \E n \in 0..MaxNew[r] :
              CreateTask(r, h, n)
         \/ \E u \in TaskUpdates : Commits(u)
         \/ \E r \in TaskRemovals : RemoveTests(r)
         \/ \E gone \in SUBSET NewTasks : Removes(gone)
         \/ Still
<1>1. CASE CatalogStep /\ UNCHANGED <<editVars, executeVars>>
  <2>1. UNCHANGED <<updatePc, updatedTask, sent>>
    BY <1>1 DEF editVars, updateVars
  <2>2. served' \cap NewTasks = served \cap NewTasks
    BY <1>1, CatalogMoves
  <2>3. ASSUME NEW r \in Removals, EndDelete(r)
        PROVE  \E gone \in SUBSET NewTasks : Removes(gone)
    <3>1. DeleteTasks(taken[r] \cap NewTasks)
      BY <2>3 DEF EndDelete
    <3> QED BY <2>1, <2>2, <3>1 DEF Removes
  <2>4. ASSUME NEW r \in Removals, NEW x \in Rows, TakeRow(r, x)
        PROVE  Still
    BY <2>1, <2>2, <2>4 DEF TakeRow, Still
  <2>5. CASE Quiet
    BY <2>1, <2>2, <2>5 DEF Quiet, Still
  <2> QED BY <1>1, <2>3, <2>4, <2>5, CatalogKinds
<1>2. ASSUME NEW u \in TaskUpdates, NEW t \in NewTasks, NEW cols \in BOOLEAN,
             NEW dto, FindExisting(u, t, dto, cols)
      PROVE  Still
  BY <1>2, FindMoves DEF Still, Same
<1>3. ASSUME NEW u \in TaskUpdates, UpdateProgress(u) \/ RollBack(u), ~Commits(u)
      PROVE  Still
  <2>1. UNCHANGED <<task, test>> /\ updatePc'[u] # "done"
    <3>1. ASSUME NEW i \in Test, DeleteTest(u, i)
          PROVE  UNCHANGED <<task, test>> /\ updatePc'[u] # "done"
      <4>1. PICK pc \in {"commit", "writeTests", "deleteFound"} : GotoUpdate(u, pc)
        BY <3>1 DEF DeleteTest, AfterDelete
      <4> QED BY <3>1, <4>1, GotoMoves DEF DeleteTest, Write
    <3>2. ASSUME NEW i \in Test, UpdateTest(u, i) \/ InsertTest(u, i)
          PROVE  UNCHANGED <<task, test>> /\ updatePc'[u] # "done"
      <4>1. PICK pc \in {"failed", "writeTests"} : GotoUpdate(u, pc)
        BY <3>2 DEF UpdateTest, InsertTest, WriteOrFail
      <4> QED BY <3>2, <4>1, GotoMoves DEF UpdateTest, InsertTest, WriteOrFail, Write
    <3>3. CASE UpdateTaskRow(u)
      <4>1. PICK pc \in {"failed", "deleteTests"} : GotoUpdate(u, pc)
        BY <3>3 DEF UpdateTaskRow
      <4> QED BY <3>3, <4>1, GotoMoves DEF UpdateTaskRow
    <3>4. CASE BeginDelete(u)
      <4>1. PICK pc \in {"commit", "writeTests", "deleteFound"} : GotoUpdate(u, pc)
        BY <3>4 DEF BeginDelete, AfterDelete
      <4> QED BY <3>4, <4>1, GotoMoves DEF BeginDelete
    <3>5. CASE Commit(u) \/ RollBack(u)
      <4>1. GotoUpdate(u, "failed") /\ UNCHANGED <<task, test>>
        BY <1>3, <3>5 DEF Commit, Commits, RollBack
      <4> QED BY <4>1, GotoMoves
    <3> QED BY <1>3, <3>1, <3>2, <3>3, <3>4, <3>5 DEF UpdateProgress
  <2> QED BY <1>3, <2>1, UpdateFrame DEF Still, Same, InTransaction
<1>4. ASSUME NEW r \in TaskRemovals,
             (\E t \in NewTasks : FindRemoved(r, t)) \/ BeginRemoveTests(r)
      PROVE  Still
  BY <1>4 DEF FindRemoved, BeginRemoveTests, storeVars, editVars, updateVars, Still
<1>5. CASE EditStep
  <2>1. ASSUME NEW u \in TaskUpdates, NEW t \in NewTasks, NEW cols \in BOOLEAN,
               NEW dto \in Dtos(u), FindExisting(u, t, dto, cols)
        PROVE  Still
    BY <1>2, <2>1
  <2> QED BY <1>3, <1>4, <1>5, <2>1 DEF EditStep
<1>6. CASE \/ ExecuteStep /\ UNCHANGED <<catalogVars, editVars>>
           \/ UNCHANGED vars
  <2>1. UNCHANGED <<task, test>>
    BY <1>6 DEF ExecuteStep, ExecuteProgress, FindTask, CreateBuild, SaveSolution,
                PistonAnswers, Answer, ExecuteCutOff, storeVars, vars
  <2> QED BY <1>6, <2>1 DEF Still, vars, catalogVars, editVars, updateVars
<1> QED BY <1>1, <1>5, <1>6 DEF Next

\* What no step takes back: the columns and the task of an update, and what a
\* request that has been served has sent.
UpdatesGoOn ==
  /\ \A u \in TaskUpdates :
       /\ updatePc[u] = "done" => updatePc'[u] = "done"
       /\ updatedTask[u] # Null =>
            updatedTask'[u] = updatedTask[u] /\ columns'[u] = columns[u]
  /\ served \subseteq served'
  /\ \A w \in TaskWriter :
       \/ sent'[w] = sent[w]
       \/ w \in NewTasks /\ w \notin served
       \/ w \in TaskUpdates /\ updatePc[w] = "idle"

\* Updates go from one statement to the next and never change what they were sent.
LEMMA StepsGoOn ==
  ASSUME TypeOK, ContentsInv, [Next]_vars
  PROVE  UpdatesGoOn
<1>1. ASSUME NEW r \in NewTasks, NEW h \in NewThemes, NEW n \in 0..MaxNew[r],
             CreateTask(r, h, n)
      PROVE  UpdatesGoOn
  BY <1>1, CreateMoves DEF UpdatesGoOn, Same
<1>2. ASSUME NEW u \in TaskUpdates, NEW t \in NewTasks, NEW cols \in BOOLEAN,
             NEW dto, FindExisting(u, t, dto, cols)
      PROVE  UpdatesGoOn
  <2>1. updatePc[u] = "idle" /\ updatedTask[u] = Null
    BY <1>2, FindMoves DEF ContentsInv, UpdateFit
  <2> QED BY <1>2, <2>1, FindMoves DEF UpdatesGoOn, Same
<1>3. ASSUME NEW u \in TaskUpdates, UpdateProgress(u) \/ RollBack(u)
      PROVE  UpdatesGoOn
  BY <1>3, UpdateFrame DEF UpdatesGoOn, Same, InTransaction
<1>4. CASE UNCHANGED <<updateVars, sent>> /\ served \subseteq served'
  BY <1>4 DEF updateVars, UpdatesGoOn
<1>5. CASE CatalogStep /\ UNCHANGED <<editVars, executeVars>>
  BY <1>4, <1>5, CatalogMoves DEF editVars
<1>6. CASE EditStep
  <2>1. ASSUME NEW u \in TaskUpdates, NEW t \in NewTasks, NEW cols \in BOOLEAN,
               NEW dto \in Dtos(u), FindExisting(u, t, dto, cols)
        PROVE  UpdatesGoOn
    BY <1>2, <2>1
  <2>2. ASSUME NEW r \in TaskRemovals,
               \/ \E t \in NewTasks : FindRemoved(r, t)
               \/ BeginRemoveTests(r)
               \/ RemoveTests(r)
        PROVE  UpdatesGoOn
    BY <1>4, <2>2, RemoveMoves
  <2> QED BY <1>1, <1>3, <1>6, <2>1, <2>2 DEF EditStep
<1>7. CASE \/ ExecuteStep /\ UNCHANGED <<catalogVars, editVars>>
           \/ UNCHANGED vars
  BY <1>4, <1>7 DEF vars, catalogVars, editVars
<1> QED BY <1>5, <1>6, <1>7 DEF Next

\* A test keeps its task once that is known.
LEMMA TaskOfStays ==
  ASSUME TypeOK, UpdatesGoOn, NEW i \in Test, TaskOf(i) \in NewTasks
  PROVE  TaskOf(i)' = TaskOf(i)
BY TestParts DEF TaskOf, UpdatesGoOn

\* A test that is not written, or goes, still fits.
LEMMA TestKept ==
  ASSUME TypeOK, NEW i \in Test, TestFit(i), UpdatesGoOn,
         test'[i] = test[i] \/ test'[i] = Null
  PROVE  TestFit(i)'
<1>1. test[i] # Null => test[i].taskId \in NewTasks
  BY DEF TypeOK, StoreTypeOK, TestRow, Nullable
<1> QED BY <1>1, TaskOfStays DEF TestFit, UpdatesGoOn

\* A task that is not written, or goes, still fits.
LEMMA TaskKept ==
  ASSUME TypeOK, NEW t \in NewTasks, TaskFit(t), UpdatesGoOn,
         task'[t] = task[t] \/ task'[t] = Null
  PROVE  TaskFit(t)'
BY DEF TaskFit, UpdatesGoOn, TypeOK, EditTypeOK

\* The task of an update of which more is said is a task.
LEMMA UpdatesTask ==
  ASSUME TypeOK, NEW u \in TaskUpdates,
         updatePc[u] # "idle" \/ found[u] # {} \/ DOMAIN draft[u] # {}
  PROVE  updatePc[u] # "idle" /\ updatedTask[u] \in NewTasks /\ updatedTask[u] # Null
BY DEF TypeOK, EditTypeOK, NoDraft, InTransaction

\* What a commit makes of the rows: its draft over what was there.
LEMMA CommitRows ==
  ASSUME TypeOK, TableInv, ContentsInv, NEW u \in TaskUpdates, Commits(u)
  PROVE  /\ updatedTask[u] \in NewTasks
         /\ updatePc[u] \in {"commit", "writeTests"} /\ updatePc'[u] = "done"
         /\ Wanted(u) \subseteq DOMAIN draft[u]
         /\ \A i \in Test :
              /\ i \notin DOMAIN draft[u] => test'[i] = test[i]
              /\ i \in DOMAIN draft[u] => test'[i] = draft[u][i]
         /\ \A t \in NewTasks \ {updatedTask[u]} : task'[t] = task[t]
         /\ task'[updatedTask[u]] # Null /\ task'[updatedTask[u]].by = u
         /\ UNCHANGED <<updatedTask, sent, columns, served, removePc, removedTask>>
         /\ \A v \in TaskUpdates \ {u} : Same(v)
<1> DEFINE t == updatedTask[u]
<1>0. Commit(u) /\ task[t] # Null /\ UpdateProgress(u)
  BY DEF Commits, UpdateProgress
<1>1. t \in NewTasks /\ updatePc[u] \in {"commit", "writeTests"}
  BY <1>0 DEF Commit, TypeOK, EditTypeOK
<1>2. task[t] \in TaskRow
  BY <1>0, <1>1 DEF TypeOK, StoreTypeOK, Nullable
<1>3. [task[t] EXCEPT !.by = u] \in TaskRow
  BY <1>2 DEF TaskRow, TaskWriter
<1>4. task' = [task EXCEPT ![t] = [task[t] EXCEPT !.by = u]]
  BY <1>0 DEF Commit
<1>5. task'[t] = [task[t] EXCEPT !.by = u]
  BY <1>1, <1>4 DEF TypeOK, StoreTypeOK
<1>6. /\ task'[t] # Null /\ task'[t].by = u
      /\ \A s \in NewTasks \ {t} : task'[s] = task[s]
  BY <1>2, <1>3, <1>4, <1>5 DEF TaskRow, TypeOK, StoreTypeOK
<1>7. Wanted(u) \subseteq DOMAIN draft[u]
  <2>1. sent[u] # Null => updatePc[u] # "commit"
    BY DEF ContentsInv, UpdateFit
  <2>2. sent[u] # Null => Unwritten(u) = {}
    BY <1>0, <2>1 DEF Commit
  <2> QED BY <2>2 DEF Unwritten, Wanted
<1> QED BY <1>0, <1>1, <1>6, <1>7, CommitMoves, UpdateFrame

\* Every step leaves each test with the task it was sent for.
LEMMA TestsKept ==
  ASSUME TypeOK, TableInv, ContentsInv, [Next]_vars
  PROVE  \A i \in Test : TestFit(i)'
<1>0. UpdatesGoOn
  BY StepsGoOn
<1>1. CASE \A i \in Test : test'[i] = test[i] \/ test'[i] = Null
  BY <1>0, <1>1, TestKept DEF ContentsInv
<1>2. CASE Still
  BY <1>1, <1>2 DEF Still
<1>3. ASSUME NEW gone \in SUBSET NewTasks, Removes(gone)
      PROVE  \A i \in Test : TestFit(i)'
  BY <1>1, <1>3 DEF Removes, DeleteTasks
<1>4. ASSUME NEW r \in TaskRemovals, RemoveTests(r)
      PROVE  \A i \in Test : TestFit(i)'
  BY <1>1, <1>4 DEF RemoveTests
<1>5. ASSUME NEW r \in NewTasks, NEW h \in NewThemes, NEW n \in 0..MaxNew[r],
             CreateTask(r, h, n)
      PROVE  \A i \in Test : TestFit(i)'
  <2>1. \A i \in NewTests(r, n) : i[1] = r
    BY DEF NewTests
  <2>2. \A i \in Test : \/ test'[i] = test[i]
                        \/ i[1] = r /\ test'[i] = [taskId |-> r, by |-> r]
    BY <1>5, <2>1 DEF CreateTask
  <2>3. ASSUME NEW i \in Test, i[1] = r, test'[i] = [taskId |-> r, by |-> r]
        PROVE  TestFit(i)'
    BY <2>3 DEF TestFit, TaskOf
  <2> QED BY <1>0, <2>2, <2>3, TestKept DEF ContentsInv
<1>6. ASSUME NEW u \in TaskUpdates, Commits(u), NEW i \in Test
      PROVE  TestFit(i)'
  <2>1. CASE i \notin DOMAIN draft[u]
    BY <1>0, <1>6, <2>1, CommitRows, TestKept DEF ContentsInv
  <2>2. CASE i \in DOMAIN draft[u] /\ draft[u][i] = Null
    BY <1>0, <1>6, <2>2, CommitRows, TestKept DEF ContentsInv
  <2>3. CASE i \in DOMAIN draft[u] /\ draft[u][i] # Null
    <3>1. /\ test'[i] = draft[u][i] /\ updatePc'[u] = "done" /\ draft[u][i].by = u
          /\ updatedTask[u] \in NewTasks /\ UNCHANGED updatedTask
      BY <1>6, <2>3, CommitRows DEF ContentsInv, UpdateFit
    <3>2. CASE i[1] = u
      <4>1. draft[u][i].taskId = updatedTask[u]
        BY <2>3, <3>2 DEF TableInv, DraftInv, DraftFits
      <4> QED BY <3>1, <3>2, <4>1 DEF TestFit, TaskOf
    <3>3. CASE i[1] # u
      <4>1. test[i] # Null /\ draft[u][i].taskId = test[i].taskId
        BY <2>3, <3>3 DEF TableInv, DraftInv, DraftFits
      <4>2. test[i].taskId = TaskOf(i)
        BY <4>1 DEF ContentsInv, TestFit
      <4> QED BY <3>1, <4>1, <4>2 DEF TestFit, TaskOf
    <3> QED BY <3>2, <3>3
  <2> QED BY <2>1, <2>2, <2>3
<1> QED BY <1>2, <1>3, <1>4, <1>5, <1>6, ContentsKinds

\* Every step leaves each task with a request that has been served as its last.
LEMMA TasksKept ==
  ASSUME TypeOK, TableInv, ContentsInv, [Next]_vars
  PROVE  \A t \in NewTasks : TaskFit(t)'
<1>0. UpdatesGoOn
  BY StepsGoOn
<1>1. CASE \A t \in NewTasks : task'[t] = task[t] \/ task'[t] = Null
  BY <1>0, <1>1, TaskKept DEF ContentsInv
<1>2. CASE Still
  BY <1>1, <1>2 DEF Still
<1>3. ASSUME NEW gone \in SUBSET NewTasks, Removes(gone)
      PROVE  \A t \in NewTasks : TaskFit(t)'
  BY <1>1, <1>3 DEF Removes, DeleteTasks
<1>4. ASSUME NEW r \in TaskRemovals, RemoveTests(r)
      PROVE  \A t \in NewTasks : TaskFit(t)'
  BY <1>1, <1>4 DEF RemoveTests
<1>5. ASSUME NEW r \in NewTasks, NEW h \in NewThemes, NEW n \in 0..MaxNew[r],
             CreateTask(r, h, n)
      PROVE  \A t \in NewTasks : TaskFit(t)'
  <2>1. \A t \in NewTasks : \/ task'[t] = task[t]
                            \/ t = r /\ task'[t] = [themeId |-> h, by |-> r]
    BY <1>5 DEF CreateTask, TypeOK, StoreTypeOK
  <2>2. r \in served'
    BY <1>5, CreateMoves
  <2>3. task'[r] = [themeId |-> h, by |-> r] => TaskFit(r)'
    BY <2>2 DEF TaskFit
  <2> QED BY <1>0, <2>1, <2>3, TaskKept DEF ContentsInv
<1>6. ASSUME NEW u \in TaskUpdates, Commits(u), NEW t \in NewTasks
      PROVE  TaskFit(t)'
  <2>1. CASE t # updatedTask[u]
    BY <1>0, <1>6, <2>1, CommitRows, TaskKept DEF ContentsInv
  <2>2. CASE t = updatedTask[u]
    <3>1. t \in served
      BY <1>6, <2>2, CommitRows DEF ContentsInv, UpdateFit
    <3> QED BY <1>6, <2>2, <3>1, CommitRows DEF TaskFit
  <2> QED BY <2>1, <2>2
<1> QED BY <1>2, <1>3, <1>4, <1>5, <1>6, ContentsKinds

\* The first statement takes the lock, the end of the transaction gives it back.
LEMMA LockMoves ==
  ASSUME TypeOK, NEW u \in TaskUpdates, UpdateProgress(u) \/ RollBack(u)
  PROVE  \/ /\ UNCHANGED lock
            /\ updatePc[u] \in InTransaction /\ updatePc'[u] \in InTransaction
         \/ Release(u)
         \/ /\ updatePc[u] = "updateTask" /\ UNCHANGED draft
            /\ \/ UNCHANGED lock
               \/ /\ lock' = [lock EXCEPT ![updatedTask[u]] = u]
                  /\ updatePc'[u] = "deleteTests"
<1>1. ASSUME NEW i \in Test, DeleteTest(u, i)
      PROVE  /\ UNCHANGED lock
             /\ updatePc[u] \in InTransaction /\ updatePc'[u] \in InTransaction
  <2>1. PICK pc \in {"commit", "writeTests", "deleteFound"} : GotoUpdate(u, pc)
    BY <1>1 DEF DeleteTest, AfterDelete
  <2> QED BY <1>1, <2>1, GotoMoves DEF DeleteTest, Write, InTransaction
<1>2. ASSUME NEW i \in Test, UpdateTest(u, i) \/ InsertTest(u, i)
      PROVE  \/ /\ UNCHANGED lock
                /\ updatePc[u] \in InTransaction /\ updatePc'[u] \in InTransaction
             \/ Release(u)
  <2>1. updatePc[u] = "writeTests"
    BY <1>2 DEF UpdateTest, InsertTest
  <2>2. Release(u) \/ (UNCHANGED lock /\ GotoUpdate(u, "writeTests"))
    BY <1>2 DEF UpdateTest, InsertTest, WriteOrFail, Write
  <2> QED BY <2>1, <2>2, GotoMoves DEF InTransaction
<1>3. CASE UpdateTaskRow(u)
  <2>1. /\ updatePc[u] = "updateTask" /\ UNCHANGED draft
        /\ \/ UNCHANGED lock
           \/ /\ lock' = [lock EXCEPT ![updatedTask[u]] = u]
              /\ GotoUpdate(u, "deleteTests")
    BY <1>3 DEF UpdateTaskRow
  <2> QED BY <2>1, GotoMoves
<1>4. CASE BeginDelete(u)
  <2>1. PICK pc \in {"commit", "writeTests", "deleteFound"} : GotoUpdate(u, pc)
    BY <1>4 DEF BeginDelete, AfterDelete
  <2> QED BY <1>4, <2>1, GotoMoves DEF BeginDelete, InTransaction
<1>5. CASE Commit(u) \/ RollBack(u)
  BY <1>5 DEF Commit, RollBack
<1> QED BY <1>1, <1>2, <1>3, <1>4, <1>5 DEF UpdateProgress

\* Every step leaves the locks of tasks with open transactions of these tasks.
LEMMA LocksKept ==
  ASSUME TypeOK, ContentsInv, [Next]_vars
  PROVE  \A t \in NewTasks : LockFit(t)'
<1>0. \A t \in NewTasks : lock[t] # Null => lock[t] \in TaskUpdates
  BY DEF TypeOK, StoreTypeOK, Nullable
<1>1. CASE UNCHANGED lock /\ \A u \in TaskUpdates : Same(u)
  BY <1>0, <1>1 DEF ContentsInv, LockFit, Same
<1>2. ASSUME NEW u \in TaskUpdates, NEW s \in NewTasks, NEW cols \in BOOLEAN,
             NEW dto, FindExisting(u, s, dto, cols)
      PROVE  \A t \in NewTasks : LockFit(t)'
  <2>1. \A t \in NewTasks : lock[t] # u
    BY <1>2, FindMoves, LearningNullAssumption
    DEF ContentsInv, LockFit, InTransaction
  <2> QED BY <1>0, <1>2, <2>1, FindMoves DEF ContentsInv, LockFit, Same
<1>3. ASSUME NEW u \in TaskUpdates, UpdateProgress(u) \/ RollBack(u),
             NEW t \in NewTasks
      PROVE  LockFit(t)'
  <2>0. /\ UNCHANGED updatedTask
        /\ \A v \in TaskUpdates \ {u} : updatePc'[v] = updatePc[v]
    BY <1>3, UpdateFrame DEF Same
  <2>1. CASE /\ UNCHANGED lock
             /\ updatePc[u] \in InTransaction /\ updatePc'[u] \in InTransaction
    BY <1>0, <2>0, <2>1 DEF ContentsInv, LockFit
  <2>2. CASE Release(u)
    <3>1. lock'[t] # Null => lock'[t] = lock[t] /\ lock[t] # u
      BY <2>2 DEF Release
    <3> QED BY <1>0, <2>0, <3>1 DEF ContentsInv, LockFit
  <2>3. CASE updatePc[u] = "updateTask"
             /\ (UNCHANGED lock \/ (/\ lock' = [lock EXCEPT ![updatedTask[u]] = u]
                                    /\ updatePc'[u] = "deleteTests"))
    <3>1. lock[t] # u
      BY <2>3, LearningNullAssumption DEF ContentsInv, LockFit, InTransaction
    <3>2. lock'[t] = lock[t] \/ (/\ t = updatedTask[u] /\ lock'[t] = u
                                 /\ updatePc'[u] = "deleteTests")
      BY <2>3 DEF TypeOK, StoreTypeOK
    <3> QED BY <1>0, <2>0, <3>1, <3>2 DEF ContentsInv, LockFit, InTransaction
  <2> QED BY <1>3, <2>1, <2>2, <2>3, LockMoves
<1> QED BY <1>1, <1>2, <1>3, OwnMoves

\* What a removal comes to next.
LEMMA ToTakeFits ==
  ASSUME TypeOK, ContentsInv, NEW r \in TaskRemovals, removePc[r] # "idle"
  PROVE  ToTake(r) \subseteq Removable(removedTask[r])
<1> DEFINE t == removedTask[r]
<1>1. t \in NewTasks
  BY DEF TypeOK, EditTypeOK
<1>2. found[r] \subseteq Removable(t) /\ taken[r] \subseteq Removable(t)
  BY DEF ContentsInv, RemovalFit
<1>3. /\ taken[r] \cap NewCourses = {} /\ taken[r] \cap NewThemes = {}
      /\ taken[r] \cap NewTasks \subseteq {t}
  BY <1>1, <1>2 DEF Removable
<1>4. TestsOf(t) \subseteq Removable(t)
  BY DEF TestsOf, Removable, ContentsInv, TestFit
<1>5. BuildsOf(taken[r]) \subseteq Removable(t)
  BY DEF BuildsOf, Removable
<1>6. HangingOn(taken[r]) \subseteq Removable(t)
  BY <1>3, <1>4, <1>5 DEF HangingOn
<1> QED BY <1>2, <1>6 DEF ToTake

\* The DELETEs of a removal come to no rows but its task, and what hangs on it.
LEMMA RemovalsKept ==
  ASSUME TypeOK, ContentsInv, [Next]_vars, NEW r \in TaskRemovals
  PROVE  RemovalFit(r)'
<1>0. UpdatesGoOn /\ r \in Removals /\ r \notin TaskUpdates
  BY StepsGoOn DEF Removals
<1>1. removePc[r] \notin {"takeTests", "takeRows"} => found[r] = {} /\ taken[r] = {}
  BY <1>0 DEF TypeOK, CatalogTypeOK, RemovalTypeOK
<1>2. removePc[r] # "idle" => removedTask[r] \in NewTasks
  BY DEF TypeOK, EditTypeOK
<1>3. ASSUME removedTask[r] \in NewTasks, removedTask'[r] = removedTask[r]
      PROVE  Removable(removedTask[r]) \subseteq Removable(removedTask[r])'
  BY <1>0, <1>3, TaskOfStays DEF Removable
<1>4. CASE SameRemoval(r)
  BY <1>1, <1>2, <1>3, <1>4 DEF ContentsInv, RemovalFit, SameRemoval
<1>5. CASE Stops(r)
  BY <1>5 DEF Stops, RemovalFit
<1>6. CASE Takes(r)
  <2>1. PICK x \in Rows : TakeRow(r, x)
    BY <1>6 DEF Takes
  <2>2. removePc[r] \in {"takeTests", "takeRows"}
    BY <1>0, <2>1, TakeRowMoves
  <2>3. x \in Removable(removedTask[r])
    BY <2>1, <2>2, ToTakeFits DEF TakeRow
  <2>4. found'[r] \subseteq found[r] /\ taken'[r] \subseteq taken[r] \cup {x}
    BY <1>0, <2>1 DEF TakeRow, TypeOK, StoreTypeOK
  <2>5. found'[r] \cup taken'[r] \subseteq Removable(removedTask[r])
    BY <2>3, <2>4 DEF ContentsInv, RemovalFit
  <2> QED BY <1>2, <1>3, <1>6, <2>2, <2>5 DEF RemovalFit, Takes
<1>7. CASE \E t \in NewTasks : FindRemoved(r, t)
  <2>1. removePc[r] = "idle" /\ UNCHANGED <<found, taken>>
    BY <1>7 DEF FindRemoved, storeVars, openVars
  <2> QED BY <1>1, <2>1 DEF RemovalFit
<1>8. CASE BeginRemoveTests(r)
  <2>1. /\ removePc[r] = "deleteTests" /\ UNCHANGED <<removedTask, taken>>
        /\ found'[r] = TestsOf(removedTask[r])
    BY <1>0, <1>8 DEF BeginRemoveTests, editVars, TypeOK, StoreTypeOK
  <2>2. TestsOf(removedTask[r]) \subseteq Removable(removedTask[r])
    BY DEF TestsOf, Removable, ContentsInv, TestFit
  <2> QED BY <1>1, <1>2, <1>3, <2>1, <2>2 DEF RemovalFit
<1>9. CASE RemoveTests(r)
  <2>1. UNCHANGED removedTask /\ found'[r] = {removedTask[r]} /\ taken'[r] = {}
    BY <1>0, <1>9 DEF RemoveTests, editVars, TypeOK, StoreTypeOK
  <2> QED BY <2>1 DEF RemovalFit, Removable
<1>10. ASSUME NEW u \in TaskUpdates, NEW s \in NewTasks, NEW cols \in BOOLEAN,
              NEW dto, FindExisting(u, s, dto, cols)
       PROVE  SameRemoval(r)
  BY <1>10, FindMoves DEF SameRemoval
<1>11. ASSUME NEW u \in TaskUpdates, UpdateProgress(u) \/ RollBack(u)
       PROVE  SameRemoval(r)
  BY <1>0, <1>11, UpdateFrame DEF SameRemoval
<1> QED
  BY <1>4, <1>5, <1>6, <1>7, <1>8, <1>9, <1>10, <1>11, OwnMoves

\* A transaction that has nothing written and nothing found any more.
LEMMA NothingUnderWay ==
  ASSUME TypeOK, ContentsInv, UpdatesGoOn, NEW u \in TaskUpdates, updatePc[u] # "idle",
         found'[u] = {}, draft'[u] = NoDraft, UNCHANGED updatedTask,
         updatePc'[u] \notin {"idle", "commit"}, updatePc[u] # "failed"
  PROVE  UpdateFit(u)'
BY DEF ContentsInv, UpdateFit, UpdatesGoOn, NoDraft

\* The statements of a transaction.
LEMMA StatementFits ==
  ASSUME TypeOK, ContentsInv, UpdatesGoOn, NEW u \in TaskUpdates,
         updatePc[u] \notin {"idle", "failed"}, updatePc'[u] # "idle",
         UNCHANGED <<updatedTask, sent>>,
         updatePc'[u] = "commit" => sent[u] = Null,
         \A i \in found'[u] \ found[u] :
           i \in Test /\ TaskOf(i) = updatedTask[u] /\ i \notin Wanted(u),
         \A i \in DOMAIN draft'[u] :
           \/ i \in DOMAIN draft[u] /\ draft'[u][i] = draft[u][i]
           \/ /\ draft'[u][i] # Null => i \in Wanted(u) /\ draft'[u][i].by = u
              /\ draft'[u][i] = Null => i \notin Wanted(u)
                                          /\ TaskOf(i) = updatedTask[u]
  PROVE  UpdateFit(u)'
<1>1. \A i : TaskOf(i)' = TaskOf(i)
  BY DEF TaskOf
<1>2. Wanted(u)' = Wanted(u)
  BY DEF Wanted
<1>3. UpdateFit(u)
  BY DEF ContentsInv
<1>4. ASSUME NEW i \in DOMAIN draft'[u]
      PROVE  /\ draft'[u][i] # Null => i \in Wanted(u) /\ draft'[u][i].by = u
             /\ draft'[u][i] = Null => i \notin Wanted(u)
                                         /\ TaskOf(i) = updatedTask[u]
  BY <1>3 DEF UpdateFit
<1>5. \A i \in found'[u] :
        i \in Test /\ TaskOf(i) = updatedTask[u] /\ i \notin Wanted(u)
  BY <1>3 DEF UpdateFit
<1>6. updatedTask[u] \in served'
  BY <1>3 DEF UpdateFit, UpdatesGoOn
<1> QED BY <1>1, <1>2, <1>4, <1>5, <1>6 DEF UpdateFit

\* Every step leaves what a transaction has written as its request says.
LEMMA UpdatesKept ==
  ASSUME TypeOK, TableInv, ContentsInv, [Next]_vars, NEW u \in TaskUpdates
  PROVE  UpdateFit(u)'
<1> DEFINE t == updatedTask[u]
<1>0. UpdatesGoOn /\ UpdateFit(u)
  BY StepsGoOn DEF ContentsInv
<1>1. CASE Same(u)
  <2>1. ASSUME NEW i \in Test, TaskOf(i) = t, t \in NewTasks
        PROVE  TaskOf(i)' = t
    BY <1>0, <2>1, TaskOfStays
  <2>2. found[u] # {} \/ DOMAIN draft[u] # {} => t \in NewTasks
    BY UpdatesTask
  <2>3. DOMAIN draft[u] \subseteq Test
    BY DEF TypeOK, StoreTypeOK
  <2>4. Wanted(u)' = Wanted(u) /\ served \subseteq served'
    BY <1>0, <1>1 DEF Wanted, Same, UpdatesGoOn
  <2> QED BY <1>0, <1>1, <2>1, <2>2, <2>3, <2>4 DEF UpdateFit, Same
<1>2. ASSUME NEW s \in NewTasks, NEW cols \in BOOLEAN, NEW dto,
             FindExisting(u, s, dto, cols)
      PROVE  UpdateFit(u)'
  <2>1. /\ found'[u] = {} /\ draft'[u] = NoDraft
        /\ updatePc'[u] = IF task[s] = Null THEN "failed" ELSE "updateTask"
        /\ updatedTask'[u] = s /\ UNCHANGED served
    <3>1. updatePc[u] = "idle" /\ UNCHANGED <<found, draft, served>>
      BY <1>2, FindMoves
    <3>2. found[u] = {} /\ draft[u] = NoDraft
      BY <3>1 DEF TypeOK, EditTypeOK, InTransaction
    <3> QED BY <1>2, <3>1, <3>2, FindMoves
  <2>2. task[s] # Null => s \in served
    BY DEF ContentsInv, TaskFit
  <2> QED BY <2>1, <2>2 DEF UpdateFit, NoDraft
<1>3. CASE UpdateProgress(u) \/ RollBack(u)
  <2>0. /\ updatePc[u] \in {"updateTask"} \cup InTransaction
        /\ updatePc'[u] \notin {"idle", "updateTask"}
        /\ UNCHANGED <<sent, updatedTask>>
        /\ t \in NewTasks /\ updatePc[u] \notin {"idle", "failed", "done"}
    BY <1>3, UpdateFrame DEF TypeOK, EditTypeOK, InTransaction
  <2>1. ASSUME NEW pc, GotoUpdate(u, pc)
        PROVE  updatePc'[u] = pc
    BY <2>1, GotoMoves
  <2>2. ASSUME found'[u] = {}, Release(u), updatePc'[u] # "commit"
        PROVE  UpdateFit(u)'
    BY <1>0, <2>0, <2>2, ReleaseTypes, NothingUnderWay DEF TypeOK
  <2>3. CASE UpdateTaskRow(u)
    <3>1. updatePc'[u] # "commit" /\ UNCHANGED <<found, draft>>
      BY <2>1, <2>3 DEF UpdateTaskRow
    <3> QED BY <1>0, <2>0, <3>1, StatementFits
  <2>4. CASE BeginDelete(u)
    <3>1. /\ UNCHANGED draft
          /\ found'[u] = IF sent[u] = Null THEN TestsOf(t)
                           ELSE (existing[u] \ sent[u]) \cap TestsOf(t)
          /\ updatePc'[u] \in {AfterDelete(u), "deleteFound"}
      BY <2>1, <2>4 DEF BeginDelete, TypeOK, StoreTypeOK
    <3>2. \A i \in TestsOf(t) : i \in Test /\ TaskOf(i) = t
      BY DEF TestsOf, ContentsInv, TestFit
    <3>3. \A i \in found'[u] : i \in TestsOf(t) /\ i \notin Wanted(u)
      BY <3>1 DEF Wanted
    <3>4. updatePc'[u] = "commit" => sent[u] = Null
      BY <3>1 DEF AfterDelete
    <3> QED BY <1>0, <2>0, <3>1, <3>2, <3>3, <3>4, StatementFits
  <2>5. ASSUME NEW i \in Test, DeleteTest(u, i)
        PROVE  UpdateFit(u)'
    <3>1. /\ found'[u] = found[u] \ {i} /\ i \in found[u]
          /\ updatePc'[u] \in {AfterDelete(u), "deleteFound"}
          /\ UNCHANGED draft \/ Write(u, i, Null)
      BY <2>1, <2>5 DEF DeleteTest, TypeOK, StoreTypeOK
    <3>2. \A j \in DOMAIN draft'[u] :
            \/ j \in DOMAIN draft[u] /\ draft'[u][j] = draft[u][j]
            \/ j = i /\ draft'[u][j] = Null
      <4>1. CASE Write(u, i, Null)
        <5>1. Null \in Nullable(TestRow)
          BY DEF Nullable
        <5> QED BY <4>1, <5>1, WriteTypes DEF TypeOK
      <4> QED BY <3>1, <4>1
    <3>3. TaskOf(i) = t /\ i \notin Wanted(u)
      BY <1>0, <3>1 DEF UpdateFit
    <3>4. updatePc'[u] = "commit" => sent[u] = Null
      BY <3>1 DEF AfterDelete
    <3> QED BY <1>0, <2>0, <3>1, <3>2, <3>3, <3>4, StatementFits
  <2>6. ASSUME NEW i \in Test, NEW row \in TestRow, row.by = u, Write(u, i, row),
               GotoUpdate(u, "writeTests"), i \in Unwritten(u), UNCHANGED found,
               sent[u] # Null
        PROVE  UpdateFit(u)'
    <3>1. row # Null /\ row \in Nullable(TestRow)
      BY DEF Nullable
    <3>2. \A j \in DOMAIN draft'[u] :
            \/ j \in DOMAIN draft[u] /\ draft'[u][j] = draft[u][j]
            \/ j = i /\ draft'[u][j] = row
      BY <2>6, <3>1, WriteTypes DEF TypeOK
    <3>3. i \in Wanted(u)
      BY <2>6 DEF Unwritten, Wanted
    <3> QED BY <1>0, <2>0, <2>1, <2>6, <3>1, <3>2, <3>3, StatementFits
  <2>7. ASSUME NEW i \in Test, UpdateTest(u, i) \/ InsertTest(u, i)
        PROVE  UpdateFit(u)'
    <3>1. /\ updatePc[u] = "writeTests" /\ i \in Unwritten(u) /\ UNCHANGED found
          /\ \/ Release(u) /\ GotoUpdate(u, "failed")
             \/ \E row \in TestRow : /\ row.by = u /\ Write(u, i, row)
                                     /\ GotoUpdate(u, "writeTests")
      <4>1. CASE UpdateTest(u, i)
        <5>1. test[i] # Null => [taskId |-> test[i].taskId, by |-> u] \in TestRow
          BY DEF TypeOK, StoreTypeOK, TestRow, TaskWriter, Nullable
        <5> QED BY <4>1, <5>1 DEF UpdateTest, WriteOrFail
      <4>2. CASE InsertTest(u, i)
        <5>1. [taskId |-> t, by |-> u] \in TestRow
          BY <2>0 DEF TestRow, TaskWriter
        <5> QED BY <4>2, <5>1 DEF InsertTest, WriteOrFail
      <4> QED BY <2>7, <4>1, <4>2
    <3>2. found[u] = {} /\ sent[u] # Null
      BY <3>1 DEF TypeOK, EditTypeOK
    <3>3. CASE Release(u) /\ GotoUpdate(u, "failed")
      BY <2>1, <2>2, <3>1, <3>2, <3>3
    <3> QED BY <2>6, <3>1, <3>2, <3>3
  <2>8. CASE Commit(u)
    <3>1. /\ updatePc[u] # "deleteFound" /\ UNCHANGED found /\ Release(u)
          /\ updatePc'[u] \in {"done", "failed"}
      BY <2>1, <2>8 DEF Commit
    <3>2. found[u] = {}
      BY <3>1 DEF TypeOK, EditTypeOK
    <3> QED BY <2>2, <3>1, <3>2
  <2>9. CASE RollBack(u)
    <3>1. found'[u] = {} /\ Release(u) /\ updatePc'[u] = "failed"
      BY <2>1, <2>9 DEF RollBack, TypeOK, StoreTypeOK
    <3> QED BY <2>2, <3>1
  <2> QED BY <1>3, <2>3, <2>4, <2>5, <2>7, <2>8, <2>9 DEF UpdateProgress
<1>4. ASSUME NEW v \in TaskUpdates, v # u,
             \/ \E s \in NewTasks, cols \in BOOLEAN : \E dto \in Dtos(v) :
                  FindExisting(v, s, dto, cols)
             \/ UpdateProgress(v) \/ RollBack(v)
      PROVE  Same(u)
  BY <1>4, FindMoves, UpdateFrame
<1> QED BY <1>1, <1>2, <1>3, <1>4, OwnMoves

\* Every step keeps that requests name their own tests and such as were there.
LEMMA SentKept ==
  ASSUME TypeOK, ContentsInv, [Next]_vars
  PROVE  \A w \in TaskWriter : SentFit(w)'
<1>0. UpdatesGoOn
  BY StepsGoOn
<1>1. ASSUME NEW w \in TaskWriter, sent'[w] = sent[w]
      PROVE  SentFit(w)'
  <2>1. ASSUME NEW i \in Wanted(w)
        PROVE  i[1] \in NewTasks \/ i[1] \in TaskUpdates
    <3>1. i \in Test
      BY <2>1 DEF Wanted, TypeOK, EditTypeOK, Nullable
    <3> QED BY <3>1, TestParts
  <2> QED BY <1>0, <1>1, <2>1 DEF ContentsInv, SentFit, Wanted, UpdatesGoOn
<1>2. ASSUME NEW r \in NewTasks, NEW h \in NewThemes, NEW n \in 0..MaxNew[r],
             CreateTask(r, h, n)
      PROVE  \A w \in TaskWriter : SentFit(w)'
  <2>1. sent'[r] = NewTests(r, n) /\ \A w \in TaskWriter \ {r} : sent'[w] = sent[w]
    BY <1>2, CreateMoves
  <2>2. SentFit(r)'
    BY <2>1 DEF SentFit, Wanted, NewTests
  <2> QED BY <1>1, <2>1, <2>2
<1>3. ASSUME NEW u \in TaskUpdates, NEW t \in NewTasks, NEW cols \in BOOLEAN,
             NEW dto \in Dtos(u), FindExisting(u, t, dto, cols)
      PROVE  \A w \in TaskWriter : SentFit(w)'
  <2>1. sent'[u] = dto /\ \A w \in TaskWriter \ {u} : sent'[w] = sent[w]
    BY <1>3, FindMoves DEF FindExisting, TypeOK, EditTypeOK, TaskWriter
  <2>2. ASSUME dto # Null, NEW i \in dto
        PROVE  i[1] \in NewTasks \cup {u} \/ updatePc'[i[1]] = "done"
    <3>1. i \in KnownTests \/ i[1] = u
      BY <2>2 DEF Dtos, NewTests
    <3>2. CASE i \in KnownTests
      BY <1>0, <3>2, TestParts DEF KnownTests, UpdatesGoOn
    <3> QED BY <3>1, <3>2
  <2>3. SentFit(u)'
    BY <2>1, <2>2 DEF SentFit, Wanted
  <2> QED BY <1>1, <2>1, <2>3
<1>4. CASE UNCHANGED sent
  BY <1>1, <1>4
<1>5. CASE EditStep
  <2>1. ASSUME NEW u \in TaskUpdates, UpdateProgress(u) \/ RollBack(u)
        PROVE  UNCHANGED sent
    BY <2>1, UpdateFrame
  <2>2. ASSUME NEW r \in TaskRemovals,
               \/ \E t \in NewTasks : FindRemoved(r, t)
               \/ BeginRemoveTests(r)
               \/ RemoveTests(r)
        PROVE  UNCHANGED sent
    BY <2>2, RemoveMoves
  <2> QED BY <1>2, <1>3, <1>4, <1>5, <2>1, <2>2 DEF EditStep
<1> QED BY <1>4, <1>5 DEF Next, vars, editVars

\* The invariant of the contents holds in every state.
LEMMA ContentsInvariant == Spec => [](TypeOK /\ TableInv /\ ContentsInv)
<1>1. Init => ContentsInv
  BY DEF Init, StoreInit, EditInit, ContentsInv, TestFit, TaskFit, LockFit, SentFit,
         Wanted, UpdateFit, RemovalFit, NoDraft, Removals
<1>2. TypeOK /\ TableInv /\ ContentsInv /\ [Next]_vars => ContentsInv'
  BY TestsKept, TasksKept, LocksKept, SentKept, UpdatesKept, RemovalsKept
  DEF ContentsInv
<1> QED BY <1>1, <1>2, TablesInvariant, PTL DEF Spec

-----------------------------------------------------------------------------
(* What a step does to the contents of a task.                             *)

\* A test belongs to the task that it was sent for.
LEMMA Belongs ==
  ASSUME NEW i \in Test, NEW t \in NewTasks
  PROVE  BelongsTo(i, t) <=> TaskOf(i) = t
BY TestParts DEF BelongsTo, TaskOf

\* An update of another task has named the test and written it.
WrittenElsewhere(i, t) ==
  /\ test[i].by \in TaskUpdates /\ updatedTask[test[i].by] # t
  /\ sent[test[i].by] # Null /\ i \in sent[test[i].by]

\* The tests of a task are what they were, save for what other tasks' updates name.
SameTests(t) ==
  /\ TestsOf(t)' = TestsOf(t)
  /\ \A i \in TestsOf(t) : test'[i] = test[i] \/ WrittenElsewhere(i, t)'

\* When the step writes no test of a task, the task has the same tests after it.
LEMMA SameRows ==
  ASSUME NEW t,
         \A i \in Test : \/ test'[i] = test[i]
                         \/ /\ test[i] # Null => test[i].taskId # t
                            /\ test'[i] # Null => test'[i].taskId # t
  PROVE  TestsOf(t)' = TestsOf(t) /\ \A i \in TestsOf(t) : test'[i] = test[i]
BY DEF TestsOf

\* A new task has the tests it was sent with; other tasks keep theirs.
LEMMA CreatedContents ==
  ASSUME TypeOK, TableInv, ContentsInv, NEW r \in NewTasks, NEW h \in NewThemes,
         NEW n \in 0..MaxNew[r], CreateTask(r, h, n)
  PROVE  /\ r \notin served /\ served' = served \cup {r} /\ UNCHANGED updatePc
         /\ task[r] = Null /\ sent'[r] \subseteq Test
         /\ \/ UNCHANGED <<task, test>>
            \/ /\ task'[r] # Null /\ task'[r].by = r
               /\ TestsOf(r)' = sent'[r] /\ sent'[r] # Null
               /\ \A i \in sent'[r] : test'[i].by = r
         /\ \A t \in NewTasks \ {r} :
              /\ task'[t] = task[t] /\ TestsOf(t)' = TestsOf(t)
              /\ \A i \in TestsOf(t) : test'[i] = test[i]
<1>1. /\ r \notin served /\ served' = served \cup {r} /\ UNCHANGED updatePc
      /\ sent'[r] = NewTests(r, n)
  BY CreateMoves DEF updateVars
<1>2. /\ NewTests(r, n) \subseteq Test /\ NewTests(r, n) # Null
      /\ \A i \in NewTests(r, n) : i[1] = r
  <2>1. NewTests(r, n) \subseteq Test
    BY NewTestsAreTests DEF TaskWriter
  <2> QED BY <2>1 DEF NewTests
<1>3. task[r] = Null /\ \A i \in Test : i[1] = r => test[i] = Null
  BY <1>1 DEF ContentsInv, TaskFit, TableInv, DraftInv, NotYetWritten
<1>4. TestsOf(r) = {}
  BY <1>3 DEF TestsOf, TableInv, ParentsExist
<1>5. CASE UNCHANGED <<task, test>>
  BY <1>1, <1>2, <1>3, <1>5 DEF TestsOf
<1>6. CASE /\ task' = [task EXCEPT ![r] = [themeId |-> h, by |-> r]]
           /\ test' = [i \in Test |-> IF i \in NewTests(r, n)
                                       THEN [taskId |-> r, by |-> r]
                                       ELSE test[i]]
  <2>1. [themeId |-> h, by |-> r] # Null /\ [taskId |-> r, by |-> r] # Null
    BY DEF TaskRow, TestRow, TaskWriter
  <2>2. /\ task'[r] # Null /\ task'[r].by = r
        /\ \A t \in NewTasks \ {r} : task'[t] = task[t]
    BY <1>6, <2>1 DEF TypeOK, StoreTypeOK
  <2>3. /\ \A i \in NewTests(r, n) :
             test'[i] # Null /\ test'[i].taskId = r /\ test'[i].by = r
        /\ \A i \in Test \ NewTests(r, n) : test'[i] = test[i]
    BY <1>2, <1>6, <2>1
  <2>4. TestsOf(r)' = NewTests(r, n)
    BY <1>2, <1>4, <2>3 DEF TestsOf
  <2>5. \A t \in NewTasks \ {r} :
          TestsOf(t)' = TestsOf(t) /\ \A i \in TestsOf(t) : test'[i] = test[i]
    BY <1>2, <1>3, <2>3, SameRows
  <2> QED BY <1>1, <1>2, <1>3, <2>2, <2>3, <2>4, <2>5
<1> QED BY <1>5, <1>6 DEF CreateTask

\* A commit makes of the rows what the request says, and deletes rows of its task.
LEMMA CommittedRows ==
  ASSUME TypeOK, TableInv, ContentsInv, NEW u \in TaskUpdates, Commits(u)
  PROVE  /\ Wanted(u) \subseteq Test
         /\ \A i \in Wanted(u) :
              /\ test'[i] # Null /\ test'[i].by = u
              /\ i[1] = u => test[i] = Null /\ test'[i].taskId = updatedTask[u]
              /\ i[1] # u => test[i] # Null /\ test'[i].taskId = test[i].taskId
         /\ \A i \in Test \ Wanted(u) :
              \/ i \notin DOMAIN draft[u] /\ test'[i] = test[i]
              \/ /\ i \in DOMAIN draft[u] /\ test'[i] = Null
                 /\ test[i] # Null /\ test[i].taskId = updatedTask[u]
<1>1. DraftFits(u) /\ UpdateFit(u)
  BY DEF TableInv, DraftInv, ContentsInv
<1>2. /\ Wanted(u) \subseteq DOMAIN draft[u] /\ DOMAIN draft[u] \subseteq Test
      /\ \A i \in Test : IF i \in DOMAIN draft[u] THEN test'[i] = draft[u][i]
                                                   ELSE test'[i] = test[i]
  BY CommitRows DEF TypeOK, StoreTypeOK
<1>3. ASSUME NEW i \in Wanted(u)
      PROVE  /\ test'[i] # Null /\ test'[i].by = u
             /\ i[1] = u => test[i] = Null /\ test'[i].taskId = updatedTask[u]
             /\ i[1] # u => test[i] # Null /\ test'[i].taskId = test[i].taskId
  BY <1>1, <1>2 DEF UpdateFit, DraftFits
<1>4. ASSUME NEW i \in Test \ Wanted(u), i \in DOMAIN draft[u]
      PROVE  /\ test'[i] = Null
             /\ test[i] # Null /\ test[i].taskId = updatedTask[u]
  <2>1. draft[u][i] = Null /\ TaskOf(i) = updatedTask[u]
    BY <1>1, <1>4 DEF UpdateFit
  <2>2. test[i] # Null
    BY <1>1, <1>4, <2>1 DEF DraftFits
  <2> QED BY <1>2, <1>4, <2>1, <2>2 DEF ContentsInv, TestFit
<1> QED BY <1>2, <1>3, <1>4

\* After a commit the task has every test of the request that belongs to it, and of
\* the others only those that the transaction did not delete; the tests of another
\* task are all there, whether or not they were written.
LEMMA CommittedContents ==
  ASSUME TypeOK, TableInv, ContentsInv, [Next]_vars, NEW u \in TaskUpdates,
         Commits(u), NEW t \in NewTasks
  PROVE  /\ t = updatedTask[u] =>
              /\ \A i \in TestsOf(t)' :
                   \/ i \in Wanted(u)
                   \/ i \in TestsOf(t) \ DOMAIN draft[u] /\ test'[i] = test[i]
              /\ \A i \in Wanted(u) : BelongsTo(i, t)' => i \in TestsOf(t)'
         /\ t # updatedTask[u] => SameTests(t)
<1>1. CASE t = updatedTask[u]
  <2>1. \A i \in Test : TestFit(i)'
    BY TestsKept
  <2>2. \A i \in Wanted(u) : TaskOf(i)' = t => i \in TestsOf(t)'
    BY <2>1, CommittedRows DEF TestFit, TestsOf
  <2>3. \A i \in Wanted(u) : BelongsTo(i, t)' => TaskOf(i)' = t
    <3>1. \A i \in Test : BelongsTo(i, t)' => TaskOf(i)' = t
      BY TestParts DEF BelongsTo, TaskOf
    <3> QED BY <3>1, CommittedRows
  <2>4. \A i \in TestsOf(t)' :
          \/ i \in Wanted(u)
          \/ i \in TestsOf(t) \ DOMAIN draft[u] /\ test'[i] = test[i]
    BY CommittedRows DEF TestsOf
  <2> QED BY <1>1, <2>2, <2>3, <2>4
<1>2. CASE t # updatedTask[u]
  <2>1. TestsOf(t)' = TestsOf(t)
    <3>1. ASSUME NEW i \in Test
          PROVE  test'[i] # Null /\ test'[i].taskId = t
                   <=> test[i] # Null /\ test[i].taskId = t
      <4>1. CASE i \in Wanted(u)
        BY <1>2, <4>1, CommittedRows
      <4>2. CASE i \notin Wanted(u)
        BY <1>2, <4>2, CommittedRows
      <4> QED BY <4>1, <4>2
    <3> QED BY <3>1 DEF TestsOf
  <2>2. UNCHANGED <<updatedTask, sent>>
    BY CommitRows
  <2>3. ASSUME NEW i \in TestsOf(t)
        PROVE  test'[i] = test[i] \/ WrittenElsewhere(i, t)'
    <3>0. i \in Test /\ test[i].taskId = t
      BY DEF TestsOf
    <3>1. CASE i \in Wanted(u)
      <4>1. test'[i].by = u /\ sent[u] # Null /\ i \in sent[u]
        BY <3>1, CommittedRows DEF Wanted
      <4> QED BY <1>2, <2>2, <4>1 DEF WrittenElsewhere
    <3>2. CASE i \notin Wanted(u)
      BY <1>2, <3>0, <3>2, CommittedRows
    <3> QED BY <3>1, <3>2
  <2> QED BY <1>2, <2>1, <2>3 DEF SameTests
<1> QED BY <1>1, <1>2

\* The first statement of a removal takes tests of its own task only.
LEMMA TakenContents ==
  ASSUME TypeOK, ContentsInv, NEW r \in TaskRemovals, RemoveTests(r)
  PROVE  /\ removedTask[r] \in NewTasks /\ UNCHANGED <<task, served, updatePc>>
         /\ removedTask'[r] = removedTask[r] /\ removePc'[r] = "takeRows"
         /\ \A t \in NewTasks :
              /\ TestsOf(t)' \subseteq TestsOf(t)
              /\ \A i \in TestsOf(t)' : test'[i] = test[i]
         /\ \A t \in NewTasks \ {removedTask[r]} : TestsOf(t)' = TestsOf(t)
<1>1. /\ removedTask[r] \in NewTasks /\ UNCHANGED <<task, served, updatePc, removedTask>>
      /\ removePc'[r] = "takeRows"
      /\ \A i \in Test : test'[i] = IF i \in taken[r] THEN Null ELSE test[i]
  BY DEF RemoveTests, editVars, updateVars, TypeOK, EditTypeOK, CatalogTypeOK,
         RemovalTypeOK, Removals
<1>2. \A i \in taken[r] \cap Test : TaskOf(i) = removedTask[r]
  BY <1>1 DEF ContentsInv, RemovalFit, Removable
<1>3. \A i \in Test : test'[i] = test[i]
                        \/ (test'[i] = Null /\ TaskOf(i) = removedTask[r])
  BY <1>1, <1>2
<1>4. \A t \in NewTasks \ {removedTask[r]} : TestsOf(t)' = TestsOf(t)
  BY <1>3 DEF TestsOf, ContentsInv, TestFit
<1>5. \A t \in NewTasks : /\ TestsOf(t)' \subseteq TestsOf(t)
                          /\ \A i \in TestsOf(t)' : test'[i] = test[i]
  BY <1>1 DEF TestsOf
<1> QED BY <1>1, <1>4, <1>5

\* Tasks that are deleted take their tests along, and no others.
LEMMA RemovedContents ==
  ASSUME NEW gone \in SUBSET NewTasks, DeleteTasks(gone)
  PROVE  /\ \A t \in gone : task'[t] = Null
         /\ \A t \in NewTasks : TestsOf(t)' \subseteq TestsOf(t)
         /\ \A t \in NewTasks \ gone :
              /\ task'[t] = task[t] /\ TestsOf(t)' = TestsOf(t)
              /\ \A i \in TestsOf(t) : test'[i] = test[i]
<1>1. /\ \A t \in gone : task'[t] = Null
      /\ \A t \in NewTasks \ gone : task'[t] = task[t]
  BY DEF DeleteTasks
<1>2. \A t \in NewTasks : TestsOf(t)' \subseteq TestsOf(t)
  BY DEF DeleteTasks, TestsOf
<1>3. \A t \in NewTasks \ gone :
        TestsOf(t)' = TestsOf(t) /\ \A i \in TestsOf(t) : test'[i] = test[i]
  <2>1. \A i \in Test : \/ test'[i] = test[i]
                        \/ test[i] # Null /\ test[i].taskId \in gone /\ test'[i] = Null
    BY DEF DeleteTasks
  <2> QED BY <2>1, SameRows
<1> QED BY <1>1, <1>2, <1>3

-----------------------------------------------------------------------------
(* The last update.                                                        *)

Whole(t) ==
  task[t] # Null /\ (\A r \in TaskRemovals : ~HasRemovedTests(r, t)) =>
    LET w == task[t].by
    IN  IF sent[w] # Null
          THEN \A i \in sent[w] : BelongsTo(i, t) => AsSent(i, t, w)
          ELSE AllLock(t) => TestsOf(t) = {}

\* An update without tests that holds the lock deletes all the task has: nobody
\* adds a test between the beginning of its DELETE and its commit.
Empties(u) ==
  sent[u] = Null /\ AllLock(updatedTask[u]) =>
    /\ updatePc[u] = "deleteFound" =>
         TestsOf(updatedTask[u]) \subseteq found[u] \cup DOMAIN draft[u]
    /\ updatePc[u] = "commit" => TestsOf(updatedTask[u]) \subseteq DOMAIN draft[u]

WholeInv ==
  /\ \A t \in NewTasks : Whole(t)
  /\ \A u \in TaskUpdates : Empties(u)

\* A removal that has deleted tests never starts again.
LEMMA RemovalsGoOn ==
  ASSUME TypeOK, [Next]_vars, NEW r \in TaskRemovals, NEW t \in NewTasks,
         HasRemovedTests(r, t)
  PROVE  HasRemovedTests(r, t)'
<1>1. removePc[r] \in {"takeRows", "done", "failed"} /\ removedTask[r] = t
  BY DEF HasRemovedTests
<1>2. CASE SameRemoval(r) \/ Takes(r) \/ Stops(r)
  <2>1. removePc'[r] = removePc[r] \/ removePc'[r] \in {"done", "failed"}
    BY <1>2 DEF SameRemoval, Takes, TakeRow, Stops
  <2>2. removedTask'[r] = t
    BY <1>1, <1>2 DEF SameRemoval, Takes, Stops
  <2> QED BY <1>1, <2>1, <2>2 DEF HasRemovedTests
<1>3. ~(\E s \in NewTasks : FindRemoved(r, s)) /\ ~BeginRemoveTests(r) /\ ~RemoveTests(r)
  BY <1>1 DEF FindRemoved, BeginRemoveTests, RemoveTests
<1>4. ASSUME NEW u \in TaskUpdates,
             \/ \E s \in NewTasks, cols \in BOOLEAN : \E dto \in Dtos(u) :
                  FindExisting(u, s, dto, cols)
             \/ UpdateProgress(u) \/ RollBack(u)
      PROVE  UNCHANGED <<removePc, removedTask>>
  BY <1>4, FindMoves, UpdateFrame
<1> QED BY <1>2, <1>3, <1>4, OwnMoves DEF HasRemovedTests

\* When all updates of a task lock its row, they did before the step.
LEMMA AllLockBefore ==
  ASSUME TypeOK, UpdatesGoOn, NEW t \in NewTasks, AllLock(t)'
  PROVE  AllLock(t)
BY DEF AllLock, UpdatesGoOn

\* What was written elsewhere stays so, as long as the row stays.
LEMMA ElsewhereStays ==
  ASSUME TypeOK, ContentsInv, UpdatesGoOn, NEW t \in NewTasks, NEW i \in TestsOf(t),
         WrittenElsewhere(i, t), test'[i] = test[i]
  PROVE  WrittenElsewhere(i, t)'
<1>1. PICK v \in TaskUpdates : v = test[i].by
  BY DEF WrittenElsewhere
<1>2. updatePc[v] = "done"
  BY <1>1 DEF ContentsInv, TestFit, TestsOf
<1>3. updatedTask[v] # Null
  BY <1>2 DEF TypeOK, EditTypeOK
<1>4. updatedTask'[v] = updatedTask[v] /\ sent'[v] = sent[v]
  BY <1>2, <1>3 DEF UpdatesGoOn, TaskWriter
<1> QED BY <1>1, <1>4 DEF WrittenElsewhere

\* A task whose row and tests stay is as whole as before.
LEMMA WholeKept ==
  ASSUME TypeOK, ContentsInv, [Next]_vars, NEW t \in NewTasks, Whole(t),
         task'[t] = task[t], SameTests(t)
  PROVE  Whole(t)'
<1> SUFFICES ASSUME task[t] # Null,
                    \A r \in TaskRemovals : ~HasRemovedTests(r, t)'
             PROVE  Whole(t)'
  BY DEF Whole
<1>0. UpdatesGoOn
  BY StepsGoOn
<1>1. \A r \in TaskRemovals : ~HasRemovedTests(r, t)
  BY RemovalsGoOn
<1>2. PICK w \in TaskWriter : w = task[t].by
  BY DEF TypeOK, StoreTypeOK, TaskRow, Nullable
<1>3. sent'[w] = sent[w]
  BY <1>0, <1>2 DEF ContentsInv, TaskFit, UpdatesGoOn
<1>4. IF sent[w] # Null
        THEN \A i \in sent[w] : BelongsTo(i, t) => AsSent(i, t, w)
        ELSE AllLock(t) => TestsOf(t) = {}
  BY <1>1, <1>2 DEF Whole
<1>5. CASE sent[w] # Null
  <2>1. ASSUME NEW i \in sent[w], BelongsTo(i, t)'
        PROVE  AsSent(i, t, w)'
    <3>1. i \in Test
      BY <1>5 DEF TypeOK, EditTypeOK, Nullable
    <3>2. BelongsTo(i, t)
      <4>1. CASE i[1] = w
        BY <1>0, <1>2, <2>1, <4>1
        DEF BelongsTo, ContentsInv, TaskFit, UpdatesGoOn, TypeOK, EditTypeOK
      <4>2. CASE i[1] \in NewTasks
        BY <2>1, <4>2 DEF BelongsTo
      <4>3. CASE i[1] \notin NewTasks \cup {w}
        <5>1. updatePc[i[1]] = "done" /\ i[1] \in TaskUpdates
          BY <1>5, <3>1, <4>3, TestParts DEF ContentsInv, SentFit, Wanted
        <5>2. updatedTask'[i[1]] = updatedTask[i[1]]
          BY <1>0, <5>1 DEF UpdatesGoOn, TypeOK, EditTypeOK
        <5> QED BY <2>1, <5>2 DEF BelongsTo
      <4> QED BY <4>1, <4>2, <4>3
    <3>3. AsSent(i, t, w)
      BY <1>4, <1>5, <3>2
    <3>4. i \in TestsOf(t) /\ i \in TestsOf(t)'
      BY <3>3 DEF AsSent, SameTests
    <3>5. CASE test'[i] = test[i]
      <4>1. WrittenElsewhere(i, t) => WrittenElsewhere(i, t)'
        BY <1>0, <3>4, <3>5, ElsewhereStays
      <4>2. test[i].by = w \/ WrittenElsewhere(i, t)
        BY <3>3 DEF AsSent, WrittenElsewhere
      <4> QED BY <3>4, <3>5, <4>1, <4>2 DEF AsSent, WrittenElsewhere
    <3>6. CASE WrittenElsewhere(i, t)'
      BY <3>4, <3>6 DEF AsSent, WrittenElsewhere
    <3> QED BY <3>4, <3>5, <3>6 DEF SameTests
  <2> QED BY <1>2, <1>3, <1>5, <2>1 DEF Whole, AsSent
<1>6. CASE sent[w] = Null
  <2>1. AllLock(t)' => TestsOf(t) = {}
    BY <1>0, <1>4, <1>6, AllLockBefore
  <2> QED BY <1>2, <1>3, <1>6, <2>1 DEF Whole, SameTests
<1> QED BY <1>5, <1>6

\* Every step leaves the tests of the last request whole.
LEMMA WholesKept ==
  ASSUME TypeOK, TableInv, ContentsInv, WholeInv, [Next]_vars, NEW t \in NewTasks
  PROVE  Whole(t)'
<1>0. UpdatesGoOn
  BY StepsGoOn
<1>1. CASE Still
  <2>1. TestsOf(t)' = TestsOf(t) /\ \A i \in TestsOf(t) : test'[i] = test[i]
    BY <1>1 DEF Still, TestsOf
  <2> QED BY <1>1, <2>1, WholeKept DEF WholeInv, Still, SameTests
<1>2. ASSUME NEW gone \in SUBSET NewTasks, Removes(gone)
      PROVE  Whole(t)'
  <2>1. CASE t \in gone
    BY <1>2, <2>1, RemovedContents DEF Removes, Whole
  <2>2. CASE t \notin gone
    BY <1>2, <2>2, RemovedContents, WholeKept DEF WholeInv, Removes, SameTests
  <2> QED BY <2>1, <2>2
<1>3. ASSUME NEW r \in TaskRemovals, RemoveTests(r)
      PROVE  Whole(t)'
  <2>1. CASE t = removedTask[r]
    BY <1>3, <2>1, TakenContents DEF Whole, HasRemovedTests
  <2>2. CASE t # removedTask[r]
    BY <1>3, <2>2, TakenContents, WholeKept DEF WholeInv, SameTests
  <2> QED BY <2>1, <2>2
<1>4. ASSUME NEW r \in NewTasks, NEW h \in NewThemes, NEW n \in 0..MaxNew[r],
             CreateTask(r, h, n)
      PROVE  Whole(t)'
  <2>1. CASE t = r /\ UNCHANGED <<task, test>>
    BY <1>4, <2>1, CreatedContents DEF Whole
  <2>2. CASE t = r /\ ~UNCHANGED <<task, test>>
    <3>1. /\ task'[t].by = t /\ sent'[t] # Null
          /\ TestsOf(t)' = sent'[t] /\ \A i \in sent'[t] : test'[i].by = t
      BY <1>4, <2>2, CreatedContents
    <3> QED BY <3>1 DEF Whole, AsSent
  <2>3. CASE t # r
    BY <1>4, <2>3, CreatedContents, WholeKept DEF WholeInv, SameTests
  <2> QED BY <2>1, <2>2, <2>3
<1>5. ASSUME NEW u \in TaskUpdates, Commits(u)
      PROVE  Whole(t)'
  <2>1. CASE t # updatedTask[u]
    BY <1>5, <2>1, CommittedContents, CommitRows, WholeKept DEF WholeInv
  <2>2. CASE t = updatedTask[u]
    <3>1. /\ UNCHANGED <<sent, updatedTask>> /\ task'[t].by = u
          /\ updatePc[u] \in {"commit", "writeTests"}
      BY <1>5, <2>2, CommitRows
    <3>2. CASE sent[u] # Null
      <4>1. ASSUME NEW i \in sent[u], BelongsTo(i, t)'
            PROVE  AsSent(i, t, u)'
        <5>1. i \in Wanted(u)
          BY <3>2 DEF Wanted
        <5>2. i \in TestsOf(t)' /\ test'[i].by = u
          BY <1>5, <2>2, <4>1, <5>1, CommittedContents, CommittedRows
        <5> QED BY <5>2 DEF AsSent
      <4> QED BY <3>1, <3>2, <4>1 DEF Whole
    <3>3. CASE sent[u] = Null
      <4>1. updatePc[u] = "commit"
        BY <3>1, <3>3 DEF TypeOK, EditTypeOK
      <4>2. AllLock(t) => TestsOf(t) \subseteq DOMAIN draft[u]
        BY <2>2, <3>3, <4>1 DEF WholeInv, Empties
      <4>3. AllLock(t) => TestsOf(t)' = {}
        BY <1>5, <2>2, <3>3, <4>2, CommittedContents DEF Wanted
      <4>4. AllLock(t)' => TestsOf(t)' = {}
        BY <1>0, <4>3, AllLockBefore
      <4> QED BY <3>1, <3>3, <4>4 DEF Whole
    <3> QED BY <3>2, <3>3
  <2> QED BY <2>1, <2>2
<1> QED BY <1>1, <1>2, <1>3, <1>4, <1>5, ContentsKinds

\* Only an update that commits adds a test to a task that has been created.
LEMMA OnlyCommitsAdd ==
  ASSUME TypeOK, TableInv, ContentsInv, [Next]_vars, NEW t \in NewTasks,
         t \in served, \A u \in TaskUpdates : Commits(u) => updatedTask[u] # t
  PROVE  TestsOf(t)' \subseteq TestsOf(t)
<1>1. CASE Still
  BY <1>1 DEF Still, TestsOf
<1>2. ASSUME NEW gone \in SUBSET NewTasks, Removes(gone)
      PROVE  TestsOf(t)' \subseteq TestsOf(t)
  BY <1>2, RemovedContents DEF Removes
<1>3. ASSUME NEW r \in TaskRemovals, RemoveTests(r)
      PROVE  TestsOf(t)' \subseteq TestsOf(t)
  BY <1>3, TakenContents
<1>4. ASSUME NEW r \in NewTasks, NEW h \in NewThemes, NEW n \in 0..MaxNew[r],
             CreateTask(r, h, n)
      PROVE  TestsOf(t)' \subseteq TestsOf(t)
  BY <1>4, CreatedContents
<1>5. ASSUME NEW v \in TaskUpdates, Commits(v)
      PROVE  TestsOf(t)' \subseteq TestsOf(t)
  BY <1>5, CommittedContents DEF SameTests
<1> QED BY <1>1, <1>2, <1>3, <1>4, <1>5, ContentsKinds

\* While an update of the task that locks its row is under way no test is added.
LEMMA NoneAdded ==
  ASSUME TypeOK, TableInv, ContentsInv, [Next]_vars, NEW u \in TaskUpdates,
         NEW t \in NewTasks, updatedTask[u] = t, updatePc[u] \in InTransaction,
         AllLock(t), updatePc'[u] # "done"
  PROVE  TestsOf(t)' \subseteq TestsOf(t)
<1>1. t \in served /\ lock[t] = u
  BY DEF TypeOK, EditTypeOK, ContentsInv, UpdateFit, AllLock, InTransaction
<1>2. ASSUME NEW v \in TaskUpdates, Commits(v)
      PROVE  updatedTask[v] # t
  <2>1. v # u /\ updatePc[v] \in InTransaction
    BY <1>2, CommitRows DEF InTransaction
  <2> QED BY <1>1, <2>1 DEF AllLock, TypeOK, EditTypeOK
<1> QED BY <1>1, <1>2, OnlyCommitsAdd

\* The steps that bring an update to its DELETE and from there to its commit.
LEMMA OwnSteps ==
  ASSUME TypeOK, [Next]_vars, NEW u \in TaskUpdates
  PROVE  \/ Same(u)
         \/ BeginDelete(u)
         \/ \E i \in Test : DeleteTest(u, i)
         \/ updatePc'[u] \notin {"deleteFound", "commit"}
<1>1. ASSUME NEW t \in NewTasks, NEW cols \in BOOLEAN, NEW dto,
             FindExisting(u, t, dto, cols)
      PROVE  updatePc'[u] \notin {"deleteFound", "commit"}
  BY <1>1, FindMoves
<1>2. CASE UpdateProgress(u) \/ RollBack(u)
  <2>1. ASSUME NEW i \in Test, UpdateTest(u, i) \/ InsertTest(u, i)
        PROVE  \E pc \in {"writeTests", "failed"} : GotoUpdate(u, pc)
    BY <2>1 DEF UpdateTest, InsertTest, WriteOrFail
  <2>2. \/ BeginDelete(u) \/ \E i \in Test : DeleteTest(u, i)
        \/ \E pc \in {"deleteTests", "writeTests", "done", "failed"} :
             GotoUpdate(u, pc)
    BY <1>2, <2>1 DEF UpdateProgress, UpdateTaskRow, Commit, RollBack
  <2> QED BY <2>2, GotoMoves
<1>3. ASSUME NEW v \in TaskUpdates, v # u,
             \/ \E s \in NewTasks, cols \in BOOLEAN : \E dto \in Dtos(v) :
                  FindExisting(v, s, dto, cols)
             \/ UpdateProgress(v) \/ RollBack(v)
      PROVE  Same(u)
  BY <1>3, FindMoves, UpdateFrame
<1> QED BY <1>1, <1>2, <1>3, OwnMoves

\* Every step keeps that an update without tests deletes all its task has.
LEMMA EmptiesKept ==
  ASSUME TypeOK, TableInv, ContentsInv, WholeInv, [Next]_vars,
         NEW u \in TaskUpdates
  PROVE  Empties(u)'
<1> SUFFICES ASSUME sent'[u] = Null, updatePc'[u] \in {"deleteFound", "commit"},
                    AllLock(updatedTask[u])'
             PROVE  Empties(u)'
  BY DEF Empties
<1>0. UpdatesGoOn
  BY StepsGoOn
<1>1. CASE BeginDelete(u)
  <2>1. /\ UNCHANGED <<sent, updatedTask, test>>
        /\ found'[u] = IF sent[u] = Null THEN TestsOf(updatedTask[u])
                         ELSE (existing[u] \ sent[u]) \cap TestsOf(updatedTask[u])
        /\ GotoUpdate(u, IF found'[u] = {} THEN AfterDelete(u) ELSE "deleteFound")
    BY <1>1 DEF BeginDelete, GotoUpdate, TypeOK, StoreTypeOK
  <2>2. TestsOf(updatedTask[u])' = TestsOf(updatedTask[u])
    BY <2>1 DEF TestsOf
  <2>3. found'[u] = TestsOf(updatedTask[u])
    BY <2>1
  <2>4. updatePc'[u] = IF found'[u] = {} THEN AfterDelete(u) ELSE "deleteFound"
    BY <2>1, GotoMoves
  <2>5. updatePc'[u] = "commit" => found'[u] = {}
    BY <2>4
  <2> QED BY <2>2, <2>3, <2>5 DEF Empties
<1>2. ASSUME NEW i \in Test, DeleteTest(u, i)
      PROVE  Empties(u)'
  <2>1. /\ updatePc[u] = "deleteFound" /\ UNCHANGED <<sent, updatedTask, test>>
        /\ i \in found[u] /\ found'[u] = found[u] \ {i}
        /\ GotoUpdate(u, IF found[u] = {i} THEN AfterDelete(u) ELSE "deleteFound")
        /\ IF test[i] # Null THEN Write(u, i, Null) ELSE UNCHANGED draft
    BY <1>2 DEF DeleteTest, Write, GotoUpdate, TypeOK, StoreTypeOK
  <2>2. updatedTask[u] \in NewTasks /\ AllLock(updatedTask[u])
    <3>1. PICK t \in NewTasks : t = updatedTask[u]
      BY <2>1 DEF TypeOK, EditTypeOK
    <3>2. AllLock(t)'
      BY <2>1, <3>1 DEF AllLock
    <3> QED BY <1>0, <3>1, <3>2, AllLockBefore
  <2>3. TestsOf(updatedTask[u]) \subseteq found[u] \cup DOMAIN draft[u]
    BY <2>1, <2>2 DEF WholeInv, Empties
  <2>4. /\ DOMAIN draft[u] \subseteq DOMAIN draft'[u]
        /\ test[i] # Null => i \in DOMAIN draft'[u]
    <3>1. Null \in Nullable(TestRow)
      BY DEF Nullable
    <3> QED BY <2>1, <3>1, WriteTypes DEF TypeOK
  <2>5. TestsOf(updatedTask[u]) \subseteq found'[u] \cup DOMAIN draft'[u]
    BY <2>1, <2>3, <2>4 DEF TestsOf
  <2>6. TestsOf(updatedTask[u])' = TestsOf(updatedTask[u])
    BY <2>1 DEF TestsOf
  <2>7. updatePc'[u] = "commit" => found'[u] = {}
    BY <2>1, GotoMoves
  <2> QED BY <2>5, <2>6, <2>7 DEF Empties
<1>3. CASE Same(u)
  <2>1. PICK t \in NewTasks : t = updatedTask[u] /\ t = updatedTask'[u]
    BY <1>3 DEF Same, TypeOK, EditTypeOK
  <2>2. AllLock(t)
    <3>1. AllLock(t)'
      BY <2>1 DEF AllLock
    <3> QED BY <1>0, <3>1, AllLockBefore
  <2>3. TestsOf(t)' \subseteq TestsOf(t)
    BY <1>3, <2>1, <2>2, NoneAdded DEF Same, InTransaction
  <2>4. TestsOf(updatedTask[u])' = TestsOf(t)'
    BY <2>1 DEF TestsOf
  <2>5. Empties(u)
    BY DEF WholeInv
  <2> QED BY <1>3, <2>1, <2>2, <2>3, <2>4, <2>5 DEF Empties, Same
<1> QED BY <1>1, <1>2, <1>3, OwnSteps

\* Updates of a task do not mix their writes.
THEOREM LastUpdateWholeHolds == Spec => []LastUpdateWhole
<1>1. Init => WholeInv
  BY DEF Init, StoreInit, EditInit, WholeInv, Whole, Empties
<1>2. TypeOK /\ TableInv /\ ContentsInv /\ WholeInv /\ [Next]_vars => WholeInv'
  BY WholesKept, EmptiesKept DEF WholeInv
<1>3. WholeInv => LastUpdateWhole
  BY DEF WholeInv, Whole, LastUpdateWhole
<1> QED BY <1>1, <1>2, <1>3, ContentsInvariant, PTL DEF Spec

-----------------------------------------------------------------------------
(* Updates one after the other.                                            *)

\* How far an update has come with the tests that it does not want: it has read,
\* then found, then deleted all of them.
Clears(u) ==
  LET t == updatedTask[u]
  IN  /\ updatePc[u] \in {"updateTask", "deleteTests"} =>
           TestsOf(t) \subseteq existing[u]
      /\ updatePc[u] = "deleteFound" =>
           TestsOf(t) \subseteq found[u] \cup Wanted(u) \cup DOMAIN draft[u]
      /\ updatePc[u] \in {"writeTests", "commit"} =>
           TestsOf(t) \subseteq DOMAIN draft[u] \cup Wanted(u)

SerialInv(t) ==
  /\ LeavesOnlySent(t)
  /\ \A u \in TaskUpdates : updatedTask[u] = t => Clears(u)

\* An update that is alone with its task, while no step adds a test to it.
LEMMA ClearsKept ==
  ASSUME TypeOK, TableInv, ContentsInv, [Next]_vars, NEW u \in TaskUpdates,
         Clears(u), updatePc[u] # "idle",
         \A v \in TaskUpdates : Commits(v) => updatedTask[v] # updatedTask[u]
  PROVE  Clears(u)'
<1>0. UpdatesGoOn /\ u \in TaskWriter
  BY StepsGoOn DEF TaskWriter
<1>1. PICK t \in NewTasks : t = updatedTask[u] /\ t # Null
  BY UpdatesTask
<1>2. updatedTask'[u] = t /\ sent'[u] = sent[u] /\ Wanted(u)' = Wanted(u)
  BY <1>0, <1>1 DEF UpdatesGoOn, Wanted
<1>3. ASSUME updatePc[u] # "failed"
      PROVE  TestsOf(t)' \subseteq TestsOf(t)
  <2>1. t \in served
    BY <1>1, <1>3 DEF ContentsInv, UpdateFit
  <2> QED BY <1>1, <2>1, OnlyCommitsAdd
<1> DEFINE Cleared(pc, rows, read, hit, written) ==
      /\ pc \in {"updateTask", "deleteTests"} => rows \subseteq read
      /\ pc = "deleteFound" => rows \subseteq hit \cup Wanted(u) \cup written
      /\ pc \in {"writeTests", "commit"} => rows \subseteq written \cup Wanted(u)
<1>4. Cleared(updatePc[u], TestsOf(t), existing[u], found[u], DOMAIN draft[u])
  BY <1>1 DEF Clears
<1>5. SUFFICES Cleared(updatePc'[u], TestsOf(t)', existing'[u], found'[u],
                       DOMAIN draft'[u])
  <2>1. TestsOf(updatedTask[u])' = TestsOf(t)'
    BY <1>2 DEF TestsOf
  <2> QED BY <1>2, <2>1 DEF Clears
<1>6. CASE Same(u)
  <2>1. updatePc[u] = "failed" => updatePc'[u] = "failed"
    BY <1>6 DEF Same
  <2>2. /\ updatePc'[u] = updatePc[u] /\ existing'[u] = existing[u]
        /\ found'[u] = found[u] /\ draft'[u] = draft[u]
    BY <1>6 DEF Same
  <2>3. CASE updatePc[u] = "failed"
    BY <2>1, <2>3
  <2>4. CASE updatePc[u] # "failed"
    BY <1>3, <1>4, <2>2, <2>4
  <2> QED BY <2>3, <2>4
<1>7. CASE UpdateProgress(u) \/ RollBack(u)
  <2>1. ASSUME NEW pc, GotoUpdate(u, pc)
        PROVE  updatePc'[u] = pc
    BY <2>1, GotoMoves
  <2>2. updatePc[u] # "failed" /\ TestsOf(t)' \subseteq TestsOf(t)
    BY <1>3, <1>7, UpdateFrame DEF InTransaction
  <2>3. CASE UpdateTaskRow(u)
    <3>1. UNCHANGED existing /\ updatePc[u] = "updateTask"
          /\ updatePc'[u] \in {"deleteTests", "failed"}
      BY <2>1, <2>3 DEF UpdateTaskRow
    <3> QED BY <1>4, <2>2, <3>1
  <2>4. CASE BeginDelete(u)
    <3>1. /\ updatePc[u] = "deleteTests"
          /\ found'[u] = IF sent[u] = Null THEN TestsOf(t)
                           ELSE (existing[u] \ sent[u]) \cap TestsOf(t)
          /\ GotoUpdate(u, IF found'[u] = {} THEN AfterDelete(u) ELSE "deleteFound")
      BY <1>1, <2>4 DEF BeginDelete, TypeOK, StoreTypeOK
    <3>2. TestsOf(t) \subseteq found'[u] \cup Wanted(u)
      BY <1>4, <3>1 DEF Wanted
    <3>3. /\ updatePc'[u] \in {"deleteFound", "commit", "writeTests"}
          /\ updatePc'[u] # "deleteFound" => found'[u] = {}
      BY <2>1, <3>1 DEF AfterDelete
    <3> QED BY <2>2, <3>2, <3>3
  <2>5. ASSUME NEW i \in Test, DeleteTest(u, i)
        PROVE  Cleared(updatePc'[u], TestsOf(t)', existing'[u], found'[u],
                       DOMAIN draft'[u])
    <3>1. /\ updatePc[u] = "deleteFound" /\ i \in found[u]
          /\ found'[u] = found[u] \ {i}
          /\ GotoUpdate(u, IF found[u] = {i} THEN AfterDelete(u) ELSE "deleteFound")
          /\ IF test[i] # Null THEN Write(u, i, Null) ELSE UNCHANGED draft
      BY <2>5 DEF DeleteTest, TypeOK, StoreTypeOK
    <3>2. /\ DOMAIN draft[u] \subseteq DOMAIN draft'[u]
          /\ test[i] # Null => i \in DOMAIN draft'[u]
      <4>1. Null \in Nullable(TestRow)
        BY DEF Nullable
      <4> QED BY <3>1, <4>1, WriteTypes DEF TypeOK
    <3>3. TestsOf(t) \subseteq found'[u] \cup Wanted(u) \cup DOMAIN draft'[u]
      <4>1. i \in TestsOf(t) => test[i] # Null
        BY DEF TestsOf
      <4> QED BY <1>4, <3>1, <3>2, <4>1
    <3>4. /\ updatePc'[u] \in {"deleteFound", "commit", "writeTests"}
          /\ updatePc'[u] # "deleteFound" => found'[u] = {}
      BY <2>1, <3>1 DEF AfterDelete
    <3> QED BY <2>2, <3>3, <3>4
  <2>6. ASSUME NEW i \in Test, UpdateTest(u, i) \/ InsertTest(u, i)
        PROVE  Cleared(updatePc'[u], TestsOf(t)', existing'[u], found'[u],
                       DOMAIN draft'[u])
    <3>1. CASE GotoUpdate(u, "failed")
      BY <2>1, <3>1
    <3>2. ASSUME NEW row \in Nullable(TestRow), Write(u, i, row),
                 GotoUpdate(u, "writeTests"), updatePc[u] = "writeTests"
          PROVE  Cleared(updatePc'[u], TestsOf(t)', existing'[u], found'[u],
                         DOMAIN draft'[u])
      <4>1. DOMAIN draft[u] \subseteq DOMAIN draft'[u]
        BY <3>2, WriteTypes DEF TypeOK
      <4> QED BY <1>4, <2>1, <2>2, <3>2, <4>1
    <3>3. CASE UpdateTest(u, i)
      <4>1. test[i] # Null => [taskId |-> test[i].taskId, by |-> u] \in Nullable(TestRow)
        BY DEF TypeOK, StoreTypeOK, TestRow, TaskWriter, Nullable
      <4> QED BY <3>1, <3>2, <3>3, <4>1 DEF UpdateTest, WriteOrFail
    <3>4. CASE InsertTest(u, i)
      <4>1. [taskId |-> updatedTask[u], by |-> u] \in Nullable(TestRow)
        BY <1>1 DEF TestRow, TaskWriter, Nullable
      <4> QED BY <3>1, <3>2, <3>4, <4>1 DEF InsertTest, WriteOrFail
    <3> QED BY <2>6, <3>3, <3>4
  <2>7. CASE Commit(u) \/ RollBack(u)
    <3>1. updatePc'[u] \in {"done", "failed"}
      BY <2>1, <2>7 DEF Commit, RollBack
    <3> QED BY <3>1
  <2> QED BY <1>7, <2>3, <2>4, <2>5, <2>6, <2>7 DEF UpdateProgress
<1>8. ASSUME NEW v \in TaskUpdates,
             \/ \E s \in NewTasks, cols \in BOOLEAN : \E dto \in Dtos(v) :
                  FindExisting(v, s, dto, cols)
             \/ v # u /\ (UpdateProgress(v) \/ RollBack(v))
      PROVE  Same(u)
  <2>1. ASSUME NEW s \in NewTasks, NEW cols \in BOOLEAN, NEW dto,
               FindExisting(v, s, dto, cols)
        PROVE  Same(u)
    BY <2>1, FindMoves
  <2> QED BY <1>8, <2>1, UpdateFrame
<1> QED BY <1>6, <1>7, <1>8, OwnMoves

\* A task whose row stays, and whose tests go at most.
LEMMA OnlySentKept ==
  ASSUME TypeOK, ContentsInv, [Next]_vars, NEW t \in NewTasks, LeavesOnlySent(t),
         task'[t] = task[t], TestsOf(t)' \subseteq TestsOf(t)
  PROVE  LeavesOnlySent(t)'
<1> SUFFICES ASSUME task[t] # Null
             PROVE  Wanted(task[t].by)' = Wanted(task[t].by)
  BY DEF LeavesOnlySent, Wanted
<1>1. PICK w \in TaskWriter : w = task[t].by
  BY DEF TypeOK, StoreTypeOK, TaskRow, Nullable
<1>2. sent'[w] = sent[w]
  BY <1>1, StepsGoOn DEF ContentsInv, TaskFit, UpdatesGoOn
<1> QED BY <1>1, <1>2 DEF Wanted

\* The step after a state with one update under way leaves only what was sent.
LEMMA OnlySentNext ==
  ASSUME TypeOK, TableInv, ContentsInv, [Next]_vars, NEW t \in NewTasks,
         SerialInv(t)
  PROVE  LeavesOnlySent(t)'
<1> USE DEF SerialInv
<1>1. CASE Still
  <2>1. TestsOf(t)' = TestsOf(t) /\ task'[t] = task[t]
    BY <1>1 DEF Still, TestsOf
  <2> QED BY <2>1, OnlySentKept
<1>2. ASSUME NEW gone \in SUBSET NewTasks, Removes(gone)
      PROVE  LeavesOnlySent(t)'
  <2>1. CASE t \in gone
    BY <1>2, <2>1, RemovedContents DEF Removes, LeavesOnlySent
  <2>2. CASE t \notin gone
    BY <1>2, <2>2, RemovedContents, OnlySentKept DEF Removes
  <2> QED BY <2>1, <2>2
<1>3. ASSUME NEW r \in TaskRemovals, RemoveTests(r)
      PROVE  LeavesOnlySent(t)'
  BY <1>3, TakenContents, OnlySentKept
<1>4. ASSUME NEW r \in NewTasks, NEW h \in NewThemes, NEW n \in 0..MaxNew[r],
             CreateTask(r, h, n)
      PROVE  LeavesOnlySent(t)'
  <2>1. CASE t # r
    BY <1>4, <2>1, CreatedContents, OnlySentKept
  <2>2. CASE t = r /\ UNCHANGED <<task, test>>
    BY <1>4, <2>2, CreatedContents DEF LeavesOnlySent
  <2>3. CASE t = r /\ ~UNCHANGED <<task, test>>
    BY <1>4, <2>3, CreatedContents DEF LeavesOnlySent, Wanted
  <2> QED BY <2>1, <2>2, <2>3
<1>5. ASSUME NEW u \in TaskUpdates, Commits(u)
      PROVE  LeavesOnlySent(t)'
  <2>1. CASE t # updatedTask[u]
    BY <1>5, <2>1, CommittedContents, CommitRows, OnlySentKept DEF SameTests
  <2>2. CASE t = updatedTask[u]
    <3>1. /\ updatePc[u] \in {"commit", "writeTests"} /\ task'[t].by = u
          /\ UNCHANGED sent
      BY <1>5, <2>2, CommitRows
    <3>2. TestsOf(t) \subseteq DOMAIN draft[u] \cup Wanted(u)
      BY <2>2, <3>1 DEF Clears
    <3>3. \A i \in TestsOf(t)' :
            i \in Wanted(u) \/ i \in TestsOf(t) \ DOMAIN draft[u]
      BY <1>5, <2>2, CommittedContents
    <3> QED BY <3>1, <3>2, <3>3 DEF LeavesOnlySent, Wanted
  <2> QED BY <2>1, <2>2
<1> QED BY <1>1, <1>2, <1>3, <1>4, <1>5, ContentsKinds

\* SerialInv is kept while the updates of the task come one after the other.
LEMMA SerialKept ==
  ASSUME TypeOK, TableInv, ContentsInv, [Next]_vars, NEW t \in NewTasks,
         SerialInv(t), Alone(t)
  PROVE  SerialInv(t)'
<1>1. ASSUME NEW u \in TaskUpdates, updatedTask'[u] = t
      PROVE  Clears(u)'
  <2>1. ASSUME NEW s \in NewTasks, NEW cols \in BOOLEAN, NEW dto,
               FindExisting(u, s, dto, cols)
        PROVE  Clears(u)'
    <3>1. /\ updatePc'[u] \in {"updateTask", "failed"}
          /\ existing'[u] = TestsOf(t) /\ UNCHANGED test
      BY <1>1, <2>1, FindMoves
    <3> QED BY <1>1, <3>1 DEF Clears, TestsOf
  <2>2. CASE updatePc[u] = "idle" /\ ~(\E s \in NewTasks, cols \in BOOLEAN :
               \E dto \in Dtos(u) : FindExisting(u, s, dto, cols))
    <3>1. ASSUME NEW v \in TaskUpdates, v # u,
                 \/ \E s \in NewTasks, cols \in BOOLEAN : \E dto \in Dtos(v) :
                      FindExisting(v, s, dto, cols)
                 \/ UpdateProgress(v) \/ RollBack(v)
          PROVE  Same(u)
      <4>1. ASSUME NEW s \in NewTasks, NEW cols \in BOOLEAN, NEW dto,
                   FindExisting(v, s, dto, cols)
            PROVE  Same(u)
        BY <3>1, <4>1, FindMoves
      <4> QED BY <3>1, <4>1, UpdateFrame
    <3>2. ~UpdateProgress(u) /\ ~RollBack(u)
      BY <2>2, UpdateFrame DEF InTransaction
    <3>3. updatePc'[u] = "idle"
      BY <2>2, <3>1, <3>2, OwnMoves DEF Same
    <3> QED BY <3>3 DEF Clears
  <2>3. CASE updatePc[u] # "idle"
    <3>1. updatedTask[u] = t
      BY <1>1, <2>3, StepsGoOn, UpdatesTask DEF UpdatesGoOn
    <3>2. CASE \A v \in TaskUpdates : Commits(v) => updatedTask[v] # t
      BY <2>3, <3>1, <3>2, ClearsKept DEF SerialInv
    <3>3. ASSUME NEW v \in TaskUpdates, Commits(v), updatedTask[v] = t
          PROVE  updatePc'[u] \in {"done", "failed"}
      <4>1. UnderWay(v) /\ updatePc'[v] = "done"
        BY <3>3, CommitRows DEF UnderWay
      <4>2. u = v \/ ~UnderWay(u)
        BY <3>1, <3>3, <4>1 DEF Alone
      <4>3. u # v => updatePc'[u] = updatePc[u]
        BY <3>3, CommitRows DEF Same
      <4> QED BY <2>3, <4>1, <4>2, <4>3 DEF UnderWay
    <3> QED BY <3>2, <3>3 DEF Clears
  <2> QED BY <2>1, <2>2, <2>3
<1> QED BY <1>1, OnlySentNext DEF SerialInv

\* Updates of a task that come one after the other leave it the tests that the
\* last of them sent and no other.
THEOREM SerialUpdatesLeaveOnlySentHolds == Spec => SerialUpdatesLeaveOnlySent
<1> SUFFICES ASSUME NEW t \in NewTasks
             PROVE  Spec => ([]Alone(t) => []LeavesOnlySent(t))
  BY DEF SerialUpdatesLeaveOnlySent
<1>1. Init => SerialInv(t)
  <2>1. ASSUME Init
        PROVE  task[t] = Null /\ \A u \in TaskUpdates : updatePc[u] = "idle"
    BY <2>1 DEF Init, StoreInit, EditInit
  <2> QED BY <2>1 DEF SerialInv, LeavesOnlySent, Clears
<1>2. TypeOK /\ TableInv /\ ContentsInv /\ [Next]_vars /\ SerialInv(t) /\ Alone(t)
        => SerialInv(t)'
  BY SerialKept
<1>3. SerialInv(t) => LeavesOnlySent(t)
  BY DEF SerialInv
<1> QED BY <1>1, <1>2, <1>3, ContentsInvariant, PTL DEF Spec

-----------------------------------------------------------------------------
(* Who waits for whom.                                                     *)

\* Whoever holds a row has a transaction open or a DELETE under way.
LEMMA HoldersHold ==
  ASSUME TypeOK, ContentsInv, NEW x
  PROVE  Writers(x) \subseteq RowHolders /\ Holders(x) \subseteq RowHolders
<1>1. ASSUME NEW r \in Deleters(x)
      PROVE  r \in RowHolders
  <2>1. r \in Removals /\ taken[r] # {}
    BY DEF Deleters
  <2> QED BY <2>1 DEF RowHolders, TypeOK, CatalogTypeOK, RemovalTypeOK
<1>2. ASSUME NEW u \in TaskUpdates, DOMAIN draft[u] # {}
      PROVE  u \in RowHolders
  BY <1>2 DEF RowHolders, TypeOK, EditTypeOK, NoDraft
<1>3. ASSUME NEW u \in TaskUpdates, x \in NewTasks, lock[x] = u
      PROVE  u \in RowHolders
  BY <1>3 DEF RowHolders, ContentsInv, LockFit
<1>4. ASSUME NEW u \in TaskUpdates, x \in KeyShared(u)
      PROVE  u \in RowHolders
  BY <1>2, <1>4 DEF KeyShared
<1>5. Writers(x) \subseteq RowHolders
  BY <1>1, <1>2, <1>3 DEF Writers
<1> QED BY <1>4, <1>5 DEF Holders

\* What an update that names no test of another task has written, and may come to
\* next.
LEMMA CarefulTests ==
  ASSUME TypeOK, TableInv, ContentsInv, NEW u \in TaskUpdates, Careful(u)
  PROVE  /\ updatedTask[u] \in NewTasks
         /\ \A i \in DOMAIN draft[u] : i \in Test /\ TaskOf(i) = updatedTask[u]
         /\ \A i \in NextTests(u) : i \in Test /\ TaskOf(i) = updatedTask[u]
         /\ \A x \in KeyShared(u) : x = updatedTask[u]
         /\ updatePc[u] \in InTransaction => lock[updatedTask[u]] = u
<1>1. updatedTask[u] \in NewTasks
  BY DEF Careful, UnderWay, TypeOK, EditTypeOK
<1>2. ASSUME NEW i \in Wanted(u)
      PROVE  i \in Test /\ TaskOf(i) = updatedTask[u]
  <2>1. i \in Test /\ BelongsTo(i, updatedTask[u])
    BY DEF Wanted, Careful, TypeOK, EditTypeOK, Nullable, TaskWriter
  <2> QED BY <1>1, <2>1, Belongs
<1>3. DOMAIN draft[u] \subseteq Test /\ UpdateFit(u) /\ DraftFits(u)
  BY DEF TypeOK, StoreTypeOK, ContentsInv, TableInv, DraftInv
<1>4. \A i \in DOMAIN draft[u] : i \in Test /\ TaskOf(i) = updatedTask[u]
  BY <1>2, <1>3 DEF UpdateFit
<1>5. \A i \in NextTests(u) : i \in Test /\ TaskOf(i) = updatedTask[u]
  <2>1. CASE updatePc[u] = "deleteFound"
    BY <1>3, <2>1 DEF NextTests, UpdateFit
  <2>2. CASE updatePc[u] = "writeTests"
    <3>1. NextTests(u) \subseteq sent[u] /\ sent[u] # Null
      BY <2>2 DEF NextTests, Unwritten, TypeOK, EditTypeOK
    <3> QED BY <1>2, <3>1 DEF Wanted
  <2> QED BY <2>1, <2>2 DEF NextTests
<1>6. \A x \in KeyShared(u) : x = updatedTask[u]
  BY <1>3 DEF KeyShared, DraftFits
<1>7. updatePc[u] \in InTransaction => lock[updatedTask[u]] = u
  BY DEF Careful, TypeOK, EditTypeOK
<1> QED BY <1>1, <1>4, <1>5, <1>6, <1>7

\* An update waits for open transactions and DELETEs under way only.
LEMMA WaitsForHolders ==
  ASSUME TypeOK, ContentsInv, NEW u \in TaskUpdates
  PROVE  WaitsFor(u) \subseteq RowHolders
<1>1. \A i \in NextTests(u) : Ahead(u, i) \subseteq RowHolders
  BY HoldersHold DEF Ahead, Writers
<1> QED BY <1>1, HoldersHold DEF WaitsFor

\* A careful update that waits for another one waits for the row of its task.
LEMMA CarefulWaits ==
  ASSUME TypeOK, TableInv, ContentsInv, NEW u \in CarefulUpdates,
         NEW v \in WaitsFor(u) \cap CarefulUpdates
  PROVE  /\ updatedTask[v] = updatedTask[u] /\ updatedTask[v] \in NewTasks
         /\ updatePc[u] = "updateTask" /\ lock[updatedTask[v]] = v
<1>0. /\ u \in TaskUpdates /\ Careful(u) /\ v \in TaskUpdates /\ Careful(v)
      /\ v \notin Removals
  BY DEF CarefulUpdates
<1>1. /\ updatedTask[u] \in NewTasks /\ updatedTask[v] \in NewTasks
      /\ \A i \in DOMAIN draft[v] : i \in Test /\ TaskOf(i) = updatedTask[v]
      /\ \A i \in NextTests(u) : i \in Test /\ TaskOf(i) = updatedTask[u]
      /\ updatePc[v] \in InTransaction => lock[updatedTask[v]] = v
      /\ updatePc[u] \in InTransaction => lock[updatedTask[u]] = u
  BY <1>0, CarefulTests
<1>2. updatePc[v] \in InTransaction
  <2>1. v \in RowHolders
    BY <1>0, WaitsForHolders
  <2> QED BY <1>0, <2>1 DEF RowHolders
<1>3. CASE UpdatesRow(u) /\ v \in Writers(updatedTask[u])
  <2>1. updatedTask[u] \notin Test
    BY <1>1
  <2>2. updatedTask[u] \notin DOMAIN draft[v]
    BY <1>1, <2>1
  <2>3. lock[updatedTask[u]] = v
    BY <1>0, <1>3, <2>2 DEF Writers, Deleters
  <2>4. updatedTask[v] = updatedTask[u]
    BY <1>0, <1>1, <2>3 DEF ContentsInv, LockFit
  <2> QED BY <1>1, <1>3, <2>3, <2>4 DEF UpdatesRow
<1>4. ASSUME NEW i \in NextTests(u), v \in Ahead(u, i)
      PROVE  FALSE
  <2>1. v \in Writers(i) \ {u}
    BY <1>0, <1>4 DEF Ahead, Deleters
  <2>2. i \notin NewTasks
    BY <1>1
  <2>3. i \in DOMAIN draft[v] /\ v # u
    BY <1>0, <2>1, <2>2 DEF Writers, Deleters
  <2>4. updatedTask[v] = updatedTask[u]
    BY <1>1, <2>3
  <2>5. updatePc[u] \in InTransaction
    BY <1>4 DEF NextTests, InTransaction
  <2> QED BY <1>1, <1>2, <2>3, <2>4, <2>5
<1> QED BY <1>3, <1>4 DEF WaitsFor

\* What a DELETE of a task waits for at a row.
LEMMA RemovalWaits ==
  ASSUME TypeOK, TableInv, ContentsInv, NEW r \in TaskRemovals,
         NEW u \in RemovalWaitsFor(r) \cap CarefulUpdates
  PROVE  updatedTask[u] = removedTask[r]
<1> DEFINE t == removedTask[r]
<1>0. u \in TaskUpdates /\ Careful(u) /\ u \notin Removals
  BY DEF CarefulUpdates
<1>1. PICK x \in ToTake(r) : u \in Holders(x)
  BY DEF RemovalWaitsFor
<1>2. removePc[r] # "idle"
  <2>1. ASSUME removePc[r] = "idle"
        PROVE  ToTake(r) = {}
    <3>1. found[r] = {} /\ taken[r] = {}
      BY <2>1 DEF TypeOK, CatalogTypeOK, RemovalTypeOK, Removals
    <3>2. BuildsOf({}) = {}
      BY DEF BuildsOf
    <3> QED BY <3>1, <3>2 DEF ToTake, HangingOn
  <2> QED BY <1>1, <2>1
<1>3. x \in Removable(t) /\ t \in NewTasks
  BY <1>1, <1>2, ToTakeFits DEF TypeOK, EditTypeOK
<1>4. /\ updatedTask[u] \in NewTasks
      /\ \A i \in DOMAIN draft[u] : i \in Test /\ TaskOf(i) = updatedTask[u]
      /\ \A y \in KeyShared(u) : y = updatedTask[u]
  BY <1>0, CarefulTests
<1>5. /\ x \in Test => TaskOf(x) = t
      /\ x \in NewTasks => x = t
  BY <1>3 DEF Removable
<1>6. \/ x \in DOMAIN draft[u]
      \/ x \in NewTasks /\ lock[x] = u
      \/ x \in KeyShared(u)
  BY <1>0, <1>1 DEF Holders, Writers, Deleters
<1>7. CASE x \in NewTasks /\ lock[x] = u
  BY <1>0, <1>5, <1>7 DEF ContentsInv, LockFit
<1> QED BY <1>4, <1>5, <1>6, <1>7

\* Updates that lock their task's row and name no test of another task wait in line
\* for it.
THEOREM EditsWaitInLineHolds == Spec => []EditsWaitInLine
<1>1. TypeOK /\ TableInv /\ ContentsInv => EditsWaitInLine
  <2> SUFFICES ASSUME TypeOK, TableInv, ContentsInv
               PROVE  EditsWaitInLine
    OBVIOUS
  <2>1. \A u \in TaskUpdates : WaitsFor(u) \subseteq RowHolders
    BY WaitsForHolders
  <2>2. \A r \in Removals : RemovalWaitsFor(r) \subseteq RowHolders
    BY HoldersHold DEF RemovalWaitsFor
  <2>3. ASSUME NEW u \in CarefulUpdates, NEW v \in WaitsFor(u) \cap CarefulUpdates
        PROVE  /\ updatedTask[v] = updatedTask[u]
               /\ WaitsFor(v) \cap CarefulUpdates = {}
    <3>1. updatePc[v] \in InTransaction
      <4>1. v \in RowHolders /\ v \in TaskUpdates /\ v \notin Removals
        BY WaitsForHolders DEF CarefulUpdates
      <4> QED BY <4>1 DEF RowHolders
    <3>2. v \in CarefulUpdates /\ updatePc[v] # "updateTask"
      BY <3>1 DEF InTransaction
    <3>3. WaitsFor(v) \cap CarefulUpdates = {}
      BY <3>2, CarefulWaits
    <3> QED BY <3>3, CarefulWaits
  <2>4. \A r \in TaskRemovals : \A u \in RemovalWaitsFor(r) \cap CarefulUpdates :
          updatedTask[u] = removedTask[r]
    BY RemovalWaits
  <2> QED BY <2>1, <2>2, <2>3, <2>4 DEF EditsWaitInLine
<1> QED BY <1>1, ContentsInvariant, PTL

-----------------------------------------------------------------------------
(* The tasks with their tests change by whole requests.                    *)

Written(t) == [i \in TestsOf(t) |-> test[i].by]

\* The contents of a task, as a record.
LEMMA ContentsAt ==
  ASSUME TypeOK, NEW t \in NewTasks
  PROVE  /\ task[t] = Null => Contents[t] = Null
         /\ task[t] # Null =>
              /\ Contents[t] = [by |-> task[t].by, tests |-> Written(t)]
              /\ Contents[t] # Null
              /\ Contents[t].tests = Written(t)
<1>1. task[t] # Null =>
        Contents[t] = [by |-> task[t].by, tests |-> Written(t)]
  BY DEF Contents, Written
<1>2. Written(t) \in [TestsOf(t) -> TaskWriter] /\ TestsOf(t) \in SUBSET Test
  BY DEF Written, TestsOf, TypeOK, StoreTypeOK, TestRow, Nullable
<1>3. Written(t) \in UNION {[some -> TaskWriter] : some \in SUBSET Test}
  BY <1>2
<1>4. task[t] # Null => task[t].by \in TaskWriter
  BY DEF TypeOK, StoreTypeOK, TaskRow, Nullable
<1>5. task[t] # Null => [by |-> task[t].by, tests |-> Written(t)] \in ContentsRow
  BY <1>3, <1>4 DEF ContentsRow
<1>6. task[t] # Null => Contents[t] # Null
  BY <1>1, <1>5, ContentsNullAssumption
<1>7. task[t] = Null => Contents[t] = Null
  BY DEF Contents
<1> QED BY <1>1, <1>6, <1>7

\* The same after the step.
LEMMA ContentsAfter ==
  ASSUME NEW t \in NewTasks
  PROVE  /\ task'[t] = Null => Contents'[t] = Null
         /\ task'[t] # Null =>
              Contents'[t] = [by |-> task'[t].by,
                              tests |-> [i \in TestsOf(t)' |-> test'[i].by]]
BY DEF Contents

\* A task whose row and tests stay has the same contents.
LEMMA SameContents ==
  ASSUME NEW t \in NewTasks, task'[t] = task[t], TestsOf(t)' = TestsOf(t),
         \A i \in TestsOf(t) : test'[i] = test[i]
  PROVE  Contents'[t] = Contents[t]
<1>1. [i \in TestsOf(t)' |-> test'[i].by] = [i \in TestsOf(t) |-> test[i].by]
  OBVIOUS
<1> QED BY <1>1 DEF Contents

\* The contents are a function of the tasks, before and after the step.
LEMMA ContentsDomain ==
  /\ DOMAIN Contents = NewTasks /\ DOMAIN Contents' = NewTasks
  /\ Contents = [t \in NewTasks |-> Contents[t]]
  /\ Contents' = [t \in NewTasks |-> Contents'[t]]
BY DEF Contents

\* The abstract tests of a task are those in the table.
LEMMA AbstractTests ==
  ASSUME TypeOK, TableInv, NEW t \in NewTasks
  PROVE  TaskContents!TestsOf(t) = TestsOf(t)
<1>1. CASE task[t] = Null
  <2>1. TestsOf(t) = {}
    BY <1>1 DEF TestsOf, TableInv, ParentsExist
  <2> QED BY <1>1, <2>1, ContentsAt DEF TaskContents!TestsOf
<1>2. CASE task[t] # Null
  <2>1. DOMAIN Written(t) = TestsOf(t)
    BY DEF Written
  <2> QED BY <1>2, <2>1, ContentsAt DEF TaskContents!TestsOf
<1> QED BY <1>1, <1>2

\* The creation of a task is one of TaskContents.
LEMMA ImplementsCreate ==
  ASSUME TypeOK, TableInv, ContentsInv, NEW r \in NewTasks, NEW h \in NewThemes,
         NEW n \in 0..MaxNew[r], CreateTask(r, h, n)
  PROVE  TaskContents!Create(r)
<1>1. /\ r \notin CreatedTasks /\ CreatedTasks' = CreatedTasks \cup {r}
      /\ AppliedUpdates' = AppliedUpdates
  BY CreatedContents DEF CreatedTasks, AppliedUpdates
<1>2. CASE UNCHANGED <<task, test>>
  <2>1. Contents' = Contents
    BY <1>2 DEF Contents, TestsOf
  <2> QED BY <1>1, <2>1 DEF TaskContents!Create
<1>3. CASE /\ task'[r] # Null /\ task'[r].by = r
           /\ TestsOf(r)' = sent'[r]
           /\ \A i \in sent'[r] : test'[i].by = r
  <2>1. [i \in TestsOf(r)' |-> test'[i].by] = [i \in sent'[r] |-> r]
    BY <1>3
  <2>2. Contents'[r] = [by |-> r, tests |-> [i \in sent'[r] |-> r]]
    BY <1>3, <2>1, ContentsAfter
  <2>3. \A t \in NewTasks \ {r} : Contents'[t] = Contents[t]
    BY CreatedContents, SameContents
  <2>4. Contents' = [Contents EXCEPT ![r] =
                       [by |-> r, tests |-> [i \in sent'[r] |-> r]]]
    BY <2>2, <2>3, ContentsDomain
  <2> QED BY <1>1, <2>4 DEF TaskContents!Create
<1> QED BY <1>2, <1>3, CreatedContents

\* The tests that a task has after a commit of u, and who wrote them.
LEMMA CommittedTask ==
  ASSUME TypeOK, TableInv, ContentsInv, NEW u \in TaskUpdates, Commits(u),
         NEW s \in NewTasks
  PROVE  /\ s # updatedTask[u] => TestsOf(s)' = TestsOf(s)
         /\ s = updatedTask[u] =>
              /\ TestsOf(s)' \ Wanted(u) \subseteq TestsOf(s)
              /\ TestsOf(s)' \cap Wanted(u) =
                   (TestsOf(s) \cap Wanted(u)) \cup {i \in Wanted(u) : i[1] = u}
         /\ \A i \in TestsOf(s)' :
              test'[i].by = IF i \in Wanted(u) THEN u ELSE test[i].by
<1>1. ASSUME NEW i \in Test
      PROVE  /\ s # updatedTask[u] => (i \in TestsOf(s)' <=> i \in TestsOf(s))
             /\ s = updatedTask[u] /\ i \notin Wanted(u) =>
                  (i \in TestsOf(s)' => i \in TestsOf(s))
             /\ s = updatedTask[u] /\ i \in Wanted(u) =>
                  (i \in TestsOf(s)' <=> i \in TestsOf(s) \/ i[1] = u)
             /\ i \in TestsOf(s)' =>
                  test'[i].by = IF i \in Wanted(u) THEN u ELSE test[i].by
  <2>1. CASE i \in Wanted(u)
    BY <2>1, CommittedRows DEF TestsOf
  <2>2. CASE i \notin Wanted(u)
    BY <2>2, CommittedRows DEF TestsOf
  <2> QED BY <2>1, <2>2
<1>2. TestsOf(s) \subseteq Test /\ TestsOf(s)' \subseteq Test /\ Wanted(u) \subseteq Test
  BY CommittedRows DEF TestsOf
<1> QED BY <1>1, <1>2

\* The commit of an update applies the whole request.
LEMMA ImplementsApply ==
  ASSUME TypeOK, TableInv, ContentsInv, NEW u \in TaskUpdates, Commits(u)
  PROVE  TaskContents!Apply(u, updatedTask[u])
<1>1. PICK t \in NewTasks : t = updatedTask[u]
  BY CommitRows
<1>2. PICK wanted \in SUBSET Test : wanted = Wanted(u)
  BY CommittedRows
<1>3. /\ task[t] # Null /\ UNCHANGED <<served, sent>>
      /\ updatePc[u] # "done" /\ updatePc'[u] = "done"
      /\ \A v \in TaskUpdates \ {u} : updatePc'[v] = updatePc[v]
      /\ task'[t] # Null /\ task'[t].by = u
      /\ \A s \in NewTasks \ {t} : task'[s] = task[s]
  BY <1>1, CommitRows DEF Commits, Same
<1>4. /\ u \notin AppliedUpdates /\ AppliedUpdates' = AppliedUpdates \cup {u}
      /\ CreatedTasks' = CreatedTasks
  BY <1>3 DEF AppliedUpdates, CreatedTasks
<1>5. Contents[t] # Null
  BY <1>3, ContentsAt
<1>6. TaskContents!Sent(u) = wanted
  BY <1>2 DEF TaskContents!Sent, Wanted
<1>7. TaskContents!NewOf(u) = {i \in wanted : i[1] = u}
  BY <1>6 DEF TaskContents!NewOf
<1>8. \A s \in NewTasks : TaskContents!TestsOf(s) = TestsOf(s)
  BY AbstractTests
<1>9. wanted \ TaskContents!NewOf(u)
        \subseteq UNION {TaskContents!TestsOf(s) : s \in NewTasks}
  <2>1. ASSUME NEW i \in wanted, i[1] # u
        PROVE  \E s \in NewTasks : i \in TestsOf(s)
    <3>1. test[i] # Null /\ i \in Test
      BY <1>2, <2>1, CommittedRows
    <3>2. test[i].taskId \in NewTasks
      BY <3>1 DEF TypeOK, StoreTypeOK, TestRow, Nullable
    <3> QED BY <3>1, <3>2 DEF TestsOf
  <2> QED BY <1>7, <1>8, <2>1
<1> DEFINE after(s) == TestsOf(s)'
           kept == after(t) \ wanted
           there(s) == IF s = t
                         THEN kept \cup (TestsOf(t) \cap wanted)
                                \cup TaskContents!NewOf(u)
                         ELSE TestsOf(s)
           writer(s, i) == IF i \in wanted THEN u ELSE Contents[s].tests[i]
           row(s) == [by    |-> IF s = t THEN u ELSE Contents[s].by,
                      tests |-> [i \in there(s) |-> writer(s, i)]]
<1>10. \A s \in NewTasks :
         /\ s # t => after(s) = TestsOf(s)
         /\ s = t => /\ kept \subseteq TestsOf(s)
                     /\ after(s) \cap wanted =
                          (TestsOf(s) \cap wanted) \cup {i \in wanted : i[1] = u}
         /\ \A i \in after(s) :
              test'[i].by = IF i \in wanted THEN u ELSE test[i].by
  BY <1>1, <1>2, CommittedTask
<1>11. \A s \in NewTasks : after(s) = there(s)
  BY <1>7, <1>10
<1>12. ASSUME NEW s \in NewTasks, task[s] # Null
       PROVE  Contents'[s] = row(s)
  <2>1. Contents[s].by = task[s].by /\ Contents[s].tests = Written(s)
    <3>1. /\ Contents[s] = [by |-> task[s].by, tests |-> Written(s)]
          /\ Contents[s].tests = Written(s)
      BY <1>12, ContentsAt
    <3> HIDE DEF Written
    <3>2. Contents[s].by = task[s].by
      BY <3>1
    <3> QED BY <3>1, <3>2
  <2>2. ASSUME NEW i \in there(s)
        PROVE  test'[i].by = writer(s, i)
    <3>1. i \in after(s)
      BY <1>11
    <3>2. i \notin wanted => i \in TestsOf(s)
      BY <1>10, <3>1
    <3>3. i \notin wanted => Contents[s].tests[i] = test[i].by
      BY <2>1, <3>2 DEF Written
    <3> QED BY <1>10, <3>1, <3>3
  <2>3. [i \in TestsOf(s)' |-> test'[i].by] = [i \in there(s) |-> writer(s, i)]
    <3>1. TestsOf(s)' = there(s)
      BY <1>11
    <3> HIDE DEF there, writer
    <3> QED BY <2>2, <3>1
  <2>4. /\ task'[s] # Null
        /\ task'[s].by = IF s = t THEN u ELSE Contents[s].by
    BY <1>3, <1>12, <2>1
  <2>5. Contents'[s] = [by |-> task'[s].by,
                        tests |-> [i \in TestsOf(s)' |-> test'[i].by]]
    BY <2>4, ContentsAfter
  <2> HIDE DEF there, writer
  <2> QED BY <2>3, <2>4, <2>5
<1>13. ASSUME NEW s \in NewTasks, task[s] = Null
       PROVE  Contents[s] = Null /\ Contents'[s] = Null
  BY <1>3, <1>13, ContentsAt, ContentsAfter
<1>14. \A s \in NewTasks : Contents[s] = Null <=> task[s] = Null
  BY ContentsAt
<1>15. Contents' = [s \in NewTasks |-> IF Contents[s] = Null THEN Null ELSE row(s)]
  <2> HIDE DEF row
  <2> QED BY <1>12, <1>13, <1>14, ContentsDomain
<1>16. \E some \in SUBSET (TaskContents!TestsOf(t) \ TaskContents!Sent(u)) :
         LET left(s) == IF s = t
               THEN some \cup (TaskContents!TestsOf(t) \cap TaskContents!Sent(u))
                      \cup TaskContents!NewOf(u)
               ELSE TaskContents!TestsOf(s)
         IN  Contents' = [s \in NewTasks |-> IF Contents[s] = Null THEN Null ELSE
               [by    |-> IF s = t THEN u ELSE Contents[s].by,
                tests |-> [i \in left(s) |-> IF i \in TaskContents!Sent(u) THEN u
                             ELSE Contents[s].tests[i]]]]
  <2>1. kept \in SUBSET (TaskContents!TestsOf(t) \ TaskContents!Sent(u))
    BY <1>6, <1>8, <1>10
  <2> WITNESS kept \in SUBSET (TaskContents!TestsOf(t) \ TaskContents!Sent(u))
  <2> QED BY <1>6, <1>8, <1>15
<1>17. /\ Contents[t] # Null
       /\ TaskContents!Sent(u) \ TaskContents!NewOf(u)
            \subseteq UNION {TaskContents!TestsOf(s) : s \in NewTasks}
  BY <1>5, <1>6, <1>9
<1>18. TaskContents!Apply(u, t)
  BY <1>4, <1>16, <1>17 DEF TaskContents!Apply
<1> QED BY <1>1, <1>18

\* The first statement of a removal takes tests of its task, or is not seen when
\* there are none.
LEMMA ImplementsTake ==
  ASSUME TypeOK, TableInv, ContentsInv, NEW r \in TaskRemovals, RemoveTests(r)
  PROVE  \/ TaskContents!TakeTests(removedTask[r])
         \/ UNCHANGED <<CreatedTasks, AppliedUpdates, Contents>>
<1>1. PICK t \in NewTasks : t = removedTask[r]
  BY TakenContents
<1>2. /\ CreatedTasks' = CreatedTasks /\ AppliedUpdates' = AppliedUpdates
      /\ UNCHANGED task /\ TestsOf(t)' \subseteq TestsOf(t)
      /\ \A i \in TestsOf(t)' : test'[i] = test[i]
      /\ \A s \in NewTasks \ {t} : Contents'[s] = Contents[s]
  BY <1>1, TakenContents, SameContents DEF CreatedTasks, AppliedUpdates
<1>3. CASE task[t] = Null
  <2>1. Contents'[t] = Contents[t]
    BY <1>2, <1>3, ContentsAt, ContentsAfter
  <2> QED BY <1>2, <2>1, ContentsDomain
<1>4. CASE task[t] # Null
  <2>1. PICK left : left = TestsOf(t)'
    OBVIOUS
  <2>2. /\ Contents[t] = [by |-> task[t].by, tests |-> Written(t)]
        /\ Contents[t] # Null
    BY <1>4, ContentsAt
  <2>3. /\ left \in SUBSET DOMAIN Written(t)
        /\ \A i \in left : test'[i].by = Written(t)[i]
    BY <1>2, <2>1 DEF Written
  <2>4. Contents'[t] = [by |-> task[t].by,
                        tests |-> [i \in left |-> Written(t)[i]]]
    <3>1. [i \in left |-> test'[i].by] = [i \in left |-> Written(t)[i]]
      BY <2>3
    <3> QED BY <1>2, <1>4, <2>1, <3>1, ContentsAfter
  <2> HIDE DEF Written
  <2>5. [Contents[t] EXCEPT !.tests = [i \in left |-> @[i]]] =
          [by |-> task[t].by, tests |-> [i \in left |-> Written(t)[i]]]
    BY <2>2
  <2>6. Contents' = [Contents EXCEPT ![t].tests = [i \in left |-> @[i]]]
    BY <1>2, <2>4, <2>5, ContentsDomain
  <2>7. left \in SUBSET DOMAIN Contents[t].tests
    BY <2>2, <2>3
  <2>8. \E some \in SUBSET DOMAIN Contents[t].tests :
          Contents' = [Contents EXCEPT ![t].tests = [i \in some |-> @[i]]]
    <3> WITNESS left \in SUBSET DOMAIN Contents[t].tests
    <3> QED BY <2>6
  <2>9. UNCHANGED <<CreatedTasks, AppliedUpdates>> /\ Contents[t] # Null
    BY <1>2, <2>2
  <2>10. TaskContents!TakeTests(t)
    BY <2>8, <2>9 DEF TaskContents!TakeTests
  <2> QED BY <1>1, <2>10
<1> QED BY <1>3, <1>4

\* The end of a DELETE removes whole tasks.
LEMMA ImplementsRemove ==
  ASSUME TypeOK, NEW gone \in SUBSET NewTasks, Removes(gone)
  PROVE  TaskContents!Remove(gone)
<1>1. CreatedTasks' = CreatedTasks /\ AppliedUpdates' = AppliedUpdates
  BY DEF Removes, CreatedTasks, AppliedUpdates
<1>2. \A t \in NewTasks \ gone : Contents'[t] = Contents[t]
  BY RemovedContents, SameContents DEF Removes
<1>3. \A t \in gone : Contents'[t] = Null
  BY RemovedContents, ContentsAfter DEF Removes
<1> QED BY <1>1, <1>2, <1>3, ContentsDomain DEF TaskContents!Remove

\* Every step is one of TaskContents or not seen.
LEMMA ImplementsNext ==
  ASSUME TypeOK, TableInv, ContentsInv, [Next]_vars
  PROVE  [TaskContents!Next]_<<CreatedTasks, AppliedUpdates, Contents>>
<1>1. CASE Still
  BY <1>1 DEF Still, CreatedTasks, AppliedUpdates, Contents, TestsOf
<1>2. ASSUME NEW u \in TaskUpdates, Commits(u)
      PROVE  TaskContents!Next
  BY <1>2, ImplementsApply, CommitRows DEF TaskContents!Next
<1>3. ASSUME NEW r \in TaskRemovals, RemoveTests(r)
      PROVE  [TaskContents!Next]_<<CreatedTasks, AppliedUpdates, Contents>>
  BY <1>3, ImplementsTake, TakenContents DEF TaskContents!Next
<1> QED
  BY <1>1, <1>2, <1>3, ContentsKinds, ImplementsCreate, ImplementsRemove
  DEF TaskContents!Next

\* Whatever transactions, removals and failures come between its statements, an
\* update takes effect as a whole or not at all.
THEOREM ImplementsContentsHolds == Spec => ImplementsContents
<1>1. Init => TaskContents!Init
  BY DEF Init, StoreInit, CatalogInit, EditInit, TaskContents!Init, CreatedTasks,
         AppliedUpdates, Contents
<1> QED
  BY <1>1, ImplementsNext, ContentsInvariant, PTL
  DEF Spec, ImplementsContents, TaskContents!Spec
=============================================================================
