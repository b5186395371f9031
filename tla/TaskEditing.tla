----------------------------- MODULE TaskEditing -----------------------------
(***************************************************************************)
(* TaskService.create, update and remove.  An update reads the task before *)
(* it opens its transaction and works with that reading inside it.  When   *)
(* the request has columns for the task itself, the first statement locks  *)
(* the task's row; a request that brings nothing but tests, which the DTO  *)
(* allows, makes Prisma read the row only.  A removal is two statements    *)
(* without a transaction.                                                  *)
(*                                                                         *)
(* A DELETE of tests takes those that are there when it begins, one after  *)
(* the other; it waits at a test that another request has written, and     *)
(* leaves out what is gone by then.  Clients send ids of tests that some   *)
(* answer has told them.  No statement looks which task a test belongs to, *)
(* so an update may write tests of another task.                           *)
(***************************************************************************)
EXTENDS Catalog

CONSTANT Ids  \* per update the tests that its client may name

VARIABLES
  sent,         \* the tests of the DTO, new ones included; Null without "tests"
  columns,      \* the DTO has columns of the task
  updatePc,
  updatedTask,
  existing,     \* existingTask.TaskTest
  removedTask

updateVars == <<columns, updatePc, updatedTask, existing>>
editVars == <<sent, updateVars, removedTask>>

InTransaction == {"deleteTests", "deleteFound", "writeTests", "commit"}

UpdatePc == {"idle", "updateTask", "done", "failed"} \cup InTransaction

EditTypeOK ==
  /\ sent \in [TaskWriter -> Nullable(SUBSET Test)]
  /\ columns \in [TaskUpdates -> BOOLEAN]
  /\ updatePc \in [TaskUpdates -> UpdatePc]
  /\ updatedTask \in [TaskUpdates -> Nullable(NewTasks)]
  /\ existing \in [TaskUpdates -> SUBSET Test]
  /\ removedTask \in [TaskRemovals -> Nullable(NewTasks)]
  /\ \A u \in TaskUpdates :
       /\ updatePc[u] # "idle" => updatedTask[u] \in NewTasks
       /\ updatePc[u] \in InTransaction /\ columns[u] => lock[updatedTask[u]] = u
       /\ updatePc[u] \notin InTransaction => draft[u] = NoDraft
       /\ updatePc[u] # "deleteFound" => found[u] = {}
       /\ updatePc[u] = "writeTests" => sent[u] # Null
  /\ \A r \in TaskRemovals : removePc[r] # "idle" => removedTask[r] \in NewTasks

EditInit ==
  /\ sent = [w \in TaskWriter |-> Null]
  /\ columns = [u \in TaskUpdates |-> FALSE]
  /\ updatePc = [u \in TaskUpdates |-> "idle"]
  /\ updatedTask = [u \in TaskUpdates |-> Null]
  /\ existing = [u \in TaskUpdates |-> {}]
  /\ removedTask = [r \in TaskRemovals |-> Null]

-----------------------------------------------------------------------------
(* create: the task and its tests in one statement                         *)

CreateTask(r, h, n) ==
  /\ Serve(r)
  /\ Deleters(h) = {}
  /\ sent' = [sent EXCEPT ![r] = NewTests(r, n)]
  /\ IF theme[h] # Null
       THEN /\ task' = [task EXCEPT ![r] = [themeId |-> h, by |-> r]]
            /\ test' = [i \in Test |-> IF i \in NewTests(r, n)
                                         THEN [taskId |-> r, by |-> r]
                                         ELSE test[i]]
       ELSE UNCHANGED <<task, test>>
  /\ UNCHANGED <<course, theme, build, solution, openVars, updateVars, removedTask>>

-----------------------------------------------------------------------------
(* update                                                                  *)

\* Tests of any task that have been in an answer; they may have gone since.
KnownTests ==
  {i \in Test : /\ sent[i[1]] # Null /\ i \in sent[i[1]]
                /\ i[1] \in TaskUpdates => updatePc[i[1]] = "done"}

Dtos(u) ==
  {Null} \cup {named \cup NewTests(u, n) :
                 named \in SUBSET (KnownTests \cap Ids[u]), n \in 0..MaxNew[u]}

\* The request arrives and reads existingTask.
FindExisting(u, t, dto, cols) ==
  /\ updatePc[u] = "idle"
  /\ sent' = [sent EXCEPT ![u] = dto]
  /\ columns' = [columns EXCEPT ![u] = cols]
  /\ updatedTask' = [updatedTask EXCEPT ![u] = t]
  /\ existing' = [existing EXCEPT ![u] = TestsOf(t)]
  /\ updatePc' = [updatePc EXCEPT ![u] =
       IF task[t] = Null THEN "failed" ELSE "updateTask"]
  /\ UNCHANGED <<removedTask, catalogVars, storeVars>>

GotoUpdate(u, pc) ==
  /\ updatePc' = [updatePc EXCEPT ![u] = pc]
  /\ UNCHANGED <<sent, columns, updatedTask, removedTask, catalogVars,
                 course, theme, build, solution, taken>>

\* COMMIT or ROLLBACK
Release(u) ==
  /\ lock' = [t \in NewTasks |-> IF lock[t] = u THEN Null ELSE lock[t]]
  /\ draft' = [draft EXCEPT ![u] = NoDraft]

\* this.prismaService.task.update: outside the transaction, which holds no lock.
UpdateTaskRowOutside(u) ==
  LET t == updatedTask[u] IN
  /\ updatePc[u] = "updateTask"
  /\ columns[u] => Writers(t) \subseteq {u}
  /\ task' = IF task[t] # Null /\ columns[u] THEN [task EXCEPT ![t].by = u] ELSE task
  /\ GotoUpdate(u, IF task[t] # Null THEN "deleteTests" ELSE "failed")
  /\ UNCHANGED <<existing, found, test, lock, draft>>

\* prisma.task.update of at least one column waits for the row and locks it;
\* without a column it reads the row.  Without the row it fails.
UpdateTaskRow(u) ==
  LET t == updatedTask[u] IN
  /\ updatePc[u] = "updateTask"
  /\ columns[u] => Writers(t) \subseteq {u}
  /\ lock' = IF task[t] # Null /\ columns[u] THEN [lock EXCEPT ![t] = u] ELSE lock
  /\ GotoUpdate(u, IF task[t] # Null THEN "deleteTests" ELSE "failed")
  /\ UNCHANGED <<existing, found, task, test, draft>>

\* The statement goes to the database outside the transaction.
WriteOutside(u, i, row) ==
  /\ test' = [test EXCEPT ![i] = row]
  /\ UNCHANGED <<lock, draft>>

\* A write of the transaction.
Write(u, i, row) ==
  /\ draft' = [draft EXCEPT ![u] =
       [j \in {i} \cup DOMAIN draft[u] |-> IF j = i THEN row ELSE draft[u][j]]]
  /\ UNCHANGED <<test, lock>>

\* The statement after the DELETE.
AfterDelete(u) == IF sent[u] = Null THEN "commit" ELSE "writeTests"

\* A request without "tests" deletes none.
BeginDeleteOfSent(u) ==
  LET gone == IF sent[u] = Null THEN {}
                ELSE (existing[u] \ sent[u]) \cap TestsOf(updatedTask[u])
  IN  /\ updatePc[u] = "deleteTests"
      /\ found' = [found EXCEPT ![u] = gone]
      /\ existing' = [existing EXCEPT ![u] = {}]
      /\ GotoUpdate(u, IF gone = {} THEN AfterDelete(u) ELSE "deleteFound")
      /\ UNCHANGED <<task, test, lock, draft>>

\* taskTest.deleteMany begins: of the tests read before the transaction those
\* that are not in the DTO, or, without "tests", all the task has now.
BeginDelete(u) ==
  LET t == updatedTask[u]
      gone == IF sent[u] = Null THEN TestsOf(t)
                ELSE (existing[u] \ sent[u]) \cap TestsOf(t)
  IN  /\ updatePc[u] = "deleteTests"
      /\ found' = [found EXCEPT ![u] = gone]
      /\ existing' = [existing EXCEPT ![u] = {}]
      /\ GotoUpdate(u, IF gone = {} THEN AfterDelete(u) ELSE "deleteFound")
      /\ UNCHANGED <<task, test, lock, draft>>

\* The DELETE comes to a test, which may have gone.
DeleteTest(u, i) ==
  /\ updatePc[u] = "deleteFound"
  /\ i \in found[u]
  /\ Writers(i) \subseteq {u}
  /\ IF test[i] # Null THEN Write(u, i, Null) ELSE UNCHANGED <<test, lock, draft>>
  /\ found' = [found EXCEPT ![u] = @ \ {i}]
  /\ GotoUpdate(u, IF found[u] = {i} THEN AfterDelete(u) ELSE "deleteFound")
  /\ UNCHANGED <<existing, task>>

\* Tests of the DTO that the loop has not come to yet.
Unwritten(u) == sent[u] \ DOMAIN draft[u]

\* An error ends the transaction.
WriteOrFail(u, i, row, there) ==
  /\ IF there THEN Write(u, i, row) /\ GotoUpdate(u, "writeTests")
              ELSE Release(u) /\ GotoUpdate(u, "failed") /\ UNCHANGED test
  /\ UNCHANGED <<existing, found, task>>

\* taskTest.update of a test with an id, of whatever task.
UpdateTest(u, i) ==
  /\ updatePc[u] = "writeTests"
  /\ i \in Unwritten(u) /\ i[1] # u
  /\ Writers(i) \subseteq {u}
  /\ WriteOrFail(u, i, [taskId |-> test[i].taskId, by |-> u], test[i] # Null)

\* taskTest.create: task_test.taskId -> task.id
InsertTest(u, i) ==
  LET t == updatedTask[u] IN
  /\ updatePc[u] = "writeTests"
  /\ i \in Unwritten(u) /\ i[1] = u
  /\ Deleters(t) = {}
  /\ WriteOrFail(u, i, [taskId |-> t, by |-> u], task[t] # Null)

\* The task is read once more, and taking it apart fails when it has gone.
Commit(u) ==
  LET t == updatedTask[u] IN
  /\ \/ updatePc[u] = "commit"
     \/ updatePc[u] = "writeTests" /\ Unwritten(u) = {}
  /\ IF task[t] # Null
       THEN /\ test' = [i \in Test |->
                 IF i \in DOMAIN draft[u] THEN draft[u][i] ELSE test[i]]
            /\ task' = [task EXCEPT ![t].by = u]
            /\ GotoUpdate(u, "done")
       ELSE UNCHANGED <<task, test>> /\ GotoUpdate(u, "failed")
  /\ Release(u)
  /\ UNCHANGED <<existing, found>>

\* The transaction ends in an error and its lock is never given back.
RollBackLeaks(u) ==
  /\ updatePc[u] \in {"updateTask"} \cup InTransaction
  /\ draft' = [draft EXCEPT ![u] = NoDraft]
  /\ found' = [found EXCEPT ![u] = {}]
  /\ existing' = [existing EXCEPT ![u] = {}]
  /\ GotoUpdate(u, "failed")
  /\ UNCHANGED <<task, test, lock>>

\* A crash, a rejected statement, a deadlock that the database resolves, or the
\* five seconds that Prisma gives a transaction.
RollBack(u) ==
  /\ updatePc[u] \in {"updateTask"} \cup InTransaction
  /\ Release(u)
  /\ found' = [found EXCEPT ![u] = {}]
  /\ existing' = [existing EXCEPT ![u] = {}]
  /\ GotoUpdate(u, "failed")
  /\ UNCHANGED <<task, test>>

\* Whom the next write of a test would wait for.
Ahead(u, i) == IF i[1] = u THEN Deleters(updatedTask[u]) ELSE Writers(i) \ {u}

\* The tests that the statement under way may come to next.
NextTests(u) ==
  IF updatePc[u] = "deleteFound" THEN found[u]
  ELSE IF updatePc[u] = "writeTests" THEN Unwritten(u) ELSE {}

UpdatesRow(u) == updatePc[u] = "updateTask" /\ columns[u]

\* Wherever the transaction may go on, it waits.
Waits(u) ==
  \/ UpdatesRow(u) /\ ~(Writers(updatedTask[u]) \subseteq {u})
  \/ NextTests(u) # {} /\ \A i \in NextTests(u) : Ahead(u, i) # {}

-----------------------------------------------------------------------------
(* remove                                                                  *)

FindRemoved(r, t) ==
  /\ removePc[r] = "idle"
  /\ removedTask' = [removedTask EXCEPT ![r] = t]
  /\ removePc' = [removePc EXCEPT ![r] =
       IF task[t] = Null THEN "failed" ELSE "deleteTests"]
  /\ UNCHANGED <<served, courseUpdatePc, updatedCourse, sent, updateVars, storeVars>>

\* taskTest.deleteMany begins.
BeginRemoveTests(r) ==
  /\ removePc[r] = "deleteTests"
  /\ found' = [found EXCEPT ![r] = TestsOf(removedTask[r])]
  /\ removePc' = [removePc EXCEPT ![r] = "takeTests"]
  /\ UNCHANGED <<served, courseUpdatePc, updatedCourse, editVars,
                 course, theme, task, test, build, solution, lock, draft, taken>>

\* It has come to all of them; next is task.delete, which cascades to tests written
\* meanwhile and to builds.
RemoveTests(r) ==
  /\ removePc[r] = "takeTests"
  /\ ToTake(r) = {}
  /\ test' = [i \in Test |-> IF i \in taken[r] THEN Null ELSE test[i]]
  /\ taken' = [taken EXCEPT ![r] = {}]
  /\ found' = [found EXCEPT ![r] = {removedTask[r]}]
  /\ removePc' = [removePc EXCEPT ![r] = "takeRows"]
  /\ UNCHANGED <<served, courseUpdatePc, updatedCourse, editVars,
                 course, theme, task, build, solution, lock, draft>>

-----------------------------------------------------------------------------

UpdateProgress(u) ==
  \/ UpdateTaskRow(u)
  \/ BeginDelete(u)
  \/ \E i \in Test : DeleteTest(u, i) \/ UpdateTest(u, i) \/ InsertTest(u, i)
  \/ Commit(u)

EditStep ==
  \/ \E r \in NewTasks, h \in NewThemes : \E n \in 0..MaxNew[r] : CreateTask(r, h, n)
  \/ \E u \in TaskUpdates :
       \/ \E t \in NewTasks, cols \in BOOLEAN : \E dto \in Dtos(u) :
            FindExisting(u, t, dto, cols)
       \/ UpdateProgress(u)
       \/ RollBack(u)
  \/ \E r \in TaskRemovals :
       \/ \E t \in NewTasks : FindRemoved(r, t)
       \/ BeginRemoveTests(r)
       \/ RemoveTests(r)

=============================================================================
