------------------------------ MODULE Learning ------------------------------
(***************************************************************************)
(* The learning part: teachers create, edit and remove courses, themes and *)
(* tasks while users run their code.                                       *)
(***************************************************************************)
EXTENDS TaskEditing, TaskExecution

vars == <<storeVars, catalogVars, editVars, executeVars>>

\* Tables hold rows, and a local that a call uses has been set by then; an open
\* transaction holds the lock of its task, and who has no statement under way
\* holds no rows.
TypeOK == StoreTypeOK /\ CatalogTypeOK /\ EditTypeOK /\ ExecuteTypeOK

Init == StoreInit /\ CatalogInit /\ EditInit /\ ExecuteInit

Next ==
  \/ CatalogStep /\ UNCHANGED <<editVars, executeVars>>
  \/ EditStep /\ UNCHANGED executeVars
  \/ ExecuteStep /\ UNCHANGED <<catalogVars, editVars>>

\* The steps of a removal that has begun.
RemoveProgress(r) ==
  \/ DeleteStep(r) /\ UNCHANGED <<editVars, executeVars>>
  \/ (BeginRemoveTests(r) \/ RemoveTests(r)) /\ UNCHANGED executeVars

\* The server goes on with a request, or ends it when it waits and cannot go on:
\* Prisma limits the time of a transaction, and of DELETEs that wait for one another
\* the database ends one.  Nothing else has to happen: Piston may keep silent for
\* ever.
Fairness ==
  /\ \A u \in TaskUpdates :
       WF_vars(/\ UpdateProgress(u) \/ (Waits(u) /\ RollBack(u))
               /\ UNCHANGED executeVars)
  /\ \A r \in Removals :
       WF_vars(\/ RemoveProgress(r)
               \/ /\ Deadlocked(r) /\ RemoveCutOff(r)
                  /\ UNCHANGED <<served, courseUpdatePc, updatedCourse, editVars,
                                 executeVars>>)
  /\ \A e \in Executions :
       WF_vars(ExecuteProgress(e) /\ UNCHANGED <<catalogVars, editVars>>)

Spec == Init /\ [][Next]_vars

FairSpec == Spec /\ Fairness

-----------------------------------------------------------------------------
(* Editing.                                                                *)

\* The removal has deleted tests and may have left the task behind.
HasRemovedTests(r, t) ==
  removedTask[r] = t /\ removePc[r] \in {"takeRows", "done", "failed"}

\* Every update of the task locks its row.
AllLock(t) == \A u \in TaskUpdates : updatedTask[u] = t => columns[u]

\* The test was sent for this task when it was new.
BelongsTo(i, t) == i[1] = t \/ (i[1] \in TaskUpdates /\ updatedTask[i[1]] = t)

\* A test of the task that reads as w sent it, or as an update of another task did,
\* which named it since.
AsSent(i, t, w) ==
  /\ i \in TestsOf(t)
  /\ \/ test[i].by = w
     \/ /\ test[i].by \in TaskUpdates /\ updatedTask[test[i].by] # t
        /\ sent[test[i].by] # Null /\ i \in sent[test[i].by]

\* Updates that overlap do not mix their writes: every test that the request which
\* was the last to commit sent for this task is there as that request sent it,
\* whichever tests the others deleted or wrote, an update of another task that names
\* it aside; and when it sent none there is none, as long as every update locks
\* the task's row (one that has only tests may slip its new tests in after the
\* DELETE).  Only a removal that has got half way takes tests away.
LastUpdateWhole ==
  \A t \in NewTasks :
    task[t] # Null /\ (\A r \in TaskRemovals : ~HasRemovedTests(r, t)) =>
      LET w == task[t].by
      IN  IF sent[w] # Null
            THEN \A i \in sent[w] : BelongsTo(i, t) => AsSent(i, t, w)
            ELSE AllLock(t) => TestsOf(t) = {}

\* What a request leaves of the tests of a task.
Wanted(w) == IF sent[w] = Null THEN {} ELSE sent[w]

LeavesOnlySent(t) == task[t] # Null => TestsOf(t) \subseteq Wanted(task[t].by)

UnderWay(u) == updatePc[u] \notin {"idle", "done", "failed"}

\* Of the updates of a task at most one is under way.
Alone(t) ==
  \A u, v \in {w \in TaskUpdates : updatedTask[w] = t /\ UnderWay(w)} : u = v

\* As long as the updates of a task come one after the other, the task has no
\* tests but those that the last request sent, whether or not it had columns,
\* and whichever transactions failed and removals stopped half way before.
SerialUpdatesLeaveOnlySent ==
  \A t \in NewTasks : []Alone(t) => []LeavesOnlySent(t)

\* The requests that hold a row which the statement of an update may come to next.
WaitsFor(u) ==
  (IF UpdatesRow(u) THEN Writers(updatedTask[u]) \ {u} ELSE {})
    \cup (UNION {Ahead(u, i) : i \in NextTests(u)})

\* The same of a removal.
RemovalWaitsFor(r) == (UNION {Holders(x) : x \in ToTake(r)}) \ {r}

\* The update locks the row of its task and names no test of another task.
Careful(u) ==
  /\ UnderWay(u) /\ columns[u]
  /\ sent[u] # Null => \A i \in sent[u] : BelongsTo(i, updatedTask[u])

CarefulUpdates == {u \in TaskUpdates : Careful(u)}

RowHolders == {u \in TaskUpdates : updatePc[u] \in InTransaction}
                \cup {r \in Removals : removePc[r] \in {"takeTests", "takeRows"}}

\* Whoever waits, waits for a transaction or a DELETE that is under way.  A careful
\* update waits for others of its own task only, and the one that it waits for does
\* not wait for a third: careful updates never deadlock among themselves.  It
\* takes a removal, an update without columns, or one that names tests of
\* another task.  The removal of a task waits for careful updates of that task
\* only.
EditsWaitInLine ==
  /\ \A u \in TaskUpdates : WaitsFor(u) \subseteq RowHolders
  /\ \A r \in Removals : RemovalWaitsFor(r) \subseteq RowHolders
  /\ \A u \in CarefulUpdates : \A v \in WaitsFor(u) \cap CarefulUpdates :
       /\ updatedTask[v] = updatedTask[u]
       /\ WaitsFor(v) \cap CarefulUpdates = {}
  /\ \A r \in TaskRemovals : \A u \in RemovalWaitsFor(r) \cap CarefulUpdates :
       updatedTask[u] = removedTask[r]

\* What the table of tests looks like from outside: per task the request that was
\* the last to write it, and its tests with the requests that wrote them.
CreatedTasks == served \cap NewTasks

AppliedUpdates == {u \in TaskUpdates : updatePc[u] = "done"}

Contents == [t \in NewTasks |-> IF task[t] = Null THEN Null
  ELSE [by |-> task[t].by, tests |-> [i \in TestsOf(t) |-> test[i].by]]]

ContentsRow ==
  [by : TaskWriter, tests : UNION {[some -> TaskWriter] : some \in SUBSET Test}]

ASSUME ContentsNullAssumption == Null \notin ContentsRow

TaskContents == INSTANCE TaskContents WITH
  Task <- NewTasks, Update <- TaskUpdates,
  created <- CreatedTasks, applied <- AppliedUpdates, contents <- Contents

\* The statements of an update take effect all together or not at all, whatever
\* transactions, removals and failures come between them; no test comes back
\* once it has gone.
ImplementsContents == TaskContents!Spec

\* No update and no removal waits for ever: the locks of rows are given back,
\* however the requests that hold them end.
EditsEnd ==
  /\ \A u \in TaskUpdates : updatePc[u] = "updateTask"
                              ~> updatePc[u] \in {"done", "failed"}
  /\ \A r \in Removals : removePc[r] \in {"deleteTests", "takeRows"}
                           ~> removePc[r] \in {"done", "failed"}

-----------------------------------------------------------------------------
(* Running.                                                                *)

\* A removed course, theme or task leaves nothing behind: no theme or task that
\* was created while it went, no test that an update wrote between the two
\* statements of the removal of its task, no build of a run that was under way,
\* and no solution without a build.
NothingLeftBehind ==
  /\ \A c \in NewCourses : course[c] = Null => ThemesOf(c) = {}
  /\ \A h \in NewThemes : theme[h] = Null => TasksOf(h) = {}
  /\ \A t \in NewTasks : task[t] = Null =>
       /\ TestsOf(t) = {}
       /\ BuildsOf({t}) = {}
  /\ \A e \in Executions : build[e] = Null => solution[e] = NoSolutions

\* As long as the build is there, the history shows as many passed tests as the
\* answer did, and never more tests: a verdict that could not be stored is not
\* counted as passed, and only tests without a verdict are missing.
AnswerMatchesHistory ==
  \A e \in Executions : executePc[e] = "done" /\ build[e] # Null =>
    /\ History(e).passed = Summary(e).passed
    /\ History(e).tests \subseteq Summary(e).tests

\* What a run looks like from outside: the tests it was started with, the
\* solutions of its build, the tests that count as passed, and its answer.
Asked == [e \in Executions |->
  IF executePc[e] \in {"idle", "createBuild"} THEN Null ELSE Summary(e).tests]

Shown == [e \in {f \in Executions : build[f] # Null} |-> solution[e]]

Counted == [e \in Executions |-> Summary(e).passed]

Answered == [e \in Executions |->
  IF executePc[e] = "done" THEN Summary(e) ELSE Null]

RunHistory == INSTANCE RunHistory WITH
  Run <- Executions,
  asked <- Asked, history <- Shown, passed <- Counted, answer <- Answered

\* A verdict is stored and counted together or counts as not passed, each test
\* has at most one, and once the answer has been sent nothing comes to the history
\* any more: whichever promises are still under way, whichever fail, and whenever
\* the task goes.
ImplementsRunHistory == RunHistory!Spec

\* Every run for which Piston answers or refuses each test is answered, though
\* tests fail and tasks are removed while it is under way.
RunsEnd ==
  \A e \in Executions :
    (\A i \in Test : []<>(run[e][i] # "posted")) =>
      (executePc[e] = "createBuild" ~> executePc[e] \in {"done", "failed"})

\* A course, theme or task that has been removed stays removed, also when it went
\* between the check and the write of an update.
RemovedStaysRemoved ==
  [][/\ \A c \in NewCourses \cap served : course[c] = Null => course'[c] = Null
     /\ \A h \in NewThemes \cap served : theme[h] = Null => theme'[h] = Null
     /\ \A t \in NewTasks \cap served : task[t] = Null => task'[t] = Null]_vars

-----------------------------------------------------------------------------
(* What comments of the source say, and the code does not do.             *)

\* update deletes "the tests that are not in the incoming data", and without tests
\* "all related tests": after it the task has no tests but those that were sent.
UpdateLeavesOnlySent == \A t \in NewTasks : LeavesOnlySent(t)

=============================================================================
