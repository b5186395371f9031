---------------------------- MODULE TaskExecution ----------------------------
(***************************************************************************)
(* TaskService.executeTestsForTask: a user's code is run against every     *)
(* test the task has at that moment, all at once, on the Piston server;    *)
(* each verdict is stored as a solution of the build, and the answer       *)
(* counts the tests that passed.  Whatever goes wrong with one test counts *)
(* as not passed and leaves no solution.                                   *)
(***************************************************************************)
EXTENDS LearningStore

VARIABLES
  executePc,
  executedTask,
  run        \* per test of the task: how far its promise has come

executeVars == <<executePc, executedTask, run>>

\* The verdict Piston sent, on its way into the database.
Verdict(passed) == IF passed THEN "savePassed" ELSE "saveFailed"

Pending == {"posted", "savePassed", "saveFailed"}
Settled == {"true", "false"}

ASSUME RunAssumption == Null \notin Pending \cup Settled

ExecuteTypeOK ==
  /\ executePc \in [Executions ->
       {"idle", "createBuild", "running", "done", "failed"}]
  /\ executedTask \in [Executions -> Nullable(NewTasks)]
  /\ run \in [Executions -> [Test -> Nullable(Pending \cup Settled)]]
  /\ \A e \in Executions : executePc[e] # "idle" =>
       executedTask[e] \in NewTasks

ExecuteInit ==
  /\ executePc = [e \in Executions |-> "idle"]
  /\ executedTask = [e \in Executions |-> Null]
  /\ run = [e \in Executions |-> [i \in Test |-> Null]]

-----------------------------------------------------------------------------
(* The two summaries a user sees; sets of tests stand for their numbers.   *)

\* The answer of executeTestsForTask.
Summary(e) == [passed |-> {i \in Test : run[e][i] = "true"},
               tests  |-> {i \in Test : run[e][i] # Null}]

\* What getTestResultsByTaskAndUser makes of the solutions of a build.
History(e) == [passed |-> {i \in Test : solution[e][i] = TRUE},
               tests  |-> {i \in Test : solution[e][i] # Null}]

-----------------------------------------------------------------------------

\* task.findUnique with its tests, which are the ones that will run.
FindTask(e, t) ==
  /\ executePc[e] = "idle"
  /\ executedTask' = [executedTask EXCEPT ![e] = t]
  /\ IF task[t] # Null
       THEN /\ executePc' = [executePc EXCEPT ![e] = "createBuild"]
            /\ run' = [run EXCEPT ![e] = [i \in Test |->
                         IF i \in TestsOf(t) THEN "posted" ELSE Null]]
       ELSE /\ executePc' = [executePc EXCEPT ![e] = "failed"]
            /\ UNCHANGED run
  /\ UNCHANGED storeVars

\* build.create: build.taskId -> task.id, which waits for a removal of the task
CreateBuild(e) ==
  /\ executePc[e] = "createBuild"
  /\ Deleters(executedTask[e]) = {}
  /\ IF task[executedTask[e]] # Null
       THEN /\ build' = [build EXCEPT ![e] = [taskId |-> executedTask[e]]]
            /\ executePc' = [executePc EXCEPT ![e] = "running"]
       ELSE /\ executePc' = [executePc EXCEPT ![e] = "failed"]
            /\ UNCHANGED build
  /\ UNCHANGED <<executedTask, run,
                 course, theme, task, test, solution, openVars>>

\* The promise of one test moves on, whether or not somebody still awaits it.
Advance(e, i, from, to) ==
  /\ executePc[e] \in {"running", "done"}
  /\ run[e][i] = from
  /\ run' = [run EXCEPT ![e][i] = to]
  /\ UNCHANGED <<executePc, executedTask>>

\* executeRequest: a verdict, or an error, which counts as not passed.
PistonAnswers(e, i) ==
  /\ \E answer \in {"savePassed", "saveFailed", "false"} :
       Advance(e, i, "posted", answer)
  /\ UNCHANGED storeVars

\* A failed solution.create does not change the verdict.
SaveSolutionCaught(e, i, passed) ==
  /\ Advance(e, i, Verdict(passed), IF passed THEN "true" ELSE "false")
  /\ \/ /\ build[e] # Null /\ Deleters(e) = {}
        /\ solution' = [solution EXCEPT ![e][i] = passed]
     \/ UNCHANGED solution
  /\ UNCHANGED <<course, theme, task, test, build, openVars>>

\* solution.create is repeated until it succeeds.
SaveSolutionRetried(e, i, passed) ==
  /\ build[e] # Null /\ Deleters(e) = {}
  /\ Advance(e, i, Verdict(passed), IF passed THEN "true" ELSE "false")
  /\ solution' = [solution EXCEPT ![e][i] = passed]
  /\ UNCHANGED <<course, theme, task, test, build, openVars>>

\* solution.create: solution.buildId -> build.id, which waits for a removal; an
\* error, of the foreign key or another, counts as not passed.
SaveSolution(e, i, passed) ==
  /\ \/ /\ build[e] # Null /\ Deleters(e) = {}
        /\ Advance(e, i, Verdict(passed), IF passed THEN "true" ELSE "false")
        /\ solution' = [solution EXCEPT ![e][i] = passed]
     \/ /\ Advance(e, i, Verdict(passed), "false")
        /\ UNCHANGED solution
  /\ UNCHANGED <<course, theme, task, test, build, openVars>>

\* Promise.race instead of Promise.all.
AnswerEarly(e) ==
  /\ executePc[e] = "running"
  /\ \A i \in Test : run[e][i] # "posted"
  /\ executePc' = [executePc EXCEPT ![e] = "done"]
  /\ UNCHANGED <<executedTask, run, storeVars>>

\* Promise.all: every test has settled.
Answer(e) ==
  /\ executePc[e] = "running"
  /\ \A i \in Test : run[e][i] \notin Pending
  /\ executePc' = [executePc EXCEPT ![e] = "done"]
  /\ UNCHANGED <<executedTask, run, storeVars>>

\* The server stops, or build.create is rejected.
ExecuteCutOff(e) ==
  /\ executePc[e] \in {"createBuild", "running"}
  /\ executePc' = [executePc EXCEPT ![e] = "failed"]
  /\ UNCHANGED <<executedTask, run, storeVars>>

\* What the server does of its own accord.
ExecuteProgress(e) ==
  \/ CreateBuild(e)
  \/ \E i \in Test, passed \in BOOLEAN : SaveSolution(e, i, passed)
  \/ Answer(e)

ExecuteStep ==
  \E e \in Executions :
    \/ \E t \in NewTasks : FindTask(e, t)
    \/ ExecuteProgress(e)
    \/ \E i \in Test : PistonAnswers(e, i)
    \/ ExecuteCutOff(e)

=============================================================================
