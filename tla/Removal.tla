------------------------------- MODULE Removal -------------------------------
(***************************************************************************)
(* The DELETE statements of the learning part.  A DELETE comes to its rows *)
(* one after the other, and in its cascade to the rows that hang on those; *)
(* it waits at a row that another request has locked, holding all it has   *)
(* come to before, and leaves out a row that has gone by then.  The order  *)
(* of the rows is up to the database, except that the tests of a task come *)
(* before its builds (their foreign key is the older one).  All of them go *)
(* when the statement ends, or none.                                       *)
(***************************************************************************)
EXTENDS LearningStore

VARIABLE removePc

\* Of a course or theme there is one statement; before that of a task there is one
\* for its tests.
RemovePc == {"idle", "deleteTests", "takeTests", "takeRows", "done", "failed"}

RemovalTypeOK ==
  /\ removePc \in [Removals -> RemovePc]
  /\ \A r \in Removals : removePc[r] \notin {"takeTests", "takeRows"} =>
       found[r] = {} /\ taken[r] = {}

RemovalInit == removePc = [r \in Removals |-> "idle"]

\* The rows that are there.
Present ==
  {c \in NewCourses : course[c] # Null} \cup {h \in NewThemes : theme[h] # Null}
    \cup {t \in NewTasks : task[t] # Null} \cup {i \in Test : test[i] # Null}
    \cup {e \in Executions : build[e] # Null}

\* The rows that the cascades come to after these.
HangingOn(rows) ==
  (UNION {ThemesOf(c) : c \in rows \cap NewCourses})
    \cup (UNION {TasksOf(h) : h \in rows \cap NewThemes})
    \cup (UNION {TestsOf(t) : t \in rows \cap NewTasks})
    \cup {e \in BuildsOf(rows) : TestsOf(build[e].taskId) \subseteq rows}

\* Rows that may come next.
ToTake(r) == (found[r] \cup HangingOn(taken[r])) \ taken[r]

\* The first row of DELETE ... WHERE id =.
Delete(r, x) ==
  /\ found' = [found EXCEPT ![r] = {x}]
  /\ removePc' = [removePc EXCEPT ![r] = "takeRows"]
  /\ UNCHANGED <<course, theme, task, test, build, solution, lock, draft, taken>>

TakeRow(r, x) ==
  /\ x \in ToTake(r)
  /\ Holders(x) \subseteq {r}
  /\ found' = [found EXCEPT ![r] = @ \ {x}]
  /\ taken' = [taken EXCEPT ![r] = @ \cup ({x} \cap Present)]
  /\ UNCHANGED <<removePc, course, theme, task, test, build, solution, lock, draft>>

\* The statement ends, in an error when it has found no row.
EndDelete(r) ==
  /\ removePc[r] = "takeRows"
  /\ ToTake(r) = {}
  /\ course' = [c \in NewCourses |-> IF c \in taken[r] THEN Null ELSE course[c]]
  /\ theme' = [h \in NewThemes |-> IF h \in taken[r] THEN Null ELSE theme[h]]
  /\ DeleteTasks(taken[r] \cap NewTasks)
  /\ removePc' = [removePc EXCEPT ![r] = IF taken[r] = {} THEN "failed" ELSE "done"]
  /\ found' = [found EXCEPT ![r] = {}]
  /\ taken' = [taken EXCEPT ![r] = {}]
  /\ UNCHANGED <<lock, draft>>

\* A crash, a rejected statement or a deadlock that the database resolves.  What a
\* statement before has done stays.
RemoveCutOff(r) ==
  /\ removePc[r] \in {"deleteTests", "takeTests", "takeRows"}
  /\ removePc' = [removePc EXCEPT ![r] = "failed"]
  /\ found' = [found EXCEPT ![r] = {}]
  /\ taken' = [taken EXCEPT ![r] = {}]
  /\ UNCHANGED <<course, theme, task, test, build, solution, lock, draft>>

\* Removals that wait for one another, whatever row each comes to next.
Deadlocked(r) ==
  \E cycle \in SUBSET Removals :
    /\ r \in cycle
    /\ \A d \in cycle :
         /\ ToTake(d) # {}
         /\ \A x \in ToTake(d) : (Holders(x) \ {d}) \cap cycle # {}

=============================================================================
