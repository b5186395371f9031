---------------------------- MODULE TaskContents ----------------------------
(***************************************************************************)
(* What editing a task promises: its contents change by whole requests.    *)
(* The contents of a task are its tests, each with the request that wrote  *)
(* it, and the request that was the last to change the task at all.        *)
(***************************************************************************)
CONSTANTS Task, Update, Test, Null

VARIABLES
  sent,      \* the tests each request sends, Null when it names none
  created,   \* tasks whose creation has been served
  applied,   \* updates that have taken effect
  contents   \* per task [by, tests], Null where there is none

Init ==
  /\ created = {}
  /\ applied = {}
  /\ contents = [t \in Task |-> Null]

\* One task with all its tests, or nothing when its theme has gone.
Create(t) ==
  /\ t \notin created
  /\ created' = created \cup {t}
  /\ \/ contents' = [contents EXCEPT ![t] =
             [by |-> t, tests |-> [i \in sent'[t] |-> t]]]
     \/ UNCHANGED contents
  /\ UNCHANGED applied

Sent(u) == IF sent[u] = Null THEN {} ELSE sent[u]

NewOf(u) == {i \in Sent(u) : i[1] = u}

TestsOf(t) == IF contents[t] = Null THEN {} ELSE DOMAIN contents[t].tests

\* Every test that the update names is as it was sent, in whichever task it is, and
\* was there unless it is new.  The task gets the new ones; other tests of it stay
\* as they are or go.
Apply(u, t) ==
  /\ u \notin applied
  /\ contents[t] # Null
  /\ Sent(u) \ NewOf(u) \subseteq UNION {TestsOf(s) : s \in Task}
  /\ \E kept \in SUBSET (TestsOf(t) \ Sent(u)) :
       LET there(s) == IF s = t THEN kept \cup (TestsOf(t) \cap Sent(u)) \cup NewOf(u)
                                ELSE TestsOf(s)
       IN  contents' = [s \in Task |-> IF contents[s] = Null THEN Null ELSE
             [by    |-> IF s = t THEN u ELSE contents[s].by,
              tests |-> [i \in there(s) |->
                           IF i \in Sent(u) THEN u ELSE contents[s].tests[i]]]]
  /\ applied' = applied \cup {u}
  /\ UNCHANGED created

\* A removal that has got half way: tests are gone, the task is there.
TakeTests(t) ==
  /\ contents[t] # Null
  /\ \E left \in SUBSET DOMAIN contents[t].tests :
       contents' = [contents EXCEPT ![t].tests = [i \in left |-> @[i]]]
  /\ UNCHANGED <<created, applied>>

\* Tasks go with their theme, one alone when it is removed itself.
Remove(gone) ==
  /\ contents' = [t \in Task |-> IF t \in gone THEN Null ELSE contents[t]]
  /\ UNCHANGED <<created, applied>>

Next ==
  \/ \E t \in Task : Create(t) \/ TakeTests(t)
  \/ \E u \in Update, t \in Task : Apply(u, t)
  \/ \E gone \in SUBSET Task : Remove(gone)

Spec == Init /\ [][Next]_<<created, applied, contents>>

=============================================================================
