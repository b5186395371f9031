----------------------------- MODULE RunHistory -----------------------------
(***************************************************************************)
(* What running a user's code promises: the verdicts that can be read back *)
(* later are those the answer has counted.  A run is asked for some tests; *)
(* its verdicts come one by one, in any order, each of them shown and      *)
(* counted in one step; the answer is the last thing that happens to it,   *)
(* except that its history may be dropped as a whole.                      *)
(***************************************************************************)
CONSTANTS Run, Test, Null

VARIABLES
  asked,    \* per run the tests it is for, Null until it begins
  history,  \* per run that has a history the verdicts in it
  passed,   \* per run the tests counted as passed
  answer    \* per run what the user was told, Null until then

vars == <<asked, history, passed, answer>>

NoVerdicts == [i \in Test |-> Null]

Init ==
  /\ asked = [e \in Run |-> Null]
  /\ history = [e \in {} |-> NoVerdicts]
  /\ passed = [e \in Run |-> {}]
  /\ answer = [e \in Run |-> Null]

\* With an empty history, or with none: then no verdict will ever be shown.
Begin(e) ==
  /\ asked[e] = Null
  /\ \E tests \in SUBSET Test : asked' = [asked EXCEPT ![e] = tests]
  /\ \/ history' = [f \in DOMAIN history \cup {e} |->
                      IF f = e THEN NoVerdicts ELSE history[f]]
     \/ UNCHANGED history
  /\ UNCHANGED <<passed, answer>>

\* One verdict for each test, none after the answer.
Store(e, i, p) ==
  /\ asked[e] # Null /\ i \in asked[e]
  /\ answer[e] = Null
  /\ e \in DOMAIN history /\ history[e][i] = Null
  /\ history' = [history EXCEPT ![e][i] = p]
  /\ passed' = [passed EXCEPT ![e] = IF p THEN @ \cup {i} ELSE @]
  /\ UNCHANGED <<asked, answer>>

Reply(e) ==
  /\ asked[e] # Null
  /\ answer[e] = Null
  /\ answer' = [answer EXCEPT ![e] = [passed |-> passed[e], tests |-> asked[e]]]
  /\ UNCHANGED <<asked, history, passed>>

\* Histories go with their task, during the run or after it.
Drop(gone) ==
  /\ history' = [e \in DOMAIN history \ gone |-> history[e]]
  /\ UNCHANGED <<asked, passed, answer>>

Next ==
  \/ \E gone \in SUBSET Run : Drop(gone)
  \/ \E e \in Run :
       \/ Begin(e)
       \/ \E i \in Test, p \in BOOLEAN : Store(e, i, p)
       \/ Reply(e)

Spec == Init /\ [][Next]_vars

=============================================================================
