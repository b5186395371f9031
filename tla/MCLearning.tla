----------------------------- MODULE MCLearning -----------------------------
(* Model values for TLC, and how many tests each request may bring and name. *)
EXTENDS Learning

CONSTANTS course1, theme1, task1, task2, up1, up2, rem1, run1,
          cUp1, hUp1, cRem1, tRem1

OneNew == [w \in TaskWriter |-> 1]

\* Two tests of task1 and one of up2 are all there is.
ThreeTests ==
  [w \in TaskWriter |-> IF w = task1 THEN 2 ELSE IF w = up2 THEN 1 ELSE 0]

\* The client of up1 may name a test of task1, whichever task he edits.
OneId == [u \in TaskUpdates |-> IF u = up1 THEN {<<task1, 1>>} ELSE {}]

NoId == [u \in TaskUpdates |-> {}]

=============================================================================
