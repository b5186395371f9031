----------------------------- MODULE MCCheckAuth -----------------------------
(* Small instances of CheckAuth for TLC. *)
EXTENDS CheckAuth, TLC

CONSTANTS g1, g2, a1, a2, y1, y2, y3

\* y1 and y2 are two tokens of one account, y3 is a token of another.
MCOwner == [y \in YandexToken |-> IF y = y3 THEN a2 ELSE a1]

RequestSymmetry ==
  Permutations(Logins) \cup Permutations(Refreshes) \cup Permutations(Logouts)
  \cup Permutations(Deletes)

=============================================================================
