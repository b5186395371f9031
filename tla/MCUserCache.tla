----------------------------- MODULE MCUserCache -----------------------------
(* Model values for TLC. *)
EXTENDS UserCache

CONSTANTS u1, n1, l1, p1, p2, d1

\* A changed role would be one more field that the cache has wrong.
MCBodies == [isBlocked : BOOLEAN] \cup [nickName : Nullable(Nick)]

=============================================================================
