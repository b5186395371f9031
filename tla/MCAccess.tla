------------------------------ MODULE MCAccess ------------------------------
(* Model values for TLC. *)
EXTENDS Access, TLC

CONSTANTS u1, u2, l1, p1, d1

\* Names of the cache do not matter to roles.
MCBodies == [roleId : {"USER", "ADMIN"}]

UserSymmetry == Permutations(User)

=============================================================================
