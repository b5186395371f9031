---------------------------- MODULE UserDeletion ----------------------------
(***************************************************************************)
(* UserService.delete, the handler behind DELETE user/:id, as the tables   *)
(* of AuthStore see it.  The permission check (the sender is the user or   *)
(* an ADMIN) and the cache live in another part of the system: a request   *)
(* here has passed the check, and other requests run before its DELETE.    *)
(***************************************************************************)
EXTENDS AuthStore

VARIABLES
  deletePc,
  deletedUser   \* parameter "deletedUser"

deleteVars == <<deletePc, deletedUser>>

DeletePc == {"idle", "deleteUser", "done"}

DeleteTypeOK ==
  /\ deletePc \in [Deletes -> DeletePc]
  /\ deletedUser \in [Deletes -> Nullable(Logins)]
  /\ \A r \in Deletes : deletePc[r] # "idle" => deletedUser[r] \in Logins

DeleteInit ==
  /\ deletePc = [r \in Deletes |-> "idle"]
  /\ deletedUser = [r \in Deletes |-> Null]

Deleting(r, call) == deletePc[r] = call /\ r \notin failed

DeleteGoto(r, call) ==
  /\ deletePc' = [deletePc EXCEPT ![r] = call]
  /\ UNCHANGED failed

DeleteFails(r) == Fail(r) /\ UNCHANGED deletePc

\* The sender may delete user u.
DeleteArrives(r, u) ==
  /\ Deleting(r, "idle")
  /\ deletedUser' = [deletedUser EXCEPT ![r] = u]
  /\ DeleteGoto(r, "deleteUser")
  /\ UNCHANGED storeVars

\* user.delete raises when the row has gone or a foreign key refuses.
DeleteUser(r) ==
  /\ Deleting(r, "deleteUser")
  /\ IF UserDeletable(deletedUser[r])
       THEN DeleteUserRow(deletedUser[r]) /\ DeleteGoto(r, "done")
       ELSE DeleteFails(r) /\ UNCHANGED storeVars
  /\ UNCHANGED deletedUser

DeleteCutOff(r) ==
  /\ Deleting(r, "deleteUser")
  /\ DeleteFails(r)
  /\ UNCHANGED <<deletedUser, storeVars>>

DeleteStep(r) == DeleteUser(r) \/ DeleteCutOff(r)

=============================================================================
