-------------------------- MODULE RefreshCredential --------------------------
(***************************************************************************)
(* What refresh tokens promise, without requests, tables or browsers: a    *)
(* login has at most one current credential; a credential is replaced by   *)
(* one never used before, or revoked with its login; a credential that has *)
(* been replaced or revoked never becomes current again, and a login that  *)
(* has ended is not reopened.                                              *)
(***************************************************************************)

CONSTANTS Login, Credential, None

VARIABLES
  current,  \* the credential each login may present
  spent,    \* credentials that were current once and are not any more
  ended     \* logins that were revoked

credentialVars == <<current, spent, ended>>

Live == {current[l] : l \in Login} \ {None}

Fresh(c) == c \notin Live \cup spent

Init ==
  /\ current = [l \in Login |-> None]
  /\ spent = {}
  /\ ended = {}

Issue(l, c) ==
  /\ current[l] = None /\ l \notin ended
  /\ Fresh(c)
  /\ current' = [current EXCEPT ![l] = c]
  /\ UNCHANGED <<spent, ended>>

Rotate(l, c) ==
  /\ current[l] # None
  /\ Fresh(c)
  /\ current' = [current EXCEPT ![l] = c]
  /\ spent' = spent \cup {current[l]}
  /\ UNCHANGED ended

Revoke(l) ==
  /\ current[l] # None
  /\ current' = [current EXCEPT ![l] = None]
  /\ spent' = spent \cup {current[l]}
  /\ ended' = ended \cup {l}

Next ==
  \E l \in Login :
    \/ \E c \in Credential : Issue(l, c) \/ Rotate(l, c)
    \/ Revoke(l)

Spec == Init /\ [][Next]_credentialVars

=============================================================================
