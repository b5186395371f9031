------------------------------ MODULE Requests ------------------------------
(***************************************************************************)
(* The HTTP requests of a behaviour, by the handler that serves them.  A   *)
(* request that is answered with an error, or cut off by a crash, stays at *)
(* the call where it stopped and is put in "failed"; what it wrote before  *)
(* stays written, since no handler here opens a transaction.               *)
(***************************************************************************)

CONSTANTS
  Logins,     \* GET auth/yandex/callback
  Refreshes,  \* GET auth/refresh-tokens
  Logouts,    \* GET auth/logout
  Deletes,    \* DELETE user/:id
  Null

ASSUME RequestsAssumption ==
  /\ Logins \cap Refreshes = {}
  /\ Logins \cap Logouts = {}
  /\ Logins \cap Deletes = {}
  /\ Refreshes \cap Logouts = {}
  /\ Refreshes \cap Deletes = {}
  /\ Logouts \cap Deletes = {}

Request == Logins \cup Refreshes \cup Logouts \cup Deletes

VARIABLE failed

Fail(r) == failed' = failed \cup {r}

Nullable(S) == S \cup {Null}

\* "respond": the answer has left the server; "done" or "lost": it reached the
\* browser or never does.
Answered == {"respond", "done", "lost"}

=============================================================================
