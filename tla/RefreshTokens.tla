---------------------------- MODULE RefreshTokens ----------------------------
(***************************************************************************)
(* AuthController.refreshTokens and AuthService.refreshTokens, the handler *)
(* behind GET auth/refresh-tokens: the token row the cookie names gets a   *)
(* new token string.  The row is read twice and then updated, in three     *)
(* separate calls, and any other request may run in between.               *)
(***************************************************************************)
EXTENDS AuthStore

VARIABLES
  refreshPc,
  refreshCookie,  \* the cookie the request carries
  refreshAgent,   \* its User-Agent header
  refreshOld      \* local "oldToken" (its id)

refreshVars == <<refreshPc, refreshCookie, refreshAgent, refreshOld>>

RefreshServing == {"getUserByRefreshToken", "getRefreshToken", "updateToken"}

RefreshPc == {"idle"} \cup RefreshServing \cup Answered

RefreshTypeOK ==
  /\ refreshPc \in [Refreshes -> RefreshPc]
  /\ refreshCookie \in [Refreshes -> Nullable(Value)]
  /\ refreshAgent \in [Refreshes -> Nullable(Agent)]
  /\ refreshOld \in [Refreshes -> Nullable(Logins)]
  /\ \A r \in Refreshes :
       /\ refreshPc[r] # "idle" =>
            refreshCookie[r] \in Value /\ refreshAgent[r] \in Agent
       /\ refreshPc[r] \in {"updateToken"} \cup Answered =>
            refreshOld[r] \in Logins

RefreshInit ==
  /\ refreshPc = [r \in Refreshes |-> "idle"]
  /\ refreshCookie = [r \in Refreshes |-> Null]
  /\ refreshAgent = [r \in Refreshes |-> Null]
  /\ refreshOld = [r \in Refreshes |-> Null]

-----------------------------------------------------------------------------

Refreshing(r, call) == refreshPc[r] = call /\ r \notin failed

RefreshGoto(r, call) ==
  /\ refreshPc' = [refreshPc EXCEPT ![r] = call]
  /\ UNCHANGED failed

RefreshFails(r) == Fail(r) /\ UNCHANGED refreshPc

\* token.findUnique by the token string
TokensNamed(value) == {t \in Rows(token) : token[t].token = value}

\* The check of the cookie left out.
RefreshArrivesUnchecked(r, cookie, agent) ==
  /\ Refreshing(r, "idle")
  /\ refreshCookie' = [refreshCookie EXCEPT ![r] = cookie]
  /\ refreshAgent' = [refreshAgent EXCEPT ![r] = agent]
  /\ RefreshGoto(r, "getUserByRefreshToken") \/ RefreshFails(r)
  /\ UNCHANGED <<refreshOld, storeVars>>

\* The request arrives.  Without a cookie it is refused before the service is
\* called; ThrottlerGuard may refuse it too (one request in ten milliseconds).
RefreshArrives(r, cookie, agent) ==
  /\ Refreshing(r, "idle")
  /\ refreshCookie' = [refreshCookie EXCEPT ![r] = cookie]
  /\ refreshAgent' = [refreshAgent EXCEPT ![r] = agent]
  /\ \/ cookie # Null /\ RefreshGoto(r, "getUserByRefreshToken")
     \/ RefreshFails(r)
  /\ UNCHANGED <<refreshOld, storeVars>>

\* token.findUnique including the user, which the foreign key guarantees
GetUserByRefreshToken(r) ==
  /\ Refreshing(r, "getUserByRefreshToken")
  /\ IF TokensNamed(refreshCookie[r]) # {}
       THEN RefreshGoto(r, "getRefreshToken")
       ELSE RefreshFails(r)
  /\ UNCHANGED <<refreshCookie, refreshAgent, refreshOld, storeVars>>

Refreshable(r, t) == ~token[t].expired /\ token[t].userAgent = refreshAgent[r]

GetRefreshToken(r) ==
  /\ Refreshing(r, "getRefreshToken")
  /\ \/ \E t \in TokensNamed(refreshCookie[r]) :
          /\ Refreshable(r, t)
          /\ refreshOld' = [refreshOld EXCEPT ![r] = t]
          /\ RefreshGoto(r, "updateToken")
     \/ /\ \A t \in TokensNamed(refreshCookie[r]) : ~Refreshable(r, t)
        /\ RefreshFails(r)
        /\ UNCHANGED refreshOld
  /\ UNCHANGED <<refreshCookie, refreshAgent, storeVars>>

Rotated(row, r) ==
  [row EXCEPT !.token = r, !.expired = FALSE, !.userAgent = refreshAgent[r]]

\* token.update where id = oldToken.id instead of where token = refreshToken.
UpdateTokenById(r) ==
  /\ Refreshing(r, "updateToken")
  /\ IF token[refreshOld[r]] # Null
       THEN /\ token' = [token EXCEPT
                           ![refreshOld[r]] = Rotated(token[refreshOld[r]], r)]
            /\ RefreshGoto(r, "respond")
       ELSE RefreshFails(r) /\ UNCHANGED token
  /\ UNCHANGED <<refreshCookie, refreshAgent, refreshOld,
                 user, provider, providerToken, session>>

\* token.upsert instead of token.update: a row that has gone is written again.
UpsertToken(r) ==
  /\ Refreshing(r, "updateToken")
  /\ token' = [token EXCEPT ![refreshOld[r]] =
       [token |-> r, userId |-> refreshOld[r],
        userAgent |-> refreshAgent[r], expired |-> FALSE]]
  /\ RefreshGoto(r, "respond")
  /\ UNCHANGED <<refreshCookie, refreshAgent, refreshOld,
                 user, provider, providerToken, session>>

\* token.update where token = refreshToken: one UPDATE statement, which finds
\* no row when the string was rotated or the row deleted since it was read.
UpdateToken(r) ==
  /\ Refreshing(r, "updateToken")
  /\ \/ \E t \in TokensNamed(refreshCookie[r]) :
          /\ token' = [token EXCEPT ![t] = Rotated(token[t], r)]
          /\ RefreshGoto(r, "respond")
     \/ /\ TokensNamed(refreshCookie[r]) = {}
        /\ RefreshFails(r)
        /\ UNCHANGED token
  /\ UNCHANGED <<refreshCookie, refreshAgent, refreshOld,
                 user, provider, providerToken, session>>

\* A crash of the server or a rejected database call between two steps.
RefreshCutOff(r) ==
  /\ refreshPc[r] \in RefreshServing /\ r \notin failed
  /\ RefreshFails(r)
  /\ UNCHANGED <<refreshCookie, refreshAgent, refreshOld, storeVars>>

RefreshStep(r) ==
  \/ GetUserByRefreshToken(r)
  \/ GetRefreshToken(r)
  \/ UpdateToken(r)
  \/ RefreshCutOff(r)

=============================================================================
