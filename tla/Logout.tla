------------------------------- MODULE Logout -------------------------------
(***************************************************************************)
(* AuthService.logout, the handler behind GET auth/logout: it looks the    *)
(* token row up by the cookie, then removes its session and the row in     *)
(* separate calls by id, so a refresh may change the token string in       *)
(* between.                                                                *)
(***************************************************************************)
EXTENDS AuthStore

VARIABLES
  logoutPc,
  logoutCookie,   \* the cookie the request carries
  logoutToken,    \* local "token" (its id)
  logoutSession   \* local "session" (its id)

logoutVars == <<logoutPc, logoutCookie, logoutToken, logoutSession>>

LogoutServing == {"findToken", "findSession", "deleteSession", "deleteToken"}

LogoutPc == {"idle"} \cup LogoutServing \cup Answered

LogoutTypeOK ==
  /\ logoutPc \in [Logouts -> LogoutPc]
  /\ logoutCookie \in [Logouts -> Nullable(Value)]
  /\ logoutToken \in [Logouts -> Nullable(Logins)]
  /\ logoutSession \in [Logouts -> Nullable(Logins)]
  /\ \A r \in Logouts :
       /\ logoutPc[r] # "idle" => logoutCookie[r] \in Value
       /\ logoutPc[r] \notin {"idle", "findToken"} => logoutToken[r] \in Logins
       /\ logoutPc[r] = "deleteSession" => logoutSession[r] \in Logins

LogoutInit ==
  /\ logoutPc = [r \in Logouts |-> "idle"]
  /\ logoutCookie = [r \in Logouts |-> Null]
  /\ logoutToken = [r \in Logouts |-> Null]
  /\ logoutSession = [r \in Logouts |-> Null]

-----------------------------------------------------------------------------

LoggingOut(r, call) == logoutPc[r] = call /\ r \notin failed

LogoutGoto(r, call) ==
  /\ logoutPc' = [logoutPc EXCEPT ![r] = call]
  /\ UNCHANGED failed

LogoutFails(r) == Fail(r) /\ UNCHANGED logoutPc

LogoutArrives(r, cookie) ==
  /\ LoggingOut(r, "idle")
  /\ logoutCookie' = [logoutCookie EXCEPT ![r] = cookie]
  /\ IF cookie # Null THEN LogoutGoto(r, "findToken") ELSE LogoutFails(r)
  /\ UNCHANGED <<logoutToken, logoutSession, storeVars>>

TokensOf(cookie) == {t \in Rows(token) : token[t].token = cookie}

FindToken(r) ==
  /\ LoggingOut(r, "findToken")
  /\ \/ \E t \in TokensOf(logoutCookie[r]) :
          /\ logoutToken' = [logoutToken EXCEPT ![r] = t]
          /\ LogoutGoto(r, "findSession")
     \/ /\ TokensOf(logoutCookie[r]) = {}
        /\ LogoutFails(r)
        /\ UNCHANGED logoutToken
  /\ UNCHANGED <<logoutCookie, logoutSession, storeVars>>

SessionsOf(t) == {s \in Rows(session) : session[s].refreshTokenId = t}

FindSession(r) ==
  /\ LoggingOut(r, "findSession")
  /\ \/ \E s \in SessionsOf(logoutToken[r]) :
          /\ logoutSession' = [logoutSession EXCEPT ![r] = s]
          /\ LogoutGoto(r, "deleteSession")
     \/ /\ SessionsOf(logoutToken[r]) = {}
        /\ LogoutGoto(r, "deleteToken")
        /\ UNCHANGED logoutSession
  /\ UNCHANGED <<logoutCookie, logoutToken, storeVars>>

\* session.delete by id raises when a concurrent logout was faster.
DeleteSession(r) ==
  /\ LoggingOut(r, "deleteSession")
  /\ IF session[logoutSession[r]] # Null
       THEN /\ session' = [session EXCEPT ![logoutSession[r]] = Null]
            /\ LogoutGoto(r, "deleteToken")
       ELSE LogoutFails(r) /\ UNCHANGED session
  /\ UNCHANGED <<logoutCookie, logoutToken, logoutSession,
                 user, provider, providerToken, token>>

\* token.deleteMany by the token string: silent when a refresh changed it.
DeleteTokenByValue(r) ==
  /\ LoggingOut(r, "deleteToken")
  /\ token' = [t \in Logins |-> IF t \in TokensOf(logoutCookie[r])
                                  THEN Null ELSE token[t]]
  /\ LogoutGoto(r, "respond")
  /\ UNCHANGED <<logoutCookie, logoutToken, logoutSession,
                 user, provider, providerToken, session>>

\* All tokens of the user, whichever login they come from.
DeleteTokensOfUser(r) ==
  /\ LoggingOut(r, "deleteToken")
  /\ token' = [t \in Logins |->
       IF token[t] # Null /\ token[logoutToken[r]] # Null
          /\ token[t].userId = token[logoutToken[r]].userId
         THEN Null ELSE token[t]]
  /\ session' = [s \in Logins |->
       IF session[s] # Null /\ token'[session[s].refreshTokenId] = Null
         THEN Null ELSE session[s]]
  /\ LogoutGoto(r, "respond")
  /\ UNCHANGED <<logoutCookie, logoutToken, logoutSession,
                 user, provider, providerToken>>

DeleteToken(r) ==
  /\ LoggingOut(r, "deleteToken")
  /\ IF token[logoutToken[r]] # Null
       THEN DeleteTokenRow(logoutToken[r]) /\ LogoutGoto(r, "respond")
       ELSE LogoutFails(r) /\ UNCHANGED storeVars
  /\ UNCHANGED <<logoutCookie, logoutToken, logoutSession>>

\* A crash of the server or a rejected database call between two steps.
LogoutCutOff(r) ==
  /\ logoutPc[r] \in LogoutServing /\ r \notin failed
  /\ LogoutFails(r)
  /\ UNCHANGED <<logoutCookie, logoutToken, logoutSession, storeVars>>

LogoutStep(r) ==
  \/ FindToken(r)
  \/ FindSession(r)
  \/ DeleteSession(r)
  \/ DeleteToken(r)
  \/ LogoutCutOff(r)

=============================================================================
