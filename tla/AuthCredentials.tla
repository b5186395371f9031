--------------------------- MODULE AuthCredentials ---------------------------
(***************************************************************************)
(* The life of refresh tokens, for every number of logins, refreshes,      *)
(* logouts, deletions and browsers: the proofs of RotationSingleUse,       *)
(* LogoutIsFinal, SessionlessToken and CookieAlive; AuthRefinement goes on *)
(* from here to the refinement of RefreshCredential.                       *)
(*                                                                         *)
(* The argument.  As far as token strings go a step of Auth does one of    *)
(* four things (StepKinds): it issues the string of a login, rotates a row *)
(* to the string of a refresh, deletes a row, or changes no string.  Every *)
(* string in a table, a cookie or a request was issued before, so a newly  *)
(* issued one differs from all of them, and one that has left the table    *)
(* does not come back (CredentialInv).                                     *)
(*                                                                         *)
(* A token loses its session only to a logout, which names the token from  *)
(* then on (SessionInv).  A cookie is the string of a request of its own   *)
(* browser, and a string that has left the table was replaced by a refresh *)
(* or deleted by a logout that named it (CookieInv).                       *)
(***************************************************************************)
EXTENDS AuthAccounts

USE RequestsAssumption, NullAssumption, OwnerAssumption, BrowserAssumption

SameStrings ==
  \A t \in Logins :
    /\ token'[t] = Null <=> token[t] = Null
    /\ token[t] # Null =>
         /\ token'[t].token = token[t].token
         /\ token'[t].userAgent = token[t].userAgent
         /\ token'[t].userId = token[t].userId

NowIssued(new) ==
  \A v \in Value : WasIssued(v)' <=> WasIssued(v) \/ v \in new

Issues(r) ==
  /\ loginPc[r] = "createRefreshToken" /\ r \notin failed
  /\ \E row \in TokenRow :
       row.token = r /\ token' = [token EXCEPT ![r] = row]
  /\ loginPc'[r] = "createSession"
  /\ NowIssued({r})

Rotates(r, t) ==
  /\ refreshPc[r] = "updateToken" /\ r \notin failed
  /\ t \in TokensNamed(refreshCookie[r])
  /\ token' = [token EXCEPT ![t] = Rotated(token[t], r)]
  /\ NowIssued({r})

Revokes(t) ==
  /\ token[t] # Null
  /\ token' = [token EXCEPT ![t] = Null]
  /\ \E r \in Logouts : logoutToken'[r] = t /\ logoutPc'[r] \in Answered
  /\ NowIssued({})

KeepsStrings == SameStrings /\ NowIssued({})

-----------------------------------------------------------------------------

\* The four kinds of steps.
LEMMA StepKinds ==
  ASSUME TypeOK, AccountInv, [Next]_vars
  PROVE  \/ \E r \in Logins : Issues(r)
         \/ \E r \in Refreshes, t \in Logins : Rotates(r, t)
         \/ \E t \in Logins : Revokes(t)
         \/ KeepsStrings
<1> USE DEF TypeOK, WasIssued, HasRotated, NowIssued, Answered, Value,
            storeVars, loginVars, refreshVars, vars
<1>1. ASSUME UNCHANGED <<token, loginPc, refreshPc>>
      PROVE  KeepsStrings
  BY <1>1 DEF KeepsStrings, SameStrings
<1>2. ASSUME NEW r \in Logins, LoginStep(r), UNCHANGED refreshVars
      PROVE  Issues(r) \/ KeepsStrings
  <2> USE <1>2 DEF Serving, Goto, LoginFails, loginLocals, LoginTypeOK
  <2>1. CASE CreateRefreshToken(r)
    <3> DEFINE row == [token |-> r, userId |-> loginUser[r],
                       userAgent |-> loginAgent[r], expired |-> FALSE]
    <3>1. row \in TokenRow /\ row.token = r
      BY <2>1 DEF CreateRefreshToken, TokenRow, LoginPc, LoginServing, UserSet,
        ProviderSet, ProviderTokenSet
    <3>2. CASE TokenInsertable(row)
      BY <2>1, <3>1, <3>2 DEF CreateRefreshToken, Issues
    <3>3. CASE ~TokenInsertable(row)
      BY <2>1, <3>3, <1>1 DEF CreateRefreshToken
    <3> QED BY <3>2, <3>3
  <2>2. CASE GetUserIdFromYandex(r) \/ IsRegistered(r) \/ GetUser(r)
    BY <2>2 DEF GetUserIdFromYandex, IsRegistered, GetUser, KeepsStrings,
      SameStrings
  <2>3. CASE CreateUser(r) \/ AddProviderUser(r) \/ GetProvider(r)
    BY <2>3 DEF CreateUser, AddProviderUser, GetProvider, KeepsStrings,
      SameStrings
  <2>4. CASE CheckProviderToken(r) \/ CreateProviderToken(r)
    BY <2>4 DEF CheckProviderToken, CreateProviderToken, KeepsStrings,
      SameStrings
  <2>5. CASE CreateSession(r) \/ LoginCutOff(r)
    BY <2>5 DEF CreateSession, LoginCutOff, KeepsStrings, SameStrings
  <2> QED BY <2>1, <2>2, <2>3, <2>4, <2>5 DEF LoginStep
<1>3. ASSUME NEW r \in Refreshes, RefreshStep(r), UNCHANGED loginVars
      PROVE  (\E t \in Logins : Rotates(r, t)) \/ KeepsStrings
  <2> USE <1>3 DEF Refreshing, RefreshGoto, RefreshFails, RefreshTypeOK
  <2>1. CASE UpdateToken(r)
    BY <2>1 DEF UpdateToken, Rotates, TokensNamed, Rows, KeepsStrings,
      SameStrings
  <2>2. CASE GetUserByRefreshToken(r) \/ GetRefreshToken(r) \/ RefreshCutOff(r)
    BY <2>2 DEF GetUserByRefreshToken, GetRefreshToken, RefreshCutOff,
      KeepsStrings, SameStrings
  <2> QED BY <2>1, <2>2 DEF RefreshStep
<1>4. ASSUME NEW r \in Logouts, LogoutStep(r),
             UNCHANGED <<loginVars, refreshVars>>
      PROVE  (\E t \in Logins : Revokes(t)) \/ KeepsStrings
  <2> USE <1>4
  <2>1. CASE DeleteToken(r) /\ token' # token
    BY <2>1 DEF DeleteToken, DeleteTokenRow, Revokes, StoreTypeOK, LogoutTypeOK,
      LoggingOut, LogoutGoto
  <2> QED
    BY <2>1, <1>1 DEF LogoutStep, FindToken, FindSession, DeleteSession,
      DeleteToken, LogoutCutOff
<1>5. ASSUME NEW r \in Deletes, DeleteStep(r),
             UNCHANGED <<loginVars, refreshVars>>
      PROVE  KeepsStrings
  <2>1. CASE UserDeletable(deletedUser[r]) /\ DeleteUserRow(deletedUser[r])
    <3>1. \A t \in Rows(token) : token[t].userId # deletedUser[r]
      BY <2>1, UsersStay DEF LoggedInUserStays
    <3>2. token' = token
      BY <2>1, <3>1 DEF DeleteUserRow, StoreTypeOK, Rows
    <3> QED BY <1>1, <1>5, <3>2
  <2> QED
    BY <1>1, <1>5, <2>1 DEF DeleteStep, DeleteUser, DeleteCutOff
<1>6. CASE Expire
  <2>1. ASSUME NEW t \in Rows(token)
        PROVE  LET row == [token[t] EXCEPT !.expired = TRUE]
               IN  /\ row # Null
                   /\ row.token = token[t].token
                   /\ row.userAgent = token[t].userAgent
                   /\ row.userId = token[t].userId
    <3>1. token[t] \in TokenRow
      BY DEF Rows, StoreTypeOK, Nullable
    <3>2. [token[t] EXCEPT !.expired = TRUE] \in TokenRow
      BY <3>1 DEF TokenRow
    <3> QED BY <3>1, <3>2 DEF TokenRow
  <2> QED
    BY <1>6, <2>1 DEF Expire, TokenExpires, KeepsStrings, SameStrings, Rows,
      StoreTypeOK
<1>7. CASE Browse
  <2>1. ASSUME NEW r \in BrowserRequest, Lose(r)
        PROVE  KeepsStrings
    BY <2>1 DEF Lose, KeepsStrings, SameStrings, LoginTypeOK, RefreshTypeOK
  <2>2. ASSUME NEW r \in Logins, DeliverLogin(r)
        PROVE  KeepsStrings
    BY <2>2 DEF DeliverLogin, SetCookie, KeepsStrings, SameStrings, LoginTypeOK
  <2>3. ASSUME NEW r \in Refreshes, DeliverRefresh(r)
        PROVE  KeepsStrings
    BY <2>3 DEF DeliverRefresh, SetCookie, KeepsStrings, SameStrings,
      RefreshTypeOK
  <2>4. ASSUME NEW b \in Browser, NEW r \in Logins, NEW y \in YandexToken,
               StartLogin(r, b, y)
        PROVE  KeepsStrings
    BY <2>4 DEF StartLogin, Callback, Serving, Goto, KeepsStrings, SameStrings,
      LoginTypeOK
  <2>5. ASSUME NEW b \in Browser, NEW r \in Refreshes, StartRefresh(r, b)
        PROVE  KeepsStrings
    BY <2>5 DEF StartRefresh, RefreshArrives, Refreshing, RefreshGoto,
      RefreshFails, KeepsStrings, SameStrings, RefreshTypeOK
  <2> QED
    BY <1>1, <1>7, <2>1, <2>2, <2>3, <2>4, <2>5 DEF Browse, StartLogout,
      LogoutArrives, ChangeAgent, StartDelete, DeleteArrives, DeliverLogout,
      SetCookie
<1> QED
  BY <1>1, <1>2, <1>3, <1>4, <1>5, <1>6, <1>7 DEF Next, Serve

-----------------------------------------------------------------------------

\* Rows hold issued strings, no two the same.
Strings ==
  /\ \A t \in Rows(token) : WasIssued(t) /\ WasIssued(token[t].token)
  /\ \A t1, t2 \in Rows(token) : token[t1].token = token[t2].token => t1 = t2

\* So do cookies and the requests that carry them, and a logout works on a login
\* whose string was issued.
Carried ==
  /\ \A b \in Browser : cookie[b] # Null => WasIssued(cookie[b])
  /\ \A r \in Refreshes : refreshPc[r] # "idle" => WasIssued(refreshCookie[r])
  /\ \A r \in Logouts :
       logoutPc[r] \notin {"idle", "findToken"} => WasIssued(logoutToken[r])

\* A rotated string has left the table.
RotatedGone ==
  \A r \in Refreshes : HasRotated(r) => TokensNamed(refreshCookie[r]) = {}

\* What the checks of refreshTokens established still holds at the UPDATE.
CheckedRow ==
  \A r \in Refreshes : refreshPc[r] = "updateToken" =>
    \A t \in TokensNamed(refreshCookie[r]) :
      t = refreshOld[r] /\ token[t].userAgent = refreshAgent[r]

CredentialInv ==
  /\ Strings
  /\ Carried
  /\ RotatedGone
  /\ CheckedRow
  /\ RotationSingleUse
  /\ LogoutIsFinal

\* The empty database and the idle requests satisfy the invariant.
LEMMA CredentialInit ==
  ASSUME Init
  PROVE  CredentialInv
BY DEF Init, StoreInit, RefreshInit, LogoutInit, Empty, Rows, TokensNamed,
  SessionsOf, HasRotated, Answered, CredentialInv, Strings, Carried,
  RotatedGone, CheckedRow, RotationSingleUse, LogoutIsFinal

\* An issued string stays issued, and what it does not name it never names
\* again; nor does the row of a login come back.
LEMMA Persistence ==
  ASSUME TypeOK, AccountInv, CredentialInv, [Next]_vars
  PROVE  /\ \A v \in Value : WasIssued(v) => WasIssued(v)'
         /\ \A v \in Value : WasIssued(v) =>
              \A t \in TokensNamed(v)' :
                /\ t \in TokensNamed(v)
                /\ token'[t].userAgent = token[t].userAgent
         /\ \A t \in Logins : WasIssued(t) /\ token[t] = Null => token'[t] = Null
<1> USE DEF TypeOK, NowIssued, TokensNamed, Rows, Nullable, StoreTypeOK
<1>1. ASSUME NEW r \in Logins, Issues(r)
      PROVE  ~WasIssued(r) /\ r \in Value
  BY <1>1 DEF Issues, WasIssued, Answered, Value
<1>2. ASSUME NEW r \in Refreshes, NEW t \in Logins, Rotates(r, t)
      PROVE  /\ ~WasIssued(r) /\ r \in Value
             /\ token[t] # Null
             /\ Rotated(token[t], r) # Null
             /\ Rotated(token[t], r).token = r
  <2>1. ~WasIssued(r) /\ r \in Value /\ token[t] # Null
    BY <1>2 DEF Rotates, WasIssued, HasRotated, Answered, Value
  <2>2. token[t] \in TokenRow /\ refreshAgent[r] \in Agent
    BY <1>2, <2>1 DEF Rotates, RefreshTypeOK
  <2> QED BY <2>1, <2>2, RotatedType
<1>3. CASE \E r \in Logins : Issues(r)
  BY <1>1, <1>3 DEF Issues
<1>4. CASE \E r \in Refreshes, t \in Logins : Rotates(r, t)
  <2>1. PICK r \in Refreshes, t \in Logins : Rotates(r, t)
    BY <1>4
  <2>2. /\ token' = [token EXCEPT ![t] = Rotated(token[t], r)]
        /\ NowIssued({r})
    BY <2>1 DEF Rotates
  <2> QED BY <1>2, <2>1, <2>2
<1>5. CASE \E t \in Logins : Revokes(t)
  BY <1>5 DEF Revokes
<1>6. CASE KeepsStrings
  BY <1>6 DEF KeepsStrings, SameStrings
<1> QED BY <1>3, <1>4, <1>5, <1>6, StepKinds

\* Rows go on holding issued strings, no two the same.
LEMMA StringsKept ==
  ASSUME TypeOK, AccountInv, CredentialInv, [Next]_vars
  PROVE  Strings'
<1> USE DEF TypeOK, NowIssued, TokensNamed, Rows, Nullable, StoreTypeOK,
            CredentialInv, Strings
<1>1. \A t \in Rows(token) : token[t].token \in Value /\ t \in Value
  BY DEF TokenRow, Value
<1>2. CASE \E r \in Logins : Issues(r)
  BY <1>1, <1>2 DEF Issues, WasIssued, Answered, Value
<1>3. ASSUME NEW r \in Refreshes, NEW t \in Logins, Rotates(r, t)
      PROVE  Strings'
  <2>1. ~WasIssued(r) /\ r \in Value /\ token[t] # Null
    BY <1>3 DEF Rotates, WasIssued, HasRotated, Answered, Value
  <2>2. token[t] \in TokenRow /\ refreshAgent[r] \in Agent
    BY <1>3, <2>1 DEF Rotates, RefreshTypeOK
  <2>3. Rotated(token[t], r).token = r
    BY <2>1, <2>2, RotatedType
  <2> QED BY <1>1, <1>3, <2>1, <2>3 DEF Rotates
<1>4. CASE \E t \in Logins : Revokes(t)
  BY <1>1, <1>4 DEF Revokes
<1>5. CASE KeepsStrings
  BY <1>1, <1>5 DEF KeepsStrings, SameStrings
<1> QED BY <1>2, <1>3, <1>4, <1>5, StepKinds

-----------------------------------------------------------------------------
(* What a step may do to the locals of a request, to a cookie, to a        *)
(* session.                                                                *)

\* A refresh keeps its cookie and User-Agent from its arrival on, and is at the
\* UPDATE, or past it, only by the calls that lead there.
LEMMA RefreshFrame ==
  ASSUME TypeOK, [Next]_vars, NEW r \in Refreshes
  PROVE  /\ refreshPc[r] # "idle" =>
              /\ refreshPc'[r] # "idle"
              /\ refreshCookie'[r] = refreshCookie[r]
              /\ refreshAgent'[r] = refreshAgent[r]
         /\ refreshPc'[r] # "idle" =>
              \/ refreshPc[r] # "idle"
              \/ \E b \in Browser : StartRefresh(r, b)
         /\ refreshPc'[r] = "updateToken" =>
              \/ refreshPc[r] = "updateToken" /\ refreshOld'[r] = refreshOld[r]
              \/ GetRefreshToken(r)
         /\ HasRotated(r)' => HasRotated(r) \/ UpdateToken(r)
         /\ refreshPc[r] = "updateToken" \/ HasRotated(r) =>
              refreshOld'[r] = refreshOld[r]
         /\ refreshPc[r] = "done" => refreshPc'[r] = "done"
         /\ refreshPc'[r] = "done" => refreshPc[r] = "done" \/ DeliverRefresh(r)
<1> USE DEF TypeOK, RefreshTypeOK, refreshVars, HasRotated, Answered
<1>1. CASE UNCHANGED refreshVars
  BY <1>1
<1>2. ASSUME NEW q \in Refreshes, GetUserByRefreshToken(q) \/ RefreshCutOff(q)
      PROVE  /\ refreshPc'[r] = refreshPc[r] \/ refreshPc'[r] = "getRefreshToken"
             /\ refreshPc[r] \in {"idle", "done"} => refreshPc'[r] = refreshPc[r]
             /\ refreshPc[r] = "idle" <=> refreshPc'[r] = "idle"
             /\ UNCHANGED <<refreshCookie, refreshAgent, refreshOld>>
  BY <1>2 DEF GetUserByRefreshToken, RefreshCutOff, Refreshing, RefreshGoto,
    RefreshFails
<1>3. ASSUME NEW q \in Refreshes, GetRefreshToken(q)
      PROVE  /\ q # r => /\ refreshPc'[r] = refreshPc[r]
                        /\ refreshOld'[r] = refreshOld[r]
             /\ refreshPc'[r] \notin Answered \/ refreshPc'[r] = refreshPc[r]
             /\ refreshPc[r] # "getRefreshToken" =>
                  /\ refreshPc'[r] = refreshPc[r]
                  /\ refreshOld'[r] = refreshOld[r]
             /\ refreshPc[r] = "idle" <=> refreshPc'[r] = "idle"
             /\ UNCHANGED <<refreshCookie, refreshAgent>>
  BY <1>3 DEF GetRefreshToken, Refreshing, RefreshGoto, RefreshFails
<1>4. ASSUME NEW q \in Refreshes, UpdateToken(q)
      PROVE  /\ q # r => refreshPc'[r] = refreshPc[r]
             /\ refreshPc[r] = "idle" <=> refreshPc'[r] = "idle"
             /\ refreshPc'[r] = "updateToken" => refreshPc[r] = "updateToken"
             /\ refreshPc[r] = "done" \/ refreshPc'[r] = "done" =>
                  refreshPc'[r] = refreshPc[r]
             /\ UNCHANGED <<refreshCookie, refreshAgent, refreshOld>>
  BY <1>4 DEF UpdateToken, Refreshing, RefreshGoto, RefreshFails
<1>5. ASSUME NEW q \in Refreshes, NEW b \in Browser, StartRefresh(q, b)
      PROVE  /\ q # r => /\ refreshPc'[r] = refreshPc[r]
                        /\ refreshCookie'[r] = refreshCookie[r]
                        /\ refreshAgent'[r] = refreshAgent[r]
             /\ refreshPc'[r] # refreshPc[r] =>
                  refreshPc'[r] = "getUserByRefreshToken"
             /\ q = r => refreshPc[r] = "idle"
             /\ UNCHANGED refreshOld
  BY <1>5 DEF StartRefresh, RefreshArrives, Refreshing, RefreshGoto,
    RefreshFails
<1>6. ASSUME NEW q \in BrowserRequest,
             (q \in Refreshes /\ DeliverRefresh(q)) \/ Lose(q)
      PROVE  /\ UNCHANGED <<refreshCookie, refreshAgent, refreshOld>>
             /\ \/ refreshPc'[r] = refreshPc[r]
                \/ refreshPc[r] = "respond" /\ refreshPc'[r] \in Answered
             /\ refreshPc'[r] = "done" => refreshPc[r] = "done" \/ DeliverRefresh(r)
  BY <1>6 DEF DeliverRefresh, Lose
<1>7. CASE Serve
  BY <1>1, <1>2, <1>3, <1>4, <1>7 DEF Serve, RefreshStep
<1>8. CASE Browse
  BY <1>1, <1>5, <1>6, <1>8 DEF Browse, BrowserRequest, StartLogin, StartLogout,
    ChangeAgent, StartDelete, DeliverLogin, DeliverLogout
<1> QED
  BY <1>1, <1>7, <1>8 DEF Next, Expire, vars

\* A logout keeps the row it found, and has answered only by deleting it.
LEMMA LogoutFrame ==
  ASSUME TypeOK, [Next]_vars, NEW r \in Logouts
  PROVE  /\ logoutPc[r] \notin {"idle", "findToken"} =>
              /\ logoutPc'[r] \notin {"idle", "findToken"}
              /\ logoutToken'[r] = logoutToken[r]
         /\ logoutPc'[r] \notin {"idle", "findToken"} =>
              \/ logoutPc[r] \notin {"idle", "findToken"}
              \/ logoutToken'[r] \in Rows(token)
         /\ logoutPc'[r] \in Answered =>
              \/ logoutPc[r] \in Answered
              \/ /\ DeleteTokenRow(logoutToken[r])
                 /\ logoutToken[r] \in Logins
                 /\ logoutToken'[r] = logoutToken[r]
         /\ logoutPc[r] \in Answered => logoutPc'[r] \in Answered
         /\ logoutPc[r] = "deleteToken" =>
              \/ logoutPc'[r] = "deleteToken"
              \/ DeleteTokenRow(logoutToken[r]) /\ logoutToken[r] \in Logins
         /\ logoutPc'[r] = "deleteSession" =>
              /\ logoutPc[r] \notin {"idle", "findToken"}
              /\ \/ /\ logoutPc[r] = "deleteSession"
                    /\ logoutSession'[r] = logoutSession[r]
                 \/ logoutSession'[r] \in SessionsOf(logoutToken[r])
<1> USE DEF TypeOK, LogoutTypeOK, logoutVars, Answered
<1>1. CASE UNCHANGED logoutVars
  BY <1>1
<1>2. ASSUME NEW q \in Logouts, FindToken(q)
      PROVE  /\ logoutPc'[r] = logoutPc[r] \/ logoutPc'[r] = "findSession"
             /\ \/ logoutToken'[r] = logoutToken[r]
                \/ logoutToken'[r] \in Rows(token)
             /\ logoutPc'[r] # logoutPc[r] => logoutToken'[r] \in Rows(token)
             /\ \/ logoutPc[r] = "findToken"
                \/ /\ logoutPc'[r] = logoutPc[r]
                   /\ logoutToken'[r] = logoutToken[r]
             /\ UNCHANGED logoutSession
  BY <1>2 DEF FindToken, TokensOf, LoggingOut, LogoutGoto, LogoutFails, Rows
<1>3. ASSUME NEW q \in Logouts,
             FindSession(q) \/ DeleteSession(q) \/ LogoutCutOff(q)
      PROVE  /\ UNCHANGED logoutToken
             /\ \/ logoutPc'[r] = logoutPc[r]
                \/ /\ logoutPc[r] \in {"findSession", "deleteSession"}
                   /\ logoutPc'[r] \in {"deleteSession", "deleteToken"}
             /\ logoutPc'[r] = "deleteSession" =>
                  \/ /\ logoutPc[r] = "deleteSession"
                     /\ logoutSession'[r] = logoutSession[r]
                  \/ logoutSession'[r] \in SessionsOf(logoutToken[r])
  BY <1>3 DEF FindSession, DeleteSession, LogoutCutOff, LoggingOut, LogoutGoto,
    LogoutFails
<1>4. ASSUME NEW q \in Logouts, DeleteToken(q)
      PROVE  /\ UNCHANGED <<logoutToken, logoutSession>>
             /\ \/ logoutPc'[r] = logoutPc[r]
                \/ /\ logoutPc[r] = "deleteToken" /\ logoutPc'[r] = "respond"
                   /\ DeleteTokenRow(logoutToken[r])
  BY <1>4 DEF DeleteToken, LoggingOut, LogoutGoto, LogoutFails
<1>5. ASSUME NEW q \in Logouts, NEW b \in Browser, StartLogout(q, b)
      PROVE  /\ \/ logoutPc'[r] = logoutPc[r]
                \/ logoutPc[r] = "idle" /\ logoutPc'[r] = "findToken"
             /\ UNCHANGED <<logoutToken, logoutSession>>
  BY <1>5 DEF StartLogout, LogoutArrives, LoggingOut, LogoutGoto, LogoutFails
<1>6. ASSUME NEW q \in BrowserRequest,
             (q \in Logouts /\ DeliverLogout(q)) \/ Lose(q)
      PROVE  /\ UNCHANGED <<logoutToken, logoutSession>>
             /\ \/ logoutPc'[r] = logoutPc[r]
                \/ logoutPc[r] \in Answered /\ logoutPc'[r] \in Answered
  BY <1>6 DEF DeliverLogout, Lose
<1>7. CASE Serve
  BY <1>1, <1>2, <1>3, <1>4, <1>7 DEF Serve, LogoutStep
<1>8. CASE Browse
  BY <1>1, <1>5, <1>6, <1>8 DEF Browse, BrowserRequest, StartLogin,
    StartRefresh, ChangeAgent, StartDelete, DeliverLogin, DeliverRefresh
<1> QED
  BY <1>1, <1>7, <1>8 DEF Next, Expire, vars

\* The answer with the string that request r generated arrives.
Delivers(r) ==
  \/ r \in Logins /\ DeliverLogin(r)
  \/ r \in Refreshes /\ DeliverRefresh(r)

\* A cookie gets a string only from the answer of the request that stored it.
LEMMA CookieFrame ==
  ASSUME TypeOK, [Next]_vars, NEW b \in Browser
  PROVE  \/ cookie'[b] = cookie[b]
         \/ cookie'[b] = Null
         \/ /\ cookie'[b] \in Value /\ WasIssued(cookie'[b])
            /\ Delivers(cookie'[b]) /\ origin[cookie'[b]] = b
<1>1. CASE UNCHANGED cookie
  BY <1>1
<1>2. ASSUME NEW r \in Logins, DeliverLogin(r)
      PROVE  /\ r \in Value /\ WasIssued(r)
             /\ cookie' = [cookie EXCEPT ![origin[r]] = r]
  BY <1>2 DEF DeliverLogin, SetCookie, WasIssued, Answered, Value
<1>3. ASSUME NEW r \in Refreshes, DeliverRefresh(r)
      PROVE  /\ r \in Value /\ WasIssued(r)
             /\ cookie' = [cookie EXCEPT ![origin[r]] = r]
  BY <1>3 DEF DeliverRefresh, SetCookie, WasIssued, HasRotated, Answered, Value
<1>4. ASSUME NEW r \in Logouts, DeliverLogout(r)
      PROVE  cookie' = [cookie EXCEPT ![origin[r]] = Null]
  BY <1>4 DEF DeliverLogout, SetCookie
<1> USE DEF TypeOK, browserVars, Delivers
<1>5. CASE Serve
  BY <1>1, <1>5 DEF Serve
<1>6. CASE Browse
  BY <1>1, <1>2, <1>3, <1>4, <1>6 DEF Browse, StartLogin, StartRefresh,
    StartLogout, ComesFrom, ChangeAgent, StartDelete, Lose
<1> QED
  BY <1>1, <1>5, <1>6 DEF Next, Expire, vars

\* Only createSession inserts a session, for a token that is there.
LEMMA SessionFrame ==
  ASSUME TypeOK, AccountInv, [Next]_vars, NEW s \in Rows(session)'
  PROVE  \/ s \in Rows(session) /\ session'[s] = session[s]
         \/ /\ token[s] # Null /\ token' = token
            /\ session'[s].refreshTokenId = s
<1> USE DEF TypeOK, StoreTypeOK, Rows, storeVars
<1>1. CASE UNCHANGED session
  BY <1>1
<1>2. ASSUME NEW r \in Logins, CreateSession(r), session' # session
      PROVE  \/ s \in Rows(session) /\ session'[s] = session[s]
             \/ /\ token[s] # Null /\ token' = token
                /\ session'[s].refreshTokenId = s
  BY <1>2 DEF CreateSession, SessionInsertable
<1>3. ASSUME NEW r \in Logouts, DeleteSession(r) \/ DeleteToken(r)
      PROVE  s \in Rows(session) /\ session'[s] = session[s]
  BY <1>3 DEF DeleteSession, DeleteToken, DeleteTokenRow
<1>4. ASSUME NEW r \in Deletes, DeleteStep(r)
      PROVE  s \in Rows(session) /\ session'[s] = session[s]
  BY <1>4 DEF DeleteStep, DeleteUser, DeleteUserRow, DeleteCutOff
<1>5. CASE Serve
  BY <1>1, <1>2, <1>3, <1>4, <1>5 DEF Serve, LoginStep, GetUserIdFromYandex,
    IsRegistered, GetUser, CreateUser, AddProviderUser, GetProvider,
    CheckProviderToken, CreateProviderToken, CreateRefreshToken, LoginCutOff,
    RefreshStep, GetUserByRefreshToken, GetRefreshToken, UpdateToken,
    RefreshCutOff, LogoutStep, FindToken, FindSession, LogoutCutOff
<1>6. CASE Expire \/ Browse
  BY <1>1, <1>6 DEF Expire, TokenExpires, Browse, StartLogin, Callback,
    StartRefresh, RefreshArrives, StartLogout, LogoutArrives, ChangeAgent,
    StartDelete, DeleteArrives, DeliverLogin, DeliverRefresh, DeliverLogout,
    SetCookie, Lose
<1> QED
  BY <1>1, <1>5, <1>6 DEF Next, vars

-----------------------------------------------------------------------------

\* Every step keeps the invariant.
LEMMA CredentialStep ==
  ASSUME TypeOK, TypeOK', AccountInv, CredentialInv, [Next]_vars
  PROVE  CredentialInv'
<1> USE DEF TypeOK, CredentialInv
<1>1. Strings'
  BY StringsKept
<1>2. Carried'
  <2>1. ASSUME NEW b \in Browser, cookie'[b] # Null
        PROVE  WasIssued(cookie[b])'
    BY <2>1, CookieFrame, Persistence DEF Carried, Nullable
  <2>2. ASSUME NEW r \in Refreshes, refreshPc'[r] # "idle"
        PROVE  WasIssued(refreshCookie[r])'
    BY <2>2, RefreshFrame, Persistence DEF Carried, StartRefresh,
      RefreshArrives, Refreshing, RefreshGoto, RefreshFails, RefreshTypeOK
  <2>3. ASSUME NEW r \in Logouts, logoutPc'[r] \notin {"idle", "findToken"}
        PROVE  WasIssued(logoutToken[r])'
    BY <2>3, LogoutFrame, Persistence DEF Carried, Strings, LogoutTypeOK, Rows,
      Value
  <2> QED BY <2>1, <2>2, <2>3 DEF Carried
<1>3. RotatedGone'
  <2>1. ASSUME NEW r \in Refreshes, HasRotated(r)', ~HasRotated(r)
        PROVE  TokensNamed(refreshCookie[r])' = {}
    <3>1. PICK t \in TokensNamed(refreshCookie[r]) :
            /\ token' = [token EXCEPT ![t] = Rotated(token[t], r)]
            /\ UNCHANGED refreshCookie
      BY <2>1, RefreshFrame DEF UpdateToken, Refreshing, RefreshFails,
        HasRotated, Answered
    <3>2. /\ r \in Value /\ ~WasIssued(r) /\ refreshCookie[r] \in Value
          /\ WasIssued(refreshCookie[r])
      BY <2>1, <3>1, RefreshFrame DEF WasIssued, Value, RefreshTypeOK, Carried,
        UpdateToken, Refreshing
    <3>3. token[t] \in TokenRow /\ refreshAgent[r] \in Agent
      BY <2>1, RefreshFrame DEF TokensNamed, Rows, StoreTypeOK, Nullable,
        RefreshTypeOK, UpdateToken, Refreshing
    <3>4. token'[t].token = r
      BY <3>1, <3>2, <3>3, RotatedType DEF TokensNamed, Rows, StoreTypeOK
    <3> QED
      BY <3>1, <3>2, <3>4 DEF TokensNamed, Rows, Strings, StoreTypeOK
  <2>2. ASSUME NEW r \in Refreshes, HasRotated(r)
        PROVE  TokensNamed(refreshCookie[r])' = {}
    <3>1. /\ refreshCookie'[r] = refreshCookie[r]
          /\ refreshCookie[r] \in Value
          /\ WasIssued(refreshCookie[r])
      BY <2>2, RefreshFrame DEF HasRotated, Answered, RefreshTypeOK, Carried
    <3> QED BY <2>2, <3>1, Persistence DEF RotatedGone
  <2> QED BY <2>1, <2>2 DEF RotatedGone
<1>4. CheckedRow'
  <2> SUFFICES ASSUME NEW r \in Refreshes, refreshPc'[r] = "updateToken",
                      NEW t \in TokensNamed(refreshCookie[r])'
               PROVE  t = refreshOld'[r] /\ token'[t].userAgent = refreshAgent'[r]
    BY DEF CheckedRow
  <2>1. CASE refreshPc[r] = "updateToken" /\ refreshOld'[r] = refreshOld[r]
    <3>1. /\ refreshCookie'[r] = refreshCookie[r]
          /\ refreshAgent'[r] = refreshAgent[r]
          /\ refreshCookie[r] \in Value
          /\ WasIssued(refreshCookie[r])
      BY <2>1, RefreshFrame DEF RefreshTypeOK, Carried
    <3>2. t \in TokensNamed(refreshCookie[r]) /\ token'[t].userAgent = token[t].userAgent
      BY <3>1, Persistence
    <3> QED BY <2>1, <3>1, <3>2 DEF CheckedRow
  <2>2. CASE GetRefreshToken(r)
    BY <2>2 DEF GetRefreshToken, Refreshing, RefreshGoto, RefreshFails,
      Refreshable, TokensNamed, Rows, Strings, storeVars, RefreshTypeOK
  <2> QED BY <2>1, <2>2, RefreshFrame
<1>5. RotationSingleUse'
  <2> SUFFICES ASSUME NEW r1 \in Refreshes, NEW r2 \in Refreshes,
                      HasRotated(r1)', HasRotated(r2)',
                      refreshCookie'[r1] = refreshCookie'[r2], r1 # r2
               PROVE  FALSE
    BY DEF RotationSingleUse
  <2>1. ASSUME NEW r \in Refreshes, NEW q \in Refreshes, r # q,
               HasRotated(r)', ~HasRotated(r), HasRotated(q)',
               refreshCookie'[r] = refreshCookie'[q]
        PROVE  FALSE
    <3>1. /\ UpdateToken(r)
          /\ TokensNamed(refreshCookie[r]) # {}
          /\ UNCHANGED refreshCookie
          /\ refreshPc'[q] = refreshPc[q]
      BY <2>1, RefreshFrame DEF UpdateToken, Refreshing, RefreshGoto,
        RefreshFails, HasRotated, Answered, RefreshTypeOK
    <3> QED BY <2>1, <3>1 DEF RotatedGone, HasRotated
  <2>2. CASE HasRotated(r1) /\ HasRotated(r2)
    BY <2>2, RefreshFrame DEF RotationSingleUse, HasRotated, Answered
  <2> QED BY <2>1, <2>2
<1>6. LogoutIsFinal'
  <2> SUFFICES ASSUME NEW r \in Logouts, logoutPc'[r] \in Answered
               PROVE  /\ token'[logoutToken'[r]] = Null
                      /\ SessionsOf(logoutToken[r])' = {}
    BY DEF LogoutIsFinal
  <2>1. CASE logoutPc[r] \in Answered
    <3> DEFINE t == logoutToken[r]
    <3>1. /\ t \in Logins /\ t \in Value /\ WasIssued(t)
          /\ token[t] = Null /\ SessionsOf(t) = {}
          /\ logoutToken'[r] = t
      BY <2>1, LogoutFrame DEF LogoutIsFinal, LogoutTypeOK, Carried, Answered,
        Value
    <3>2. token'[t] = Null
      BY <3>1, Persistence
    <3> HIDE DEF t
    <3>3. \A s \in Rows(session)' : session'[s].refreshTokenId # t
      BY <3>1, SessionFrame DEF SessionsOf
    <3> QED BY <3>1, <3>2, <3>3 DEF SessionsOf, Rows
  <2>2. CASE /\ DeleteTokenRow(logoutToken[r])
             /\ logoutToken[r] \in Logins
             /\ logoutToken'[r] = logoutToken[r]
    BY <2>2 DEF DeleteTokenRow, SessionsOf, Rows, StoreTypeOK
  <2> QED BY <2>1, <2>2, LogoutFrame
<1> QED BY <1>1, <1>2, <1>3, <1>4, <1>5, <1>6

\* The inductive invariant the theorems below rest on.
THEOREM CredentialsKept == Spec => []CredentialInv
<1>1. TypeOK /\ TypeOK' /\ AccountInv /\ CredentialInv /\ [Next]_vars
        => CredentialInv'
  BY CredentialStep
<1> QED
  BY <1>1, CredentialInit, TypeCorrect, AccountsKept, PTL DEF Spec

\* Refreshes with one string: at most one wins, however many race.
THEOREM RotationSingleUseHolds == Spec => []RotationSingleUse
<1>1. CredentialInv => RotationSingleUse
  BY DEF CredentialInv
<1> QED BY <1>1, CredentialsKept, PTL

\* What logout ended stays ended, whatever runs beside it.
THEOREM LogoutIsFinalHolds == Spec => []LogoutIsFinal
<1>1. CredentialInv => LogoutIsFinal
  BY DEF CredentialInv
<1> QED BY <1>1, CredentialsKept, PTL

-----------------------------------------------------------------------------
(* Sessions: a token without one is on its way to get it or to go.         *)

\* A login waits for its session until it is there.
LEMMA LoginFrame ==
  ASSUME TypeOK, [Next]_vars, NEW r \in Logins
  PROVE  /\ loginPc[r] = "createSession" =>
              loginPc'[r] = "createSession" \/ session'[r] # Null
         /\ loginPc[r] = "done" => loginPc'[r] = "done"
         /\ loginPc[r] # "idle" => origin'[r] = origin[r]
<1> USE DEF TypeOK, LoginTypeOK, StoreTypeOK, loginVars, storeVars, Serving,
            Goto, LoginFails
<1>1. CASE UNCHANGED <<loginVars, origin>>
  BY <1>1
<1>2. ASSUME NEW q \in Logins, LoginStep(q), UNCHANGED origin
      PROVE  /\ loginPc[r] = "createSession" =>
                  loginPc'[r] = "createSession" \/ session'[r] # Null
             /\ loginPc[r] = "done" => loginPc'[r] = "done"
  <2>1. CASE CreateSession(q)
    <3> DEFINE row == [refreshTokenId  |-> q,
                       providerTokenId |-> loginProviderToken[q]]
    <3>1. row \in SessionRow
      BY <2>1 DEF CreateSession, SessionRow, LoginPc, LoginServing, UserSet,
        ProviderSet, ProviderTokenSet
    <3> QED BY <2>1, <3>1 DEF CreateSession
  <2>2. CASE ~CreateSession(q)
    BY <1>2, <2>2 DEF LoginStep, GetUserIdFromYandex, IsRegistered, GetUser,
      CreateUser, AddProviderUser, GetProvider, CheckProviderToken,
      CreateProviderToken, CreateRefreshToken, LoginCutOff
  <2> QED BY <2>1, <2>2
<1>3. CASE Serve
  BY <1>1, <1>2, <1>3 DEF Serve, browserVars
<1>4. ASSUME NEW q \in Logins, NEW b \in Browser, NEW y \in YandexToken,
             StartLogin(q, b, y)
      PROVE  /\ loginPc[q] = "idle"
             /\ q # r => loginPc'[r] = loginPc[r] /\ origin'[r] = origin[r]
  BY <1>4 DEF StartLogin, Callback, ComesFrom, BrowserRequest
<1>5. ASSUME NEW q \in Refreshes \cup Logouts, NEW b \in Browser,
             (q \in Refreshes /\ StartRefresh(q, b))
               \/ (q \in Logouts /\ StartLogout(q, b))
      PROVE  UNCHANGED loginVars /\ origin'[r] = origin[r]
  BY <1>5 DEF StartRefresh, StartLogout, ComesFrom, BrowserRequest
<1>6. ASSUME NEW q \in BrowserRequest,
             (q \in Logins /\ DeliverLogin(q)) \/ Lose(q)
      PROVE  /\ UNCHANGED origin
             /\ loginPc'[r] = loginPc[r] \/ loginPc[r] = "respond"
  BY <1>6 DEF DeliverLogin, SetCookie, Lose, browserVars, BrowserRequest
<1>7. CASE Browse
  BY <1>1, <1>4, <1>5, <1>6, <1>7 DEF Browse, BrowserRequest, StartDelete,
    ChangeAgent, DeliverRefresh, DeliverLogout, SetCookie, browserVars
<1> QED
  BY <1>1, <1>3, <1>7 DEF Next, Expire, vars, browserVars

\* A session goes with its token, or by the hand of a logout.
LEMMA SessionGone ==
  ASSUME TypeOK, AccountInv, [Next]_vars, NEW s \in Rows(session),
         session'[s] = Null
  PROVE  \/ token'[s] = Null
         \/ \E r \in Logouts : /\ logoutPc[r] = "deleteSession"
                               /\ logoutSession[r] = s
                               /\ logoutPc'[r] = "deleteToken"
                               /\ UNCHANGED logoutToken
<1> USE DEF TypeOK, StoreTypeOK, Rows, storeVars, AccountInv, Sessions
<1>1. session' # session
  BY DEF Rows
<1>2. ASSUME NEW r \in Logins, LoginStep(r)
      PROVE  FALSE
  <2>1. CASE CreateSession(r)
    <3> DEFINE row == [refreshTokenId  |-> r,
                       providerTokenId |-> loginProviderToken[r]]
    <3>1. row \in SessionRow
      BY <2>1 DEF CreateSession, SessionRow, LoginTypeOK, LoginPc, LoginServing,
        UserSet, ProviderSet, ProviderTokenSet, Serving
    <3> QED BY <2>1, <3>1 DEF CreateSession
  <2> QED
    BY <1>1, <1>2, <2>1 DEF LoginStep, GetUserIdFromYandex, IsRegistered,
      GetUser, CreateUser, AddProviderUser, GetProvider, CheckProviderToken,
      CreateProviderToken, CreateRefreshToken, LoginCutOff
<1>3. ASSUME NEW r \in Refreshes, RefreshStep(r)
      PROVE  FALSE
  BY <1>1, <1>3 DEF RefreshStep, GetUserByRefreshToken, GetRefreshToken,
    UpdateToken, RefreshCutOff
<1>4. ASSUME NEW r \in Logouts, LogoutStep(r)
      PROVE  \/ token'[s] = Null
             \/ /\ logoutPc[r] = "deleteSession" /\ logoutSession[r] = s
                /\ logoutPc'[r] = "deleteToken" /\ UNCHANGED logoutToken
  BY <1>1, <1>4 DEF LogoutStep, FindToken, FindSession, DeleteSession,
    DeleteToken, DeleteTokenRow, LogoutCutOff, LoggingOut, LogoutGoto,
    LogoutTypeOK
<1>5. ASSUME NEW r \in Deletes, DeleteStep(r)
      PROVE  token'[s] = Null
  BY <1>1, <1>5 DEF DeleteStep, DeleteUser, DeleteUserRow, DeleteCutOff
<1>6. CASE Serve
  BY <1>2, <1>3, <1>4, <1>5, <1>6 DEF Serve
<1>7. CASE Expire \/ Browse
  BY <1>1, <1>7 DEF Expire, TokenExpires, Browse, StartLogin, Callback,
    StartRefresh, RefreshArrives, StartLogout, LogoutArrives, ChangeAgent,
    StartDelete, DeleteArrives, DeliverLogin, DeliverRefresh, DeliverLogout,
    SetCookie, Lose
<1> QED
  BY <1>1, <1>6, <1>7 DEF Next, vars

\* The session a logout has found is the one of its token.
LogoutSessions ==
  \A r \in Logouts : logoutPc[r] = "deleteSession" =>
    logoutSession[r] = logoutToken[r]

SessionInv == LogoutSessions /\ SessionlessToken

\* Every step keeps the invariant of sessions.
LEMMA SessionStep ==
  ASSUME TypeOK, TypeOK', AccountInv, AccountInv', CredentialInv, SessionInv,
         [Next]_vars
  PROVE  SessionInv'
<1> USE DEF SessionInv
<1>0. \A t \in Logins : session[t] # Null => t \in SessionsOf(t)
  BY DEF AccountInv, Sessions, SessionsOf, Rows
<1>1. LogoutSessions'
  <2> SUFFICES ASSUME NEW r \in Logouts, logoutPc'[r] = "deleteSession"
               PROVE  logoutSession'[r] = logoutToken'[r]
    BY DEF LogoutSessions
  <2>1. logoutToken'[r] = logoutToken[r]
    BY LogoutFrame DEF Answered
  <2> QED
    BY <2>1, LogoutFrame DEF LogoutSessions, AccountInv, Sessions, SessionsOf,
      Rows
<1>2. SessionlessToken'
  <2> SUFFICES ASSUME NEW t \in Logins, token'[t] # Null,
                      SessionsOf(t)' = {}
               PROVE  \/ loginPc'[t] = "createSession"
                      \/ \E r \in Logouts :
                           logoutToken'[r] = t /\ logoutPc'[r] = "deleteToken"
    BY DEF SessionlessToken, Rows
  <2>0. session'[t] = Null
    BY DEF AccountInv, Sessions, SessionsOf, Rows
  <2>1. CASE token[t] = Null
    <3>1. CASE \E r \in Logins : Issues(r)
      BY <2>1, <3>1 DEF Issues, TypeOK, StoreTypeOK
    <3>2. CASE \E r \in Refreshes, u \in Logins : Rotates(r, u)
      BY <2>1, <3>2 DEF Rotates, TokensNamed, Rows, TypeOK, StoreTypeOK
    <3>3. CASE \E u \in Logins : Revokes(u)
      BY <2>1, <3>3 DEF Revokes, TypeOK, StoreTypeOK
    <3>4. CASE KeepsStrings
      BY <2>1, <3>4 DEF KeepsStrings, SameStrings
    <3> QED BY <3>1, <3>2, <3>3, <3>4, StepKinds
  <2>2. CASE token[t] # Null /\ session[t] = Null
    <3>1. SessionsOf(t) = {}
      BY <2>2 DEF AccountInv, Sessions, SessionsOf, Rows
    <3>2. CASE loginPc[t] = "createSession"
      BY <2>0, <3>2, LoginFrame
    <3>3. CASE \E r \in Logouts :
                 logoutToken[r] = t /\ logoutPc[r] = "deleteToken"
      <4>1. PICK r \in Logouts :
              logoutToken[r] = t /\ logoutPc[r] = "deleteToken"
        BY <3>3
      <4>2. ~DeleteTokenRow(t)
        BY DEF DeleteTokenRow, TypeOK, StoreTypeOK
      <4> QED BY <4>1, <4>2, LogoutFrame
    <3> QED BY <2>2, <3>1, <3>2, <3>3 DEF SessionlessToken, Rows
  <2>3. CASE session[t] # Null
    BY <2>0, <2>3, SessionGone DEF Rows, LogoutSessions
  <2> QED BY <2>1, <2>2, <2>3
<1> QED BY <1>1, <1>2

\* A token without a session is about to get one or to go, or the request that
\* would have done so has stopped.
THEOREM SessionlessTokenHolds == Spec => []SessionlessToken
<1>1. Init => SessionInv
  BY DEF Init, StoreInit, LogoutInit, Empty, Rows, SessionInv, LogoutSessions,
    SessionlessToken
<1>2. TypeOK /\ TypeOK' /\ AccountInv /\ AccountInv' /\ CredentialInv
        /\ SessionInv /\ [Next]_vars => SessionInv'
  BY SessionStep
<1>3. SessionInv => SessionlessToken
  BY DEF SessionInv
<1> QED
  BY <1>1, <1>2, <1>3, TypeCorrect, AccountsKept, CredentialsKept, PTL DEF Spec

-----------------------------------------------------------------------------
(* Cookies: a browser keeps the last string that was delivered to it, so a *)
(* refresh that rotated the string of a cookie has not been answered yet,  *)
(* or its answer is lost.                                                  *)

\* The browser has got the string.
Delivered(value) ==
  IF value \in Logins THEN loginPc[value] = "done" ELSE refreshPc[value] = "done"

\* A cookie was delivered to its browser.
CookieDelivered ==
  \A b \in Browser : cookie[b] # Null =>
    Delivered(cookie[b]) /\ origin[cookie[b]] = b

\* So was the cookie a refresh carries, by the same browser.
CarriedDelivered ==
  \A r \in Refreshes : refreshPc[r] # "idle" =>
    /\ Delivered(refreshCookie[r])
    /\ origin[r] \in Browser
    /\ origin[refreshCookie[r]] = origin[r]

\* The answer of a refresh replaced the cookie, which does not come back.
CookieReplaced ==
  \A r \in Refreshes : refreshPc[r] = "done" => cookie[origin[r]] # refreshCookie[r]

\* The row that carries a string belongs to the string's login.
StringLogin ==
  \A t \in Rows(token) : LoginOf(token[t].token) = t

\* A string has left the table by a rotation or a logout.
SpentBy ==
  \A v \in Value : WasIssued(v) /\ TokensNamed(v) = {} =>
    \/ \E r \in Refreshes : refreshCookie[r] = v /\ HasRotated(r)
    \/ \E r \in Logouts : logoutToken[r] = LoginOf(v) /\ logoutPc[r] \in Answered

CookieInv ==
  /\ CookieDelivered
  /\ CarriedDelivered
  /\ CookieReplaced
  /\ StringLogin
  /\ SpentBy

\* What has been delivered stays delivered, and comes from where it came from.
LEMMA DeliveredFrame ==
  ASSUME TypeOK, [Next]_vars, NEW v \in Value
  PROVE  /\ Delivered(v) => Delivered(v)' /\ origin'[v] = origin[v]
         /\ v \in Refreshes /\ refreshPc[v] # "idle" => origin'[v] = origin[v]
         /\ Delivers(v) => ~Delivered(v) /\ Delivered(v)' /\ origin'[v] = origin[v]
         /\ Delivered(v) => WasIssued(v)
<1> USE DEF Value, Delivered
<1>1. ASSUME v \in Refreshes, refreshPc[v] # "idle"
      PROVE  origin'[v] = origin[v]
  <2>1. CASE UNCHANGED origin
    BY <2>1
  <2>2. ASSUME NEW r \in BrowserRequest, NEW b \in Browser, ComesFrom(r, b),
               r # v
        PROVE  origin'[v] = origin[v]
    BY <2>2 DEF ComesFrom, TypeOK, BrowserRequest
  <2>3. CASE Browse
    BY <1>1, <2>1, <2>2, <2>3 DEF Browse, StartLogin, StartRefresh,
      RefreshArrives, Refreshing, StartLogout, ChangeAgent, StartDelete,
      DeliverLogin, DeliverRefresh, DeliverLogout, SetCookie, Lose,
      browserVars, BrowserRequest
  <2> QED BY <2>1, <2>3 DEF Next, Serve, Expire, vars, browserVars
<1>2. Delivered(v) => Delivered(v)' /\ origin'[v] = origin[v]
  BY <1>1, LoginFrame, RefreshFrame
<1>3. Delivers(v) => ~Delivered(v) /\ Delivered(v)' /\ origin'[v] = origin[v]
  BY DEF Delivers, DeliverLogin, DeliverRefresh, SetCookie, TypeOK, LoginTypeOK,
    RefreshTypeOK
<1>4. Delivered(v) => WasIssued(v)
  BY DEF WasIssued, HasRotated, Answered
<1> QED BY <1>1, <1>2, <1>3, <1>4

\* What an issued string is called after does not change.
LEMMA LoginOfKept ==
  ASSUME TypeOK, CredentialInv, [Next]_vars, NEW v \in Value, WasIssued(v)
  PROVE  LoginOf(v)' = LoginOf(v)
BY RefreshFrame DEF LoginOf, WasIssued, Value

\* Rows carry strings of their own login after every step.
LEMMA StringLoginKept ==
  ASSUME TypeOK, AccountInv, CredentialInv, CookieInv, [Next]_vars
  PROVE  StringLogin'
<1> USE DEF TypeOK, StoreTypeOK, Nullable
<1> SUFFICES ASSUME NEW t \in Rows(token)'
             PROVE  LoginOf(token[t].token)' = t
  BY DEF StringLogin
<1>1. ASSUME t \in Rows(token), token'[t].token = token[t].token
      PROVE  LoginOf(token[t].token)' = t
  BY <1>1, LoginOfKept DEF CookieInv, StringLogin, CredentialInv, Strings, Rows,
    TokenRow
<1>2. ASSUME NEW r \in Logins, Issues(r)
      PROVE  LoginOf(token[t].token)' = t
  <2>1. PICK row \in TokenRow : row.token = r /\ token' = [token EXCEPT ![r] = row]
    BY <1>2 DEF Issues
  <2>2. CASE t = r
    BY <2>1, <2>2 DEF LoginOf, Rows
  <2> QED BY <1>1, <2>1, <2>2 DEF Rows
<1>3. ASSUME NEW r \in Refreshes, NEW u \in Logins, Rotates(r, u)
      PROVE  LoginOf(token[t].token)' = t
  <2>1. /\ token[u] \in TokenRow /\ u = refreshOld[r]
        /\ refreshAgent[r] \in Agent /\ r \in Value
        /\ token' = [token EXCEPT ![u] = Rotated(token[u], r)]
    BY <1>3 DEF Rotates, TokensNamed, Rows, CredentialInv, CheckedRow,
      RefreshTypeOK, Value
  <2>2. CASE t = u
    <3>1. token'[t].token = r
      BY <2>1, <2>2, RotatedType
    <3>2. refreshOld'[r] = refreshOld[r]
      BY <1>3, RefreshFrame DEF Rotates
    <3> QED BY <2>1, <2>2, <3>1, <3>2 DEF LoginOf
  <2> QED BY <1>1, <2>1, <2>2 DEF Rows
<1>4. ASSUME NEW u \in Logins, Revokes(u)
      PROVE  LoginOf(token[t].token)' = t
  BY <1>1, <1>4 DEF Revokes, Rows
<1>5. CASE KeepsStrings
  BY <1>1, <1>5 DEF KeepsStrings, SameStrings, Rows
<1> QED BY <1>2, <1>3, <1>4, <1>5, StepKinds

\* A string that leaves the table does so by a rotation or a logout.
LEMMA SpentByKept ==
  ASSUME TypeOK, AccountInv, CredentialInv, CookieInv, [Next]_vars
  PROVE  SpentBy'
<1> USE DEF TypeOK, StoreTypeOK, Nullable, TokensNamed, Rows
<1> SUFFICES ASSUME NEW v \in Value, WasIssued(v)', TokensNamed(v)' = {}
             PROVE  \/ \E r \in Refreshes :
                         refreshCookie'[r] = v /\ HasRotated(r)'
                    \/ \E r \in Logouts : /\ logoutToken'[r] = LoginOf(v)'
                                          /\ logoutPc'[r] \in Answered
  BY DEF SpentBy
<1>1. WasIssued(v)
  <2>1. ASSUME NEW r \in Logins, Issues(r)
        PROVE  r # v
    BY <2>1 DEF Issues
  <2>2. ASSUME NEW r \in Refreshes, NEW t \in Logins, Rotates(r, t)
        PROVE  r # v
    <3>1. /\ token[t] \in TokenRow /\ refreshAgent[r] \in Agent /\ r \in Value
          /\ token' = [token EXCEPT ![t] = Rotated(token[t], r)]
      BY <2>2 DEF Rotates, RefreshTypeOK, Value
    <3> QED BY <3>1, RotatedType
  <2> QED
    BY <2>1, <2>2, StepKinds DEF Issues, Rotates, Revokes, KeepsStrings,
      NowIssued
<1>2. LoginOf(v)' = LoginOf(v)
  BY <1>1, LoginOfKept
<1>3. CASE TokensNamed(v) = {}
  <2>1. CASE \E r \in Refreshes : refreshCookie[r] = v /\ HasRotated(r)
    <3>1. PICK r \in Refreshes : refreshCookie[r] = v /\ HasRotated(r)
      BY <2>1
    <3>2. r \in Value /\ WasIssued(r)
      BY <3>1 DEF WasIssued, Value
    <3>3. HasRotated(r)'
      BY <3>2, Persistence DEF WasIssued, Value
    <3> QED BY <3>1, <3>3, RefreshFrame DEF HasRotated, Answered
  <2>2. CASE \E r \in Logouts : logoutToken[r] = LoginOf(v) /\ logoutPc[r] \in Answered
    BY <2>2, <1>2, LogoutFrame DEF Answered
  <2> QED BY <1>1, <1>3, <2>1, <2>2 DEF CookieInv, SpentBy
<1>4. ASSUME NEW t \in Logins, token[t] # Null, token[t].token = v
      PROVE  \/ \E r \in Refreshes :
                  refreshCookie'[r] = v /\ HasRotated(r)'
             \/ \E r \in Logouts : /\ logoutToken'[r] = LoginOf(v)'
                                   /\ logoutPc'[r] \in Answered
  <2>1. LoginOf(v) = t
    BY <1>4 DEF CookieInv, StringLogin
  <2>2. ASSUME NEW r \in Logins, Issues(r)
        PROVE  FALSE
    <3>1. token[r] = Null
      BY <2>2 DEF Issues, CredentialInv, Strings, WasIssued, Answered
    <3> QED BY <2>2, <3>1, <1>4 DEF Issues
  <2>3. ASSUME NEW r \in Refreshes, NEW u \in Logins, Rotates(r, u)
        PROVE  refreshCookie'[r] = v /\ HasRotated(r)'
    <3>1. u = t
      BY <2>3, <1>4 DEF Rotates
    <3>2. refreshCookie[r] = v /\ refreshPc[r] = "updateToken"
      BY <2>3, <3>1, <1>4 DEF Rotates
    <3>3. HasRotated(r)'
      BY <2>3 DEF Rotates, NowIssued, WasIssued, Value
    <3> QED BY <3>2, <3>3, RefreshFrame
  <2>4. ASSUME NEW u \in Logins, Revokes(u)
        PROVE  \E r \in Logouts : /\ logoutToken'[r] = LoginOf(v)'
                                  /\ logoutPc'[r] \in Answered
    <3>1. u = t
      BY <2>4, <1>4 DEF Revokes
    <3> QED BY <2>1, <2>4, <3>1, <1>2 DEF Revokes
  <2>5. ~KeepsStrings
    BY <1>4 DEF KeepsStrings, SameStrings
  <2> QED BY <2>2, <2>3, <2>4, <2>5, StepKinds
<1> QED BY <1>3, <1>4

\* Every step keeps the invariant of cookies.
LEMMA CookieStep ==
  ASSUME TypeOK, TypeOK', AccountInv, CredentialInv, CookieInv, [Next]_vars
  PROVE  CookieInv'
<1> USE DEF CookieInv
<1>1. CookieDelivered'
  BY CookieFrame, DeliveredFrame DEF CookieDelivered, TypeOK, Nullable
<1>2. CarriedDelivered'
  <2> SUFFICES ASSUME NEW r \in Refreshes, refreshPc'[r] # "idle"
               PROVE  /\ Delivered(refreshCookie[r])'
                      /\ origin'[r] \in Browser
                      /\ origin'[refreshCookie'[r]] = origin'[r]
    BY DEF CarriedDelivered
  <2>1. CASE refreshPc[r] # "idle"
    <3>1. /\ refreshCookie'[r] = refreshCookie[r]
          /\ refreshCookie[r] \in Value /\ r \in Value
      BY <2>1, RefreshFrame DEF TypeOK, RefreshTypeOK, Value
    <3>2. Delivered(refreshCookie[r])' /\ origin'[r] = origin[r]
          /\ origin'[refreshCookie[r]] = origin[refreshCookie[r]]
      BY <2>1, <3>1, DeliveredFrame DEF CarriedDelivered
    <3> QED BY <2>1, <3>1, <3>2 DEF CarriedDelivered
  <2>2. ASSUME NEW b \in Browser, StartRefresh(r, b), refreshPc[r] = "idle"
        PROVE  /\ Delivered(refreshCookie[r])'
               /\ origin'[r] \in Browser
               /\ origin'[refreshCookie'[r]] = origin'[r]
    <3>1. cookie[b] # Null /\ refreshCookie'[r] = cookie[b] /\ origin'[r] = b
      BY <2>2 DEF StartRefresh, RefreshArrives, Refreshing, RefreshFails,
        ComesFrom, TypeOK, RefreshTypeOK, BrowserRequest
    <3>2. PICK v \in Value : v = cookie[b]
      BY <3>1 DEF TypeOK, Nullable
    <3>3. Delivered(v) /\ origin[v] = b
      BY <3>1, <3>2 DEF CookieDelivered
    <3>4. Delivered(v)' /\ origin'[v] = b
      BY <3>3, DeliveredFrame
    <3> QED BY <3>1, <3>2, <3>4 DEF Delivered
  <2> QED BY <2>1, <2>2, RefreshFrame
<1>3. CookieReplaced'
  <2> SUFFICES ASSUME NEW r \in Refreshes, refreshPc'[r] = "done"
               PROVE  cookie'[origin'[r]] # refreshCookie'[r]
    BY DEF CookieReplaced
  <2> DEFINE old == refreshCookie[r]
  <2>1. /\ refreshPc[r] # "idle" /\ refreshCookie'[r] = old
        /\ old \in Value /\ old # Null /\ Delivered(old)
        /\ origin[r] \in Browser /\ origin'[r] = origin[r]
    <3>1. refreshPc[r] # "idle"
      BY RefreshFrame DEF DeliverRefresh
    <3>2. refreshCookie'[r] = old /\ old \in Value
      BY <3>1, RefreshFrame DEF TypeOK, RefreshTypeOK
    <3>3. Delivered(old) /\ origin[r] \in Browser
      BY <3>1 DEF CarriedDelivered
    <3>4. origin'[r] = origin[r]
      BY <3>1, DeliveredFrame DEF Value
    <3> QED BY <3>1, <3>2, <3>3, <3>4
  <2>2. CASE refreshPc[r] = "done"
    <3>1. cookie[origin[r]] # old
      BY <2>2 DEF CookieReplaced
    <3> QED BY <2>1, <3>1, CookieFrame, DeliveredFrame
  <2>3. CASE DeliverRefresh(r)
    <3>1. cookie'[origin[r]] = r
      BY <2>1, <2>3 DEF DeliverRefresh, SetCookie, TypeOK
    <3>2. old # r
      BY <2>1, <2>3 DEF Delivered, DeliverRefresh
    <3> QED BY <2>1, <3>1, <3>2
  <2> QED BY <2>2, <2>3, RefreshFrame
<1>4. StringLogin'
  BY StringLoginKept
<1>5. SpentBy'
  BY SpentByKept
<1> QED BY <1>1, <1>2, <1>3, <1>4, <1>5

\* A cookie stops working only by a refresh whose answer has not come, or by a
\* logout of its login.
THEOREM CookieAliveHolds == Spec => []CookieAlive
<1>1. Init => CookieInv
  BY DEF Init, StoreInit, LoginInit, RefreshInit, Empty, Rows, Value, CookieInv,
    CookieDelivered, CarriedDelivered, CookieReplaced, StringLogin, SpentBy,
    WasIssued, HasRotated, Answered
<1>2. TypeOK /\ TypeOK' /\ AccountInv /\ CredentialInv /\ CookieInv /\ [Next]_vars
        => CookieInv'
  BY CookieStep
<1>3. TypeOK /\ CookieInv => CookieAlive
  <2> SUFFICES ASSUME TypeOK, CookieInv, NEW b \in Browser, cookie[b] # Null,
                      TokensNamed(cookie[b]) = {},
                      NEW r \in Refreshes, refreshCookie[r] = cookie[b],
                      HasRotated(r)
               PROVE  refreshPc[r] \in {"respond", "lost"}
    <3>1. CookieInv /\ TypeOK => \A b \in Browser : cookie[b] # Null =>
            cookie[b] \in Value /\ WasIssued(cookie[b])
      BY DEF TypeOK, Nullable, CookieInv, CookieDelivered, Delivered, WasIssued,
        HasRotated, Answered
    <3> QED BY <3>1 DEF CookieAlive, CookieInv, SpentBy
  <2>1. origin[r] = b
    BY DEF CookieInv, CookieDelivered, CarriedDelivered, HasRotated, Answered
  <2> QED
    BY <2>1 DEF CookieInv, CookieReplaced, HasRotated, Answered
<1> QED
  BY <1>1, <1>2, <1>3, TypeCorrect, AccountsKept, CredentialsKept, PTL DEF Spec

=============================================================================
