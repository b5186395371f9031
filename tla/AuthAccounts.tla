---------------------------- MODULE AuthAccounts ----------------------------
(***************************************************************************)
(* Who is who, for every number of logins, deletions, accounts and         *)
(* browsers: the proofs of SessionOwner, AccountIdentity,                  *)
(* LoggedInUserStays and ProviderlessUser.                                 *)
(*                                                                         *)
(* The argument.  A user and its provider row are inserted by the same     *)
(* login, so a provider p always belongs to user p.  A login works on a    *)
(* user of its own account, and the account has one provider at a time.    *)
(* A provider that has a provider token is never deleted again.  So when a *)
(* login has found or made a provider token and its user still exists, the *)
(* token belongs to the provider of that very user.                        *)
(***************************************************************************)
EXTENDS AuthTypes

USE RequestsAssumption, NullAssumption, OwnerAssumption

\* Users come from createUser and keep their provider row.
Users ==
  \A u \in user :
    /\ loginPc[u] \in UserSet
    /\ provider[u] # Null \/ loginPc[u] = "addProviderUser"

Providers ==
  /\ \A p \in Rows(provider) :
       /\ p \in user
       /\ provider[p].userId = p
       /\ provider[p].providerUserId = AccountOf(p)
  /\ \A p1, p2 \in Rows(provider) :
       provider[p1].providerUserId = provider[p2].providerUserId => p1 = p2

ProviderTokens ==
  \A k \in Rows(providerToken) :
    LET p == providerToken[k].providerId
    IN  /\ provider[p] # Null
        /\ provider[p].providerUserId = Owner[providerToken[k].providerToken]
        /\ loginPc[k] \in ProviderTokenSet

Tokens ==
  \A t \in Rows(token) :
    /\ loginPc[t] \in ProviderTokenSet
    /\ token[t].userId = loginUser[t]
    /\ loginUser[t] \in user

Sessions ==
  \A s \in Rows(session) :
    /\ session[s].refreshTokenId = s
    /\ session[s].providerTokenId = loginProviderToken[s]
    /\ token[s] # Null
    /\ loginPc[s] \in ProviderTokenSet

\* What the locals of a login name.
UserFound ==
  \A r \in Logins :
    /\ loginPc[r] = "addProviderUser" => loginUser[r] = r
    /\ loginPc[r] \in UserSet =>
         /\ loginPc[loginUser[r]] \in UserSet
         /\ AccountOf(loginUser[r]) = AccountOf(r)

ProviderFound ==
  \A r \in Logins : loginPc[r] \in ProviderSet =>
    /\ loginProvider[r] = loginUser[r]
    /\ loginUser[r] \in user => provider[loginUser[r]] # Null

ProviderTokenFound ==
  \A r \in Logins : loginPc[r] \in ProviderTokenSet =>
    LET k == loginProviderToken[r]
    IN  /\ providerToken[k] # Null
        /\ Owner[providerToken[k].providerToken] = AccountOf(r)

AccountInv ==
  /\ Users
  /\ Providers
  /\ ProviderTokens
  /\ Tokens
  /\ Sessions
  /\ UserFound
  /\ ProviderFound
  /\ ProviderTokenFound

-----------------------------------------------------------------------------

\* The empty database satisfies the invariant.
LEMMA AccountInit == Init => AccountInv
BY DEF Init, StoreInit, LoginInit, Empty, Rows, AccountInv, Users, Providers,
  ProviderTokens, Tokens, Sessions, UserFound, ProviderFound,
  ProviderTokenFound, UserSet, ProviderSet, ProviderTokenSet, LoginPc

\* The steps of a login keep the account invariant.
LEMMA AccountLogin ==
  ASSUME StoreTypeOK, LoginTypeOK, AccountInv, NEW r \in Logins, LoginStep(r)
  PROVE  AccountInv'
<1> USE DEF AccountInv, StoreTypeOK, LoginTypeOK, LoginPc, LoginServing,
            Answered, UserSet, ProviderSet, ProviderTokenSet, Rows, AccountOf,
            storeVars, loginLocals, Serving, Goto, LoginFails, Fail, Nullable,
            Value
<1>1. CASE GetUserIdFromYandex(r)
  <2> USE <1>1 DEF GetUserIdFromYandex
  <2>1. Users' /\ Providers' /\ ProviderTokens' /\ Tokens' /\ Sessions'
    BY DEF Users, Providers, ProviderTokens, Tokens, Sessions
  <2>2. UserFound' /\ ProviderFound' /\ ProviderTokenFound'
    BY DEF UserFound, ProviderFound, ProviderTokenFound
  <2> QED BY <2>1, <2>2
<1>2. CASE IsRegistered(r)
  <2> USE <1>2 DEF IsRegistered
  <2>1. Users' /\ Providers' /\ ProviderTokens' /\ Tokens' /\ Sessions'
    BY DEF Users, Providers, ProviderTokens, Tokens, Sessions
  <2>2. UserFound' /\ ProviderFound' /\ ProviderTokenFound'
    BY DEF UserFound, ProviderFound, ProviderTokenFound
  <2> QED BY <2>1, <2>2
<1>3. CASE GetUser(r)
  <2> USE <1>3 DEF GetUser
  <2>1. Users' /\ Providers' /\ ProviderTokens' /\ Tokens' /\ Sessions'
    BY DEF Users, Providers, ProviderTokens, Tokens, Sessions
  <2>2. UserFound'
    BY DEF UserFound, Users, Providers, ProvidersOf
  <2>3. ProviderFound' /\ ProviderTokenFound'
    BY DEF ProviderFound, ProviderTokenFound
  <2> QED BY <2>1, <2>2, <2>3
<1>4. CASE CreateUser(r)
  <2> USE <1>4 DEF CreateUser
  <2>1. Users' /\ Providers' /\ ProviderTokens' /\ Tokens' /\ Sessions'
    BY DEF Users, Providers, ProviderTokens, Tokens, Sessions
  <2>2. UserFound'
    BY DEF UserFound
  <2>3. ProviderFound'
    BY DEF ProviderFound, UserFound
  <2>4. ProviderTokenFound'
    BY DEF ProviderTokenFound
  <2> QED BY <2>1, <2>2, <2>3, <2>4
<1>5. CASE AddProviderUser(r)
  <2> USE <1>5
  <2>1. loginUser[r] = r
    BY DEF AddProviderUser, UserFound
  <2> DEFINE row == [userId |-> loginUser[r], providerUserId |-> AccountOf(r)]
  <2>2. CASE ~ProviderInsertable(row)
    <3> USE <2>2 DEF AddProviderUser
    <3>1. Users' /\ Providers' /\ ProviderTokens' /\ Tokens' /\ Sessions'
      BY DEF Users, Providers, ProviderTokens, Tokens, Sessions, UserFound
    <3>2. UserFound' /\ ProviderFound' /\ ProviderTokenFound'
      BY DEF UserFound, ProviderFound, ProviderTokenFound
    <3> QED BY <3>1, <3>2
  <2>3. CASE ProviderInsertable(row)
    <3>1. /\ ProviderInsertable(row)
          /\ provider' = [provider EXCEPT ![r] = row]
          /\ Goto(r, "getProvider")
          /\ UNCHANGED <<loginLocals, user, providerToken, token, session>>
      BY <2>3 DEF AddProviderUser
    <3>2. /\ row \in ProviderRow
          /\ row.userId = r
          /\ row.providerUserId = AccountOf(r)
      BY <2>1 DEF ProviderRow, AddProviderUser
    <3>3. /\ r \in user
          /\ \A p \in Rows(provider) : provider[p].providerUserId # AccountOf(r)
      BY <3>1, <3>2 DEF ProviderInsertable
    <3>4. provider[r] = Null
      BY <3>3 DEF Providers
    <3> HIDE DEF row
    <3> USE <3>1, <3>2, <3>3, <3>4, <2>1 DEF AddProviderUser
    <3>5. Users'
      BY DEF Users
    <3>6. Providers'
      BY DEF Providers
    <3>7. ProviderTokens' /\ Tokens' /\ Sessions'
      BY DEF ProviderTokens, Tokens, Sessions
    <3>8. UserFound' /\ ProviderFound' /\ ProviderTokenFound'
      BY DEF UserFound, ProviderFound, ProviderTokenFound
    <3> QED BY <3>5, <3>6, <3>7, <3>8
  <2> QED BY <2>2, <2>3
<1>6. CASE GetProvider(r)
  <2> USE <1>6 DEF GetProvider
  <2>1. Users' /\ Providers' /\ ProviderTokens' /\ Tokens' /\ Sessions'
    BY DEF Users, Providers, ProviderTokens, Tokens, Sessions
  <2>2. UserFound' /\ ProviderTokenFound'
    BY DEF UserFound, ProviderTokenFound
  <2>3. ProviderFound'
    BY DEF ProviderFound, Providers, ProvidersOfUser
  <2> QED BY <2>1, <2>2, <2>3
<1>7. CASE CheckProviderToken(r)
  <2> USE <1>7 DEF CheckProviderToken
  <2>1. Users' /\ Providers'
    BY DEF Users, Providers
  <2>2. ProviderTokens' /\ Tokens' /\ Sessions'
    BY DEF ProviderTokens, Tokens, Sessions
  <2>3. UserFound' /\ ProviderFound'
    BY DEF UserFound, ProviderFound
  <2>4. ProviderTokenFound'
    BY DEF ProviderTokenFound, ProviderTokensOf
  <2> QED BY <2>1, <2>2, <2>3, <2>4
<1>8. CASE CreateProviderToken(r)
  <2> USE <1>8
  <2> DEFINE row == [providerToken |-> loginToken[r],
                     providerId    |-> loginProvider[r]]
  <2>1. CASE ~ProviderTokenInsertable(row)
    <3> USE <2>1 DEF CreateProviderToken
    <3>2. Users' /\ Providers' /\ ProviderTokens' /\ Tokens' /\ Sessions'
      BY DEF Users, Providers, ProviderTokens, Tokens, Sessions
    <3>3. UserFound' /\ ProviderFound' /\ ProviderTokenFound'
      BY DEF UserFound, ProviderFound, ProviderTokenFound
    <3> QED BY <3>2, <3>3
  <2>2. CASE ProviderTokenInsertable(row)
    <3>1. /\ ProviderTokenInsertable(row)
          /\ providerToken' = [providerToken EXCEPT ![r] = row]
          /\ loginProviderToken' = [loginProviderToken EXCEPT ![r] = r]
          /\ Goto(r, "createRefreshToken")
          /\ UNCHANGED <<loginToken, loginAgent, loginUser, loginProvider,
                         user, provider, token, session>>
      BY <2>2 DEF CreateProviderToken
    <3>2. /\ row \in ProviderTokenRow
          /\ row.providerToken = loginToken[r]
          /\ row.providerId = loginProvider[r]
      BY DEF ProviderTokenRow, CreateProviderToken
    <3>3. /\ provider[row.providerId] # Null
          /\ provider[row.providerId].providerUserId = AccountOf(r)
      BY <3>1, <3>2 DEF ProviderTokenInsertable, CreateProviderToken,
        ProviderFound, UserFound, Providers
    <3>4. providerToken[r] = Null
      BY DEF CreateProviderToken, ProviderTokens
    <3> HIDE DEF row
    <3> USE <3>1, <3>2, <3>3, <3>4 DEF CreateProviderToken
    <3>5. Users' /\ Providers'
      BY DEF Users, Providers
    <3>6. ProviderTokens'
      BY DEF ProviderTokens
    <3>7. Tokens' /\ Sessions'
      BY DEF Tokens, Sessions
    <3>8. UserFound' /\ ProviderFound'
      BY DEF UserFound, ProviderFound
    <3>9. ProviderTokenFound'
      BY DEF ProviderTokenFound
    <3> QED BY <3>5, <3>6, <3>7, <3>8, <3>9
  <2> QED BY <2>1, <2>2
<1>9. CASE CreateRefreshToken(r)
  <2> USE <1>9
  <2> DEFINE row == [token |-> r, userId |-> loginUser[r],
                     userAgent |-> loginAgent[r], expired |-> FALSE]
  <2>1. /\ row \in TokenRow
        /\ row.userId = loginUser[r]
    BY DEF CreateRefreshToken, TokenRow
  <2>2. /\ \/ /\ TokenInsertable(row)
              /\ token' = [token EXCEPT ![r] = row]
              /\ Goto(r, "createSession")
           \/ LoginFails(r) /\ UNCHANGED token
        /\ UNCHANGED <<loginLocals, user, provider, providerToken, session>>
    BY DEF CreateRefreshToken
  <2> HIDE DEF row
  <2> USE <2>1, <2>2 DEF CreateRefreshToken
  <2>3. Users' /\ Providers' /\ ProviderTokens'
    BY DEF Users, Providers, ProviderTokens
  <2>4. Tokens'
    BY DEF Tokens, TokenInsertable
  <2>5. Sessions'
    BY DEF Sessions
  <2>6. UserFound' /\ ProviderFound' /\ ProviderTokenFound'
    BY DEF UserFound, ProviderFound, ProviderTokenFound
  <2> QED BY <2>3, <2>4, <2>5, <2>6
<1>10. CASE CreateSession(r)
  <2> USE <1>10 DEF CreateSession
  <2>1. Users' /\ Providers' /\ ProviderTokens' /\ Tokens'
    BY DEF Users, Providers, ProviderTokens, Tokens
  <2>2. Sessions'
    BY DEF Sessions, SessionInsertable, SessionRow
  <2>3. UserFound' /\ ProviderFound' /\ ProviderTokenFound'
    BY DEF UserFound, ProviderFound, ProviderTokenFound
  <2> QED BY <2>1, <2>2, <2>3
<1>11. CASE LoginCutOff(r)
  <2> USE <1>11 DEF LoginCutOff
  <2>1. Users' /\ Providers' /\ ProviderTokens' /\ Tokens' /\ Sessions'
    BY DEF Users, Providers, ProviderTokens, Tokens, Sessions
  <2>2. UserFound' /\ ProviderFound' /\ ProviderTokenFound'
    BY DEF UserFound, ProviderFound, ProviderTokenFound
  <2> QED BY <2>1, <2>2
<1> QED BY <1>1, <1>2, <1>3, <1>4, <1>5, <1>6, <1>7, <1>8, <1>9, <1>10, <1>11
      DEF LoginStep

\* A refresh changes neither the rows that exist nor their users.
LEMMA AccountRefresh ==
  ASSUME StoreTypeOK, LoginTypeOK, RefreshTypeOK, AccountInv,
         NEW r \in Refreshes, RefreshStep(r), UNCHANGED loginVars
  PROVE  AccountInv'
<1> USE DEF AccountInv, Rows, AccountOf, storeVars, loginVars
<1>1. CASE UNCHANGED storeVars
  BY <1>1 DEF Users, Providers, ProviderTokens, Tokens, Sessions, UserFound,
    ProviderFound, ProviderTokenFound
<1>2. CASE UpdateToken(r)
  <2>1. /\ UNCHANGED <<user, provider, providerToken, session>>
        /\ \A t \in Logins : token'[t] = Null <=> token[t] = Null
        /\ \A t \in Rows(token) : token'[t].userId = token[t].userId
    <3>1. ASSUME NEW t \in Rows(token)
          PROVE  /\ Rotated(token[t], r) # Null
                 /\ Rotated(token[t], r).userId = token[t].userId
      <4>1. token[t] \in TokenRow /\ refreshAgent[r] \in Agent /\ r \in Value
        BY <1>2 DEF UpdateToken, StoreTypeOK, Nullable, RefreshTypeOK,
          Refreshing, Value
      <4> QED BY <4>1, RotatedType
    <3> QED BY <1>2, <3>1 DEF UpdateToken, TokensNamed, StoreTypeOK
  <2> QED
    BY <2>1 DEF Users, Providers, ProviderTokens, Tokens, Sessions, UserFound,
      ProviderFound, ProviderTokenFound
<1> QED
  BY <1>1, <1>2 DEF RefreshStep, GetUserByRefreshToken, GetRefreshToken,
    RefreshCutOff

\* A logout removes a session, or a token together with its sessions.
LEMMA AccountLogout ==
  ASSUME StoreTypeOK, LoginTypeOK, LogoutTypeOK, AccountInv,
         NEW r \in Logouts, LogoutStep(r), UNCHANGED loginVars
  PROVE  AccountInv'
<1> USE DEF AccountInv, Rows, AccountOf, storeVars, loginVars
<1>1. CASE UNCHANGED storeVars
  BY <1>1 DEF Users, Providers, ProviderTokens, Tokens, Sessions, UserFound,
    ProviderFound, ProviderTokenFound
<1>2. CASE DeleteSession(r) /\ session' # session
  BY <1>2 DEF DeleteSession, StoreTypeOK, Users, Providers, ProviderTokens,
    Tokens, Sessions, UserFound, ProviderFound, ProviderTokenFound
<1>3. CASE DeleteTokenRow(logoutToken[r])
  BY <1>3 DEF DeleteTokenRow, StoreTypeOK, Users, Providers, ProviderTokens,
    Tokens, Sessions, UserFound, ProviderFound, ProviderTokenFound
<1> QED
  BY <1>1, <1>2, <1>3 DEF LogoutStep, FindToken, FindSession, DeleteSession,
    DeleteToken, LogoutCutOff

\* A deletion removes a user no provider token hangs on, with all its rows.
LEMMA AccountDelete ==
  ASSUME StoreTypeOK, LoginTypeOK, DeleteTypeOK, AccountInv,
         NEW r \in Deletes, DeleteStep(r), UNCHANGED loginVars
  PROVE  AccountInv'
<1> USE DEF AccountInv, AccountOf, loginVars
<1>1. CASE UNCHANGED storeVars
  BY <1>1 DEF storeVars, Rows, Users, Providers, ProviderTokens, Tokens,
    Sessions, UserFound, ProviderFound, ProviderTokenFound
<1>2. CASE UserDeletable(deletedUser[r]) /\ DeleteUserRow(deletedUser[r])
  <2> DEFINE u == deletedUser[r]
  <2>1. /\ user' = user \ {u}
        /\ UNCHANGED providerToken
        /\ \A p \in Logins : provider'[p] =
             IF p = u THEN Null ELSE provider[p]
        /\ \A t \in Logins : token'[t] =
             IF token[t] # Null /\ loginUser[t] = u THEN Null ELSE token[t]
        /\ \A s \in Logins : session'[s] =
             IF session[s] # Null /\ token'[s] = Null THEN Null ELSE session[s]
    BY <1>2 DEF DeleteUserRow, Rows, Providers, Tokens, Sessions
  <2>2. \A k \in Rows(providerToken) : providerToken[k].providerId # u
    BY <1>2 DEF UserDeletable, ProviderTokens, Providers, Rows, StoreTypeOK,
      Nullable, ProviderTokenRow
  <2> HIDE DEF u
  <2>3. Users'
    BY <2>1 DEF Users, StoreTypeOK
  <2>4. Providers'
    BY <2>1 DEF Providers, Rows
  <2>5. ProviderTokens'
    BY <2>1, <2>2 DEF ProviderTokens, Rows, StoreTypeOK, Nullable,
      ProviderTokenRow
  <2>6. Tokens' /\ Sessions'
    BY <2>1 DEF Tokens, Sessions, Rows
  <2>7. UserFound' /\ ProviderTokenFound'
    BY <2>1 DEF UserFound, ProviderTokenFound
  <2>8. ProviderFound'
    BY <2>1 DEF ProviderFound, LoginTypeOK, UserSet, ProviderSet
  <2> QED BY <2>3, <2>4, <2>5, <2>6, <2>7, <2>8
<1> QED
  BY <1>1, <1>2 DEF DeleteStep, DeleteUser, DeleteCutOff, storeVars

\* What happens outside the handlers leaves the rows and moves a login only from
\* "idle" or between the answered states.
LEMMA AccountElsewhere ==
  ASSUME TypeOK, AccountInv, Expire \/ Browse \/ UNCHANGED vars
  PROVE  AccountInv'
<1> USE DEF AccountInv, TypeOK, storeVars, loginVars, loginLocals, vars
<1>1. CASE UNCHANGED storeVars /\ UNCHANGED loginVars
  BY <1>1 DEF Rows, AccountOf, Users, Providers, ProviderTokens, Tokens,
    Sessions, UserFound, ProviderFound, ProviderTokenFound
<1>2. CASE Expire
  <2>1. /\ UNCHANGED <<user, provider, providerToken, session, loginVars>>
        /\ \A t \in Logins : token'[t] = Null <=> token[t] = Null
        /\ \A t \in Rows(token) : token'[t].userId = token[t].userId
    <3>1. ASSUME NEW t \in Rows(token)
          PROVE  /\ [token[t] EXCEPT !.expired = TRUE] # Null
                 /\ [token[t] EXCEPT !.expired = TRUE].userId = token[t].userId
      BY DEF Rows, StoreTypeOK, Nullable, TokenRow
    <3> QED
      BY <1>2, <3>1 DEF Expire, TokenExpires, Rows, StoreTypeOK
  <2> QED
    BY <2>1 DEF Rows, AccountOf, Users, Providers, ProviderTokens, Tokens,
      Sessions, UserFound, ProviderFound, ProviderTokenFound
<1>3. ASSUME NEW b \in Browser, NEW r \in Logins, NEW y \in YandexToken,
             StartLogin(r, b, y)
      PROVE  AccountInv'
  <2> USE <1>3 DEF StartLogin, Callback, Serving, Goto, LoginTypeOK, LoginPc,
        LoginServing, Answered, UserSet, ProviderSet, ProviderTokenSet, Rows,
        AccountOf, StoreTypeOK
  <2>1. Users' /\ Providers' /\ ProviderTokens'
    BY DEF Users, Providers, ProviderTokens
  <2>2. Tokens' /\ Sessions'
    BY DEF Tokens, Sessions
  <2>3. UserFound' /\ ProviderFound' /\ ProviderTokenFound'
    BY DEF UserFound, ProviderFound, ProviderTokenFound
  <2> QED BY <2>1, <2>2, <2>3
<1>4. ASSUME NEW r \in Logins, loginPc[r] = "respond",
             NEW end \in Answered, loginPc' = [loginPc EXCEPT ![r] = end],
             UNCHANGED <<storeVars, loginLocals>>
      PROVE  AccountInv'
  <2> USE <1>4 DEF LoginTypeOK, LoginPc, LoginServing, Answered, UserSet,
        ProviderSet, ProviderTokenSet, Rows, AccountOf, StoreTypeOK
  <2>1. Users' /\ Providers' /\ ProviderTokens'
    BY DEF Users, Providers, ProviderTokens
  <2>2. Tokens' /\ Sessions'
    BY DEF Tokens, Sessions
  <2>3. UserFound' /\ ProviderFound' /\ ProviderTokenFound'
    BY DEF UserFound, ProviderFound, ProviderTokenFound
  <2> QED BY <2>1, <2>2, <2>3
<1>5. ASSUME NEW r \in Logins, DeliverLogin(r)
      PROVE  AccountInv'
  BY <1>4, <1>5 DEF DeliverLogin, SetCookie, Answered
<1>6. ASSUME NEW r \in BrowserRequest, Lose(r)
      PROVE  AccountInv'
  BY <1>1, <1>4, <1>6 DEF Lose, Answered
<1> QED
  BY <1>1, <1>2, <1>3, <1>5, <1>6 DEF Browse, StartRefresh, RefreshArrives,
    StartLogout, LogoutArrives, ChangeAgent, StartDelete, DeleteArrives,
    DeliverRefresh, DeliverLogout, SetCookie

\* The inductive invariant the theorems below rest on.
THEOREM AccountsKept == Spec => []AccountInv
<1>1. TypeOK /\ AccountInv /\ [Next]_vars => AccountInv'
  <2> SUFFICES ASSUME TypeOK, AccountInv, [Next]_vars PROVE AccountInv'
    OBVIOUS
  <2>1. CASE Serve
    BY <2>1, AccountLogin, AccountRefresh, AccountLogout, AccountDelete
      DEF Serve, TypeOK
  <2> QED BY <2>1, AccountElsewhere DEF Next
<1> QED BY <1>1, AccountInit, TypeCorrect, PTL DEF Spec

-----------------------------------------------------------------------------

\* The user of a refresh token has the provider that the provider token of the
\* same login belongs to.
LEMMA SameProvider ==
  ASSUME TypeOK, AccountInv, NEW t \in Rows(token)
  PROVE  LET u == token[t].userId
             k == providerToken[loginProviderToken[t]]
         IN  /\ u = loginUser[t] /\ u \in user
             /\ provider[u] # Null /\ provider[u].userId = u
             /\ provider[u].providerUserId = AccountOf(t)
             /\ loginProviderToken[t] \in Rows(providerToken)
             /\ k.providerId = u
<1> USE DEF AccountInv, TypeOK, Rows, LoginTypeOK
<1>1. /\ loginPc[t] \in ProviderTokenSet
      /\ token[t].userId = loginUser[t]
      /\ loginUser[t] \in user
  BY DEF Tokens
<1>2. /\ loginPc[t] \in ProviderSet
      /\ loginPc[t] \in UserSet
      /\ loginUser[t] \in Logins
      /\ loginProviderToken[t] \in Logins
  BY <1>1 DEF ProviderTokenSet, ProviderSet
<1>3. /\ provider[loginUser[t]] # Null
      /\ provider[loginUser[t]].userId = loginUser[t]
      /\ provider[loginUser[t]].providerUserId = AccountOf(t)
  BY <1>1, <1>2 DEF ProviderFound, Providers, UserFound
<1>4. LET k == providerToken[loginProviderToken[t]]
      IN  /\ k # Null /\ k.providerId \in Logins
          /\ provider[k.providerId] # Null
          /\ provider[k.providerId].providerUserId = AccountOf(t)
  BY <1>1, <1>2 DEF ProviderTokenFound, ProviderTokens, StoreTypeOK, Nullable,
    ProviderTokenRow
<1> QED
  BY <1>1, <1>2, <1>3, <1>4 DEF Providers

\* authYandexUser never opens a session that joins two people, however logins,
\* deletions and crashes interleave.
THEOREM SessionOwnerHolds == Spec => []SessionOwner
<1>1. TypeOK /\ AccountInv => SessionOwner
  <2> SUFFICES ASSUME TypeOK, AccountInv, NEW s \in Rows(session)
               PROVE  LET t == token[session[s].refreshTokenId]
                          k == providerToken[session[s].providerTokenId]
                      IN  /\ t # Null
                          /\ k # Null
                          /\ provider[k.providerId] # Null
                          /\ t.userId = provider[k.providerId].userId
    BY DEF SessionOwner
  <2>1. /\ session[s].refreshTokenId = s
        /\ session[s].providerTokenId = loginProviderToken[s]
        /\ s \in Rows(token)
    BY DEF AccountInv, Sessions, Rows
  <2> QED BY <2>1, SameProvider DEF Rows
<1> QED BY <1>1, TypeCorrect, AccountsKept, PTL

\* Users of refresh tokens and Yandex accounts correspond one to one.
THEOREM AccountIdentityHolds == Spec => []AccountIdentity
<1>1. TypeOK /\ AccountInv => AccountIdentity
  <2> SUFFICES ASSUME TypeOK, AccountInv,
                      NEW t1 \in Rows(token), NEW t2 \in Rows(token)
               PROVE  token[t1].userId = token[t2].userId
                        <=> AccountOf(t1) = AccountOf(t2)
    BY DEF AccountIdentity
  <2>1. /\ token[t1].userId \in Rows(provider)
        /\ token[t2].userId \in Rows(provider)
    BY SameProvider DEF Rows, TypeOK, StoreTypeOK
  <2> QED BY <2>1, SameProvider DEF AccountInv, Providers
<1> QED BY <1>1, TypeCorrect, AccountsKept, PTL

\* The user of a refresh token has a provider with a provider token.
LEMMA UsersStay ==
  ASSUME TypeOK, AccountInv
  PROVE  LoggedInUserStays
<1> SUFFICES ASSUME NEW t \in Rows(token)
             PROVE  ~UserDeletable(token[t].userId)
  BY DEF LoggedInUserStays
<1> DEFINE u == token[t].userId
<1>1. u \in Rows(provider) /\ provider[u].userId = u
  BY SameProvider DEF Rows, TypeOK, StoreTypeOK
<1>2. \E k \in Rows(providerToken) : providerToken[k].providerId = u
  BY SameProvider
<1> QED BY <1>1, <1>2 DEF UserDeletable

\* A user with a refresh token cannot be deleted.
THEOREM LoggedInUserStaysHolds == Spec => []LoggedInUserStays
BY UsersStay, TypeCorrect, AccountsKept, PTL

\* A user without provider is the trace of an unfinished registration.
THEOREM ProviderlessUserHolds == Spec => []ProviderlessUser
<1>1. TypeOK /\ AccountInv => ProviderlessUser
  BY DEF ProviderlessUser, ProvidersOfUser, Rows, AccountInv, Users, Providers,
    TypeOK, StoreTypeOK
<1> QED BY <1>1, TypeCorrect, AccountsKept, PTL

=============================================================================
