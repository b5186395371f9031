------------------------------ MODULE AuthTypes ------------------------------
(***************************************************************************)
(* Type correctness of Auth: one lemma per handler, then the theorem.      *)
(***************************************************************************)
EXTENDS Auth, TLAPS

USE RequestsAssumption, NullAssumption, OwnerAssumption, BrowserAssumption

\* Every step of a login keeps the types of the tables and of its locals.
LEMMA LoginTypes ==
  ASSUME StoreTypeOK, LoginTypeOK, failed \subseteq Request,
         NEW r \in Logins, LoginStep(r)
  PROVE  StoreTypeOK' /\ LoginTypeOK' /\ (failed \subseteq Request)'
<1> USE DEF StoreTypeOK, LoginTypeOK, Nullable, Serving, Goto,
            LoginFails, Fail, loginLocals, storeVars, Value, Request, LoginPc,
            LoginServing, Answered, UserSet, ProviderSet, ProviderTokenSet,
            AccountOf
<1>1. CASE GetUserIdFromYandex(r)
  BY <1>1 DEF GetUserIdFromYandex
<1>2. CASE IsRegistered(r)
  BY <1>2 DEF IsRegistered
<1>3. CASE GetUser(r)
  BY <1>3 DEF GetUser, ProvidersOf, Rows, ProviderRow
<1>4. CASE CreateUser(r)
  BY <1>4 DEF CreateUser
<1>5. CASE AddProviderUser(r)
  BY <1>5 DEF AddProviderUser, ProviderRow
<1>6. CASE GetProvider(r)
  BY <1>6 DEF GetProvider, ProvidersOfUser, Rows
<1>7. CASE CheckProviderToken(r)
  BY <1>7 DEF CheckProviderToken, ProviderTokensOf, Rows
<1>8. CASE CreateProviderToken(r)
  BY <1>8 DEF CreateProviderToken, ProviderTokenRow
<1>9. CASE CreateRefreshToken(r)
  <2> DEFINE row == [token |-> r, userId |-> loginUser[r],
                     userAgent |-> loginAgent[r], expired |-> FALSE]
  <2>1. row \in TokenRow
    BY <1>9 DEF CreateRefreshToken, TokenRow
  <2>2. token' = token \/ token' = [token EXCEPT ![r] = row]
    BY <1>9 DEF CreateRefreshToken
  <2> HIDE DEF row
  <2>3. token' \in [Logins -> Nullable(TokenRow)]
    BY <2>1, <2>2
  <2> QED
    BY <1>9, <2>3 DEF CreateRefreshToken
<1>10. CASE CreateSession(r)
  BY <1>10 DEF CreateSession, SessionRow
<1>11. CASE LoginCutOff(r)
  BY <1>11 DEF LoginCutOff
<1> QED BY <1>1, <1>2, <1>3, <1>4, <1>5, <1>6, <1>7, <1>8, <1>9, <1>10, <1>11
      DEF LoginStep

\* A rotated row is a row of the same user with the new string.
LEMMA RotatedType ==
  ASSUME NEW row \in TokenRow, NEW r \in Value, refreshAgent[r] \in Agent
  PROVE  /\ Rotated(row, r) \in TokenRow
         /\ Rotated(row, r).token = r
         /\ Rotated(row, r).userId = row.userId
         /\ Rotated(row, r).userAgent = refreshAgent[r]
BY DEF Rotated, TokenRow

\* Every step of a refresh keeps the types of the tables and of its locals.
LEMMA RefreshTypes ==
  ASSUME StoreTypeOK, RefreshTypeOK, failed \subseteq Request,
         NEW r \in Refreshes, RefreshStep(r)
  PROVE  StoreTypeOK' /\ RefreshTypeOK' /\ (failed \subseteq Request)'
<1> USE DEF StoreTypeOK, RefreshTypeOK, Nullable, Refreshing,
            RefreshGoto, RefreshFails, Fail, storeVars, Value, Request,
            RefreshPc, RefreshServing, Answered, TokensNamed, Rows
<1>1. CASE GetUserByRefreshToken(r)
  BY <1>1 DEF GetUserByRefreshToken
<1>2. CASE GetRefreshToken(r)
  BY <1>2 DEF GetRefreshToken
<1>3. CASE UpdateToken(r)
  <2>1. ASSUME NEW t \in Rows(token)
        PROVE  Rotated(token[t], r) \in TokenRow
    <3>1. token[t] \in TokenRow /\ refreshAgent[r] \in Agent /\ r \in Value
      BY <1>3 DEF UpdateToken
    <3> QED BY <3>1, RotatedType
  <2>2. token' \in [Logins -> Nullable(TokenRow)]
    BY <1>3, <2>1 DEF UpdateToken
  <2> QED
    BY <1>3, <2>2 DEF UpdateToken
<1>4. CASE RefreshCutOff(r)
  BY <1>4 DEF RefreshCutOff
<1> QED BY <1>1, <1>2, <1>3, <1>4 DEF RefreshStep

\* Every step of a logout keeps the types of the tables and of its locals.
LEMMA LogoutTypes ==
  ASSUME StoreTypeOK, LogoutTypeOK, failed \subseteq Request,
         NEW r \in Logouts, LogoutStep(r)
  PROVE  StoreTypeOK' /\ LogoutTypeOK' /\ (failed \subseteq Request)'
<1> USE DEF StoreTypeOK, LogoutTypeOK, Nullable, LoggingOut,
            LogoutGoto, LogoutFails, Fail, storeVars, Request, LogoutPc,
            LogoutServing, Answered, TokensOf, SessionsOf, Rows
<1>1. CASE FindToken(r)
  BY <1>1 DEF FindToken
<1>2. CASE FindSession(r)
  BY <1>2 DEF FindSession
<1>3. CASE DeleteSession(r)
  BY <1>3 DEF DeleteSession
<1>4. CASE DeleteToken(r)
  BY <1>4 DEF DeleteToken, DeleteTokenRow
<1>5. CASE LogoutCutOff(r)
  BY <1>5 DEF LogoutCutOff
<1> QED BY <1>1, <1>2, <1>3, <1>4, <1>5 DEF LogoutStep

\* Every step of a deletion keeps the types of the tables and of its locals.
LEMMA DeleteTypes ==
  ASSUME StoreTypeOK, DeleteTypeOK, failed \subseteq Request,
         NEW r \in Deletes, DeleteStep(r)
  PROVE  StoreTypeOK' /\ DeleteTypeOK' /\ (failed \subseteq Request)'
<1> USE DEF StoreTypeOK, DeleteTypeOK, Nullable, Deleting,
            DeleteGoto, DeleteFails, Fail, storeVars, Request, DeletePc
<1>1. CASE DeleteUser(r)
  BY <1>1 DEF DeleteUser, DeleteUserRow
<1>2. CASE DeleteCutOff(r)
  BY <1>2 DEF DeleteCutOff
<1> QED BY <1>1, <1>2 DEF DeleteStep

-----------------------------------------------------------------------------

\* Every step of Auth keeps TypeOK.
LEMMA TypeStep ==
  ASSUME TypeOK, [Next]_vars
  PROVE  TypeOK'
<1> USE DEF TypeOK, storeVars, loginVars, refreshVars, logoutVars, deleteVars,
            browserVars, loginLocals, BrowserRequest
<1>1. CASE Serve
  <2>1. ASSUME NEW r \in Logins, LoginStep(r),
               UNCHANGED <<refreshVars, logoutVars, deleteVars, browserVars>>
        PROVE  TypeOK'
    BY <2>1, LoginTypes DEF RefreshTypeOK, LogoutTypeOK, DeleteTypeOK
  <2>2. ASSUME NEW r \in Refreshes, RefreshStep(r),
               UNCHANGED <<loginVars, logoutVars, deleteVars, browserVars>>
        PROVE  TypeOK'
    BY <2>2, RefreshTypes DEF LoginTypeOK, LogoutTypeOK, DeleteTypeOK
  <2>3. ASSUME NEW r \in Logouts, LogoutStep(r),
               UNCHANGED <<loginVars, refreshVars, deleteVars, browserVars>>
        PROVE  TypeOK'
    BY <2>3, LogoutTypes DEF LoginTypeOK, RefreshTypeOK, DeleteTypeOK
  <2>4. ASSUME NEW r \in Deletes, DeleteStep(r),
               UNCHANGED <<loginVars, refreshVars, logoutVars, browserVars>>
        PROVE  TypeOK'
    BY <2>4, DeleteTypes DEF LoginTypeOK, RefreshTypeOK, LogoutTypeOK
  <2> QED BY <1>1, <2>1, <2>2, <2>3, <2>4 DEF Serve
<1>2. CASE Expire
  <2>1. ASSUME NEW t \in Logins, TokenExpires(t)
        PROVE  StoreTypeOK'
    <3>1. token[t] \in TokenRow
      BY <2>1 DEF TokenExpires, StoreTypeOK, Nullable
    <3>2. [token[t] EXCEPT !.expired = TRUE] \in TokenRow
      BY <3>1 DEF TokenRow
    <3> QED BY <2>1, <3>2 DEF TokenExpires, StoreTypeOK, Nullable
  <2> QED
    BY <1>2, <2>1 DEF Expire, LoginTypeOK, RefreshTypeOK, LogoutTypeOK,
      DeleteTypeOK
<1>3. CASE Browse
  <2>1. ASSUME NEW b \in Browser, NEW r \in Logins, NEW y \in YandexToken,
               StartLogin(r, b, y)
        PROVE  TypeOK'
    BY <2>1 DEF StartLogin, Callback, ComesFrom, Serving, Goto, StoreTypeOK,
      LoginTypeOK, LoginPc, LoginServing, Nullable, UserSet, ProviderSet,
      ProviderTokenSet, RefreshTypeOK, LogoutTypeOK, DeleteTypeOK
  <2>2. ASSUME NEW b \in Browser, NEW r \in Refreshes, StartRefresh(r, b)
        PROVE  TypeOK'
    BY <2>2 DEF StartRefresh, RefreshArrives, ComesFrom, Refreshing,
      RefreshGoto, RefreshFails, Fail, Request, StoreTypeOK, RefreshTypeOK,
      RefreshPc, RefreshServing, Answered, Nullable, LoginTypeOK, LogoutTypeOK,
      DeleteTypeOK
  <2>3. ASSUME NEW b \in Browser, NEW r \in Logouts, StartLogout(r, b)
        PROVE  TypeOK'
    BY <2>3 DEF StartLogout, LogoutArrives, ComesFrom, LoggingOut, LogoutGoto,
      LogoutFails, Fail, Request, StoreTypeOK, LogoutTypeOK, LogoutPc,
      LogoutServing, Answered, Nullable, LoginTypeOK, RefreshTypeOK,
      DeleteTypeOK
  <2>4. ASSUME NEW b \in Browser, ChangeAgent(b)
        PROVE  TypeOK'
    BY <2>4 DEF ChangeAgent, StoreTypeOK, LoginTypeOK, RefreshTypeOK,
      LogoutTypeOK, DeleteTypeOK
  <2>5. ASSUME NEW r \in Deletes, NEW u \in Logins, StartDelete(r, u)
        PROVE  TypeOK'
    BY <2>5 DEF StartDelete, DeleteArrives, Deleting, DeleteGoto, StoreTypeOK,
      DeleteTypeOK, DeletePc, Nullable, LoginTypeOK, RefreshTypeOK,
      LogoutTypeOK
  <2>6. ASSUME NEW r \in Logins, DeliverLogin(r)
        PROVE  TypeOK'
    BY <2>6 DEF DeliverLogin, SetCookie, StoreTypeOK, LoginTypeOK, LoginPc,
      LoginServing, Answered, Nullable, Value, UserSet, ProviderSet,
      ProviderTokenSet, RefreshTypeOK, LogoutTypeOK, DeleteTypeOK
  <2>7. ASSUME NEW r \in Refreshes, DeliverRefresh(r)
        PROVE  TypeOK'
    BY <2>7 DEF DeliverRefresh, SetCookie, StoreTypeOK, RefreshTypeOK,
      RefreshPc, RefreshServing, Answered, Nullable, Value, LoginTypeOK,
      LogoutTypeOK, DeleteTypeOK
  <2>8. ASSUME NEW r \in Logouts, DeliverLogout(r)
        PROVE  TypeOK'
    BY <2>8 DEF DeliverLogout, SetCookie, StoreTypeOK, LogoutTypeOK, LogoutPc,
      LogoutServing, Answered, Nullable, Value, LoginTypeOK, RefreshTypeOK,
      DeleteTypeOK
  <2>9. ASSUME NEW r \in BrowserRequest, Lose(r)
        PROVE  TypeOK'
    BY <2>9 DEF Lose, StoreTypeOK, LoginTypeOK, LoginPc, LoginServing,
      Answered, UserSet, ProviderSet, ProviderTokenSet, RefreshTypeOK,
      RefreshPc, RefreshServing, LogoutTypeOK, LogoutPc, LogoutServing,
      DeleteTypeOK
  <2> QED
    BY <1>3, <2>1, <2>2, <2>3, <2>4, <2>5, <2>6, <2>7, <2>8, <2>9 DEF Browse
<1>4. CASE UNCHANGED vars
  BY <1>4 DEF vars, StoreTypeOK, LoginTypeOK, RefreshTypeOK, LogoutTypeOK,
    DeleteTypeOK
<1> QED BY <1>1, <1>2, <1>3, <1>4 DEF Next

\* Requests, rows and locals have their types, and a local that a call uses has
\* been set before the call: for any number of requests, accounts and browsers.
THEOREM TypeCorrect == Spec => []TypeOK
<1>1. Init => TypeOK
  BY DEF Init, TypeOK, StoreInit, LoginInit, RefreshInit, LogoutInit,
    DeleteInit, Empty, Nullable, StoreTypeOK, LoginTypeOK, RefreshTypeOK,
    LogoutTypeOK, DeleteTypeOK, LoginPc, RefreshPc, LogoutPc, DeletePc,
    UserSet, ProviderSet, ProviderTokenSet, LoginServing, RefreshServing,
    LogoutServing, Answered, BrowserRequest
<1>2. TypeOK /\ [Next]_vars => TypeOK'
  BY TypeStep
<1> QED BY <1>1, <1>2, PTL DEF Spec

=============================================================================
