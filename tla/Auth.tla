-------------------------------- MODULE Auth --------------------------------
(***************************************************************************)
(* The authentication service: the four handlers above over one database,  *)
(* and the browsers that call them.  A browser has one cookie, shared by   *)
(* all its tabs, so several of its requests can be under way at once; an   *)
(* answer may be lost on its way back.                                     *)
(***************************************************************************)
EXTENDS YandexLogin, RefreshTokens, Logout, UserDeletion

CONSTANT Browser

ASSUME BrowserAssumption == Null \notin Browser

VARIABLES
  origin,   \* the browser a login, refresh or logout came from
  cookie,   \* the browser's refreshToken cookie
  agent     \* its User-Agent string

browserVars == <<origin, cookie, agent>>

vars == <<failed, storeVars, loginVars, refreshVars, logoutVars, deleteVars,
          browserVars>>

BrowserRequest == Logins \cup Refreshes \cup Logouts

\* Every request is one of the four kinds, tables and locals hold rows and ids,
\* and a local that a call uses has been set by the time the call is made: no
\* handler goes on with an "undefined" value.
TypeOK ==
  /\ failed \subseteq Request
  /\ StoreTypeOK
  /\ LoginTypeOK
  /\ RefreshTypeOK
  /\ LogoutTypeOK
  /\ DeleteTypeOK
  /\ origin \in [BrowserRequest -> Nullable(Browser)]
  /\ cookie \in [Browser -> Nullable(Value)]
  /\ agent \in [Browser -> Agent]

Init ==
  /\ failed = {}
  /\ StoreInit
  /\ LoginInit
  /\ RefreshInit
  /\ LogoutInit
  /\ DeleteInit
  /\ origin = [r \in BrowserRequest |-> Null]
  /\ cookie = [b \in Browser |-> Null]
  /\ agent \in [Browser -> Agent]

-----------------------------------------------------------------------------
(* Browsers.                                                               *)

ComesFrom(r, b) ==
  /\ origin' = [origin EXCEPT ![r] = b]
  /\ UNCHANGED <<cookie, agent>>

StartLogin(r, b, y) ==
  /\ Callback(r, y, agent[b])
  /\ ComesFrom(r, b)
  /\ UNCHANGED <<refreshVars, logoutVars, deleteVars>>

StartRefresh(r, b) ==
  /\ RefreshArrives(r, cookie[b], agent[b])
  /\ ComesFrom(r, b)
  /\ UNCHANGED <<loginVars, logoutVars, deleteVars>>

StartLogout(r, b) ==
  /\ LogoutArrives(r, cookie[b])
  /\ ComesFrom(r, b)
  /\ UNCHANGED <<loginVars, refreshVars, deleteVars>>

StartDelete(r, u) ==
  /\ u \in user
  /\ DeleteArrives(r, u)
  /\ UNCHANGED <<loginVars, refreshVars, logoutVars, browserVars>>

SetCookie(r, value) ==
  /\ cookie' = [cookie EXCEPT ![origin[r]] = value]
  /\ UNCHANGED <<failed, storeVars, origin, agent>>

\* setRefreshTokenToCookies sends the string the handler generated; the browser
\* takes it when the answer arrives.
DeliverLogin(r) ==
  /\ loginPc[r] = "respond"
  /\ loginPc' = [loginPc EXCEPT ![r] = "done"]
  /\ SetCookie(r, r)
  /\ UNCHANGED <<loginLocals, refreshVars, logoutVars, deleteVars>>

DeliverRefresh(r) ==
  /\ refreshPc[r] = "respond"
  /\ refreshPc' = [refreshPc EXCEPT ![r] = "done"]
  /\ SetCookie(r, r)
  /\ UNCHANGED <<refreshCookie, refreshAgent, refreshOld,
                 loginVars, logoutVars, deleteVars>>

\* clearCookie
DeliverLogout(r) ==
  /\ logoutPc[r] = "respond"
  /\ logoutPc' = [logoutPc EXCEPT ![r] = "done"]
  /\ SetCookie(r, Null)
  /\ UNCHANGED <<logoutCookie, logoutToken, logoutSession,
                 loginVars, refreshVars, deleteVars>>

\* The answer never arrives: the tab is closed or the connection breaks.
Lose(r) ==
  /\ \/ /\ r \in Logins /\ loginPc[r] = "respond"
        /\ loginPc' = [loginPc EXCEPT ![r] = "lost"]
        /\ UNCHANGED <<refreshPc, logoutPc>>
     \/ /\ r \in Refreshes /\ refreshPc[r] = "respond"
        /\ refreshPc' = [refreshPc EXCEPT ![r] = "lost"]
        /\ UNCHANGED <<loginPc, logoutPc>>
     \/ /\ r \in Logouts /\ logoutPc[r] = "respond"
        /\ logoutPc' = [logoutPc EXCEPT ![r] = "lost"]
        /\ UNCHANGED <<loginPc, refreshPc>>
  /\ UNCHANGED <<failed, storeVars, loginLocals, refreshCookie, refreshAgent,
                 refreshOld, logoutCookie, logoutToken, logoutSession,
                 deleteVars, browserVars>>

\* An update of the browser changes its User-Agent.
ChangeAgent(b) ==
  /\ \E a \in Agent \ {agent[b]} : agent' = [agent EXCEPT ![b] = a]
  /\ UNCHANGED <<failed, storeVars, loginVars, refreshVars, logoutVars,
                 deleteVars, origin, cookie>>

-----------------------------------------------------------------------------

Serve ==
  \/ /\ \E r \in Logins : LoginStep(r)
     /\ UNCHANGED <<refreshVars, logoutVars, deleteVars, browserVars>>
  \/ /\ \E r \in Refreshes : RefreshStep(r)
     /\ UNCHANGED <<loginVars, logoutVars, deleteVars, browserVars>>
  \/ /\ \E r \in Logouts : LogoutStep(r)
     /\ UNCHANGED <<loginVars, refreshVars, deleteVars, browserVars>>
  \/ /\ \E r \in Deletes : DeleteStep(r)
     /\ UNCHANGED <<loginVars, refreshVars, logoutVars, browserVars>>

Expire ==
  /\ \E t \in Logins : TokenExpires(t)
  /\ UNCHANGED <<failed, loginVars, refreshVars, logoutVars, deleteVars,
                 browserVars>>

Browse ==
  \/ \E b \in Browser :
       \/ \E r \in Logins, y \in YandexToken : StartLogin(r, b, y)
       \/ \E r \in Refreshes : StartRefresh(r, b)
       \/ \E r \in Logouts : StartLogout(r, b)
       \/ ChangeAgent(b)
  \/ \E r \in Deletes, u \in Logins : StartDelete(r, u)
  \/ \E r \in Logins : DeliverLogin(r)
  \/ \E r \in Refreshes : DeliverRefresh(r)
  \/ \E r \in Logouts : DeliverLogout(r)
  \/ \E r \in BrowserRequest : Lose(r)

Next == Serve \/ Expire \/ Browse

Spec == Init /\ [][Next]_vars

-----------------------------------------------------------------------------
(* Safety.                                                                 *)

\* The refresh has changed the row: its cookie's string has been used up.
HasRotated(r) == refreshPc[r] \in Answered

\* Of the refreshes that carry the same string, however they interleave, at most
\* one gets new tokens: all may pass the two reads, one wins the UPDATE.
RotationSingleUse ==
  \A r1, r2 \in Refreshes :
    /\ HasRotated(r1)
    /\ HasRotated(r2)
    /\ refreshCookie[r1] = refreshCookie[r2]
    => r1 = r2

\* After logout answered, the login it ended has neither token nor session, for
\* good, even when a refresh changed the token string while logout was running.
LogoutIsFinal ==
  \A r \in Logouts : logoutPc[r] \in Answered =>
    /\ token[logoutToken[r]] = Null
    /\ SessionsOf(logoutToken[r]) = {}

\* A session never joins two people: the user of its refresh token is the user
\* of the provider its provider token belongs to, though authYandexUser finds
\* the two along different paths and users may be deleted while it runs.
SessionOwner ==
  \A s \in Rows(session) :
    LET t == token[session[s].refreshTokenId]
        k == providerToken[session[s].providerTokenId]
    IN  /\ t # Null
        /\ k # Null
        /\ provider[k.providerId] # Null
        /\ t.userId = provider[k.providerId].userId

\* Two refresh tokens belong to one user exactly when their logins came from one
\* Yandex account: concurrent first logins never leave an account with two
\* usable users, and no two accounts share a user.
AccountIdentity ==
  \A t1, t2 \in Rows(token) :
    token[t1].userId = token[t2].userId <=> AccountOf(t1) = AccountOf(t2)

\* A refresh token without a session is the trace of a request that stopped half
\* way, or is about to go on: its login before createSession succeeded, or a
\* logout between its two deletes.
SessionlessToken ==
  \A t \in Rows(token) : SessionsOf(t) = {} =>
    \/ loginPc[t] = "createSession"
    \/ \E r \in Logouts : logoutToken[r] = t /\ logoutPc[r] = "deleteToken"

\* The login whose token row carries, or carried, the string.
LoginOf(value) == IF value \in Logins THEN value ELSE refreshOld[value]

\* A browser's cookie stops naming a token row only when a refresh it sent has
\* rotated it, with the answer still under way or lost, or when that login was
\* logged out.  Neither crashes, nor concurrent logins, nor the deletion of
\* users may kill it.
CookieAlive ==
  \A b \in Browser : cookie[b] # Null /\ TokensNamed(cookie[b]) = {} =>
    \/ \E r \in Refreshes :
         refreshCookie[r] = cookie[b] /\ refreshPc[r] \in {"respond", "lost"}
    \/ \E r \in Logouts :
         logoutToken[r] = LoginOf(cookie[b]) /\ logoutPc[r] \in Answered

\* A user row without a provider is the trace of a registration that is about to
\* insert one or stopped there: the loser of two first logins of one account, or
\* a request cut off.  No login goes on with such a user.
ProviderlessUser ==
  \A u \in user : ProvidersOfUser(u) = {} => loginPc[u] = "addProviderUser"

\* The database refuses to delete a user who has a refresh token: the provider
\* token of that login was written first and holds the provider row.
LoggedInUserStays ==
  \A t \in Rows(token) : ~UserDeletable(token[t].userId)

-----------------------------------------------------------------------------
(* Refinement: the token table under all handlers implements the promise.  *)

\* The request that generated the string has stored it.
WasIssued(value) ==
  IF value \in Logins
    THEN loginPc[value] \in {"createSession"} \cup Answered
    ELSE HasRotated(value)

CurrentString == [t \in Logins |-> IF token[t] = Null THEN Null
                                                    ELSE token[t].token]

SpentStrings == {v \in Value : WasIssued(v) /\ TokensNamed(v) = {}}

EndedLogins == {t \in Logins : WasIssued(t) /\ token[t] = Null}

Credentials == INSTANCE RefreshCredential WITH
  Login <- Logins, Credential <- Value, None <- Null,
  current <- CurrentString, spent <- SpentStrings, ended <- EndedLogins

\* Every step of the handlers issues, rotates or revokes one credential, or
\* leaves all as they are: no interleaving, crash or deletion brings a string
\* back that was rotated or logged out.
ImplementsCredentials == Credentials!Spec

-----------------------------------------------------------------------------
(* What comments of the source say, and the code does not do.              *)

\* logout: "removing the related session, token and providerToken".
LogoutRemovesProviderToken ==
  \A r \in Logouts :
    logoutPc[r] \in Answered /\ logoutSession[r] # Null =>
      providerToken[loginProviderToken[logoutSession[r]]] = Null

\* UserService.delete "deletes the user from the database" for a sender who may.
DeleteHonoured ==
  \A r \in Deletes : Deleting(r, "deleteUser") /\ deletedUser[r] \in user =>
    UserDeletable(deletedUser[r])

=============================================================================
