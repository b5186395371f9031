----------------------------- MODULE YandexLogin -----------------------------
(***************************************************************************)
(* AuthService.authYandexUser, the handler behind GET auth/yandex/callback.*)
(* Every await is a step: other requests run between any two of them.  A   *)
(* step is named for the call it makes, and loginPc[r] is the call that    *)
(* request r makes next.                                                   *)
(***************************************************************************)
EXTENDS AuthStore

CONSTANT Owner   \* Owner[y] is the account Yandex gave token y to (external)

ASSUME OwnerAssumption == Owner \in [YandexToken -> Account]

VARIABLES
  loginPc,
  loginToken,          \* the OAuth token passport obtained
  loginAgent,          \* the request's User-Agent header
  loginUser,           \* local "user" (its id)
  loginProvider,       \* local "provider" (its id)
  loginProviderToken   \* local "providerToken" (its id)

loginVars == <<loginPc, loginToken, loginAgent, loginUser, loginProvider,
               loginProviderToken>>

LoginServing ==
  {"getUserIdFromYandex", "isRegistered", "getUser", "createUser",
   "addProviderUser", "getProvider", "checkProviderToken",
   "createProviderToken", "createRefreshToken", "createSession"}

LoginPc == {"idle"} \cup LoginServing \cup Answered

\* The places where authYandexUser has passed the assignment of each local.
UserSet ==
  LoginPc \ {"idle", "getUserIdFromYandex", "isRegistered", "getUser",
             "createUser"}
ProviderSet == UserSet \ {"addProviderUser", "getProvider"}
ProviderTokenSet == ProviderSet \ {"checkProviderToken", "createProviderToken"}

LoginTypeOK ==
  /\ loginPc \in [Logins -> LoginPc]
  /\ loginToken \in [Logins -> Nullable(YandexToken)]
  /\ loginAgent \in [Logins -> Nullable(Agent)]
  /\ loginUser \in [Logins -> Nullable(Logins)]
  /\ loginProvider \in [Logins -> Nullable(Logins)]
  /\ loginProviderToken \in [Logins -> Nullable(Logins)]
  /\ \A r \in Logins :
       /\ loginPc[r] # "idle" =>
            loginToken[r] \in YandexToken /\ loginAgent[r] \in Agent
       /\ loginPc[r] \in UserSet => loginUser[r] \in Logins
       /\ loginPc[r] \in ProviderSet => loginProvider[r] \in Logins
       /\ loginPc[r] \in ProviderTokenSet => loginProviderToken[r] \in Logins

LoginInit ==
  /\ loginPc = [r \in Logins |-> "idle"]
  /\ loginToken = Empty
  /\ loginAgent = Empty
  /\ loginUser = Empty
  /\ loginProvider = Empty
  /\ loginProviderToken = Empty

-----------------------------------------------------------------------------

AccountOf(r) == Owner[loginToken[r]]

Serving(r, call) == loginPc[r] = call /\ r \notin failed

Goto(r, call) == loginPc' = [loginPc EXCEPT ![r] = call] /\ UNCHANGED failed

LoginFails(r) == Fail(r) /\ UNCHANGED loginPc

loginLocals == <<loginToken, loginAgent, loginUser, loginProvider,
                 loginProviderToken>>

\* The callback arrives; passport has exchanged the code for token y.
Callback(r, y, agent) ==
  /\ Serving(r, "idle")
  /\ Goto(r, "getUserIdFromYandex")
  /\ loginToken' = [loginToken EXCEPT ![r] = y]
  /\ loginAgent' = [loginAgent EXCEPT ![r] = agent]
  /\ UNCHANGED <<loginUser, loginProvider, loginProviderToken, storeVars>>

\* login.yandex.ru answers with the id of the token's owner, or the call fails.
GetUserIdFromYandex(r) ==
  /\ Serving(r, "getUserIdFromYandex")
  /\ Goto(r, "isRegistered") \/ LoginFails(r)
  /\ UNCHANGED <<loginLocals, storeVars>>

\* provider.findFirst by (providerUserId, providerTypeId)
ProvidersOf(account) ==
  {p \in Rows(provider) : provider[p].providerUserId = account}

IsRegistered(r) ==
  /\ Serving(r, "isRegistered")
  /\ Goto(r, IF ProvidersOf(AccountOf(r)) # {} THEN "getUser" ELSE "createUser")
  /\ UNCHANGED <<loginLocals, storeVars>>

\* The row may have gone since isRegistered: userProvider is then null and
\* reading its User throws.
GetUser(r) ==
  /\ Serving(r, "getUser")
  /\ \/ \E p \in ProvidersOf(AccountOf(r)) :
          /\ loginUser' = [loginUser EXCEPT ![r] = provider[p].userId]
          /\ Goto(r, "getProvider")
     \/ /\ ProvidersOf(AccountOf(r)) = {}
        /\ LoginFails(r)
        /\ UNCHANGED loginUser
  /\ UNCHANGED <<loginToken, loginAgent, loginProvider, loginProviderToken,
                 storeVars>>

\* registerUser, first half: userService.createUser
CreateUser(r) ==
  /\ Serving(r, "createUser")
  /\ user' = user \cup {r}
  /\ loginUser' = [loginUser EXCEPT ![r] = r]
  /\ Goto(r, "addProviderUser")
  /\ UNCHANGED <<loginToken, loginAgent, loginProvider, loginProviderToken,
                 provider, providerToken, token, session>>

\* A catch that only logs the refused insert: the login goes on with a user that
\* has no provider.
AddProviderUserCaught(r) ==
  /\ Serving(r, "addProviderUser")
  /\ LET row == [userId |-> loginUser[r], providerUserId |-> AccountOf(r)]
     IN  \/ ProviderInsertable(row) /\ provider' = [provider EXCEPT ![r] = row]
         \/ ~ProviderInsertable(row) /\ UNCHANGED provider
  /\ Goto(r, "getProvider")
  /\ UNCHANGED <<loginLocals, user, providerToken, token, session>>

\* registerUser, second half.  When the insert is refused the user row stays.
AddProviderUser(r) ==
  /\ Serving(r, "addProviderUser")
  /\ LET row == [userId |-> loginUser[r], providerUserId |-> AccountOf(r)]
     IN  \/ /\ ProviderInsertable(row)
            /\ provider' = [provider EXCEPT ![r] = row]
            /\ Goto(r, "getProvider")
         \/ /\ ~ProviderInsertable(row)
            /\ LoginFails(r)
            /\ UNCHANGED provider
  /\ UNCHANGED <<loginLocals, user, providerToken, token, session>>

ProvidersOfUser(u) == {p \in Rows(provider) : provider[p].userId = u}

\* "The provider is null, where it cannot be" is the error of the second branch.
GetProvider(r) ==
  /\ Serving(r, "getProvider")
  /\ \/ \E p \in ProvidersOfUser(loginUser[r]) :
          /\ loginProvider' = [loginProvider EXCEPT ![r] = p]
          /\ Goto(r, "checkProviderToken")
     \/ /\ ProvidersOfUser(loginUser[r]) = {}
        /\ LoginFails(r)
        /\ UNCHANGED loginProvider
  /\ UNCHANGED <<loginToken, loginAgent, loginUser, loginProviderToken,
                 storeVars>>

\* providerToken.findFirst by the token string alone
ProviderTokensOf(y) ==
  {k \in Rows(providerToken) : providerToken[k].providerToken = y}

CheckProviderToken(r) ==
  /\ Serving(r, "checkProviderToken")
  /\ \/ \E k \in ProviderTokensOf(loginToken[r]) :
          /\ loginProviderToken' = [loginProviderToken EXCEPT ![r] = k]
          /\ Goto(r, "createRefreshToken")
     \/ /\ ProviderTokensOf(loginToken[r]) = {}
        /\ Goto(r, "createProviderToken")
        /\ UNCHANGED loginProviderToken
  /\ UNCHANGED <<loginToken, loginAgent, loginUser, loginProvider, storeVars>>

CreateProviderToken(r) ==
  /\ Serving(r, "createProviderToken")
  /\ LET row == [providerToken |-> loginToken[r],
                 providerId    |-> loginProvider[r]]
     IN  \/ /\ ProviderTokenInsertable(row)
            /\ providerToken' = [providerToken EXCEPT ![r] = row]
            /\ loginProviderToken' = [loginProviderToken EXCEPT ![r] = r]
            /\ Goto(r, "createRefreshToken")
         \/ /\ ~ProviderTokenInsertable(row)
            /\ LoginFails(r)
            /\ UNCHANGED <<providerToken, loginProviderToken>>
  /\ UNCHANGED <<loginToken, loginAgent, loginUser, loginProvider,
                 user, provider, token, session>>

\* auth -> generateTokens -> createRefreshToken
CreateRefreshToken(r) ==
  /\ Serving(r, "createRefreshToken")
  /\ LET row == [token |-> r, userId |-> loginUser[r],
                 userAgent |-> loginAgent[r], expired |-> FALSE]
     IN  \/ /\ TokenInsertable(row)
            /\ token' = [token EXCEPT ![r] = row]
            /\ Goto(r, "createSession")
         \/ /\ ~TokenInsertable(row)
            /\ LoginFails(r)
            /\ UNCHANGED token
  /\ UNCHANGED <<loginLocals, user, provider, providerToken, session>>

\* createSession called without the await: the answer leaves at once.
CreateSessionUnawaited(r) ==
  /\ Serving(r, "createSession")
  /\ Goto(r, "respond")
  /\ UNCHANGED <<loginLocals, storeVars>>

CreateSession(r) ==
  /\ Serving(r, "createSession")
  /\ LET row == [refreshTokenId  |-> r,
                 providerTokenId |-> loginProviderToken[r]]
     IN  \/ /\ SessionInsertable(row)
            /\ session' = [session EXCEPT ![r] = row]
            /\ Goto(r, "respond")
         \/ /\ ~SessionInsertable(row)
            /\ LoginFails(r)
            /\ UNCHANGED session
  /\ UNCHANGED <<loginLocals, user, provider, providerToken, token>>

\* A crash of the server, a lost database connection or any other rejected
\* call ends the request between two steps; what it wrote stays.
LoginCutOff(r) ==
  /\ loginPc[r] \in LoginServing /\ r \notin failed
  /\ LoginFails(r)
  /\ UNCHANGED <<loginLocals, storeVars>>

LoginStep(r) ==
  \/ GetUserIdFromYandex(r)
  \/ IsRegistered(r)
  \/ GetUser(r)
  \/ CreateUser(r)
  \/ AddProviderUser(r)
  \/ GetProvider(r)
  \/ CheckProviderToken(r)
  \/ CreateProviderToken(r)
  \/ CreateRefreshToken(r)
  \/ CreateSession(r)
  \/ LoginCutOff(r)

=============================================================================
