------------------------------ MODULE AuthStore ------------------------------
(***************************************************************************)
(* The PostgreSQL tables the authentication code reads and writes, with    *)
(* the constraints of prisma/schema.prisma: primary keys, unique columns   *)
(* and the referential action of every foreign key.                        *)
(*                                                                         *)
(* A row id (uuid() or autoincrement()) is never handed out twice, and a   *)
(* login inserts at most one row into each table, so the login that        *)
(* inserts a row names it.  Likewise a refresh-token string (v4()) is      *)
(* named by the request that generated it.                                 *)
(***************************************************************************)
EXTENDS Requests

CONSTANTS
  Account,      \* Yandex accounts (providerUserId)
  YandexToken,  \* OAuth tokens Yandex hands out
  Agent         \* User-Agent strings

Value == Logins \cup Refreshes

ProviderRow      == [userId : Logins, providerUserId : Account]
ProviderTokenRow == [providerToken : YandexToken, providerId : Logins]
TokenRow         == [token : Value, userId : Logins, userAgent : Agent,
                     expired : BOOLEAN]
SessionRow       == [refreshTokenId : Logins, providerTokenId : Logins]

ASSUME NullAssumption ==
  /\ Null \notin Value
  /\ Null \notin ProviderRow
  /\ Null \notin ProviderTokenRow
  /\ Null \notin TokenRow
  /\ Null \notin SessionRow

VARIABLES
  user,           \* ids of the rows of "user"
  provider,       \* rows of "provider", Null where there is none
  providerToken,  \* rows of "provider_token"
  token,          \* rows of "token"
  session         \* rows of "session"

storeVars == <<user, provider, providerToken, token, session>>

StoreTypeOK ==
  /\ user \subseteq Logins
  /\ provider \in [Logins -> Nullable(ProviderRow)]
  /\ providerToken \in [Logins -> Nullable(ProviderTokenRow)]
  /\ token \in [Logins -> Nullable(TokenRow)]
  /\ session \in [Logins -> Nullable(SessionRow)]

Empty == [id \in Logins |-> Null]

StoreInit ==
  /\ user = {}
  /\ provider = Empty
  /\ providerToken = Empty
  /\ token = Empty
  /\ session = Empty

Rows(table) == {id \in Logins : table[id] # Null}

-----------------------------------------------------------------------------
(* Constraints an INSERT has to meet; a violated one is a Prisma error.    *)

\* @@unique([providerUserId, providerTypeId]); provider.userId -> user.id.
\* There is one provider type, YANDEX.
ProviderInsertableNoUnique(row) == row.userId \in user

ProviderInsertable(row) ==
  /\ row.userId \in user
  /\ \A p \in Rows(provider) :
       provider[p].providerUserId # row.providerUserId

\* provider_token.providerId -> provider.id; providerToken itself is not unique.
ProviderTokenInsertable(row) == provider[row.providerId] # Null

\* token.userId -> user.id.
TokenInsertableNoFK(row) == TRUE

TokenInsertable(row) == row.userId \in user

\* session.refreshTokenId -> token.id and is unique;
\* session.providerTokenId -> provider_token.id.
SessionInsertable(row) ==
  /\ token[row.refreshTokenId] # Null
  /\ providerToken[row.providerTokenId] # Null
  /\ \A s \in Rows(session) : session[s].refreshTokenId # row.refreshTokenId

-----------------------------------------------------------------------------
(* DELETE statements, with what the foreign keys cascade to or refuse.     *)

\* onDelete: Cascade instead of the default of provider_token.providerId.
UserDeletableCascade(u) == u \in user

\* Deleting a user cascades to its providers, and provider_token.providerId
\* names no onDelete, which for a required relation is ON DELETE RESTRICT.
UserDeletable(u) ==
  /\ u \in user
  /\ \A p \in Rows(provider) : provider[p].userId = u =>
       \A k \in Rows(providerToken) : providerToken[k].providerId # p

\* Cascades: user -> provider, user -> token -> session.
DeleteUserRow(u) ==
  /\ user' = user \ {u}
  /\ provider' = [p \in Logins |->
       IF provider[p] # Null /\ provider[p].userId = u
         THEN Null ELSE provider[p]]
  /\ token' = [t \in Logins |->
       IF token[t] # Null /\ token[t].userId = u THEN Null ELSE token[t]]
  /\ session' = [s \in Logins |->
       IF session[s] # Null /\ token'[session[s].refreshTokenId] = Null
         THEN Null ELSE session[s]]
  /\ UNCHANGED providerToken

\* Cascades: token -> session.
DeleteTokenRow(t) ==
  /\ token' = [token EXCEPT ![t] = Null]
  /\ session' = [s \in Logins |->
       IF session[s] # Null /\ session[s].refreshTokenId = t
         THEN Null ELSE session[s]]
  /\ UNCHANGED <<user, provider, providerToken>>

\* The clock passes token.exp, 30 days after the token was written.
TokenExpires(t) ==
  /\ token[t] # Null
  /\ ~token[t].expired
  /\ token' = [token EXCEPT ![t].expired = TRUE]
  /\ UNCHANGED <<user, provider, providerToken, session>>

=============================================================================
