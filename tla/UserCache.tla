------------------------------ MODULE UserCache ------------------------------
(***************************************************************************)
(* UserService: the "user" table behind the in-memory cache of             *)
(* findByIdentifier.  Every authenticated request starts with a lookup     *)
(* (JwtStrategy.validate); the handlers behind it that show a user or his  *)
(* role look him up once more, by id or by nickname.  PUT user and         *)
(* DELETE user/:id write the table and leave the cache alone, so only the  *)
(* entries' time to live brings it up to date.                             *)
(*                                                                         *)
(* Requests are taken up again once they have been answered.  A role id is *)
(* named by the role, for the rows of "role" never change; displayName,    *)
(* which nothing depends on, is left out.                                  *)
(***************************************************************************)
CONSTANTS
  User,      \* ids of rows of "user"
  Nick,      \* nicknames
  Lookups,   \* calls of findByIdentifier
  Puts,      \* PUT user
  Bodies,    \* what they may bring
  Dels,      \* DELETE user/:id
  Null

ASSUME UserCacheAssumption ==
  /\ User \cap Nick = {}
  /\ Null \notin Nick

Nullable(S) == S \cup {Null}

Identifier == User \cup Nick

\* Who calls findByIdentifier; "findOneUser" is "me" too, with the sender's id.
Caller == {"validate", "findOneUser", "getRoleByUserId"}

Role == {"USER", "TEACHER", "ADMIN"}

Row == [id : User, isBlocked : BOOLEAN, nickName : Nullable(Nick),
        roleId : Nullable(Role)]

\* The fields a PUT names; the others are undefined, and Prisma leaves them.
Body == [isBlocked : BOOLEAN] \cup [nickName : Nullable(Nick)]
          \cup [roleId : Nullable(Role)]

ASSUME RowAssumption == Null \notin Row /\ Null \notin Role /\ Bodies \subseteq Body

VARIABLES
  user,      \* the rows of "user"
  cache,     \* entries "user:<identifier>"
  lookupPc,
  caller,
  identifier,
  found,     \* local "user" of findByIdentifier and of its callers
  putPc,
  putId,
  body,
  delPc,
  delSender,
  deletedUser

lookupVars == <<lookupPc, caller, identifier, found>>
putVars == <<putPc, putId, body>>
delVars == <<delPc, delSender, deletedUser>>
vars == <<user, cache, lookupVars, putVars, delVars>>

LookupPc == {"idle", "get", "read", "set", "role", "admitted", "answered", "refused"}

TypeOK ==
  /\ user \in [User -> Nullable(Row)]
  /\ cache \in [Identifier -> Nullable(Row)]
  /\ lookupPc \in [Lookups -> LookupPc]
  /\ caller \in [Lookups -> Nullable(Caller)]
  /\ identifier \in [Lookups -> Nullable(Identifier)]
  /\ found \in [Lookups -> Nullable(Row)]
  /\ putPc \in [Puts -> {"idle", "check", "update"}]
  /\ putId \in [Puts -> Nullable(User)]
  /\ body \in [Puts -> Nullable(Body)]
  /\ delPc \in [Dels -> {"idle", "checkRole", "delCache", "delUser"}]
  /\ delSender \in [Dels -> Nullable(User)]
  /\ deletedUser \in [Dels -> Nullable(User)]
  /\ \A l \in Lookups :
       /\ lookupPc[l] # "idle" => caller[l] \in Caller /\ identifier[l] \in Identifier
       /\ lookupPc[l] \in {"set", "role"} => found[l] \in Row
  /\ \A p \in Puts : putPc[p] # "idle" => putId[p] \in User /\ body[p] \in Body
  /\ \A d \in Dels : delPc[d] # "idle" => delSender[d] \in User /\ deletedUser[d] \in User

\* user.create with the role USER and the defaults of the schema
NewUser(u) == [id |-> u, isBlocked |-> FALSE, nickName |-> Null, roleId |-> "USER"]

Init ==
  /\ user = [u \in User |-> NewUser(u)]
  /\ cache = [i \in Identifier |-> Null]
  /\ lookupPc = [l \in Lookups |-> "idle"]
  /\ caller = [l \in Lookups |-> Null]
  /\ identifier = [l \in Lookups |-> Null]
  /\ found = [l \in Lookups |-> Null]
  /\ putPc = [p \in Puts |-> "idle"]
  /\ putId = [p \in Puts |-> Null]
  /\ body = [p \in Puts |-> Null]
  /\ delPc = [d \in Dels |-> "idle"]
  /\ delSender = [d \in Dels |-> Null]
  /\ deletedUser = [d \in Dels |-> Null]

-----------------------------------------------------------------------------
(* findByIdentifier, and what its callers make of the user it returns.     *)

\* user.findUnique by id or by nickName, which are unique
Named(i) == {u \in User : user[u] # Null /\ (u = i \/ user[u].nickName = i)}

\* A token names an id.
LookupArrives(l, c, i) ==
  /\ lookupPc[l] = "idle"
  /\ c = "validate" => i \in User
  /\ lookupPc' = [lookupPc EXCEPT ![l] = "get"]
  /\ caller' = [caller EXCEPT ![l] = c]
  /\ identifier' = [identifier EXCEPT ![l] = i]
  /\ UNCHANGED <<user, cache, found, putVars, delVars>>

\* The check of isBlocked left out.
VerdictNotBlocked(row) == IF row = Null THEN "refused" ELSE "admitted"

\* validate
Verdict(row) ==
  IF row = Null THEN "refused" ELSE IF row.isBlocked THEN "refused" ELSE "admitted"

\* Where no user was found findOneUser answers with an empty one, and
\* getRoleByUserId with an error.
After(c, row) ==
  IF c = "validate" THEN Verdict(row)
  ELSE IF c = "findOneUser" THEN "answered"
  ELSE IF row # Null THEN "role" ELSE "refused"

\* findByIdentifier returns.
Return(l, row) ==
  /\ lookupPc' = [lookupPc EXCEPT ![l] = After(caller[l], row)]
  /\ found' = [found EXCEPT ![l] = IF caller[l] = "validate" THEN Null ELSE row]

Get(l) ==
  LET row == cache[identifier[l]] IN
  /\ lookupPc[l] = "get"
  /\ IF row # Null THEN Return(l, row)
     ELSE lookupPc' = [lookupPc EXCEPT ![l] = "read"] /\ UNCHANGED found
  /\ UNCHANGED <<user, cache, caller, identifier, putVars, delVars>>

\* The check that a user was found is missing: nothing is cached like a user.
ReadUnchecked(l) ==
  /\ lookupPc[l] = "read"
  /\ \/ \E u \in Named(identifier[l]) : found' = [found EXCEPT ![l] = user[u]]
     \/ Named(identifier[l]) = {} /\ UNCHANGED found
  /\ lookupPc' = [lookupPc EXCEPT ![l] = "set"]
  /\ UNCHANGED <<user, cache, caller, identifier, putVars, delVars>>

\* A database error refuses the request (in validate it counts as a user not found).
Read(l) ==
  /\ lookupPc[l] = "read"
  /\ \/ \E u \in Named(identifier[l]) :
          /\ found' = [found EXCEPT ![l] = user[u]]
          /\ lookupPc' = [lookupPc EXCEPT ![l] = "set"]
     \/ Named(identifier[l]) = {} /\ Return(l, Null)
     \/ lookupPc' = [lookupPc EXCEPT ![l] = "refused"] /\ UNCHANGED found
  /\ UNCHANGED <<user, cache, caller, identifier, putVars, delVars>>

\* The entry is named after the user that was found, not after what was asked.
SetById(l) ==
  /\ lookupPc[l] = "set"
  /\ cache' = [cache EXCEPT ![found[l].id] = found[l]]
  /\ Return(l, found[l])
  /\ UNCHANGED <<user, caller, identifier, putVars, delVars>>

Set(l) ==
  /\ lookupPc[l] = "set"
  /\ cache' = [cache EXCEPT ![identifier[l]] = found[l]]
  /\ Return(l, found[l])
  /\ UNCHANGED <<user, caller, identifier, putVars, delVars>>

\* getUserRole: role.findUnique by the roleId of the row that was found, which may
\* come out of the cache.  Without a roleId, or on a database error, it fails.
GetUserRole(l) ==
  /\ lookupPc[l] = "role"
  /\ \/ found[l].roleId # Null /\ lookupPc' = [lookupPc EXCEPT ![l] = "answered"]
     \/ lookupPc' = [lookupPc EXCEPT ![l] = "refused"]
  /\ UNCHANGED <<user, cache, caller, identifier, found, putVars, delVars>>

\* The request the lookup belongs to has been answered.
Finish(l) ==
  /\ lookupPc[l] \in {"admitted", "answered", "refused"}
  /\ lookupPc' = [lookupPc EXCEPT ![l] = "idle"]
  /\ caller' = [caller EXCEPT ![l] = Null]
  /\ identifier' = [identifier EXCEPT ![l] = Null]
  /\ found' = [found EXCEPT ![l] = Null]
  /\ UNCHANGED <<user, cache, putVars, delVars>>

\* Entries without a time to live.
ExpireNever(i) == FALSE /\ UNCHANGED vars

\* 3600 milliseconds after the entry was set.
Expire(i) ==
  /\ cache[i] # Null
  /\ cache' = [cache EXCEPT ![i] = Null]
  /\ UNCHANGED <<user, lookupVars, putVars, delVars>>

-----------------------------------------------------------------------------
(* PUT user                                                                *)

PutArrives(p, u, b) ==
  /\ putPc[p] = "idle"
  /\ putPc' = [putPc EXCEPT ![p] = "check"]
  /\ putId' = [putId EXCEPT ![p] = u]
  /\ body' = [body EXCEPT ![p] = b]
  /\ UNCHANGED <<user, cache, lookupVars, delVars>>

EndPut(p) ==
  /\ putPc' = [putPc EXCEPT ![p] = "idle"]
  /\ putId' = [putId EXCEPT ![p] = Null]
  /\ body' = [body EXCEPT ![p] = Null]

CheckExists(p) ==
  /\ putPc[p] = "check"
  /\ IF user[putId[p]] # Null
       THEN putPc' = [putPc EXCEPT ![p] = "update"] /\ UNCHANGED <<putId, body>>
       ELSE EndPut(p)
  /\ UNCHANGED <<user, cache, lookupVars, delVars>>

Merged(row, b) ==
  [f \in DOMAIN row |-> IF f \in DOMAIN b THEN b[f] ELSE row[f]]

\* nickName @unique
Updatable(u, b) ==
  "nickName" \in DOMAIN b /\ b.nickName # Null => Named(b.nickName) \subseteq {u}

\* The fields the body leaves out are set to their defaults.
UpdateWhole(p) ==
  /\ putPc[p] = "update"
  /\ user' = IF user[putId[p]] # Null /\ Updatable(putId[p], body[p])
               THEN [user EXCEPT ![putId[p]] = Merged(NewUser(putId[p]), body[p])]
               ELSE user
  /\ EndPut(p)
  /\ UNCHANGED <<cache, lookupVars, delVars>>

\* user.upsert: a row that has gone since the check is written again.
Upsert(p) ==
  /\ putPc[p] = "update"
  /\ user' = IF Updatable(putId[p], body[p])
               THEN [user EXCEPT ![putId[p]] = Merged(
                       IF @ # Null THEN @ ELSE NewUser(putId[p]), body[p])]
               ELSE user
  /\ EndPut(p)
  /\ UNCHANGED <<cache, lookupVars, delVars>>

\* user.update: one UPDATE of the fields of the body.  Without the row, or when
\* the nickname is taken, it fails.
Update(p) ==
  /\ putPc[p] = "update"
  /\ user' = IF user[putId[p]] # Null /\ Updatable(putId[p], body[p])
               THEN [user EXCEPT ![putId[p]] = Merged(@, body[p])]
               ELSE user
  /\ EndPut(p)
  /\ UNCHANGED <<cache, lookupVars, delVars>>

-----------------------------------------------------------------------------
(* DELETE user/:id                                                         *)

DelArrives(d, s, u) ==
  /\ delPc[d] = "idle"
  /\ delPc' = [delPc EXCEPT ![d] = "checkRole"]
  /\ delSender' = [delSender EXCEPT ![d] = s]
  /\ deletedUser' = [deletedUser EXCEPT ![d] = u]
  /\ UNCHANGED <<user, cache, lookupVars, putVars>>

EndDel(d) ==
  /\ delPc' = [delPc EXCEPT ![d] = "idle"]
  /\ delSender' = [delSender EXCEPT ![d] = Null]
  /\ deletedUser' = [deletedUser EXCEPT ![d] = Null]

\* getUserRoleById, as far as callers tell its outcomes apart
HasRole(u, roles) == user[u] # Null /\ user[u].roleId \in roles

\* The sender has a role, and he is the user himself or it is ADMIN; or he is
\* refused, as he is when the database reports an error.
CheckRole(d) ==
  /\ delPc[d] = "checkRole"
  /\ \/ /\ HasRole(delSender[d],
               IF delSender[d] = deletedUser[d] THEN Role ELSE {"ADMIN"})
        /\ delPc' = [delPc EXCEPT ![d] = "delCache"]
        /\ UNCHANGED <<delSender, deletedUser>>
     \/ EndDel(d)
  /\ UNCHANGED <<user, cache, lookupVars, putVars>>

\* cacheManager.del(deletedUser): the entries are called "user:<identifier>", so
\* this key has none.
DelCache(d) ==
  /\ delPc[d] = "delCache"
  /\ delPc' = [delPc EXCEPT ![d] = "delUser"]
  /\ UNCHANGED <<user, cache, delSender, deletedUser, lookupVars, putVars>>

\* user.delete.  Without the row it fails, and for a user who has logged in
\* (AuthStore says why).
DelUser(d) ==
  /\ delPc[d] = "delUser"
  /\ user' \in {user, [user EXCEPT ![deletedUser[d]] = Null]}
  /\ EndDel(d)
  /\ UNCHANGED <<cache, lookupVars, putVars>>

-----------------------------------------------------------------------------

LookupStep(l) == Get(l) \/ Read(l) \/ Set(l) \/ GetUserRole(l) \/ Finish(l)

PutStep(p) == CheckExists(p) \/ Update(p)

DelStep(d) == CheckRole(d) \/ DelCache(d) \/ DelUser(d)

Next ==
  \/ \E l \in Lookups :
       \/ \E c \in Caller, i \in Identifier : LookupArrives(l, c, i)
       \/ LookupStep(l)
  \/ \E p \in Puts :
       \/ \E u \in User, b \in Bodies : PutArrives(p, u, b)
       \/ PutStep(p)
  \/ \E d \in Dels :
       \/ \E s, u \in User : DelArrives(d, s, u)
       \/ DelStep(d)
  \/ \E i \in Identifier : Expire(i)

\* The server goes on with what it has accepted, and the clock of the cache
\* runs.  Nobody has to send anything.
Fairness ==
  /\ \A l \in Lookups : WF_vars(LookupStep(l))
  /\ \A p \in Puts : WF_vars(PutStep(p))
  /\ \A d \in Dels : WF_vars(DelStep(d))
  /\ \A i \in Identifier : WF_vars(Expire(i))

Spec == Init /\ [][Next]_vars /\ Fairness

-----------------------------------------------------------------------------

\* What a read of the table would return.
Stored(i) == IF Named(i) = {} THEN Null ELSE user[CHOOSE u \in Named(i) : TRUE]

\* Once nobody changes the table any more, every entry of the cache comes to
\* agree with it, and so do the users and roles that requests are answered with,
\* although writes never touch the cache, a lookup may set a row that it read
\* before the write, and a role is that of a row from the cache.
CacheConverges ==
  <>[][UNCHANGED user]_user =>
    <>[](/\ \A i \in Identifier : cache[i] # Null => cache[i] = Stored(i)
         /\ \A l \in Lookups : lookupPc[l] = "answered" =>
              found[l] = Stored(identifier[l]))

\* A user who stays blocked, or is deleted, is in the end admitted no more: the
\* entry that still says otherwise runs out.
BlockedIsRefused ==
  \A u \in User :
    <>[](user[u] # Null => user[u].isBlocked) =>
      <>[](\A l \in Lookups : lookupPc[l] = "admitted" => identifier[l] # u)

\* A user who is blocked or has no row.
Out(u) == user[u] # Null => user[u].isBlocked

\* Nobody is admitted as u, and no row that says he may be is left in the cache or
\* on its way into it.
Forgotten(u) ==
  /\ cache[u] # Null => cache[u].isBlocked
  /\ \A l \in Lookups : identifier[l] = u =>
       /\ lookupPc[l] # "admitted"
       /\ lookupPc[l] = "set" => found[l].isBlocked

\* Once the last row that vouched for a blocked or deleted user has gone, nobody
\* is admitted as him before he is unblocked: no lookup, by his id or by his
\* nickname, brings an old row back under his id.
OutStaysOut ==
  [][\A u \in User : Out(u) /\ Forgotten(u) => Forgotten(u)']_vars

\* A PUT writes the fields it was sent and no others: of two that change
\* different fields of one user neither undoes the other, though both read the
\* row first.
PutWritesItsFields ==
  [][\A u \in User : user[u] # Null /\ user'[u] \notin {Null, user[u]} => \E p \in Puts :
       \A f \in DOMAIN user[u] : user'[u][f] # user[u][f] =>
         /\ putPc[p] = "update" /\ putId[p] = u
         /\ f \in DOMAIN body[p] /\ user'[u][f] = body[p][f]]_user

\* A user who is deleted between the check and the write of a PUT stays deleted.
DeletedStaysDeleted ==
  [][\A u \in User : user[u] = Null => user'[u] = Null]_user

=============================================================================
