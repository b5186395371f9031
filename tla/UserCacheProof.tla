--------------------------- MODULE UserCacheProof ---------------------------
(***************************************************************************)
(* The "user" table under any number of lookups, PUTs and deletions: a PUT *)
(* writes the fields it was sent and no others, a deleted user stays       *)
(* deleted, and a blocked one is not remembered once he is forgotten.  And *)
(* the rights of the requests that are let in meanwhile follow the roles   *)
(* in that table.                                                          *)
(*                                                                         *)
(* The argument.  Two steps write the table.  The UPDATE of a PUT changes  *)
(* one row that is there, in the fields of its body; the DELETE removes    *)
(* one.  Neither depends on what the request read before.  An entry under  *)
(* an id comes from a lookup by that id, since isUUID keeps ids and        *)
(* nicknames apart, and so from a read of that row (LookupForgets).  A     *)
(* request under way has noted every role its sender has had (Noted), so   *)
(* what a guard or a handler reads is among them.                          *)
(***************************************************************************)
EXTENDS Access, TLAPS

USE UserCacheAssumption, RowAssumption, RoutesAssumption, SendersAssumption

\* A row with the fields of a body is a row, with those fields and the rest of
\* the old one.
LEMMA MergedRow ==
  ASSUME NEW row \in Row, NEW b \in Body
  PROVE  /\ Merged(row, b) \in Row
         /\ \A f \in DOMAIN row : Merged(row, b)[f] # row[f] =>
              f \in DOMAIN b /\ Merged(row, b)[f] = b[f]
<1>1. DOMAIN row = {"id", "isBlocked", "nickName", "roleId"}
  BY DEF Row
<1>2. \A f \in DOMAIN row :
        Merged(row, b)[f] = IF f \in DOMAIN b THEN b[f] ELSE row[f]
  BY DEF Merged
<1>3. Merged(row, b)["id"] \in User
  <2>1. "id" \notin DOMAIN b
    BY DEF Body
  <2> QED BY <1>1, <1>2, <2>1 DEF Row
<1>4. Merged(row, b)["isBlocked"] \in BOOLEAN
  <2>1. CASE "isBlocked" \in DOMAIN b
    <3>1. b["isBlocked"] \in BOOLEAN
      BY <2>1 DEF Body
    <3> QED BY <1>1, <1>2, <2>1, <3>1
  <2>2. CASE "isBlocked" \notin DOMAIN b
    BY <1>1, <1>2, <2>2 DEF Row
  <2> QED BY <2>1, <2>2
<1>5. Merged(row, b)["nickName"] \in Nullable(Nick)
  <2>1. CASE "nickName" \in DOMAIN b
    <3>1. b["nickName"] \in Nullable(Nick)
      BY <2>1 DEF Body
    <3> QED BY <1>1, <1>2, <2>1, <3>1
  <2>2. CASE "nickName" \notin DOMAIN b
    BY <1>1, <1>2, <2>2 DEF Row
  <2> QED BY <2>1, <2>2
<1>6. Merged(row, b)["roleId"] \in Nullable(Role)
  <2>1. CASE "roleId" \in DOMAIN b
    <3>1. b["roleId"] \in Nullable(Role)
      BY <2>1 DEF Body
    <3> QED BY <1>1, <1>2, <2>1, <3>1
  <2>2. CASE "roleId" \notin DOMAIN b
    BY <1>1, <1>2, <2>2 DEF Row
  <2> QED BY <2>1, <2>2
<1>7. Merged(row, b) = [id |-> Merged(row, b)["id"],
                        isBlocked |-> Merged(row, b)["isBlocked"],
                        nickName |-> Merged(row, b)["nickName"],
                        roleId |-> Merged(row, b)["roleId"]]
  BY <1>1 DEF Merged
<1>8. Merged(row, b) \in Row
  BY <1>3, <1>4, <1>5, <1>6, <1>7 DEF Row
<1> QED BY <1>2, <1>8

-----------------------------------------------------------------------------

\* Every call of the code finds its locals set.
LEMMA CacheInit == Init => TypeOK
<1> SUFFICES ASSUME Init
             PROVE  TypeOK
  OBVIOUS
<1>1. \A u \in User : NewUser(u) \in Row
  BY DEF NewUser, Row, Role, Nullable
<1>2. user \in [User -> Nullable(Row)]
  BY <1>1 DEF Init, Nullable
<1> QED BY <1>2 DEF Init, TypeOK, Nullable, LookupPc

\* A lookup that returns keeps the types.
LEMMA ReturnType ==
  ASSUME TypeOK, NEW l \in Lookups, NEW row \in Nullable(Row), Return(l, row),
         UNCHANGED <<user, caller, identifier, putVars, delVars>>,
         cache' \in [Identifier -> Nullable(Row)], lookupPc[l] # "idle"
  PROVE  TypeOK'
<1>1. /\ lookupPc' = [lookupPc EXCEPT ![l] = After(caller[l], row)]
      /\ After(caller[l], row) \in {"admitted", "answered", "refused", "role"}
      /\ After(caller[l], row) = "role" => caller[l] # "validate" /\ row # Null
  BY DEF Return, After, Verdict
<1>2. found' = [found EXCEPT ![l] = IF caller[l] = "validate" THEN Null ELSE row]
  BY DEF Return
<1> QED BY <1>1, <1>2 DEF TypeOK, Nullable, LookupPc, putVars, delVars

\* The steps of a lookup keep the types.
LEMMA LookupType ==
  ASSUME TypeOK, NEW l \in Lookups,
         LookupStep(l) \/ \E c \in Caller, i \in Identifier : LookupArrives(l, c, i)
  PROVE  TypeOK'
<1> USE DEF TypeOK, Nullable, LookupPc, putVars, delVars, lookupVars
<1>1. CASE \E c \in Caller, i \in Identifier : LookupArrives(l, c, i)
  BY <1>1 DEF LookupArrives
<1>2. CASE Get(l)
  <2>1. CASE lookupPc' = [lookupPc EXCEPT ![l] = "read"] /\ UNCHANGED found
    BY <1>2, <2>1 DEF Get
  <2>2. CASE Return(l, cache[identifier[l]])
    <3>1. cache[identifier[l]] \in Nullable(Row)
      BY <1>2 DEF Get
    <3> QED BY <1>2, <2>2, <3>1, ReturnType DEF Get
  <2> QED BY <1>2, <2>1, <2>2 DEF Get
<1>3. CASE Read(l)
  <2>1. CASE \E u \in Named(identifier[l]) :
               /\ found' = [found EXCEPT ![l] = user[u]]
               /\ lookupPc' = [lookupPc EXCEPT ![l] = "set"]
    BY <1>3, <2>1 DEF Read, Named
  <2>2. CASE /\ lookupPc' = [lookupPc EXCEPT ![l] = "refused"]
             /\ UNCHANGED found
    BY <1>3, <2>2 DEF Read
  <2>3. CASE Return(l, Null)
    BY <1>3, <2>3, ReturnType DEF Read
  <2> QED BY <1>3, <2>1, <2>2, <2>3 DEF Read
<1>4. CASE Set(l)
  <2>1. cache' \in [Identifier -> Nullable(Row)] /\ found[l] \in Row
    BY <1>4 DEF Set
  <2> QED BY <1>4, <2>1, ReturnType DEF Set
<1>5. CASE GetUserRole(l)
  BY <1>5 DEF GetUserRole
<1>6. CASE Finish(l)
  BY <1>6 DEF Finish
<1> QED BY <1>1, <1>2, <1>3, <1>4, <1>5, <1>6 DEF LookupStep

\* The steps of a PUT keep the types.
LEMMA PutType ==
  ASSUME TypeOK, NEW p \in Puts,
         PutStep(p) \/ \E u \in User, b \in Bodies : PutArrives(p, u, b)
  PROVE  TypeOK'
<1> USE DEF TypeOK, Nullable, putVars, delVars, lookupVars, EndPut
<1>1. CASE \E u \in User, b \in Bodies : PutArrives(p, u, b)
  BY <1>1 DEF PutArrives
<1>2. CASE CheckExists(p)
  BY <1>2 DEF CheckExists
<1>3. CASE Update(p)
  <2>1. user' \in [User -> Nullable(Row)]
    <3>1. CASE user[putId[p]] # Null
      <4>1. Merged(user[putId[p]], body[p]) \in Row
        BY <1>3, <3>1, MergedRow DEF Update
      <4> QED BY <1>3, <4>1 DEF Update
    <3>2. CASE user[putId[p]] = Null
      BY <1>3, <3>2 DEF Update
    <3> QED BY <3>1, <3>2
  <2> QED BY <1>3, <2>1 DEF Update
<1> QED BY <1>1, <1>2, <1>3 DEF PutStep

\* The steps of a deletion keep the types.
LEMMA DelType ==
  ASSUME TypeOK, NEW d \in Dels,
         DelStep(d) \/ \E s, u \in User : DelArrives(d, s, u)
  PROVE  TypeOK'
<1> USE DEF TypeOK, Nullable, putVars, delVars, lookupVars, EndDel
<1>1. CASE \E s, u \in User : DelArrives(d, s, u)
  BY <1>1 DEF DelArrives
<1>2. CASE CheckRole(d)
  BY <1>2 DEF CheckRole
<1>3. CASE DelCache(d)
  BY <1>3 DEF DelCache
<1>4. CASE DelUser(d)
  BY <1>4 DEF DelUser
<1> QED BY <1>1, <1>2, <1>3, <1>4 DEF DelStep

\* Every step keeps the types.
LEMMA CacheNext == TypeOK /\ [Next]_vars => TypeOK'
<1> SUFFICES ASSUME TypeOK, [Next]_vars
             PROVE  TypeOK'
  OBVIOUS
<1>1. CASE UNCHANGED vars
  BY <1>1 DEF vars, lookupVars, putVars, delVars, TypeOK
<1>2. ASSUME NEW i \in Identifier, Expire(i)
      PROVE  TypeOK'
  BY <1>2 DEF Expire, TypeOK, Nullable, lookupVars, putVars, delVars
<1> QED BY <1>1, <1>2, LookupType, PutType, DelType DEF Next

\* Rows, entries and locals of UserService have their types at every await.
THEOREM CacheTypeCorrect == Spec => []TypeOK
BY CacheInit, CacheNext, PTL DEF Spec

-----------------------------------------------------------------------------

\* The steps that write the table.
LEMMA TableWrites ==
  ASSUME TypeOK, [Next]_vars, user' # user
  PROVE  \/ \E p \in Puts : Update(p)
         \/ \E d \in Dels : DelUser(d)
BY DEF Next, vars, LookupArrives, LookupStep, Get, Read, Set, GetUserRole, Finish,
  PutArrives, PutStep, CheckExists, DelArrives, DelStep, CheckRole, DelCache,
  Expire

\* What one step does to the table.
LEMMA TableStep ==
  ASSUME TypeOK, [Next]_vars, NEW u \in User
  PROVE  /\ user[u] = Null => user'[u] = Null
         /\ user[u] # Null /\ user'[u] # Null => user'[u] = user[u] \/
              \E p \in Puts :
                /\ putPc[p] = "update" /\ putId[p] = u
                /\ user'[u] = Merged(user[u], body[p])
<1>1. CASE user' = user
  BY <1>1
<1>2. ASSUME NEW p \in Puts, Update(p)
      PROVE  /\ user[u] = Null => user'[u] = Null
             /\ user[u] # Null => user'[u] = user[u] \/
                  (/\ putPc[p] = "update" /\ putId[p] = u
                   /\ user'[u] = Merged(user[u], body[p]))
  BY <1>2 DEF Update, TypeOK
<1>3. ASSUME NEW d \in Dels, DelUser(d)
      PROVE  user'[u] = user[u] \/ user'[u] = Null
  BY <1>3 DEF DelUser, TypeOK
<1> QED BY <1>1, <1>2, <1>3, TableWrites

\* A user who is deleted between the check and the write of a PUT stays deleted.
THEOREM DeletedStaysDeletedHolds == Spec => DeletedStaysDeleted
<1>1. TypeOK /\ [Next]_vars =>
        [\A u \in User : user[u] = Null => user'[u] = Null]_user
  BY TableStep
<1> QED BY <1>1, CacheTypeCorrect, PTL DEF Spec, DeletedStaysDeleted

\* No PUT undoes what another wrote into other fields.
THEOREM PutWritesItsFieldsHolds == Spec => PutWritesItsFields
<1> DEFINE Fields ==
      \A u \in User : user[u] # Null /\ user'[u] \notin {Null, user[u]} => \E p \in Puts :
        \A f \in DOMAIN user[u] : user'[u][f] # user[u][f] =>
          /\ putPc[p] = "update" /\ putId[p] = u
          /\ f \in DOMAIN body[p] /\ user'[u][f] = body[p][f]
<1>1. TypeOK /\ [Next]_vars => [Fields]_user
  <2> SUFFICES ASSUME TypeOK, [Next]_vars, user' # user,
                      NEW u \in User, user[u] # Null, user'[u] \notin {Null, user[u]}
               PROVE  \E p \in Puts : \A f \in DOMAIN user[u] :
                        user'[u][f] # user[u][f] =>
                          /\ putPc[p] = "update" /\ putId[p] = u
                          /\ f \in DOMAIN body[p] /\ user'[u][f] = body[p][f]
    OBVIOUS
  <2>1. ASSUME NEW p \in Puts, putPc[p] = "update", putId[p] = u,
               user'[u] = Merged(user[u], body[p])
        PROVE  \A f \in DOMAIN user[u] : user'[u][f] # user[u][f] =>
                 f \in DOMAIN body[p] /\ user'[u][f] = body[p][f]
    <3>1. user[u] \in Row /\ body[p] \in Body
      BY <2>1 DEF TypeOK, Nullable
    <3> QED BY <2>1, <3>1, MergedRow
  <2> QED BY <2>1, TableStep
<1> QED BY <1>1, CacheTypeCorrect, PTL DEF Spec, PutWritesItsFields

-----------------------------------------------------------------------------
(* The cache.                                                              *)

\* A lookup by the id of a user who is out finds nothing that vouches for him.
LEMMA LookupForgets ==
  ASSUME TypeOK, NEW u \in User, Out(u), Forgotten(u), NEW l \in Lookups,
         \/ LookupStep(l)
         \/ \E c \in Caller, i \in Identifier : LookupArrives(l, c, i)
  PROVE  Forgotten(u)'
<1> DEFINE Silent(k) == identifier'[k] = u =>
             /\ lookupPc'[k] # "admitted"
             /\ lookupPc'[k] = "set" => found'[k].isBlocked
<1>1. \A k \in Lookups \ {l} :
        /\ identifier'[k] = identifier[k] /\ lookupPc'[k] = lookupPc[k]
        /\ found'[k] = found[k]
  BY DEF TypeOK, LookupStep, LookupArrives, Get, Read, Set, GetUserRole, Finish, Return
<1>2. \A k \in Lookups \ {l} : Silent(k)
  BY <1>1 DEF Forgotten
<1>3. SUFFICES (cache'[u] # Null => cache'[u].isBlocked) /\ Silent(l)
  BY <1>2 DEF Forgotten
<1>4. CASE \E c \in Caller, i \in Identifier : LookupArrives(l, c, i)
  BY <1>4 DEF LookupArrives, Forgotten, TypeOK
<1>5. ASSUME NEW row, Return(l, row), UNCHANGED identifier,
             identifier[l] = u => row = Null \/ row.isBlocked
      PROVE  Silent(l)
  <2>1. lookupPc'[l] = After(caller[l], row)
    BY <1>5 DEF Return, TypeOK
  <2> QED BY <1>5, <2>1 DEF After, Verdict
<1>6. CASE Get(l)
  <2>1. UNCHANGED <<cache, identifier>>
    BY <1>6 DEF Get
  <2>2. CASE lookupPc' = [lookupPc EXCEPT ![l] = "read"]
    BY <2>1, <2>2 DEF Forgotten, TypeOK
  <2>3. CASE Return(l, cache[identifier[l]])
    BY <1>5, <2>1, <2>3 DEF Forgotten
  <2> QED BY <1>6, <2>2, <2>3 DEF Get
<1>7. CASE Read(l)
  <2>1. UNCHANGED <<cache, identifier>>
    BY <1>7 DEF Read
  <2>2. ASSUME NEW v \in Named(identifier[l]), identifier[l] = u,
               found' = [found EXCEPT ![l] = user[v]]
        PROVE  found'[l].isBlocked
    <3>1. v \in User /\ user[v] \in Row
      BY DEF Named, TypeOK, Nullable
    <3>2. user[v].nickName # u
      BY <3>1 DEF Row, Nullable
    <3>3. v = u
      BY <2>2, <3>2 DEF Named
    <3> QED BY <2>2, <3>1, <3>3 DEF Out, TypeOK
  <2>3. CASE \E v \in Named(identifier[l]) :
               /\ found' = [found EXCEPT ![l] = user[v]]
               /\ lookupPc' = [lookupPc EXCEPT ![l] = "set"]
    BY <2>1, <2>2, <2>3 DEF Forgotten, TypeOK
  <2>4. CASE lookupPc' = [lookupPc EXCEPT ![l] = "refused"]
    BY <2>1, <2>4 DEF Forgotten, TypeOK
  <2>5. CASE Return(l, Null)
    BY <1>5, <2>1, <2>5 DEF Forgotten
  <2> QED BY <1>7, <2>3, <2>4, <2>5 DEF Read
<1>8. CASE Set(l)
  <2>1. identifier[l] = u => found[l].isBlocked
    BY <1>8 DEF Set, Forgotten
  <2>2. cache'[u] # Null => cache'[u].isBlocked
    BY <1>8, <2>1 DEF Set, Forgotten, TypeOK, Identifier
  <2> QED BY <1>5, <1>8, <2>1, <2>2 DEF Set
<1>9. CASE GetUserRole(l)
  BY <1>9 DEF GetUserRole, Forgotten, TypeOK
<1>10. CASE Finish(l)
  BY <1>10 DEF Finish, Forgotten, TypeOK
<1> QED BY <1>4, <1>6, <1>7, <1>8, <1>9, <1>10 DEF LookupStep

\* A blocked or deleted user who has been forgotten stays so until he is unblocked:
\* the cache never learns of him from anything but a read of his row.
THEOREM OutStaysOutHolds == Spec => OutStaysOut
<1>1. ASSUME TypeOK, [Next]_vars, NEW u \in User, Out(u), Forgotten(u)
      PROVE  Forgotten(u)'
  <2>1. CASE UNCHANGED <<cache, lookupVars>>
    BY <1>1, <2>1 DEF Forgotten, lookupVars
  <2>2. ASSUME NEW i \in Identifier, Expire(i)
        PROVE  Forgotten(u)'
    BY <1>1, <2>2 DEF Expire, Forgotten, lookupVars, TypeOK
  <2>3. ASSUME NEW l \in Lookups,
               \/ LookupStep(l)
               \/ \E c \in Caller, i \in Identifier : LookupArrives(l, c, i)
        PROVE  Forgotten(u)'
    BY <1>1, <2>3, LookupForgets
  <2>4. ASSUME NEW p \in Puts,
               PutStep(p) \/ \E v \in User, b \in Bodies : PutArrives(p, v, b)
        PROVE  Forgotten(u)'
    BY <2>1, <2>4 DEF PutArrives, PutStep, CheckExists, Update
  <2>5. ASSUME NEW d \in Dels,
               DelStep(d) \/ \E s, v \in User : DelArrives(d, s, v)
        PROVE  Forgotten(u)'
    BY <2>1, <2>5 DEF DelArrives, DelStep, CheckRole, DelCache, DelUser
  <2>6. CASE UNCHANGED vars
    BY <2>1, <2>6 DEF vars
  <2> QED BY <1>1, <2>2, <2>3, <2>4, <2>5, <2>6 DEF Next
<1> DEFINE Stays == \A u \in User : Out(u) /\ Forgotten(u) => Forgotten(u)'
<1>2. TypeOK /\ [Next]_vars => [Stays]_vars
  BY <1>1
<1> QED BY <1>2, CacheTypeCorrect, PTL DEF Spec, OutStaysOut

-----------------------------------------------------------------------------
(* Access.                                                                 *)

\* A step of the table, the cache or a lookup is one of UserCache.
LEMMA UserSteps ==
  ASSUME TypeOK, UserStep
  PROVE  /\ Next /\ TypeOK'
         /\ UNCHANGED <<caller, identifier>>
         /\ \A l \in Lookups :
              /\ lookupPc'[l] # "idle" <=> lookupPc[l] # "idle"
              /\ lookupPc[l] = "admitted" => lookupPc'[l] = "admitted"
<1>1. Next
  BY DEF UserStep, Next, LookupStep
<1>2. ASSUME NEW k \in Lookups, Get(k) \/ Read(k) \/ Set(k)
      PROVE  /\ UNCHANGED <<caller, identifier>>
             /\ \A l \in Lookups \ {k} : lookupPc'[l] = lookupPc[l]
             /\ lookupPc[k] \notin {"idle", "admitted"} /\ lookupPc'[k] # "idle"
  BY <1>2 DEF Get, Read, Set, Return, After, Verdict, TypeOK
<1>3. \/ \E k \in Lookups : Get(k) \/ Read(k) \/ Set(k)
      \/ UNCHANGED <<caller, identifier, lookupPc>>
  BY DEF UserStep, PutArrives, PutStep, CheckExists, Update, DelArrives, DelStep,
         CheckRole, DelCache, DelUser, Expire, lookupVars
<1> QED BY <1>1, <1>2, <1>3, CacheNext

\* What a request has reached stays reached until it ends.
LEMMA AccessTypes ==
  ASSUME AccessTypeOK, [AccessNext]_allVars
  PROVE  AccessTypeOK'
<1> USE DEF AccessTypeOK, Nullable
<1>1. CASE UserStep /\ UNCHANGED accessVars
  BY <1>1, UserSteps DEF accessVars
<1>2. ASSUME NEW l \in Lookups, NEW u \in User, NEW r \in Routes,
             RequestArrives(l, u, r)
      PROVE  AccessTypeOK'
  <2>1. TypeOK'
    BY <1>2 DEF RequestArrives, TypeOK, LookupPc, Caller, Identifier, Nullable,
                putVars, delVars
  <2> QED BY <1>2, <2>1 DEF RequestArrives, TypeOK
<1>3. ASSUME NEW l \in Lookups, NEW pc \in {"handler", "served", "refused"},
             GotoHandler(l, pc), lookupPc[l] = "admitted",
             seesAll' \in [Lookups -> BOOLEAN]
      PROVE  AccessTypeOK'
  <2>1. TypeOK' /\ UNCHANGED <<lookupPc, caller, identifier, route>>
    BY <1>3 DEF GotoHandler, vars, lookupVars, putVars, delVars, TypeOK
  <2> QED BY <1>3, <2>1 DEF GotoHandler
<1>4. ASSUME NEW l \in Lookups, RolesGuard(l)
      PROVE  AccessTypeOK'
  BY <1>3, <1>4 DEF RolesGuard, AfterGuards
<1>5. ASSUME NEW l \in Lookups, NEW r, Show(l, r)
      PROVE  AccessTypeOK'
  <2>1. seesAll' \in [Lookups -> BOOLEAN]
    BY <1>5 DEF Show, IsTeacherOrAdmin, HasRole
  <2> QED BY <1>3, <1>5, <2>1 DEF Show
<1>6. ASSUME NEW l \in Lookups, RequestEnds(l)
      PROVE  AccessTypeOK'
  <2>1. TypeOK'
    BY <1>6 DEF RequestEnds, TypeOK, LookupPc, putVars, delVars
  <2> QED BY <1>6, <2>1 DEF RequestEnds, TypeOK
<1>7. CASE UNCHANGED allVars
  BY <1>7 DEF allVars, accessVars, vars, lookupVars, putVars, delVars, TypeOK
<1> QED
  BY <1>1, <1>2, <1>4, <1>5, <1>6, <1>7
  DEF AccessNext, RequestStep, FindAllCourses, FindAllThemes, FindOneTask

\* Requests that are under way have a sender, and those that reached a handler
\* were let in by the guards.
THEOREM AccessTypeCorrect == AccessSpec => []AccessTypeOK
<1>1. AccessInit => AccessTypeOK
  BY CacheInit DEF AccessInit, AccessTypeOK, Init, Nullable
<1> QED BY <1>1, AccessTypes, PTL DEF AccessSpec

-----------------------------------------------------------------------------
(* What the guards and handlers read is among what has been noted.         *)

Noted ==
  \A r \in Lookups \cup Dels :
    Sender(r) # Null => RolesOf(Sender(r)) \subseteq hadRole[r]

\* No role has to be noted before a request has arrived.
LEMMA NotedInit == AccessInit => Noted
BY DEF AccessInit, Init, Noted, Sender

\* The notes of a sender grow, and hold his role after each step.
LEMMA Observed ==
  ASSUME Observe, NEW r \in Lookups \cup Dels, Sender(r)' # Null
  PROVE  hadRole'[r] = hadRole[r] \cup RolesOf(Sender(r))'
BY DEF Observe

\* Every step leaves the present role of a sender noted.
LEMMA NotedNext == Noted /\ [AccessNext]_allVars => Noted'
<1>1. CASE Observe
  BY <1>1, Observed DEF Noted
<1>2. CASE UNCHANGED allVars
  BY <1>2 DEF allVars, vars, lookupVars, delVars, Noted, Sender, RolesOf
<1> QED BY <1>1, <1>2 DEF AccessNext

\* The role a check reads is one the sender has.
LEMMA RoleRead ==
  ASSUME NEW u \in User, user[u] # Null
  PROVE  user[u].roleId \in RolesOf(u)
BY DEF RolesOf

\* Steps of others leave a request as it is, and its own lead past RolesGuard
\* to the handler and to the answer.
Kept(l) == UNCHANGED <<identifier[l], route[l], handlerPc[l], seesAll[l]>>

\* How a request goes on behind the guards.
LEMMA RequestMoves ==
  ASSUME AccessTypeOK, AccessNext, NEW l \in Lookups
  PROVE  \/ Kept(l)
         \/ lookupPc[l] = "idle" /\ handlerPc'[l] = "rolesGuard" /\ UNCHANGED seesAll[l]
         \/ RolesGuard(l)
         \/ \E r \in TeachersView : Show(l, r)
         \/ handlerPc'[l] = "idle" /\ ~seesAll'[l]
<1> USE DEF Kept, AccessTypeOK, TypeOK
<1>1. CASE UserStep /\ UNCHANGED accessVars
  BY <1>1, UserSteps DEF accessVars
<1>2. ASSUME NEW k \in Lookups, RequestStep(k)
      PROVE  k = l \/ Kept(l)
  BY <1>2 DEF RequestStep, RequestArrives, RolesGuard, FindAllCourses, FindAllThemes,
              FindOneTask, Show, RequestEnds, GotoHandler, vars, lookupVars
<1>3. ASSUME RequestStep(l)
      PROVE  \/ lookupPc[l] = "idle" /\ handlerPc'[l] = "rolesGuard"
                  /\ UNCHANGED seesAll[l]
             \/ RolesGuard(l)
             \/ \E r \in TeachersView : Show(l, r)
             \/ handlerPc'[l] = "idle" /\ ~seesAll'[l]
  BY <1>3 DEF RequestStep, RequestArrives, FindAllCourses, FindAllThemes,
              FindOneTask, TeachersView, RequestEnds
<1> QED BY <1>1, <1>2, <1>3 DEF AccessNext

\* The guard and the handler change nothing they read.
LEMMA HandlerReads ==
  ASSUME AccessTypeOK, Observe, Noted, NEW l \in Lookups,
         RolesGuard(l) \/ \E r \in TeachersView : Show(l, r)
  PROVE  /\ UNCHANGED <<user, identifier, route>>
         /\ identifier[l] \in User /\ route[l] \in Route
         /\ hadRole'[l] = hadRole[l]
         /\ user[identifier[l]] # Null => user[identifier[l]].roleId \in hadRole[l]
<1>1. UNCHANGED <<user, identifier, route>> /\ lookupPc[l] = "admitted"
  BY DEF RolesGuard, Show, GotoHandler, vars, lookupVars, AccessTypeOK
<1>2. identifier[l] \in User /\ route[l] \in Route
  BY <1>1 DEF AccessTypeOK
<1>3. Sender(l) = identifier[l] /\ Sender(l)' = identifier[l]
  BY <1>1 DEF Sender
<1>4. RolesOf(identifier[l])' = RolesOf(identifier[l])
  BY <1>1 DEF RolesOf
<1>5. RolesOf(identifier[l]) \subseteq hadRole[l]
  BY <1>2, <1>3 DEF Noted
<1>6. hadRole'[l] = hadRole[l]
  BY <1>1, <1>2, <1>3, <1>4, <1>5, Observed DEF Sender
<1> QED BY <1>1, <1>2, <1>5, <1>6, RoleRead

-----------------------------------------------------------------------------

FreshRequest(l) ==
  /\ handlerPc[l] \in {"handler", "served"} /\ Rule(route[l]).roles # {} =>
       hadRole[l] \cap Rule(route[l]).roles # {}
  /\ seesAll[l] => handlerPc[l] = "served" /\ hadRole[l] \cap Teaching # {}

FreshDeletion(d) ==
  delPc[d] \in {"delCache", "delUser"} /\ delSender[d] # deletedUser[d] =>
    "ADMIN" \in hadRole[d]

RolesInv ==
  /\ \A l \in Lookups : FreshRequest(l)
  /\ \A d \in Dels : FreshDeletion(d)

\* The notes of a request that is under way only grow.
LEMMA KeptNotes ==
  ASSUME AccessTypeOK, Observe, NEW l \in Lookups, Kept(l),
         handlerPc[l] \in {"handler", "served"}
  PROVE  /\ identifier[l] \in User /\ identifier'[l] = identifier[l]
         /\ hadRole'[l] = hadRole[l] \cup RolesOf(identifier[l])'
<1>1. identifier[l] \in User
  BY DEF AccessTypeOK
<1>2. Sender(l)' = identifier[l]
  BY DEF Sender, Kept
<1> QED BY <1>1, <1>2, Observed DEF Kept, Sender

\* What a request is let in for, or shown, is a right its sender has had since he
\* asked.
LEMMA FreshRequests ==
  ASSUME AccessTypeOK, Noted, AccessNext, NEW l \in Lookups, FreshRequest(l)
  PROVE  FreshRequest(l)'
<1>0. Observe
  BY DEF AccessNext
<1>1. CASE Kept(l)
  BY <1>0, <1>1, KeptNotes DEF Kept, FreshRequest
<1>2. CASE RolesGuard(l)
  <2>1. /\ handlerPc'[l] \in {"handler", "served"} /\ Rule(route[l]).roles # {} =>
             HasRole(identifier[l], Rule(route[l]).roles)
        /\ handlerPc[l] = "rolesGuard" /\ UNCHANGED seesAll
    BY <1>2 DEF RolesGuard, GotoHandler, AccessTypeOK
  <2> QED BY <1>0, <1>2, <2>1, HandlerReads DEF FreshRequest, HasRole
<1>3. ASSUME NEW r \in TeachersView, Show(l, r)
      PROVE  FreshRequest(l)'
  <2>1. \/ /\ handlerPc'[l] = "served"
           /\ seesAll'[l] => HasRole(identifier[l], Teaching)
        \/ handlerPc'[l] = "refused" /\ UNCHANGED seesAll
    BY <1>3, Null \notin User
    DEF Show, GotoHandler, AccessTypeOK, IsTeacherOrAdmin, CurrentUser
  <2>2. handlerPc[l] = "handler"
    BY <1>3 DEF Show
  <2> QED BY <1>0, <1>3, <2>1, <2>2, HandlerReads DEF FreshRequest, HasRole
<1>4. CASE lookupPc[l] = "idle" /\ handlerPc'[l] = "rolesGuard" /\ UNCHANGED seesAll[l]
  BY <1>4 DEF FreshRequest, AccessTypeOK
<1>5. CASE handlerPc'[l] = "idle" /\ ~seesAll'[l]
  BY <1>5 DEF FreshRequest
<1> QED BY <1>1, <1>2, <1>3, <1>4, <1>5, RequestMoves

\* Who deletes somebody else has had the right since he asked.
LEMMA FreshDeletions ==
  ASSUME AccessTypeOK, Noted, AccessNext, NEW d \in Dels, FreshDeletion(d)
  PROVE  FreshDeletion(d)'
<1>0. Observe /\ TypeOK /\ d \notin Lookups
  BY SendersAssumption DEF AccessNext, AccessTypeOK
<1>1. CASE /\ delSender'[d] = delSender[d] /\ deletedUser'[d] = deletedUser[d]
           /\ delPc[d] \in {"delCache", "delUser"}
  <2>1. Sender(d)' = delSender[d] /\ delSender[d] \in User
    BY <1>0, <1>1 DEF Sender, TypeOK
  <2> QED BY <1>0, <1>1, <2>1, Observed DEF FreshDeletion, Sender
<1>2. CASE CheckRole(d)
  <2>1. UNCHANGED user /\ delSender[d] \in User
    BY <1>0, <1>2 DEF CheckRole, TypeOK
  <2>2. CASE delPc'[d] \in {"delCache", "delUser"} /\ delSender'[d] # deletedUser'[d]
    <3>1. UNCHANGED <<delSender, deletedUser>> /\ HasRole(delSender[d], {"ADMIN"})
      BY <1>0, <1>2, <2>2 DEF CheckRole, EndDel, TypeOK
    <3>2. "ADMIN" \in RolesOf(delSender[d])
      BY <2>1, <3>1, RoleRead DEF HasRole
    <3>3. "ADMIN" \in hadRole[d]
      BY <1>0, <2>1, <3>2 DEF Noted, Sender
    <3>4. Sender(d)' # Null
      BY <1>0, <2>1, <3>1 DEF Sender
    <3> QED BY <1>0, <3>3, <3>4, Observed DEF FreshDeletion
  <2> QED BY <2>2 DEF FreshDeletion
<1>3. CASE delPc'[d] \notin {"delCache", "delUser"}
  BY <1>3 DEF FreshDeletion
<1>4. UserStep \/ UNCHANGED delVars
  BY DEF AccessNext, RequestStep, RequestArrives, RolesGuard, FindAllCourses,
         FindAllThemes, FindOneTask, Show, RequestEnds, GotoHandler, vars
<1> DEFINE Outcome ==
      \/ /\ delSender'[d] = delSender[d] /\ deletedUser'[d] = deletedUser[d]
         /\ delPc'[d] \in {"delCache", "delUser"} => delPc[d] \in {"delCache", "delUser"}
      \/ CheckRole(d)
      \/ delPc'[d] \notin {"delCache", "delUser"}
<1>5. Outcome
  <2>1. ASSUME NEW e \in Dels, \/ \E s, u \in User : DelArrives(e, s, u)
                               \/ CheckRole(e) \/ DelCache(e) \/ DelUser(e)
        PROVE  e = d \/ (/\ delPc'[d] = delPc[d] /\ delSender'[d] = delSender[d]
                         /\ deletedUser'[d] = deletedUser[d])
    BY <1>0, <2>1 DEF DelArrives, CheckRole, DelCache, DelUser, EndDel, TypeOK
  <2>2. \/ UNCHANGED delVars
        \/ \E e \in Dels : \/ \E s, u \in User : DelArrives(e, s, u)
                           \/ CheckRole(e) \/ DelCache(e) \/ DelUser(e)
    BY <1>4 DEF UserStep, Get, Read, Set, PutArrives, PutStep, CheckExists, Update,
                DelStep, Expire
  <2>3. CASE DelCache(d)
    BY <1>0, <2>3 DEF DelCache, TypeOK
  <2>4. CASE DelUser(d) \/ \E s, u \in User : DelArrives(d, s, u)
    BY <1>0, <2>4 DEF DelUser, EndDel, DelArrives, TypeOK
  <2> QED BY <2>1, <2>2, <2>3, <2>4 DEF delVars
<1> QED BY <1>1, <1>2, <1>3, <1>5

\* Whoever passes RolesGuard, is shown all, or may delete somebody else has had
\* the role since his request arrived, for the role is read from the table and
\* not out of the cached row.
THEOREM RolesAreFreshHolds == AccessSpec => []RolesAreFresh
<1>1. AccessInit => RolesInv
  BY DEF AccessInit, Init, RolesInv, FreshRequest, FreshDeletion
<1>2. AccessTypeOK /\ Noted /\ RolesInv /\ [AccessNext]_allVars => RolesInv'
  <2>1. CASE UNCHANGED allVars
    BY <2>1 DEF allVars, accessVars, vars, delVars, RolesInv, FreshRequest,
                FreshDeletion
  <2> QED BY <2>1, FreshRequests, FreshDeletions DEF RolesInv
<1>3. RolesInv => RolesAreFresh
  BY DEF RolesInv, FreshRequest, FreshDeletion, RolesAreFresh
<1> QED
  BY <1>1, <1>2, <1>3, NotedInit, NotedNext, AccessTypeCorrect, PTL DEF AccessSpec

-----------------------------------------------------------------------------

SeesThemesAndTests(l) ==
  /\ handlerPc[l] = "served"
  /\ route[l] \in {"themes", "task"}
  /\ user[identifier[l]] # Null
  /\ hadRole[l] \subseteq Teaching
  => seesAll[l]

\* Only the handler itself answers on the routes that ask for the role again.
LEMMA GuardLeavesToHandler ==
  ASSUME AccessTypeOK, NEW l \in Lookups, RolesGuard(l),
         route[l] \in {"themes", "task"}
  PROVE  handlerPc'[l] # "served"
BY DEF RolesGuard, GotoHandler, AfterGuards, TeachersView, AccessTypeOK

\* Whoever stays a teacher is shown everything.
LEMMA ThemesAndTests ==
  ASSUME AccessTypeOK, Noted, AccessNext, NEW l \in Lookups, SeesThemesAndTests(l)
  PROVE  SeesThemesAndTests(l)'
<1>0. Observe
  BY DEF AccessNext
<1>1. CASE Kept(l) /\ handlerPc[l] = "served"
  <2>1. /\ identifier[l] \in User /\ identifier'[l] = identifier[l]
        /\ hadRole[l] \subseteq hadRole'[l]
    BY <1>0, <1>1, KeptNotes
  <2>2. user' = user \/ Next
    BY UserSteps DEF AccessNext, AccessTypeOK, RequestStep, RequestArrives,
       RolesGuard, FindAllCourses, FindAllThemes, FindOneTask, Show, RequestEnds,
       GotoHandler, vars
  <2>3. user'[identifier[l]] # Null => user[identifier[l]] # Null
    BY <2>1, <2>2, TableStep DEF AccessTypeOK
  <2> QED BY <1>1, <2>1, <2>3 DEF Kept, SeesThemesAndTests
<1>2. CASE RolesGuard(l)
  BY <1>0, <1>2, HandlerReads, GuardLeavesToHandler DEF SeesThemesAndTests
<1>3. ASSUME NEW r \in TeachersView, Show(l, r), route[l] \in {"themes", "task"},
             handlerPc'[l] = "served"
      PROVE  SeesThemesAndTests(l)'
  <2>1. ~Rule(route[l]).public
    BY <1>3 DEF Rule, CourseRoutes, ThemeRoutes, TaskRoutes, SignedIn
  <2>2. seesAll'[l] = IsTeacherOrAdmin(identifier[l])
    BY <1>3, <2>1 DEF Show, GotoHandler, CurrentUser, AccessTypeOK
  <2> QED
    BY <1>0, <1>3, <2>2, HandlerReads, SendersAssumption
    DEF SeesThemesAndTests, IsTeacherOrAdmin, HasRole
<1>4. ASSUME NEW r \in TeachersView, Show(l, r)
      PROVE  SeesThemesAndTests(l)'
  BY <1>0, <1>3, <1>4, HandlerReads DEF SeesThemesAndTests
<1> QED
  BY <1>1, <1>2, <1>4, RequestMoves DEF Kept, SeesThemesAndTests

\* Whoever was a teacher or an administrator all the time and is still there is
\* shown the disabled themes and the tests of a task.
THEOREM TeacherSeesThemesAndTestsHolds == AccessSpec => []TeacherSeesThemesAndTests
<1> DEFINE Inv == \A l \in Lookups : SeesThemesAndTests(l)
<1>1. AccessInit => Inv
  BY DEF AccessInit, SeesThemesAndTests
<1>2. AccessTypeOK /\ Noted /\ Inv /\ [AccessNext]_allVars => Inv'
  <2>1. CASE UNCHANGED allVars
    BY <2>1 DEF allVars, accessVars, vars, lookupVars, SeesThemesAndTests
  <2> QED BY <2>1, ThemesAndTests
<1>3. Inv => TeacherSeesThemesAndTests
  BY DEF SeesThemesAndTests, TeacherSeesThemesAndTests, TeacherSeesAll, TeachersView,
         ThemeRoutes, TaskRoutes
<1> QED
  BY <1>1, <1>2, <1>3, NotedInit, NotedNext, AccessTypeCorrect, PTL DEF AccessSpec

=============================================================================
