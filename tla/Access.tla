------------------------------- MODULE Access -------------------------------
(***************************************************************************)
(* How a request reaches its handler: JwtAuthGuard, RolesGuard where the   *)
(* route names roles, and isTeacherOrAdmin in the handlers that show more  *)
(* to a teacher.  The user comes out of the cache, his role out of the     *)
(* table, each at a time of its own, while PUTs change roles and users are *)
(* deleted.  What a handler does once it has been reached is in Learning.  *)
(***************************************************************************)
EXTENDS UserCache

CONSTANT Routes  \* the routes that requests take

VARIABLES
  route,
  handlerPc,
  seesAll,   \* local "isTeacherOrAdmin"
  hadRole    \* history: the roles the sender has had since the request arrived

accessVars == <<route, handlerPc, seesAll>>
allVars == <<vars, accessVars, hadRole>>

Teaching == {"TEACHER", "ADMIN"}

Public   == [public |-> TRUE,  roles |-> {}]
SignedIn == [public |-> FALSE, roles |-> {}]
Teachers == [public |-> FALSE, roles |-> Teaching]

\* The decorators of the controllers; "edit" is POST, PUT and DELETE.
CourseRoutes == [courses |-> Public, course |-> Public, courseThemes |-> Public,
                 editCourse |-> Teachers]

ThemeRoutes == [themes |-> SignedIn, theme |-> SignedIn, themeTasks |-> SignedIn,
                editTheme |-> Teachers]

TaskRoutes == [task |-> SignedIn, results |-> SignedIn, execute |-> SignedIn,
               editTask |-> Teachers]

Route == DOMAIN CourseRoutes \cup DOMAIN ThemeRoutes \cup DOMAIN TaskRoutes

Rule(r) == IF r \in DOMAIN CourseRoutes THEN CourseRoutes[r]
           ELSE IF r \in DOMAIN ThemeRoutes THEN ThemeRoutes[r]
           ELSE TaskRoutes[r]

\* The routes whose handlers ask for the sender's role once more.
TeachersView == {"courses", "themes", "task"}

ASSUME RoutesAssumption == Routes \subseteq Route

ASSUME SendersAssumption == Lookups \cap Dels = {} /\ Null \notin User

AccessTypeOK ==
  /\ TypeOK
  /\ route \in [Lookups -> Nullable(Route)]
  /\ handlerPc \in [Lookups -> {"idle", "rolesGuard", "handler", "served", "refused"}]
  /\ seesAll \in [Lookups -> BOOLEAN]
  /\ \A l \in Lookups :
       /\ lookupPc[l] # "idle" =>
            caller[l] = "validate" /\ identifier[l] \in User /\ route[l] \in Route
       /\ handlerPc[l] \in {"handler", "served"} => lookupPc[l] = "admitted"

AccessInit ==
  /\ Init
  /\ route = [l \in Lookups |-> Null]
  /\ handlerPc = [l \in Lookups |-> "idle"]
  /\ seesAll = [l \in Lookups |-> FALSE]
  /\ hadRole = [r \in Lookups \cup Dels |-> {}]

-----------------------------------------------------------------------------

GotoHandler(l, pc) ==
  /\ handlerPc' = [handlerPc EXCEPT ![l] = pc]
  /\ UNCHANGED <<vars, route>>

\* JwtAuthGuard: on a public route passport does not run.
RequestArrives(l, u, r) ==
  /\ lookupPc[l] = "idle"
  /\ lookupPc' = [lookupPc EXCEPT ![l] = IF Rule(r).public THEN "admitted" ELSE "get"]
  /\ caller' = [caller EXCEPT ![l] = "validate"]
  /\ identifier' = [identifier EXCEPT ![l] = u]
  /\ route' = [route EXCEPT ![l] = r]
  /\ handlerPc' = [handlerPc EXCEPT ![l] = "rolesGuard"]
  /\ UNCHANGED <<user, cache, found, putVars, delVars, seesAll>>

AfterGuards(r) == IF r \in TeachersView THEN "handler" ELSE "served"

\* The role of the user that validate found, whose row may come from the cache.
RolesGuardCached(l) ==
  LET row == IF cache[identifier[l]] # Null THEN cache[identifier[l]]
                                            ELSE user[identifier[l]]
      required == Rule(route[l]).roles
  IN  /\ lookupPc[l] = "admitted"
      /\ handlerPc[l] = "rolesGuard"
      /\ GotoHandler(l, IF required = {} \/ (row # Null /\ row.roleId \in required)
                          THEN AfterGuards(route[l]) ELSE "refused")
      /\ UNCHANGED seesAll

\* RolesGuard.  An error of the database refuses the request.
RolesGuard(l) ==
  LET required == Rule(route[l]).roles
  IN  /\ lookupPc[l] = "admitted"
      /\ handlerPc[l] = "rolesGuard"
      /\ \/ /\ required = {} \/ HasRole(identifier[l], required)
            /\ GotoHandler(l, AfterGuards(route[l]))
         \/ required # {} /\ GotoHandler(l, "refused")
      /\ UNCHANGED seesAll

\* request.user, which only passport sets
CurrentUser(l) == IF Rule(route[l]).public THEN Null ELSE identifier[l]

\* Administrators are forgotten.
IsTeacher(u) == u # Null /\ HasRole(u, {"TEACHER"})

IsTeacherOrAdmin(u) == u # Null /\ HasRole(u, Teaching)

\* The handler asks for the role and then queries all rows or the enabled ones;
\* it fails when the database reports an error or the row has gone.
Show(l, r) ==
  /\ handlerPc[l] = "handler"
  /\ route[l] = r
  /\ \/ /\ seesAll' = [seesAll EXCEPT ![l] = IsTeacherOrAdmin(CurrentUser(l))]
        /\ GotoHandler(l, "served")
     \/ GotoHandler(l, "refused") /\ UNCHANGED seesAll

FindAllCourses(l) == Show(l, "courses")

FindAllThemes(l) == Show(l, "themes")

\* Here "all" is the task with its tests.
FindOneTask(l) == Show(l, "task")

\* The answer has been sent.
RequestEnds(l) ==
  /\ lookupPc[l] = "refused" \/ handlerPc[l] \in {"served", "refused"}
  /\ lookupPc' = [lookupPc EXCEPT ![l] = "idle"]
  /\ caller' = [caller EXCEPT ![l] = Null]
  /\ identifier' = [identifier EXCEPT ![l] = Null]
  /\ route' = [route EXCEPT ![l] = Null]
  /\ handlerPc' = [handlerPc EXCEPT ![l] = "idle"]
  /\ seesAll' = [seesAll EXCEPT ![l] = FALSE]
  /\ UNCHANGED <<user, cache, found, putVars, delVars>>

-----------------------------------------------------------------------------

Sender(r) == IF r \in Lookups THEN identifier[r] ELSE delSender[r]

RolesOf(u) == {user[v].roleId : v \in {v \in User : v = u /\ user[v] # Null}}

\* What an observer notes of the senders under way.
Observe ==
  hadRole' = [r \in Lookups \cup Dels |->
    IF Sender(r)' = Null THEN {} ELSE hadRole[r] \cup RolesOf(Sender(r))']

UserStep ==
  \/ \E l \in Lookups : Get(l) \/ Read(l) \/ Set(l)
  \/ \E p \in Puts :
       \/ \E u \in User, b \in Bodies : PutArrives(p, u, b)
       \/ PutStep(p)
  \/ \E d \in Dels :
       \/ \E s, u \in User : DelArrives(d, s, u)
       \/ DelStep(d)
  \/ \E i \in Identifier : Expire(i)

RequestStep(l) ==
  \/ \E u \in User, r \in Routes : RequestArrives(l, u, r)
  \/ RolesGuard(l)
  \/ FindAllCourses(l)
  \/ FindAllThemes(l)
  \/ FindOneTask(l)
  \/ RequestEnds(l)

AccessNext ==
  /\ \/ UserStep /\ UNCHANGED accessVars
     \/ \E l \in Lookups : RequestStep(l)
  /\ Observe

AccessSpec == AccessInit /\ [][AccessNext]_allVars

-----------------------------------------------------------------------------

\* A role that was taken away before a request arrived gives it no right any
\* more, though the user himself comes out of the cache: whoever passes
\* RolesGuard, is shown all, or may delete somebody else has had the role since
\* the request was sent.
RolesAreFresh ==
  /\ \A l \in Lookups :
       LET required == Rule(route[l]).roles IN
       /\ handlerPc[l] \in {"handler", "served"} /\ required # {} =>
            hadRole[l] \cap required # {}
       /\ seesAll[l] => hadRole[l] \cap Teaching # {}
  /\ \A d \in Dels :
       delPc[d] \in {"delCache", "delUser"} /\ delSender[d] # deletedUser[d] =>
         "ADMIN" \in hadRole[d]

\* Whoever was a teacher or administrator all the time, and is still there, is
\* shown what others are not.
TeacherSeesAll(routes) ==
  \A l \in Lookups :
    /\ handlerPc[l] = "served"
    /\ route[l] \in routes \cap TeachersView
    /\ user[identifier[l]] # Null
    /\ hadRole[l] \subseteq Teaching
    => seesAll[l]

\* The themes and the tests of a task: "if the user is a teacher or admin".
TeacherSeesThemesAndTests ==
  TeacherSeesAll(DOMAIN ThemeRoutes \cup DOMAIN TaskRoutes)

\* The courses: "if the user is a teacher or admin, we return all courses".
TeacherSeesAllCourses == TeacherSeesAll(DOMAIN CourseRoutes)

=============================================================================
