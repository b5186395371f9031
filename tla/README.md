# HshBack in TLA+

HshBack is the NestJS back end of a school for programming: users log in with
Yandex, teachers keep courses, themes and tasks, and users run code against the
tests of a task. All state is in PostgreSQL, written through Prisma, except a
cache of users in memory and the cookie in the browser. Hardly any handler opens
a transaction, and Node interleaves handlers at every `await`: what can go wrong
is the order of single SQL statements of different requests.

This directory holds a model of every operation that writes and of the guards
before them, the TLC runs that check it on small instances, and TLAPS proofs of
all the safety properties for every value of the constants.

## The system and its parts

| Part | State | Operations | What is hard |
|---|---|---|---|
| Yandex login (`auth.service.ts`) | user, provider, provider_token, token, session | `authYandexUser`: nine calls one after the other | two first logins of one account; users deleted meanwhile; a login that stops half way |
| Refresh | token, cookie | `refreshTokens`: two reads, then an UPDATE by string | several tabs with one cookie; lost answers |
| Logout | token, session, cookie | two reads, two deletes | a refresh changes the string between read and delete |
| check-auth | none | reads the token and verifies it as a JWT | takes the wrong kind of token |
| Users (`user.service.ts`) | user, cache | `findByIdentifier` and its callers, `update`, `delete`, `createUser` | entries of the cache that no write removes |
| Roles and guards (`libs/common`, `auth/guargs`, `role.service.ts`) | role | `JwtAuthGuard`, `RolesGuard`, `isTeacherOrAdmin`: reads only | the user out of the cache, his role out of the table, each at its own time; public routes never see a user |
| Courses, themes | course, theme | create, update, remove | cascades that reach tasks, tests, builds |
| Tasks: editing | task, task_test | create, update (transaction), remove (no transaction) | a reading from before the transaction; overlapping updates; tests named by id alone, of whatever task; DELETEs that lock row by row; deadlocks |
| Tasks: running code | build, solution | `executeTestsForTask`: one promise per test | tasks removed under a run; errors that count as "not passed" |
| Start (`app.module.ts`, `entrypoint.sh`) | provider_type, role | migrations, `onModuleInit`, `listen` | several instances on an empty database; starts that fail half way |
| Logger, validation, helpers, CI | none | | not modelled |

The parts meet in the tables. Login calls `createUser` and needs the rows that
the start inserts; the cascade from user reaches the tables of the logins, where
a provider token stops it; every authenticated request passes
`JwtStrategy.validate`, which reads the cache of users, and the handlers that show
more to teachers ask for the sender's role once more; a removal of a course, theme
or task cascades to builds of runs that are under way.

What makes each part correct:

- logins: a session joins rows of one person, an account has one user;
- refresh tokens: one-time credentials, which a logout ends for good; the cookie
  dies only in the two known ways;
- users: writes do not undo each other, the cache converges, a blocked user is
  refused in the end and not remembered once he has been forgotten;
- rights: nobody does what he has not had the role for since he asked, and a
  teacher is shown everything;
- tasks: updates take effect whole or not at all, and one after the other leave
  only what was sent; updates that lock their task's row and name only its tests do
  not deadlock with each other; removals leave nothing behind and are not undone;
  every request ends;
- runs: the answer agrees with the history and the history stays;
- start: an instance that answers finds its rows, and all instances come up.

## Modules

| Module | Code | Content |
|---|---|---|
| `Requests` | | the requests of a behaviour; `failed`, the ones that stopped half way |
| `AuthStore` | `schema.prisma` | tables of the logins, unique columns, foreign keys, cascades |
| `YandexLogin`, `RefreshTokens`, `Logout`, `UserDeletion` | `auth.service.ts`, `user.service.ts` | one handler each, one action per awaited call |
| `Auth` | `auth.controller.ts` | composes the four with browsers, cookies and lost answers |
| `RefreshCredential` | | what refresh tokens promise; `Auth` implements it |
| `CheckAuth` | `checkAuth` | the handler and the browser's access token |
| `UserCache` | `user.service.ts`, `jwt.strategy.ts` | user table, cache, lookups, PUT, DELETE |
| `Access` | `jwt-auth.guard.ts`, `role.guard.ts`, `role.service.ts`, the controllers' decorators | requests on their way through the guards to a handler; extends `UserCache` |
| `LearningStore` | `schema.prisma` | tables of the learning part, row locks, what a DELETE takes along |
| `Removal` | `ON DELETE CASCADE` in the migration | a DELETE on its way from row to row and down the cascades |
| `Catalog` | `course.service.ts`, `theme.service.ts` | courses and themes |
| `TaskEditing` | `task.service.ts` 20-158 | create, update, remove |
| `TaskExecution` | `task.service.ts` 181-270 | running code against the tests |
| `Learning` | | composes `Catalog`, `TaskEditing`, `TaskExecution` |
| `TaskContents` | | what editing a task promises; `Learning` implements it |
| `RunHistory` | | what running code promises; `Learning` implements it |
| `Bootstrap` | `app.module.ts`, `entrypoint.sh` | the start |
| `AuthTypes`, `AuthAccounts`, `AuthCredentials`, `AuthRefinement`, `UserCacheProof`, `LearningProof`, `ContentsProof`, `BootstrapProof` | | proofs |
| `MC*` | | model values |

### How state and actions correspond to the code

- A variable `xxxPc` says at which awaited call a request is; the action of that
  name does the call and the code up to the next `await`. Other variables are
  the locals that live across an `await`, with their names in the code.
- A table is a function from the requests that may insert a row to rows or
  `Null`. So generated ids are never reused, and the string of a refresh token
  is the request that generated it (`v4()` is taken to be unique).
- A statement is one action. A unique column or foreign key is its guard; when
  it refuses, the statement fails as in the code. The exception are the DELETEs of
  the learning part: they lock one row after the other (`DeleteTest`, `TakeRow`),
  in any order, hold what they have, wait at a row that another request holds, and
  come to the rows of a cascade after the row these hang on.
- A request may stop at any call: a crash, or a rejected statement. What it
  wrote stays, unless it is in the transaction of a task update.
- Columns that no property depends on are left out (names, texts, limits,
  `displayName`, dates other than "expired"). The rows of "role" never change, so
  the id of a role is named by the role; the logins, which ask for no right, leave
  `roleId` out.
- Definitions whose comment describes a mistake (`UpdateTokenById`, `Upsert`,
  `RollBackLeaks`, ...) belong to no specification. They are variants of the
  definition that follows them, which the properties are tested against.

### Assumptions of the model

- A `findUnique` with `include` is one step.
- A statement that reports an error has written nothing (no connection lost
  between COMMIT and its answer). Without this, a solution could be stored whose
  test is counted as not passed.
- Clients send the fields of the DTOs, and ids of tests that some answer has
  told them: of any task, and perhaps gone by now. (An id that never existed is
  refused like one that is gone.)
- Of the rows that hang on a deleted task PostgreSQL comes to its tests before its
  builds: triggers fire in the order of their creation.
- `prisma.task.update` without columns of the task sends no UPDATE, so it locks
  nothing. The DTO allows such requests, and `TaskEditing` chooses in every
  request whether it has columns.
- Users who run code cannot be deleted (they have logged in, see DocDelete), so
  a build keeps no user.
- Prisma's `migrate deploy` takes a lock of the database and is one step.

## Runs

| Run | Instance | Shows |
|---|---|---|
| `AuthLogin` | 3 logins, 2 accounts, 2 deletions | `SessionOwner`, `AccountIdentity`, `LoggedInUserStays`, `ProviderlessUser`, `CookieAlive` |
| `AuthTokens` | 2 logins, 2 refreshes, 1 logout of 1 browser, 2 User-Agents | `TypeOK`, `RotationSingleUse`, `LogoutIsFinal`, `CookieAlive`, `SessionlessToken`, `ImplementsCredentials` |
| `UserCache` | 1 user, 1 lookup, 2 PUTs, 1 deletion, all repeated for ever | `TypeOK`, `PutWritesItsFields`, `DeletedStaysDeleted`, `OutStaysOut`, `CacheConverges`, `BlockedIsRefused` |
| `Access` | 2 users, 1 request on 4 routes, 1 PUT of a role, 1 deletion, all repeated for ever | `AccessTypeOK`, `RolesAreFresh`, `TeacherSeesThemesAndTests` |
| `TaskEditing` | 2 tasks, of which one has up to 2 tests; 2 updates, of which one may name a test of the first task, and the other bring a new one; 1 removal | `TypeOK`, `LastUpdateWhole`, `EditsWaitInLine`, `NothingLeftBehind`, `ImplementsContents`, `EditsEnd`, `SerialUpdatesLeaveOnlySent` |
| `TaskExecution` | 1 run, 1 update of a task, removals of theme and course, an update of each | `NothingLeftBehind`, `AnswerMatchesHistory`, `ImplementsRunHistory`, `RemovedStaysRemoved`, `RunsEnd` |
| `Bootstrap` | 3 instances, 3 faults | `TypeOK`, `ListeningIsReady`, `AllListen` |
| `DocLogout` | | **violated**: logout "removes the provider token" |
| `DocDelete` | | **violated**: `delete` "deletes the user" |
| `DocCheckAuth` | | **violated**: check-auth "returns a new access token" |
| `DocTaskTests` | | **violated**: update deletes "the tests that are not in the incoming data", or without tests "all related tests" |
| `DocCourses` | | **violated**: "a teacher or admin gets all courses" |

Why the bounds are enough to be interesting. Three logins of two accounts are two
first logins of one account that race, beside a stranger; the deletions may take
the user of either. In `AuthTokens` the two logins of one browser give its cookie
a predecessor, the two refreshes are a winner and a loser, and the logout falls
between their statements. In `Access` the PUT, sent again and again, takes a role
away and gives it back while the request is between its guards, and the two users
are the sender of a deletion and the one deleted; the four routes are a public
one, two whose handler asks for the role once more, and one that names roles. In
`UserCache` the lookup is one of `validate`, of `findOneUser` or of
`getRoleByUserId`; the PUTs there change the block and the nickname, for a changed
role would be one more field that the cache has wrong. In `TaskEditing` the first
task has two tests, so that two updates, or an update and the removal, can come to
them in opposite orders: deadlocks are reached, of updates that lock no row and of
an update, with columns too, with the removal. With the second task an update can
edit one task and write a test of the other while that is edited or removed. One
run with two tests, one of them new, races in `TaskExecution` with an edit of its
task and the removal of all its ancestors, which reaches task, tests, build and
solutions by cascade; a removal of the task alone is in `TaskEditing`. Requests in
`UserCache` and `Access` start again when they have been answered, so no sequence is
bounded there. `MaxFaults` bounds the crashes of `Bootstrap`, `MaxNew` the new tests
of a request, `Ids` the tests its client may name, `Bodies` what PUTs bring, and
`Routes` the routes taken. What is proved (below) holds without any of these bounds.
Two DELETEs that wait for each other are in the model and in the proofs only: no
instance has two removals that share rows and come to them in different orders.

Deadlock checking is off where a behaviour ends when all requests of the instance
have been served (everywhere but in `UserCache` and `Access`), or all instances
listen.

### Fairness

- `Auth`, `CheckAuth` and `Access` state none: all their properties are about
  safety, and a crash may stop any handler.
- `UserCache`: the steps of accepted requests, and the timer of the cache
  (`set(..., 3600)`, which are milliseconds). Nobody has to send a request.
- `Learning` (`FairSpec`): the next call of an update, a removal or a run; the end
  of a transaction that waits, which PostgreSQL's deadlock detector and Prisma's
  five seconds provide; and the end of one of several DELETEs that wait for each
  other (`Deadlocked`), which the detector provides. A DELETE that waits for a
  transaction gets no such help: it goes on when the transaction has ended. Nothing is assumed of Piston, for
  `axios.post` has no timeout: it may keep silent for ever. `RunsEnd` therefore
  promises an answer only to runs for whose tests Piston answers or refuses.
- `Bootstrap`: a start goes on, and an instance that has ended is started again.
  The latter is up to whoever runs the container.

### Where the code departs from its comments

`PROJECT.json` quotes the lines. In short: logout leaves the provider token; a
user who has logged in can never be deleted, because `provider_token` restricts
it; check-auth verifies a random string as a JWT and always refuses; an update
of a task leaves tests that came after its reading, or, when it has no tests, after
its DELETE began (`task.service.ts:96` and `:118`); the public course list never
sees who asks.

One more comment is refuted without a run, by reading: `auth.service.ts:198` says
of the refresh that it updates the user agent "if this is necessary"
("Обновляем user agent, если это необходимо"), but line 187 has refused every
request whose User-Agent differs from the stored one, so the column is only ever
written over with itself. `Refreshable` and `Rotated` in `RefreshTokens` are these
two lines.

How far an update without tests can fail is stated by two properties that hold:
`LastUpdateWhole` says that it leaves no test when all updates of the task lock its
row, and `SerialUpdatesLeaveOnlySent` that one after the other they never do.

Weaknesses that the model shows and no comment denies:

- A removal of a task that stops after its first statement leaves a task without
  tests.
- An update with columns of its task can wait for a removal of the task and deadlock
  with it, since the removal locks the tests one by one and not the task. The
  database then ends one of the two: the update leaves no trace, the removal may
  stop between its statements.
- No statement looks which task a test belongs to: an update may write tests of
  another task, and wait for, or deadlock with, updates of that one.
- A role that `GET user/:id/role` answers may be that of a cached row.
- `totalTests` of the history counts solutions and that of the answer tests, so the
  two differ when a test ended in an error.
- Piston may leave a run open for ever.

## Proofs

All are about the specifications of the runs, for every value of their
constants: any number of logins, refreshes, logouts, deletions, accounts,
browsers and User-Agents in `Auth`; of users, nicknames, requests and routes in
`UserCache` and `Access`; of courses, themes, tasks, tests, updates, removals and
runs in `Learning`; of instances and faults in `Bootstrap`. They assume what the
modules assume by name, which TLC evaluates in the runs:

- that kinds of requests, and of rows, do not share names: `RequestsAssumption`,
  `NamesAssumption`, `ServedAssumption`, `SendersAssumption`, `UserCacheAssumption`;
- that `Null` is none of the values it stands beside: `LearningNullAssumption`,
  `UserCacheAssumption`, `NullAssumption`,
  `BrowserAssumption`, `RowAssumption`, `RunAssumption`, `ContentsNullAssumption`;
- the ranges of parameters: `OwnerAssumption` (every Yandex token has an owner),
  `MaxNewAssumption`, `BootstrapAssumption`, `RoutesAssumption`.

| Module | Theorems about | Argument |
|---|---|---|
| `AuthTypes` | `TypeOK` | One lemma per handler. `TypeOK` also says that a local has been set by the time a call uses it. |
| `AuthAccounts` | `SessionOwner`, `AccountIdentity`, `LoggedInUserStays`, `ProviderlessUser` | None is inductive: they speak of rows, while rows are written from locals of handlers that read other rows long before. `AccountInv` adds what the locals name at every call: a provider carries the id of the user its registration created, a login works with a user of its own account, and, the point of the argument, once a provider token has been found its provider can no longer go, since the foreign key restricts the deletion. |
| `AuthCredentials` | `RotationSingleUse`, `LogoutIsFinal`, `SessionlessToken`, `CookieAlive` | Every step issues one string, rotates one row, revokes one login or keeps all strings (`StepKinds`). `CredentialInv`: rows, cookies and requests carry issued strings, no two rows the same, and a rotated string has left the table. `SessionInv`: the session a logout has found is the one of its token. `CookieInv`: a cookie was delivered to its browser, a refresh that has been answered replaced the cookie it carried, and a string leaves the table only by a rotation or a logout that names it. |
| `AuthRefinement` | `ImplementsCredentials` | Initial states map to initial states of `RefreshCredential` and every step to a step of it or a stutter, by `StepKinds`. |
| `UserCacheProof` | `TypeOK`, `DeletedStaysDeleted`, `PutWritesItsFields`, `OutStaysOut`; `AccessTypeOK`, `RolesAreFresh`, `TeacherSeesThemesAndTests` | Two steps write the table, and neither depends on what its request read before. An entry under an id comes from a lookup by that id and so from a read of the row while it says "blocked" (`LookupForgets`). `Noted`: the roles noted for a sender who is there include his present one, so whatever a guard or handler reads has been noted; `RolesInv` carries this from the guard to the handler. |
| `LearningProof` | `TypeOK`, `NothingLeftBehind`, `AnswerMatchesHistory`, `ImplementsRunHistory`, `HistorySettled`, `RemovedStaysRemoved` | `TableInv`: tests and builds have their task (`ParentsExist`); a build has the solutions its run has stored (`RunsMatch`); no row is written or about to be deleted by two requests (`LocksHeld`), and what a transaction has written is there, or new, and stays with its task (`DraftFits`, `NotYetWritten`), so a DELETE takes nothing that a transaction still builds on. `CatalogHangs`: themes have their course and tasks their theme, for a DELETE ends only when it holds all that hangs on its rows, and new rows wait for it. A step deletes tasks with all that hangs on them (`Cascades`) or leaves them, builds and solutions alone (`RowsStay`), steps of runs aside. So in the history of runs only a `Drop` is seen of all other steps, and each step of a run is one of `RunHistory` or not seen, because a pending test has no solution yet and an answered run has no pending test. |
| `ContentsProof` | `LastUpdateWhole`, `ImplementsContents`, `SerialUpdatesLeaveOnlySent`, `EditsWaitInLine` | `ContentsInv`: a test stays with the task it was sent for, whichever update writes it (`TestFit`); the draft of a transaction is what its request says so far, and it deletes tests of its own task only (`UpdateFit`); the lock of a task is held by an open transaction of it (`LockFit`); the DELETEs of a removal come to its task and what hangs on it (`RemovalFit`). With `LocksHeld` the commit applies the whole request. `WholeInv` adds that an update without tests, while all lock the row, has every test of the task in its DELETE. `SerialInv`: the only update under way has in its reading, and later among what it has come to delete, every test that it was not sent. It rests on an environment that the theorem names, `[]Alone(t)`, and is kept step by step beside it. `EditsWaitInLine` then follows from the state alone: of two careful updates of one task only the holder of its lock is past the first statement, and careful updates of different tasks, or a removal of another task, hold no row in common with them. |
| `BootstrapProof` | `TypeOK`, `ListeningIsReady` | `BootInv`: a start which has come to a key has a row for every key before it, and the unique index keeps each name from having two. |

Only model-checked is liveness: `CacheConverges`, `BlockedIsRefused`,
`EditsEnd`, `RunsEnd` and `AllListen`. It is out of the prover's reach, as are
`ENABLED` and with it fairness. Of `EditsEnd` the part that is about safety is
proved, `EditsWaitInLine`: what is waited for is open, and who can be in a deadlock.
`HistorySettled` (after the answer the history of a run changes only by going) is
proved in `LearningProof` and checked as part of `ImplementsRunHistory`. The five violated statements are counterexamples
of TLC.

## Not modelled

- The access token in `Auth`: a signed JWT without state.
- The OAuth dialogue, which passport does: it yields some Yandex token.
- Reads that serve one answer and change nothing: one course, one theme, the
  themes of a course, the tasks of a theme (`findThemeTasks`). `GET learning/task`
  (`findAllByThemeId`) is bound to a route without `themeId`, so its pipe refuses
  every request. The reads that depend on the role are in `Access`, the history of
  a run is `History` in `TaskExecution`.
- The texts, limits and dates a PUT of a course, theme or task writes: rows carry
  the request that wrote them last.
- `@Throttle`, which `ThrottlerGuard` enforces for `refresh-tokens` only
  (`auth.controller.ts:37`): it may refuse a request, and `RefreshArrives` may
  refuse any.
- Helpers without a caller: `addProviderToken`, `deleteRefreshTokenById`,
  `updateSessionRefreshTokenId`, `convertToSecondsUtil`, `handleTimeoutAndErrors`.
- The tables `group` and `users_group`, which no code uses.
- Logger, validation, response classes, CI, Docker images.

## Plan

1. Authentication: handlers, browsers, abstract specification, proofs. Done.
2. User table and cache, guards and roles; learning part with its abstract
   specification; start. Modelled and checked. Done.
3. Proofs of all safety properties, in the order authentication, users, start,
   learning, access. Done.
4. Proofs of what is relative to other requests: updates in a row, who waits for
   whom, what the cache remembers, and runs as an implementation of `RunHistory`.
   Done.
5. Left: an abstract specification of the cache of users (each answer is a row the
   table has held since the lookup or the entry began), proved like the other three;
   and larger instances where the proofs say nothing, which is liveness: two
   removals beside two updates for `EditsEnd`, two runs for `RunsEnd`.
