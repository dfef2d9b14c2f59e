# A TLA+ model of the task manager's service layer

The repository is a NestJS application: PostgreSQL through TypeORM, Redis as a
cache and for rate limits, BullMQ for jobs, JWTs and rotating refresh tokens for
sessions. Several instances may run against the same database and the same Redis.
This directory holds TLA+ modules that model its handlers, TLC configurations
that check them on small instances, and TLAPS proofs.

Every handler of the application is an `async` function. Node.js runs the code
between two `await`s alone, and anything may happen at an `await`. So in every
module a *slot* is one handler in flight (over all instances), its `pc` names
the `await` at which it stands, its other fields are the local variables it will
read again, and one action is the code between two `await`s.

## 1. Inventory

| Component | State it keeps | Operations | Talks to | What is hard |
|---|---|---|---|---|
| `AuthService` (`modules/auth/auth.service.ts`) with `RefreshToken` | table `refresh_tokens` (user, family, expiry, revoked, replacedByToken) | login, register, refreshTokens, logout, revokeAllUserTokens, cleanupExpiredTokens, validateUser | users table, Redis, JWT | two refreshes of one token; revocation of a family beside a refresh; save of an entity read earlier; lost responses; rows deleted and saved back |
| `AuthController` | none | routes of the above | `AuthService`, rate limit | – |
| `JwtStrategy`, guards, decorators | none | checks of one request | users table | – |
| `UsersService`, `UsersController` | table `users` (unique email) | create, findOne, update, remove | cascades to `refresh_tokens` | check, then insert; save of an entity read earlier |
| `TasksService` (`modules/tasks/tasks.service.ts`) | table `tasks`; Redis `task:<id>`, `tasks:list:<parameters>`, `task:stats:<user>` | create, findAll, findOne, update, remove, batchUpdate, batchDelete, getStatistics, findByStatus, updateStatus | PostgreSQL transactions, Redis, BullMQ | cache filled late; invalidation that misses; cached objects that are not entities; a queue that is not part of the transaction; lost updates |
| `TasksController`, `OwnershipGuard`, `RolesGuard` | none | routes and their checks | `TasksService` | check, then act |
| `TaskProcessorService` (worker) | BullMQ: waiting, running and delayed jobs | process, handleStatusUpdate | `TasksService.updateStatus` | jobs ahead of their commit, retries after a backoff, out of order |
| `OverdueTasksService` | none (a stub that reads and logs) | hourly cron | `tasks` | – |
| `RedisCacheService` | keys of Redis with a TTL | set, get, delete, deletePattern, clear, increment, setIfNotExists | Redis | swallowed errors |
| `RedisRateLimitGuard` | a sorted set per endpoint and client, with a TTL | canActivate, checkRateLimit (Lua) | Redis | clocks of several instances, scripts out of order, Redis down, the boundary of the limit |
| `PaginationUtil` | none | validateParams, applyPagination, paginate | query builders | boundaries |
| health checks, exception filter, logging, correlation ids, pipes | none | – | – | – |
| `main.ts`, `app.module.ts`, `config/` | the pool of database connections (20, 5 s to get one) | start and stop | – | a handler that holds one connection and waits for a second |
| migrations, seeds | – | scripts | – | – |

What makes each stateful component correct:

* **Sessions.** A spent token is never accepted again; a family belongs to one
  user and stays dead once it is dead; a session ends only for a reason; a token
  buys one successor; detected reuse kills the family.
* **Tasks.** A stale cache entry is about to be deleted; a transaction that did
  not commit leaves no row and no cached one (its job stays in the queue and finds
  no task); a request changes only what it was asked to change; deleted tasks stay
  deleted; requests are answered, jobs end.
* **Rate limit.** No window has more requests than the limit; no request is
  forgotten before it has left the window; every request is decided, with or
  without Redis.
* **Accounts.** The password last set opens the account, an update undoes nothing
  that it has seen, a removed user stays removed.
* **Connections.** A connection comes back to the pool on every path of a handler
  that has started its transaction, and nobody waits for ever for one. (A rejected
  START TRANSACTION keeps its connection: `connect` and `startTransaction` stand
  before the `try` whose `finally` releases it.)
* **Listing.** The pages of one state of the table are its list, for every limit
  a client may send; changes during a walk do the least harm they can.

The hazards, each with its line and the properties that cover it, are the list
`hazards` of `PROJECT.json`.

## 2. Modules

| Module | Models | State it follows |
|---|---|---|
| `Rotation` | abstract specification of refresh-token rotation | issued tokens, the family of each live token, claims |
| `RefreshTokens` | `AuthService` with `refresh_tokens` and the cascade from `users` | `row`, `users`, `now`, `req` (slots), `minted`; histories `parent`, `held`, `loggedOut` |
| `RefreshTokensProofs` | proofs about `RefreshTokens` | – |
| `RotationProofs` | its refinement of `Rotation`, its links, the end of its sessions; extends `RefreshTokensProofs` | – |
| `SerialRefreshProofs` | what holds of it with one request at a time; extends `RotationProofs` | – |
| `RateLimit` | `RedisRateLimitGuard` for one key, its Lua script, TTL, outages | `zset`, `expireAt`, `now`, `up`, `req`; histories `recorded`, `overtaken` |
| `RateLimitAdmission` | `RateLimit` and the requests let through | `admitted` |
| `RateLimitProofs` | proofs about `RateLimit` | – |
| `Accounts` | `UsersService` and the account part of `register` | `row`, `used`, `slot`; histories `told`, `mixed`, `missed` |
| `AccountsProofs` | proofs about `Accounts` | – |
| `ConnectionPool` | the pool of database connections as the handlers of `TasksService` use it | `lent`, `queue`, `op`, `pc` |
| `ConnectionPoolProofs` | proofs about `ConnectionPool` | – |
| `Pagination` | `PaginationUtil`, as operators | none |
| `TaskListing` | `findAll` page by page, over `Pagination`, with the cached pages | `cache`, `limit`, `request`, `walk`; history `tables` |
| `TaskListingProofs` | proofs about `TaskListing` and `Pagination` | – |
| `TaskStore` | abstract specification of the table of tasks: births, writes, deletes, and returns from a copy | `row`, `life`, `copied` |
| `TasksService` | `TasksService`, `RedisCacheService` under it, `OwnershipGuard` before it, BullMQ and the worker | `row`, the three caches, `waiting`, `delayed`, `slot` |
| `TaskCoherence` | when a cache key of `TasksService` may be stale | – |
| `TaskCoherenceProofs` | proofs about `TasksService` and `TaskCoherence`, and the refinement of `TaskStore` | – |
| `MC...` | instances for TLC: symmetry sets, clock skews, owners | – |

Definitions whose name has an underscore (`KeysOf_ForgetsTask`,
`RevokeOld_StaysValid`, ...) are faulty variants of the definition before the
underscore. The specifications never use them; with one put in the place of the
right definition, a property must fail, which shows that the property can.

### RefreshTokens

A row is keyed by the token whose hash it stores. Families are random uuids in
the code; here a family is named after the token that founded it. `LoginFind`
and `RefreshFind` are the handlers up to their first write, `InsertToken` is the
INSERT in `generateTokenPair`, `RevokeOld` the save that revokes the presented
token *after* that, `Answer` the response that reaches a client, `RevokeFamily`
the UPDATE of reuse detection, `LogoutFind`, `LogoutSave` and `Ack` the logout.
`Fail` is any failing database call, process exit or lost response: what is
committed stays. `SaveEntity` is TypeORM's `save`: a SELECT, then an UPDATE of
what differs, or an INSERT if the row is gone. `revokeAllUserTokens` and
`cleanupExpiredTokens` are public operations that nothing in the repository
calls yet; they may run at any moment.

### RateLimit

`CheckRateLimit` reads the clock of the instance (`Date.now()`); `LuaScript` is
the script, which Redis runs alone; `RedisError` is a call that is rejected: the
`eval`, before its script has run or after it, or the `ttl` of a refused request;
`Resend` is the client sending an `eval` again whose reply was lost, so that the
script runs twice with one timestamp; `Decide` compares the reply with the limit;
`FailOpen` is the catch that lets a request through. The member and the score of
an entry are its timestamp, so the sorted set is a set of timestamps. `Tick` lets
time pass and expires the key.

The script counts what the window of *its own* timestamp holds and drops what is
older. So one that runs after a script with a later timestamp (`overtaken`) may
find entries gone that its window still held, and `RecordedWithinLimit` holds
only until that happens.

### TasksService

* `Create`, `Open` (findOne, update and remove behind `OwnershipGuard`),
  `BatchUpdate`, `BatchDelete` and `Ask` (list and statistics) are the requests;
  `TakeJob` is the worker's.
* `FindCached`, `FindMisses`, `FindQuery`, `FindNothing`, `FindFills` are
  `findOne`, which four handlers share; `Found` is what each does next.
* `SaveSelects`, `SaveWrites`, `WriteConflicts`, `Enqueue`, `Commit`,
  `CommitFails` and `Rollback` are the transaction of create and update;
  `StatusWrites` is the save of `updateStatus`, `Remove` the one of remove. A
  row written and not committed is `Locked`; other writers wait.
* `Invalidate` deletes one key of `slot.owes`; the deletes run in parallel and
  Redis may lose any of them (`Faults`).
* `RunBatch` is the one statement of a batch with its commit, `BatchFails` the
  rollback. A batch deletes the keys of its tasks first and then those of the
  user; an administrator's batch has no user and deletes no list or statistics.
* `FailJob` and `BackoffEnds` are BullMQ's retries.

* `life` is a history: it tells a task whose create was rolled back (`given`)
  from one that was there (`born`), because both leave a job in the queue.

Writes go through entities that were read earlier, so a task may come back after
it was deleted. `TaskStore` says how far that goes: a copy is made of a row, of
another copy, or by the create; only who has one (`Copied`: a handler with an
entity in hand, or `task:<id>` in Redis) can put the task back. Jobs name a task
and carry no copy. So a task with neither row nor copy is gone
(`GoneTasksStayGone`), and `TasksService` implements `TaskStore` under the
mapping of `copied` to `Copied`.

Conversions are modelled by what they do: list keys are base64 and the pattern
with a user's UUID matches none of them (`ListKeysMatching`); an object out of
the cache has lost its class, which `manager.save` refuses (`Found`).

### Accounts

`Register` is `AuthService.register` up to its first refresh token (which is the
one of a login, in `RefreshTokens`); `CheckEmail` is its `findByEmail`, `Insert`
the INSERT of `UsersService.create`, refused by the unique index
(`InsertConflicts`). `Create` is `POST /users`, which does not check first.
`FindOne`, `Select` and `Write` are `update`: findOne, then hash, merge and the
SELECT of `save`, then its UPDATE, or an INSERT when the SELECT found the row gone
(`Saved`). `FindToRemove` and `Delete` are `remove`; `DeleteFails` is a user who
still has tasks (the entity `Task` declares no `onDelete`). A field that an update
does not give is `None`; one given as null is `Null`: it passes the validation of
`PartialType`, `merge` writes it, and the save fails at NOT NULL (`WriteFails`).
`used` holds the ids that were generated; `told` the password last set, `mixed`
the users of whom two updates have overlapped, `missed` the columns that changed
between an update's findOne and the SELECT of its save.

The properties say how far the code goes without transactions. Two updates of one
user that overlap may revert each other's columns, the password included, so
`PasswordSetOpensTheAccount` speaks of users that are not `mixed`. An update that
read a user before its removal brings it back, so `RemovalIsFinal` speaks of users
that no update has read. `UndoesOnlyWhatItMissed` speaks of these overlaps
themselves: what an update undoes, of a column or of a removal, happened between
its two reads; what came before or after them stays. It rests on `save` writing
only the columns that differ from what its own SELECT finds. That an address
belongs to one user is the unique index (`EmailFree`) and no property.

### ConnectionPool

A lease is a connection lent, or asked for, by a query runner or for one query.
`Lend` and `TimeOut` are the pool: first come first served, and a request that
has waited for `connectionTimeoutMillis` is rejected. `Connect`,
`StartTransaction`, `Fail` and `Release` are the query runner of create,
batchUpdate, batchDelete and update; `CacheHit`, `CacheMiss` and `FindOne` are
the findOne that update calls inside its transaction and that takes a *second*
connection. `Ask`, `QueryEnds` and `Answer` are handlers without a query runner:
the first of three parallel queries that fails answers its request (`answered`),
and the others still go through the pool. `StartTransactionFails` leaves the
runner with its connection, which nobody will release, or, when the connection
broke, the pool with one less (`Lost`). `LeaksOnlyAtTheStart` shows that no other
path leaves a connection, or a place in the queue, that nobody waits for.

When as many updates run as the pool has connections left, all may stand at `find`
with one connection each (`Stuck`). `StuckOnlyByUpdates` shows that nothing else
gets there, and `EveryRequestEnds` that the timeout ends it. Nothing in the code
keeps twenty updates from running at once.

### Pagination and TaskListing

`Pagination` follows `parseInt`, `Math.min`, `Math.max` and `||` with their NaN
and zero. The validation of a missing limit uses the literal 10, `applyPagination`
`DEFAULT_LIMIT`; the model keeps both. `TaskListing` cuts `findAll` at its
queries: with a join and a LIMIT TypeORM asks for the ids of a page, then for the
rows, then for the count. A page stays cached whatever changes (see
`TasksStaleList`), so the pages of a walk may be of different ages; `from` and
`to` of an answer say in which states of the table it was computed. The walker
may start over, so that pages of an earlier walk are there, as they are when
another client reads the list. A new task enters the list at any place, not only
in front: `created_at` is the start of its transaction, and transactions that
overlap commit in any order; and an update may make a task match the filters. The
total is TypeORM's (`Total`): the place where the page ends, or a COUNT when the
page is full, or empty and not the first.

The routes of the controller refuse `page`, `limit` and `sortBy` today (section
3), so the parameters are those a caller of the service may give.

## 3. Runs

*Pass* runs show what the code achieves. *Violation* runs show that it does not
do what a comment of it says; the findings of `PROJECT.json` quote the comment.

| Configuration | Shows |
|---|---|
| `RefreshConcurrent` | two requests interleaved at every await, with failures, expiry, cleanup, revocation and the removal of the user: types, spent tokens stay dead, links name real successors, dead families stay dead, sessions end for a reason, and `RefreshTokens` implements `Rotation` |
| `RefreshSerial` | one request at a time, two users, removal, expiry and cleanup at every await: one-time use, one live token per family, links set, families never mix users, and an accepted refresh ends the life of its token |
| `RefreshOneTimeUse` | *violation*: two overlapping refreshes of one token both succeed |
| `RateLimit` | scripts in any order, clocks that differ by a tick, outages: types, the sorted set respects the limit, an entry is forgotten inside its window only by as much as a clock is ahead, every window respects the limit until a script is overtaken, and every request is decided |
| `RateLimitAdmission` | *violation*: the third request of a window with a limit of two, each at a time of its own, finds the window full; the script returns the limit, and `count <= points` lets it through |
| `TasksRaces` | two clients, administrators among them, and the worker, every service failing: types, no fourth attempt of a job; a `task:<id>` or `task:stats:<user>` becomes stale without a delete to come only when it is filled late, its delete is lost or an administrator's batch does not know the owner; what a rolled back create left in the queue brings no task to life; the table is a `TaskStore`, in which a deleted task comes back from a kept copy only |
| `TasksLiveness` | commits may fail: every request is answered, administrators' batches included, and the queue drains |
| `TasksStaleList` | *violation*: cached lists survive every change |
| `TasksCachedUpdate` | *violation*: reading a task makes its next update fail |
| `ConnectionPool` | three handlers and two connections: only a rejected START TRANSACTION leaks one, only updates can block what is left of the pool, and the timeout lets every request end |
| `Accounts` | three handlers, two users, every table to start from: the password last set opens the account, an update undoes only what happened while it ran, a removed user stays removed |
| `TaskListing` | a walk over up to four tasks, with limits and pages in and out of range, changes of the table and cached pages: a walk of one state is the list, creations hide nothing, removals repeat nothing |

The models show more of the same kind, for which there is no run of its own. Of
some of it the comments of the services do speak:

* "If token was already used, revoke entire family" (`auth.service.ts:160`, and
  188-193): a refresh that has passed its check when reuse is detected adds a live
  token to the family just revoked. `DeadFamilyStaysDead` is the run of this line:
  it holds because it excepts such a refresh, and says that nothing else revives
  the family.
* "Queue operations within transaction scope" (`tasks.service.ts:41`),
  "Transaction wraps DB insert and queue addition" (71), "within transaction
  scope" (94): the job is added while the transaction is open, but is no part of
  it. A create or update that is rolled back leaves its job in the queue
  (`Enqueue`, `CommitFails`). `RolledBackCreateLeavesNothing` says what is left of
  the claim: the job finds no task, and neither a row nor a cached one appears.
* "Cache invalidation on updates" (`tasks.service.ts:45`): `TasksStaleList`
  refutes it for lists. It fails for statistics too, where an administrator's
  batch does not know the owners (`BatchOwes`), and by late fills and lost
  deletes; `StaleStatsAreExplained` and `StaleTaskIsExplained` name these and
  exclude all others.

Of the rest the repository states nothing that a run could refute:

* The worker, to set a status, saves a whole task that it read earlier: it writes
  an older text back, and of a task deleted meanwhile it inserts the row again
  (`StatusWrites`, `Saved`).
* Of two overlapping updates, one may change the status and announce nothing.
* The queries of one statistics answer may see different tables (`StatsQuery`).
* A logout that read its row before a refresh erases the row's `replacedByToken`
  (`SaveEntity`): `ReplacedLinkIsChild` therefore says what a link names where
  there is one, and only `RefreshSerial` says that there is one.
* A rate-limit script that is overtaken may fill a window beyond the limit; of
  requests within one millisecond the set holds one.
* A START TRANSACTION that is rejected takes its connection out of the pool
  (`StartTransactionFails`).
* A registration whose first token cannot be stored leaves its account behind
  (`Insert`).
* `GET /tasks` with `page`, `limit` or `sortBy` is answered 400: the validation
  pipe refuses properties that `TaskFilterDto` does not have. `SETUP_AND_RUN.md`
  and the controller's `ApiQuery` show such requests. Validation is not modelled.

### Bounds

* Two requests in flight (three slots with the worker) are what every race in
  these handlers needs: one reads, the other writes, the first acts on what it
  read.
* `RefreshTokens`: three tokens are a login and two successors, enough for two
  refreshes of one token and for a refresh of a refreshed one. `Lifetime` 1 and
  `MaxTime` 2 reach before, at and after an expiry.
* `RateLimit`: a limit of 2 is the least that a window can fill in two steps. A
  window of 3, delays of 1, clocks that agree with Redis or are a tick ahead, and
  time for two windows; the call of one request is sent again once at most. `Block`
  is 5: the TTL runs from the moment of the script,
  the window from a timestamp up to `MaxDelay` older and skewed, so with a
  shorter block the key may expire while an entry of a delayed request's window
  is in it. The presets of the code have windows of a minute and more, and delays
  and skews far below. Skews are not bounded in the proofs.
* `ConnectionPool`: two connections are the least that one handler can want at
  once; the third handler waits behind, or is the update that blocks. Handlers
  start again when they end, without bound.
* `RateLimitAdmission` has one request at a time, no delay and a `MaxTime` within
  one window, so that the only way to the third admission is the full window.
* `Accounts`: two ids, addresses and passwords make every conflict, and the table
  to start from holds any users, so that `MaxRequests` 3 lets a user be changed
  twice and removed, or met by a late write. Three handlers at once are two updates
  that overlap and a removal.
* `TaskListing`: four tasks on pages of one to three, hence up to five pages (the
  last one empty); two changes during the walks.
* `TasksService`: `MaxRequests` bounds the requests of a behaviour, not those in
  flight; jobs add to them. The application may start on a task and on a job of
  an earlier run (`Backlog`), so that the two writers and the delete that a
  conflict of inserts takes fit into two requests. One task: handlers of
  different tasks meet only in the list and the statistics of a user, which a
  task that comes and goes changes as well. `TasksRaces` has one text, so two
  rows differ in their status; `TasksCachedUpdate` has two.
* Runs with `CHECK_DEADLOCK FALSE` stop when the bound on requests is used up.
  `RefreshTokens`, `RateLimit` and `ConnectionPool` may always take a step.

Symmetry is used for interchangeable slots (and tokens where no definition
chooses one), never in liveness runs.

### Fairness

Weak fairness of every slot: Node.js resumes a handler when what it awaits has
settled, and queries and Redis calls settle (`maxRetriesPerRequest`,
`connectionTimeoutMillis`). A writer that waits for a row lock is enabled again
when the holder ends. For the queue also weak fairness of `TakeJob` and
`BackoffEnds`: BullMQ hands waiting jobs to an idle worker and ends backoffs.
In `ConnectionPool` also of `Lend` (the pool serves a request when it can) and of
`TimeOut` (the timers of the pool fire). Nothing is assumed of arrivals, failures,
expiry or time.

## 4. Proofs

Eight modules prove every safety invariant, every action property and both
refinements that the passing runs check, for every value of the constants. The
assumptions are those of the constants, named in the modules: null values are
none of the values they stand beside (`NoneAssumption`, `NoTokenAssumption`),
numbers are natural, the pool, the set of handlers and the set of tasks are finite
(`TasksAssumption`: counts are numbers), the block of a rate limit is at least its
window, and a walk over a list starts with a page parameter that validates to 1
(`RawAssumption`). Four theorems have a further hypothesis, told below with the
theorem: `OneAtATime`, `~MayFail` and `BlockOutlasts`.

**`RefreshTokensProofs`**, for any number of users, tokens, slots and ticks, with
and without failures:

* `TypeCorrect`: `Spec => []TypeOK`. The types are not inductive alone: `held`
  holds minted tokens because a slot at `answer` does. The invariant is
  `Typed == TypeOK /\ SlotShape`, where `SlotShape` says what a slot holds at
  each await. One lemma per action; `MoveSlot` covers the actions that move one
  slot.
* `SpentTokenTheorem`: `Spec => []SpentTokenIsDead`. A token dies before its
  successor is handed out, and a stale entity saved later must not revive it: the
  invariant `SpentInv` adds that the slots between the save and the answer
  (`Retiring`) find the token dead.
* `DeadFamilyTheorem`: `Spec => DeadFamilyStaysDead`, from two lemmas: only
  an insert makes a token live, and only a find of a live token of the family
  leads to an insert into it.
* `FamilyTheorem`: `Spec => []FamilyHasOneUser`. Rows are deleted and saved back
  from entities, so `FamilyInv` speaks of what rows *and* entities in flight say
  of a family: they agree on its user, and only of families that were minted.
  Apart from an insert, no step says anything new (`RowsSayNothingNew`,
  `SnapsSayNothingNew`).

**`RotationProofs`**, on the same footing. Its first part says what each action
does to its slot and to the table (`LoginEffect` ... `TableEffect`); the rest cites
these lemmas instead of the actions.

* `RotationTheorem`: `Spec => ImplementsRotation`. An insert is the `Open` of a
  family or the `Exchange` of a claim (`InsertStep`); a step that takes a claim or
  drops it writes no row (`ClaimStep`); all other steps can only take rows out of
  the live ones, which is `Retire` (`RetireStep`).
* `LinkTheorem`: `Spec => []ReplacedLinkIsChild`. A logout may save back a row
  from an entity that another refresh has made old, so `LinkInv` speaks of rows
  and entities: all that say something of a token agree on its family and user,
  a child has those of its parent, and a link names a child of its own row.
* `SessionTheorem`: `Spec => SessionEndsForAReason`, step by step from the
  effects: every step after which a usable token is not usable is in
  `ReasonToEnd`.

**`SerialRefreshProofs`**: what `RefreshSerial` checks. The hypothesis
`OneAtATime` says that there is one slot, so that a request starts when the one
before has ended; expiry, cleanup, revocation and removal still come at every
await. The run `RefreshOneTimeUse` shows that two slots are enough to break it.

* `OneTimeUseTheorem` and `PointsOnTheorem`, under `OneAtATime`: no token buys
  two successors, and the row of an exchanged token names one. `SerialInv` adds
  that a token whose exchange is under way was not exchanged before, and that the
  link is in the row, and in the entity of a logout, before the answer goes out.
* `OneLiveTheorem`, under `OneAtATime` and `~MayFail`: a family has one live
  token when nobody is at work. The second hypothesis is needed: the insert of
  the successor and the save that revokes its parent are not one transaction, and
  a failure between them leaves two live tokens. `LiveInv` names the only
  exception on the way, parent and child between these two writes.

**`RateLimitProofs`**, for any limit, window, skews and number of requests:

* `TypeCorrect`, and `StoredTheorem`: `Spec => []StoredWithinLimit`. The set must
  be known to be finite (`Bounded`) for its cardinality to be a number.
* `EntriesTheorem`: `Spec => EntriesOutliveTheirWindow`. `Readings` bounds the
  timestamp of a waiting script by the clock and the skew it was read with;
  `KeyOutlivesEntries` says that the TTL covers the window of every entry, up to a
  skew, which needs `Block >= Window`.
* `RecordedTheorem`: `BlockOutlasts(D)` implies `Spec => []RecordedWithinLimit`,
  for any `D` that bounds how late, in the clock of Redis, a script runs after its
  timestamp. `BlockOutlasts(D)` says that the key outlives the window by `D` and
  the skew: of the presets, those with a `blockDuration` (`STRICT`
  300 s for a window of 60 s, `AUTH` 600 s for 300 s, `BATCH` 120 s for 60 s) leave
  minutes for it; one without has a TTL equal to its window and is not covered. The
  invariant says why a recorded timestamp may be missing from the sorted set: a
  later one pushed it out of the window, a refused script removed it and left a
  full set of later ones (`FullWithout`), or no script to come can want it
  (`OutOfReach`).

**`ConnectionPoolProofs`**, for any pool and any number of handlers:

* `TypeCorrect`; `LeakTheorem`: `Spec => LeaksOnlyAtTheStart`, step by step: what
  a handler holds or has asked for when it ends it had given back, but for the
  connection of a transaction that did not start. An error path gives back one
  lease, so `LentInv` and `QueueInv` say that a handler has at most one lease
  of its query runner and of findOne (`Single`), that it is either lent or queued,
  and that the runner's is queued only at `connect`. `ShrinkKeeps` and `GrowKeeps`
  cover the steps that drop leases and those that ask for some.
* `StuckTheorem`: `Spec => []StuckOnlyByUpdates`. In a stuck pool, the connections
  that have not leaked map one to one to handlers at `find`, all of which are updates (`OpInv`).

**`AccountsProofs`**, for any number of users, addresses, passwords and requests:

* `TypeCorrect`, with `SlotShape` as above.
* `UndoTheorem`: `Spec => UndoesOnlyWhatItMissed`. `MissInv`: until the SELECT of
  its save, the entity of an update differs from the row, and after it from what
  the SELECT saw, only in columns that it missed or was asked to change; where the
  row is gone, it missed all of them. The write itself changes no other column,
  because it writes what differs from what was seen.
* `RemovalTheorem`: `Spec => RemovalIsFinal`: no step of a handler that has not
  read the user brings its row or id back.
* `PasswordTheorem`: `Spec => []PasswordSetOpensTheAccount`. `PasswordInv` follows
  the password through an update: what it has read, what it will write (`Carries`),
  and that it is alone; `RowsAreUsed` keeps a new id from one that an update still
  has in hand.

**`TaskCoherenceProofs`**, for any tasks, users, clients, workers, requests and
failures:

* `TypeTheorem` and `RolledBackTheorem`: `Spec => []TypeOK` (a job never has three
  failures behind it) and `Spec => []RolledBackCreateLeavesNothing`. The invariant
  `IInv` adds what a slot holds at each await (`Shape`), that a worker holds its
  job until the write (`RunsJob`), that an entity is of a committed task unless
  its handler is creating it (`KnowsTask`), and that an id is being created by one
  handler only (`OneCreator`). `Moved` states what a step does to its slot;
  `OtherSteps` sorts the actions by what they leave alone.
* `StaleTaskTheorem` and `StaleStatsTheorem`: `Spec => StaleTaskIsExplained`,
  `Spec => StaleStatsAreExplained`. A key becomes stale, other than by a late fill
  or a lost delete, only in a step that changes the row and leaves no delete owed
  (`BecomesStale`); the writes owe the delete (`WriteOwes`), the batches too but
  for the owners an administrator's batch does not know (`BatchesOwe`). A create
  owes no `task:<id>`, which is right because nobody can have cached the task.
* `StoreTheorem`: `Spec => ImplementsTaskStore`. `StepCopies` and `CopiesOfWhatIs`
  follow the copies: a handler takes one from the row, from the cache, or has it
  already. With that, `WriteStores` and `RequestStores` map each write to `Bear`,
  `Return` or `Change`, a create to `Give`, and all other steps to a `Change` of
  no row.
* `GoneTheorem`: `Spec => GoneTasksStayGone`, from the steps of the store alone
  (`GoneStays`).

**`TaskListingProofs`**, for any number of tasks and changes and pages of any size:

* `LimitInRange` and `LastPage` are the ranges of `Pagination`: whatever number the
  client sends, or none, a page has 1 to `MaxLimit` rows, and `hasNextPage` is false
  exactly when the pages so far hold all rows.
* `TypeTheorem`, `WalkTheorem`, `CreationsTheorem` and `RemovalsTheorem`:
  `[]TypeOK`, `[]WalkOfOneStateIsTheList`, `[]CreationsHideNothing` and
  `[]RemovalsRepeatNothing`. The invariant relates the history of the table, the
  cached pages, the request under way and the walk. `HistoryInv`: between two
  states with only creations each row moves towards the end, with only removals
  towards the front. `DataInv`: the rows
  of a page stood in its range when it was queried, and all rows of the range are
  in it unless some were removed. `WalkInv`: in a walk without removals, what was
  not collected lies behind the last page (`Reached`), which is what `hasNextPage`
  then tells; pages in the order of their states are `Sorted`, so that a row met
  twice would have moved back.

TLC alone checks liveness (`AcceptedTokenDies`, `EveryRequestIsDecided`,
`EveryRequestEnds`, `QueueDrains`), which like ENABLED is beyond the prover, and
finds the counterexamples of the violation runs (`RefreshOneTimeUse`,
`RateLimitAdmission`, `TasksStaleList`, `TasksCachedUpdate`).

## 5. Not modelled

* Tokens and hashes as strings, JWT signatures, bcrypt, DTO validation, answers,
  logs, health checks, migrations, seeds, correlation ids: formatting, or reads
  without state.
* Requests that a guard turns away: they change nothing but the rate limit.
* Moving a task to another user (`userId` in an update); a user's removal beside
  task handlers; names and roles of users.
* A crash of the worker in mid-job (BullMQ runs such a job again, as a retry
  does), and what the shutdown of `main.ts` does to running handlers.
* Statements that fail other than at the commit, in `TasksService`. In
  `RefreshTokens` and `ConnectionPool` any call may fail, START TRANSACTION
  included.
* `RedisCacheService.clear`, `increment`, `setIfNotExists`; `buildResponse` and
  cursors of `PaginationUtil`; `findByStatus`: nothing calls them.
* A rate limit whose TTL equals its window (default, `MODERATE`, `LENIENT`), beyond
  `StoredWithinLimit` and `EntriesOutliveTheirWindow`, which hold of it.
* Lists in an order with equal keys, and the user that `validateUser` caches.

## 6. Plan

What is left, in this order:

1. `WindowLimit`, an abstract specification of the rate limit, and `Accounts` as
   an atomic table of users, each with the conditions under which the code
   implements it.
2. The user that an update moves a task to (`userId`): statistics and lists of two
   owners.
3. Lemmas that several proofs state on their own (one slot moves, the rest stay)
   in one place.
