# A verification project for ay-go-kit

ay-go-kit is a Go library of building blocks for web services: sessions kept in
Redis by Lua scripts, Redis locks, a sliding-window rate limiter with a log of
refusals, PostgreSQL helpers on GORM, and small utilities. Several processes use
the same Redis and the same PostgreSQL through it, so most of its difficulty is
in what happens *between* two commands. This directory models those parts in
TLA+, checks them with TLC on small instances and proves the most important
properties with TLAPS for every instance.

Contents: [inventory](#inventory), [modules](#modules), [runs](#runs),
[assumptions](#assumptions-and-fairness), [proofs](#proofs),
[findings](#where-code-and-comments-disagree), [plan](#plan).

## Inventory

| Part | State | Operations | What is hard | What makes it correct |
|---|---|---|---|---|
| `auth` store: `lua/token_*.lua` | four key families per project and scene: `user:<u>`, `token_session:<s>`, `access_token:<a>`, `refresh_token:<r>`, each with a TTL | create, refresh, validate, delete | validate renews one key of three, so they expire apart; scripts find old tokens only through two other keys | one working pair per user; a token speaks for its owner; logout revokes everything |
| `auth` service: `service_impl.go`, `redis_repository.go` | none of its own; the ids of the attempt | Create, Refresh, Validate, Delete with a retry loop | two callers with one refresh token; go-redis repeating a script that took effect; retries | no forked session; retired tokens stay retired; logout is complete; every call returns |
| `auth` online status | the reads so far | GetUserOnlineStatus | three reads, not one; errors dropped | a report is true of some moment of the lookup |
| `token` | none | GenerateToken | collisions | ids are not drawn twice |
| `rediscli` locks: `lock.go` | the keys with owner and TTL; what each client believes | Lock, TryLock, Unlock, Extend; batch Lock and Unlock | expiry inside the critical section, late and lost replies, crashes | mutual exclusion, all or nothing, only the owner touches a key, Lock returns |
| `rediscli` client: `client.go` | per process, a map from script to SHA; the scripts Redis holds | ExecuteLuaScript | scripts Redis loses between two commands of a call; goroutines that share the map; lost replies | no error for a stale entry; a script runs once, or an error is returned |
| `ratelimit` limiter: `limiter.go`, `lua.go`, `middleware.go` | a ZSET of admitted requests per key | Allow, Peek, Entries, Reset; fail-open middleware | time read before the script, clocks that differ, retransmission, key expiry | never too many in a window, nobody refused without cause |
| `ratelimit` deny log: `denylog.go`, `lua.go` | per month: a ZSET per key, and a ranking | Record (in a goroutine), Count, Entries, Top, Cleanup | two keys with two TTLs; SCAN and DEL among writers; month ends | the ranking covers the logs it outlives; Cleanup removes what was there |
| `dbx` migrations: `migrate.go` | `schema_migrations`, the schema | RunMigrations | instances that start together, crashes between executing and recording, an ignored error | the table is true; success means complete |
| `dbx` pages: `page.go`, `ginx/page_query.go` | the rows | FindByPage | rows come and go between COUNT and SELECT and between pages | what a walk over all pages may miss or repeat |
| `dbx` filters: `filter.go` | none | ToScopes, 16 operators | wrong shapes, NULL as a value and in lists, empty lists, wildcards and backslashes in a value | an operator and its negation split the rows; a list is its elements; a prefix, a suffix and what contains a text find it |
| `dbx` transactions: `tx.go`, `global.go` | connections; a transaction in a context | Transaction, TxRunner, GetDB | panics, contexts that end, lost commits, transactions inside one another, the pool at its limit | no connection is kept; the result tells what is durable; every call returns |
| `dbx` connection, JSONB | - | Open, SQL logging, encoding | - | - |
| `ginx` binding: `bind.go` | none | SanitizeStrings, SanitizeMap, CleanString, CleanMultilineString | the order of the steps; lines | a bound value is clean, and does not change when bound again |
| `money` | none | rounding, division, minor units, settlement | two roundings and their total, negative amounts, overflow | not a cent made or lost |
| `treex` | none that outlives a call; in it, the map of ids, the children, the roots | BuildTree | orphans, circles, repeated ids, nodes of an old tree | each reachable node in one place |
| `ginx` responses and middleware; `i18n`, `ctxutil`, `timex`, `cryptox`, `logger` | values of one request, tables filled at start | conversions and output | - | - |

How they interact: the `auth` service calls its repository, which calls
`ExecuteLuaScript`; limiter and deny log do the same, and the middleware calls
both, the deny log in a goroutine it does not wait for. The locks and
GetUserOnlineStatus use the go-redis client directly. `ginx.PageQueryDTO`
normalises a request, `dbx.ToScopes` turns it into scopes, `FindByPage` runs
them, on the handle `GetDB` finds in the context. The parts share Redis and
PostgreSQL but no keys and no tables, so each is modelled by itself;
`TokenService` and `TokenOnline` are compositions over `TokenStore`.

## Modules

Each module's header says what it abstracts. In all of them a Lua script is one
atomic step, as Redis runs it; a command and its reply are separate steps, so
that the commands of others and the passing of time fall between them; a lost
reply makes go-redis send the same command again (`Resend`); a failed or
abandoned call is an action of its own (`Fail`, `ReturnInternal`, `Stop`), and
may follow a command that took effect as well as one that did not. Time is
counted in ticks, and a key with TTL 0 is an absent key. Definitions named
`Slip...` are bugs: each stands before the definition it may replace, and
PROJECT.json says which property then fails.

**SessionRegistry** is what `auth` promises with keys, scripts and TTLs left
out: at most one session per user, ids that belong to one user for ever, ends by
logout, displacement or lapse.

**TokenStore** is the store itself. The three strings one call draws belong to
three key families and are named by one id, the name of the draw; a draw that
collides with a live key has that key's name (`Drawn`). The actions `Create`,
`Refresh`, `Validate`, `Delete` are the four scripts, `Tick` is expiry.
`owner` is a history variable. It implements SessionRegistry (`RegistrySpec`)
under the mapping *current session = the user key; on line = the path user key,
session hash, access key is alive*.

**TokenOnline** adds GetUserOnlineStatus: `ReadUser`, `ReadSession`,
`ReadAccess`, one per Redis command, `ReadError` for the errors the code drops,
and any action of the store in between.

**TokenService** adds the callers: `CallCreate` and so on begin a call, `Attempt`
draws ids and runs the script, `Resend` repeats it with the same ids when the reply
is lost, `TimeOut` leaves a copy of it on its way, which `RunLate` runs whenever it
arrives, after the call's return and after other calls too; `Retry` is the loop
around `isConflictError`, `ReturnReply` and `ReturnInternal` end it. `known`
(pairs handed out), `parent` (the token a pair was exchanged for) and `revived`
(known pairs that a late command wrote a second time) are history variables.

**LockService** is what `lock.go` promises with commands, replies and TTLs left out:
the keys a client needs become its own together and only when all are free
(`Grant`), it is inside only while it owns them all (`Enter`), and its keys are
freed together and never under a client that is inside (`Leave`).

**RedisLock** is `lock.go`. A client is a lock instance with the goroutine that
uses it; `Lock`, `TryLock`, `Unlock`, `Extend` send a command, `Arrive` runs it,
`Succeed` and `Refused` read the reply. `lease` is what a careful caller
believes: the TTL, counted from the moment *before* the command was sent.
Nothing in the code measures it; it is what a caller has to respect for the lock
to exclude anybody, and MutualExclusion is stated for it. It implements LockService
(`LockServiceSpec`) under the mapping *owner = the client whose value is stored; inside
= the lease runs*: a command that is sent, lost, refused or repeated is a stutter,
the passing of time a `Leave`.

**RateLimit** is the limiter for one key. A request reads its clock when it is
sent (`Send`) and runs later (`Arrive`); `Ahead` gives each host's clock an
offset. `admitted` and `at` are history variables: who was let in, and when in
real time.

**DenyLog** is Record and Cleanup over several months. SCAN is modelled by its
guarantee: keys that are there from the first call to the last are returned,
others may or may not be (`due`, `Scan`). The logger's `ttl` is chosen in Init, any
number of seconds.

**Migrate** is RunMigrations in several instances with releases of their own.
`Check`, `CheckError`, `Exec`, `Record` are its statements, `Stop` is any
failure, the death of the instance included.

**Paging** is FindByPage with a client that walks to the first empty page while
rows are inserted, with growing ids, and deleted. ORDER BY gives a row its place
(`Place`), OFFSET and LIMIT are the places of a page (`OnPage`); without an order,
PostgreSQL may return any rows in that number (`PageLists`). Integers do not overflow:
pages whose offset passes 2^63, which GORM would then ignore, are left out.

**ScriptCache** is ExecuteLuaScript: `ReadCached`, `ReadLoaded` and `ReadRun` read the
replies to its three commands, `RunCommand` and `RunAgain` run them in Redis,
`LoseScripts` is SCRIPT FLUSH, a restart or a failover. The map is shared by the
goroutines of a process, `loaded` by all. A script that ends in an error of its own
is taken not to have NOSCRIPT in its text, as none of the library's has: client.go:116
would load it and run it again.

**Transactions** is Transaction, TxRunner and GetDB, over the connections of
`database/sql`. `Call` begins a transaction on `GetDB(ctx)` or on the global handle,
`Begin` gets its connection, `Exec` and `ExecFails` are fn's statements, `Rollback`,
`Commit` and `Panic` the three ends of fn, `Cancel` and `AwaitDone` the end of a
context and what `database/sql` does then; a Commit with a context that is over only
returns, and leaves its connection to `AwaitDone`. `frame` is history: what fn was
told, what became durable, what the caller was told. SetGlobal has been called;
before that GetDB returns nil, and Transaction does not work at all.

**Tree** is BuildTree, called with one list after another: `BuildTree` begins a call,
`IndexNode` and `AttachNode` are the bodies of its two loops. It is sequential code,
cut into steps so that an invariant of its loops can be stated and proved.

**Money**, **Text** and **Filter** are the pure functions of `money`, `ginx/bind.go` and
`dbx/filter.go`. Amounts are integers in units of the eighth decimal place; a
character is one of its kinds. A filter is followed to the rows PostgreSQL shows for
it: comparisons are those of SQL, which are neither true nor false beside a NULL, be
it the cell, the value or an element of a list, and `Like` is PostgreSQL's, in which
the value's own `%`, `_` and `\` have their meaning, as filter.go escapes none of
them. **PureCalls** calls those of money and filters with one argument after another.

Tree and these three end with what a caller relies on, stated without the
code's own steps: reachability from the roots, sums and distances, stability under a
second cleaning, complements.

The `...Proof` modules hold the proofs, `TokenStoreProof` those about TokenOnline too
and `SmallPartsProof` those about Paging, ScriptCache, Tree, Money, Filter and
PureCalls; `MC...` modules give the constants their values for TLC.

## Runs

| Run | Bounds | What it shows |
|---|---|---|
| `token_online` | 2 users, 4 draws, access TTL 2, session TTL 3 | `StoreInv` (the key families in step), `OneSessionPerUser`, `TokenSpeaksForOwner`, `LogoutRevokesAll`, `OnlyCurrentRefreshes`; the store implements the registry (`RegistrySpec`); a lookup that says on line was right at some moment (`OnlineReportIsTrue`), one that says off line was right, or the session changed, or a read failed (`OfflineReportIsJustified`) |
| `token_service` | 2 users, 2 callers, 3 draws, 2 attempts, one lost reply per call, one late command at a time | `NoForkedSession`, `InvalidRefreshIsDead`, `LogoutIsComplete`, `RetiredStaysRetired` |
| `token_service_live` | 1 user, 2 callers, 4 draws, 3 attempts, fairness | `EveryCallReturns` |
| `redis_lock` | 1 lock and 2 batches with crossed keys, TTL 2, extensions 0 and 2, one lost reply, crashes, fairness | `LockInv`, `MutualExclusion`, `OnlyOwnerTouches`; the locks implement the service (`LockServiceSpec`); `LockReturns`, `CrashedHolderYields` |
| `redis_lock_extend` | the same with extensions 0 to 2, expected to fail | `ExtendNeverShortens` is violated |
| `rate_limit` | 3 calls against a limit of 2 and a monitor, window 4, lag 1, clocks 0 or 1 ahead, one lost reply, 6 ticks | `WindowInv`, `LimitHolds`, `RefusalIsJustified`, `RetryAfterIsExact` |
| `rate_limit_window` | limit 1, window 3, lag 1, expected to fail | `AtMostLimitPerWindow` is violated |
| `deny_log` | 2 refusals, 2 keys, months of 2 ticks, ttl 0, 2 or 4, lag 2, one lost reply each, 5 ticks | `RankCoversLog`, `CleanupRemovesOld` |
| `migrate` | 2 instances of one release, 1 of the next, 2 failures, fairness | `MigrateInv`, `DoneIsComplete`, `OnceUnlessDisturbed`, `RepeatableCompletes` |
| `transactions` | a request whose fn may panic and a job, transactions 2 deep, 3 connections, fairness | `NoLeak`, `AtomicOutcome`, `EveryTransactionReturns` |
| `transactions_panic` | the same, but it is the job whose fn may panic, expected to fail | `AutoEnds` is violated |
| `small_parts` | one part per behaviour. Pages: up to 5 rows in pages of 2 or 3. Scripts: 3 goroutines in 2 processes, 1 script, one lost reply per call. Trees: lists of up to 3 nodes. Functions: amounts of -2.5 to 2.5 cents, and past the largest int64; filters over lists of up to 3 numbers and NULLs, and texts of up to 2 characters, wildcards and the backslash among them. Binding: texts of up to 4 characters | `InsertsHideNothing`, `RemovalsRepeatNothing`; `NoScriptIsJustified`, `RunsOnceAsReported`; `TreeIsSound`; `AmountsExact`, `FiltersAgree`; `BindingsAreStable` |

Why the bounds are enough to be interesting:

* *Tokens.* Two users and four draws hold a user with two sessions in a row, the
  session of another, and a draw that collides with either. With an access TTL
  below the session TTL the access token expires first, or, validated in time,
  last. In the service runs three draws are a login and two refreshes of it at
  once, or two logins and a refresh. `IdReserve` (the draws left when a call
  begins), `MaxResend` (lost replies per call) and `MaxLate` (late commands at a
  time) are the bounds, with the constraint `AloneWhileLate`: a command is late
  only while one user is in play, one call at most is under way and no reply is
  lost. A late command touches its own user's keys and no others, and it is itself
  a second command beside the call. The live run gives every attempt of every call
  its ids.
* *Locks.* A TTL of 2 has a delay within the lease and one beyond it; three
  clients are a first holder, one that takes the expired key, and one that waits.
  An extension is to the full TTL or below a second. `FewFaults`: replies are lost
  to the DistributedLock only, and the second batch does not crash; the theorems
  have no such bound.
* *Limiter.* The limit is exceeded only by a third admission, and the window is
  longer than lag and skew together, so that `LimitHolds` is not vacuous; six
  ticks let the first member leave the ZSET by the clock that is behind.
* *Deny log.* A ttl of 4 is the shortest that outlasts a month and the lag, 2 one that
  ends within its month: the ranking then expires while records come, and begins anew
  beside older logs. With 0, for a duration below a second, nothing is kept.
* *Migrations.* Two failures are a crash and an ignored error, or two crashes in a
  row; the later release adds a file between two others, and one that may not be
  executed twice.
* *Pages.* Five rows are three pages of which the last is short.
* *Scripts.* Two goroutines on one map are one that removes an entry and one that
  stores it; the third loads the script behind both. A SHA is a function of the
  text, so one script is enough.
* *Transactions.* Three connections are the fewest with which nobody waits for
  ever: two goroutines, each with a transaction inside another. With two,
  `EveryTransactionReturns` is violated, each holding one and waiting for the
  other's.
* *Trees and functions.* Three nodes hold a circle beside a root, a chain, and an id
  given twice, also one after the other call with the same nodes. A cent of ten units
  has a half and values on both sides of it. The theorems have no such bounds. Four
  characters of a bound text are two ends and two that vanish or meet between them;
  nothing in the cleaning depends on more than a neighbour.

Symmetry is used for users, callers, recorders, keys and calls of one kind, in
runs that check no liveness. CHECK_DEADLOCK is off for the limiter, whose clock
stops at `Horizon` with all calls over, and for the migrations, which end.

What the properties do *not* say is as instructive. A refresh whose reply is lost
can end as "token invalid" although it took effect: the old pair is dead
(`InvalidRefreshIsDead`), and so is the user's way to the new one. A copy of
token_create that is late enough runs when all the keys of its pair are gone, and
writes them again: a logout can be undone that way, and the properties of the
service exempt such a pair (`revived`). `LimitHolds` holds for the window less lag
and skew, and no more than that. `InsertsHideNothing` needs a client that goes on
to an empty page: one that stops by Total may miss rows inserted between COUNT and
SELECT. Both page properties exempt a sort that the whitelist dropped.
`CleanupRemovesOld` is about the records: the error of the last DEL is dropped
(denylog.go:201), so the ranking may stay. `RankCoversLog` says nothing of a log
that is older than its ranking, which a short ttl allows: the ranking has begun
anew and may count less than that log holds. `LimitHolds` counts whom the script
admitted, and not the requests the middleware lets through when Redis fails;
`RefusalIsJustified` finds a retransmitted request justly refused by its own first
run. `OfflineReportIsJustified` exempts a failed read, whose error the code drops,
and `OnceUnlessDisturbed` whatever ran beside another instance or after a failure.
`FiltersAgree` says of a text filter with a wildcard in its value that it finds
all it should, not that it finds nothing else, and of one with a backslash
neither. `NoScriptIsJustified` leaves one way to NOSCRIPT, a script lost between
SCRIPT LOAD and EVALSHA. `AtomicOutcome` leaves one error after which the
statements may be durable, a COMMIT without an answer.

## Assumptions and fairness

* Redis loses nothing it acknowledged and evicts nothing; its clock stands still
  while a script runs, so that keys given the same TTL by one script expire in
  one step. A command of `ExecuteLuaScript` runs its script or fails, which is what
  ScriptCache shows of it; only there are scripts lost.
* TTLs are positive (`ExpireAssumption`, `TimeAssumption`). A lock's TTL is at
  least one second, the unit of EX and EXPIRE.
* A token carries the time it was drawn, so a string does not come back when its
  keys are gone; it may collide with a live key. A command whose draw collided is
  not retransmitted in the model, as its reply carries no new information.
* For tokens, a command may run long after its call has returned (`RunLate`). For
  locks, limiter and deny log it runs before its call returns or never, though the
  call may fail after its command ran.
* `uniqueValue` is unique. A client does not lock an instance it holds.
* A limiter key has one `Rate`; a command is under way for at most `Lag`, and no
  clock is ahead by more than `Skew`.
* One Cleanup runs at a time. The ttl of the deny log is any, and the same for all
  loggers of a prefix.
* PostgreSQL runs a migration file without parameters as one simple query, which
  is one transaction unless the file says otherwise.
* A statement that fails aborts its transaction, and PostgreSQL answers COMMIT of an
  aborted one with a rollback, which the driver reports as an error. A panic in fn is
  recovered somewhere above Transaction; otherwise the process is gone.
* shopspring/decimal computes without loss, but for the roundings it is asked for.

Fairness is asked only of what the code's scheduling gives: a goroutine in a call
goes on (go-redis answers every command with a reply or an error, and the loops
have no other wait than a sleep), time passes, and an instance that failed to
start is started again. For transactions: fn returns (weak); a goroutine that waits
for a connection gets one if connections keep coming back, for `database/sql`
hands them out in the order of the requests (strong, `Connect`); the context of a
request is over when its handler is (`EndRequest`), and `database/sql` notices. No
fairness is asked of failures, of new calls or of strong alternatives.

## Proofs

Every theorem is for all values of the constants its module allows: any numbers of
users, callers, keys, rows or files, any TTLs and bounds. All rest on the modules'
ASSUMEs alone, which TLC evaluates in the runs above. An invariant that a run
checks is seldom inductive; what each proof adds to it is said below.

`TokenStoreProof`:

* `StoreConsistent`: `StoreSpec => []StoreInv`. The properties one wants are not
  inductive: that a user has one working pair says nothing of an access key whose
  session is gone, yet a later collision could revive it. `StoreInv` adds how the
  families hang together: the user key and the session hash name each other and
  have equal TTLs, session and refresh hash come and go together, and an access
  key names the session of its own draw, alive or not. The argument goes script
  by script: what a script reaches through the user key is all there is
  (`StoredIsTheSession`), and a draw that passes the EXISTS checks is three new
  strings (`NoConflictIsFresh`).
* `OneSession`, `SpeaksForOwner`, `LogoutRevokes`, `CurrentRefreshes`: from the
  invariant.
* `StoreImplementsRegistry`: `StoreSpec => RegistrySpec`, script by script, with
  the invariant on both sides of the step.
* `OnlineIsTrue`, `OfflineIsJustified`: three reads at three moments. `LookupInv`
  says what the reads so far prove: the id found is the user's own, and his current
  one unless his session moved; an access key live at the third read was live
  when the session was seen, or was written since for the same user, and in
  both cases he was on line then.

`TokenServiceProof`:

* `ServiceImplementsStore`: `ServiceSpec => StoreSpec`, so that what is proved of
  the store holds under the service; `ServiceOneSession` and
  `ServiceImplementsRegistry` draw such conclusions. The store requires a draw to be
  new or its own user's, and a command that is sent again or late carries an old
  one. `ServiceInv` shows it stays its own: a draw on its way is claimed for one
  user (`ClaimInv`), was written for no other, and what a refresh presents has an
  owner for good (`CommandInv`, `PairsOwned`). `ClaimsKept` is the heart of it, one
  lemma per action around it.
* `ServiceTypes`: no call is tried more than maxRetries times.
* `RetiredForGood`, `OneHeir`, `InvalidIsDead`, `LogoutCompletes`: the four
  promises to callers. They turn on one fact, `HeldApart`: the draw of a call
  under way is known to nobody and held by no other call, so a pair that is known
  is written again by a late command only, which `revived` records. Hence a pair
  that is known and not revived can only die (`RetiredStep`). `Exchanged` carries
  that for tokens that bought a session, `Sound` for calls that were told
  "invalid" or have logged out; `SafetyInv` is their conjunction with `ServiceInv`.

`RedisLockProof`:

* `LeaseWithinTTL`: `Spec => []LockInv`. MutualExclusion is about what clients
  believe, the keys are on the other side of the network; `LeaseCovered` relates
  them: a lease, and the lease a positive reply on its way will grant, is no
  longer than the TTL of keys the client owns. `BatchUniform` carries the TTLs
  of a batch's keys through expiry, `OwnedAsAsked` says that nobody owns a key it did
  not ask for. One lemma per action.
* `Exclusive`, `BatchIsAtomic`, `OwnersKeysAreSafe`: from the invariant. `BatchIsAtomic`
  (`AllOrNothing`) has no run of its own, as `LockServiceSpec` implies more.
* `LocksImplementService`: `Spec => LockServiceSpec`. A step of one client alone is an
  `Enter` or a `Leave`, because whoever has a lease *after* the step owns its keys; a
  script is a `Grant`, a `Leave` or nothing; and time is a `Leave` of the clients some
  of whose keys expire, which by `SameFate` are all of their keys.
* `ServiceExcludes`: `LockServiceSpec => []MutualExclusion`, from the service alone: the
  abstract specification is strong enough for what locks are for.

`RateLimitProof`:

* `WindowInvariant`: `Spec => []WindowInv`. It is inductive as the run states it: the
  ZSET has at most Limit members, whoever was admitted less than Window - Lag - Skew
  ago is among them, and its TTL lasts until they are over. What a command purges
  is old by its own clock, which lag and skew keep near the real one.
* `WindowLimit`: whoever was admitted recently is in the ZSET, and the ZSET has at most
  Limit members.
* `RefusalJustified`, `RetryAfterExact`: about the step that refuses; the second
  needs the earliest member of a finite set of them (`Least`).

`DenyLogProof`, for any ttl:

* `RankCovers`: `Ranked` adds that where there is no ranking every log has less to
  live than a new ranking will have; so a log with as much to live as the ranking, or
  more, began with it or under it, and all that was written to it since was ranked. Of
  a ttl that outlasts a month and the lag more is proved, that there are no other logs:
  a Record under way is as old as it says (`Dated`), and the ranking of a month nobody
  cleaned lasts until all its Records are over and expires no later than the logs
  (`Lasting`).
* `CleanupComplete`: `Owed` follows a record that was there when Cleanup began: SCAN
  will return its key, or has, or it is deleted.

`MigrateProof`:

* `TableTrue`, `DoneComplete`: `MigrateInv` is not inductive, as it does not say what an
  instance about to record a file has done. `Positioned` does: it has executed it; and
  one that is done has all of its release recorded.
* `ExecutedOnce`: `Sequential`. As long as nothing failed and no two instances
  overlapped, one is running, and a file that took effect is recorded or the one it is
  about to record.

`TransactionsProof`:

* `NothingLeaks`: `TxInv` says of each connection in use whose transaction it carries
  (`Owned`): one its goroutine is inside of, at a depth where no other connection is
  (`Single`), or one that was left, because fn panicked or the context was over.
* `Atomic`: `Accounted` keeps, depth by depth, that nothing of an open transaction is
  durable and what may be of one that is over; `Owned` adds that PostgreSQL has
  executed just what fn was told.

`SmallPartsProof`:

* `InsertsHide`, `RemovalsRepeat`: `PageInv` relates the walk to the places of the
  rows: what it began with and lies before the page it has come to has been seen, and
  what has been seen lies before it. An insert or a delete moves places by
  one, in one direction; a page that is empty has all rows before it.
* `NoScript`, `RunsAsReported`: `ScriptInv` says of a call where its replies may lead
  (`Answered`), that a script it has loaded is held or was lost since
  (`LoadedOrLost`), and how often it has run (`Counted`).
* `TreesAreSound`: `TreeSpec => []TreeIsSound`, for any list. The invariant says what
  each loop has done so far: after the first, the map leads to the last node of each
  id and no node has children; in the second, the roots and the children lists hold
  the nodes attached so far, in order, each at the parent the map gives it. When both
  loops are over, *child of* is *parent of* turned around, so what is reached from the
  roots is what reaches a root.
* `SettlementIsExact`, `MinorUnitsSurvive`, `DivisionIsNear`, and `AmountsAreExact` from
  them: what `AmountsExact` asks of samples, for every amount, from the bounds of an
  integer quotient. For "down" the two signs are told apart (`DownBySign`).
* `ComplementsSplit`, `ListsAreTheirParts`, `TextsAreFound`, and `FiltersAlwaysAgree`
  from them: `FiltersAgree` for every value and cell, NULL and lists that hold it
  included. `Like` is stated by cuts of the text, not by recursion. What a narrower
  pattern finds the wider one does, with the rest of the text for the `%` that
  "contains" adds; and a value without a wildcard or backslash stands for itself,
  character by character. Nothing is assumed of the characters.

Model-checked only:

* liveness, as fairness and ENABLED are out of the prover's reach:
  `EveryCallReturns`, `LockReturns`, `CrashedHolderYields`, `RepeatableCompletes`,
  `EveryTransactionReturns`;
* `BindingsAreStable`: Text is made of folds over sequences, and what a fold computes
  for every input takes an induction that the prover cannot instantiate;
* the three properties that are violated.

## Where code and comments disagree

* `Extend` (lock.go:84) sets the TTL to its argument, which shortens a lock that
  has more left, and deletes it for an argument below a second; its comment says
  it extends. Run `redis_lock_extend`.
* `Rate.Limit` is called the most requests in the window (limiter.go:21). As the
  time is read before the script runs, a delayed request counts from before its
  delay and leaves early. Run `rate_limit_window`.
* fn may panic (tx.go:32), and neither Rollback nor Commit is called: the comment says
  "auto commit/rollback". The connection is lost to the pool until the context
  ends, in a background task for ever. Run `transactions_panic`.

Met on the way, without a run of their own: README.md:379 of the repository speaks
of a fallback to EVAL, where client.go loads the script and runs it by its SHA.
RoundDownToCent (money.go:69) is said to cut towards zero and calls RoundFloor,
which differs below zero: -1.234 becomes -1.24. `DownAsSaid`, a part of
`AmountsExact`, says that it does what its comment says of amounts that are not
negative and of whole cents, and gives a cent less than that of every other.
`like`, `starts_with` and `ends_with` (filter.go:31-34) are "contains", "prefix"
and "suffix", but the value is not escaped: `%` and `_` in it are wildcards, which
find more, a backslash takes the next character as it is, and one at the end of
the value takes the `%` that filter.go:107 appends, or makes the pattern invalid.
`FindsTexts` therefore asks for nothing of a value with a backslash, and for
nothing but the text only of one without wildcards. NOT IN an empty list shows no
rows, nor does NOT IN a list that holds NULL. SanitizeStrings (bind.go:40) is to
clean all string fields, and passes over slices and pointers to strings; in a
field of type `any` the tag `multiline` is ignored. A transaction begun inside
another on GetDB(ctx) is refused by GORM, and on the global handle it is
independent of the outer one: it may be durable when the outer one is rolled back.

## Not modelled

Connection set-up, configuration, SQL logging, JSONB, response bodies, headers,
translation tables, time formats, bcrypt, log output: conversions and
input/output of a single call, in which a unit test reaches what there is to go
wrong. Key functions of the middleware, the paging of deny entries, the digits
ParseAmount reads and the operators offered to a form are single expressions. Durations
of zero or less (config.go:37) are outside the assumptions: SETEX fails half way
through token_create then.

## Plan

Order of work: what several processes share comes first (tokens, locks,
limiter), then what restarts (migrations), then the sequential parts.

1. Done: the modules, runs and theorems above.
2. Next in the models: in RedisLock, a run with a batch that repeats a key; in
   RateLimit, two rates for one key, and commands later than their calls there
   and in RedisLock; in TokenStore, durations that are not positive.
3. Proofs: done for every invariant, action property and refinement of the runs but
   `BindingsAreStable`. What is left: Text as a loop over characters, as Tree is one
   over nodes, and an abstract specification of RateLimit with its refinement.
