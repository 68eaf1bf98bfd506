# StockMonitor: a TLA+ verification project

StockMonitor is a self-hosted portfolio tracker: a FastAPI backend over one
SQLite file (`src/backend`), a Go port of it (`src/server-go`) and a Flutter
client (`src/app`). These modules model the parts of it where state, order and
failure matter, check them with TLC and prove theorems about them with TLAPS.

Paths below are relative to `src/`. Definitions are mapped to source lines in
`PROJECT.json`.

## 1. The system

One uvicorn worker runs the backend: an asyncio event loop, so that code
between two `await`s is atomic and everything else interleaves. Each request
has a SQLAlchemy session of its own (`get_db`): what it has not committed is
rolled back when it ends. SQLite (WAL) lets one transaction write at a time; a
statement that cannot get the writer in time raises `OperationalError`.

| Component | State | Operations | Hard parts |
|---|---|---|---|
| Portfolio write handlers, `backend/routers/portfolio.py` | tables `stocks`, `holdings`, `transactions`; one `asyncio.Lock` per account | add, update, batch, remove, import, demo seed, BUY/SELL/DIVIDEND, delete of a transaction | reads several awaits before the commit; Yahoo calls under the lock; UNIQUE races on `stocks.ticker`; errors at each statement |
| Account purge, `delete_user` in `backend/routers/auth.py` | all rows of the account | explicit deletes, delete, commit | takes no account lock |
| Engine and session, `backend/database.py` | the connection mode | plain SQLite: a transaction per request; `DB_KEY`: SQLCipher with `isolation_level=None` | under `DB_KEY` each statement commits by itself |
| Encryption of an existing database, `ensure_db_encryption` | the database file, temporary exports, backups | detect, lock, export, verify, fsync, swap | a kill or a power loss at any step; two migrators; a process that still writes |
| Market data, `services/market_data.py`, with the scheduler's shutdown | tasks in flight, five caches, thread pool | fetch, batch, candles, search, shutdown | single flight, cancelled callers, late answers, fallbacks |
| Alert engine, `services/alerting.py` | throttle times in memory | check rules, send, mark | eviction of throttles, reused row ids, rows that change in a pass |
| Analytics caches, `services/analytics.py` | `_SERIES_CACHE`, `_RISK_CACHE` | build, store, invalidate | fill against invalidation, TTL |
| Settings and Gemini key, `routers/settings.py`, `services/advisor.py` | `user_settings`, `_db_gemini_key_cache` | get or create, save the key, resolve | initialisation race, refill after invalidation, reused account id |
| Watchlist, `backend/routers/watchlist.py` | `watchlist_items` | add, edit, remove | no lock, no UNIQUE |
| Rebalance, `routers/portfolio.py`, `services/analytics.py` | `target_allocations` | create (under the lock), delete (without), compute the plan | the sum stays within 100%; overlapping targets |
| Advice, `routers/advice.py`, `services/advisor.py` | call times per client, `advices` | rate limit, generate, analyse, follow | sessions open across slow calls, several accounts in one run |
| Startup, `init_db`, lifespan of `main.py` | owners, duplicates, indexes | backfills, merge of duplicates, UNIQUE indexes, first rows | a kill between two statements |
| Login and lockout, `backend/routers/auth.py` | `failed_attempts`, `locked_until` | login, admin reset | the password check is awaited between the read and the write |
| Go backend, `server-go` | the same tables, daily cache | the same handlers | no SQL transactions, ignored errors |
| Flutter client, `app/lib/core` | session epoch, token | login, logout, API calls | answers of an earlier session |

How they interact: the portfolio handlers, the analytics and the alert engine
ask the market data for prices; the handlers invalidate the analytics caches
after their commit; the purge deletes rows of every table; settings feed the
advisor its key; the lifespan runs the encryption, then `init_db`, then the
scheduler, and at the end the shutdown of the market data's thread pool.

What makes the components correct, in one line each:

* portfolio: every request takes effect once and in one step, or not at all;
  the ledger explains the positions; nothing refers to a purged account; an
  error leaves no orphan; every request is answered;
* encryption: no committed row is lost, and no empty database is ever created
  over an interrupted migration;
* market data: one fetch per key at a time, no synthetic price where real ones
  are kept, no answer older than promised, no pool after the shutdown, every
  caller answered;
* alerts: at most one message per row and window, and one by the window's end;
* analytics caches: a write is hidden for a bounded time, and only after a race;
* settings: one row per account, a key in memory that is the row's;
* watchlist: one item per title but for concurrent additions;
* rebalance: a sum within 100%, a plan that sells only what is held and
  reaches the targets;
* advice: nothing slow inside a transaction, no answer of an earlier account
  lost, a limiter that refuses exactly what it should;
* startup: quantities and settings survive migrations cut at any statement.

## 2. Plan

| Module | Extends or uses | State of the work |
|---|---|---|
| `Book`, `AtomicPortfolio`, `PortfolioLedger` | `PortfolioLedger` refines `AtomicPortfolio`; both extend `Book` | modelled, checked |
| `SumLemmas` | the community modules' sums | what `SumFunctionOnSet` returns, for every finite set: proved |
| `PortfolioLedgerProofs` | `PortfolioLedger` | types, referential integrity, mutual exclusion, stability of a sale's reads: proved |
| `PortfolioRefinementProofs` | `PortfolioLedgerProofs`, `AtomicPortfolio` (by `PortfolioLedger`), `SumLemmas` | the refinement, no orphan stocks rows, true answers, the ledger explains the positions: proved |
| `DbEncryption` | | modelled, checked |
| `DbEncryptionProofs` | `DbEncryption` | all five invariants: proved |
| `MarketData` | | modelled, checked, with liveness |
| `MarketDataProofs` | `MarketData`, `SumLemmas` | all six invariants: proved |
| `AlertEngine`, `AnalyticsCaches`, `UserSettings`, `Watchlist`, `Rebalance`, `RateLimiter`, `AdviceDesk`, `Startup` | composed by `MCServices` (and `MCStartup`) | modelled, checked |
| `ServicesProofs`, `StartupProofs` | all of these but `Startup`; `Startup`; `SumLemmas` | their properties and types: proved |
| `MCServicesProofs` | `MCServices`, `ServicesProofs`, `StartupProofs` | the composition is a behaviour of each, and its types: proved |

The modules `MC...` give the constants their values and hold nothing of the
code. Every invariant and action property of the runs that pass is a theorem;
what is left to TLC is liveness. Modules that would extend the model: the Go
backend against `AtomicPortfolio`, and the session epoch of the client.

## 3. The portfolio

### Modules

* `Book`: the rows and what a client asks for. A quantity is a number of ticks
  of 0.0001, the precision the code rounds to, so `Dust = 1` is the code's
  `0.0001`. `hold[u][t]` is the row UNIQUE(user_id, stock_id) allows, 0 is "no
  row". A transaction row is named by the request that wrote it.
* `AtomicPortfolio`: what the API promises. One action per operation; each
  applies to the rows as they are at that step.
* `PortfolioLedger`: the handlers. A request `r` has a program counter, and a
  step runs from one await of a database or network call to the next.

| Code | Model |
|---|---|
| tables | `db` (committed), `work` (what the open transaction sees), `writer` (who has it open) |
| `_user_write_locks` | `lock` |
| locals of a handler: found stocks, quantity read by a sale, pending ORM changes | `missing`, `seen`, `plan` |
| objects expired by a rollback inside a handler that goes on | `expired` |
| `get_current_user`, `async with lock` | `Arrive`, `ArriveGone`, `Acquire` |
| SELECT of the stock, `_ensure_stocks` and its retry | `FindStock`, `EnsureStocks`, `CreateStocks`, `StockRace`, `RefetchStocks`, `StockRaceAgain`, `UseExpiredUser` |
| SELECT of the positions and the ORM changes | `Plan...`, `CheckSell`, `RefuseSell`, `HoldingNotFound` |
| guarded UPDATE and dust DELETE of a sale | `Shrink`, `ShrinkMisses`, `DropDust` |
| `delete_transaction` | `LookupRow`, `RowNotFound`, `Unledger`, `PlanRecompute` |
| the flush, in any order of its statements, and its errors | `Flush`, `FlushConflict`, `RetryAdd`, `FlushStale`, `Busy` |
| COMMIT, `db.refresh`, the answer | `Commit`, `Reply`, `RefreshFails` |
| `delete_user` | `PurgeHoldings`, `PurgeLedger`, `PurgeUser`, `PurgeBlocked` |
| kill and restart | `Crash` |

`Autocommit` selects the engine of `DB_KEY`; `Cascade` whether the foreign keys
to `users` cascade (tables created by the models) or not (columns added by
ALTER to an old database).

Left out: prices, fees, average price, notes and dates (no guard of a state
change depends on them); validation that answers 400 or 422 before the lock;
rows with a NULL owner, which only the administrator reaches; the watchlist
rows of the demo seed; the analytics caches, which are invalidated after the
commit (`AnalyticsCaches`). The loop of three attempts in
`add_holding` is `RetryAdd`: a second attempt never succeeds in the model,
because the rollback expires `current_user` (second finding).

### Runs

Requests are finite, so the system may stop: every configuration says
`CHECK_DEADLOCK FALSE`. That nothing stops too early is what `Answered` is for.
Requests, tickers and accounts are symmetric; the liveness run and the
runs that refute a claim use no symmetry.

| Run | Instance | Shows |
|---|---|---|
| `MCTrades` | 1 account, 1 title, 4 requests among BUY 3, SELL 2 or 3, delete of any transaction; 1 crash | `TypeOK`; `LedgerBacked`: a position moved by trades alone equals what the ledger nets to, but for the dust of closing sales; `AnswersAreTrue`; `ImplementsAtomic` |
| `MCWrites` | 3 requests, 2 titles, 1 crash, and one of three scenarios: an account whose trades meet every manual write; two accounts that share new titles; an account purged while its writes of one title run | `ImplementsAtomic` between different handlers, `StocksEnterReferenced` (no stocks row is committed without a row that refers to it, through the UNIQUE race and every error), `NoDanglingRows`, `SaleReadsStable` |
| `MCAnswered` | 2 accounts, purges, fairness, no symmetry | `Answered` |
| `MCCipherPurge` | the `DB_KEY` engine, no cascade | `NoDanglingRows` although each statement commits by itself |
| `MCCipherTrade`, `MCBulkRace` | | the findings below |

`WritesInit` fixes what the requests of a behaviour may ask for; the handlers
are those of `PortfolioLedger`, so the scenarios are instances of `Spec`.

A quantity of 3 against sales of 2 and 3 gives a sale that leaves 1 tick (the
dust rule), one that empties the position, and one that is refused. Four
requests let two sales race with a purchase and an undo; three are enough for
two racing handlers and the purge. One crash is enough because a crash forgets
everything but the committed rows, so a second one starts from a state that
some crash-free behaviour also reaches.

Fairness: `WF_vars(Handle(r))` for each request. The event loop schedules
every ready task, a lock is given to its waiters in order, the Yahoo calls have
timeouts, and a wait for the SQLite writer ends at the busy timeout (`Busy`).
No fairness is assumed of clients (`Arrive`) or of crashes. Since an
`asyncio.Lock` is fair, weak fairness is less than the code gives; it is
enough because requests are finite.

### Findings

1. `MCCipherTrade`, `LedgerBackedAtRest`: with `DB_KEY` set the engine is
   opened with `isolation_level=None` (`backend/database.py:414`), so every
   statement of a flush is committed at once. A crash between the statements
   of a BUY leaves the transaction without the position, or the reverse,
   against "aggiorna atomicamente il portafoglio". For the same reason a SELL
   of an unknown title, refused with 409, leaves its stocks row, against the
   comment at `backend/routers/portfolio.py:900`.
2. `MCBulkRace`, `BulkSurvivesStockRace`: the rollback in `_ensure_stocks`
   expires `current_user`; the next `current_user.id` needs a lazy load that
   an `AsyncSession` cannot do there, so the import answers 500 where the
   docstring promises that the race does not break it.

### Proofs

`PortfolioLedgerProofs` proves, for every number of accounts, titles, requests
and crashes, and for both engines:

* `TypeCorrect`: `Spec => []TypeOK`. The work is in the helpers: `After`,
  `Upsert`, `Recomputed` and `Shrink` only yield quantities that are not
  negative.
* `RowsStayClosed`: `Spec => []NoDanglingRows`. The inductive invariant is
  `ClosedInv`: the open transaction's rows must be closed too, because COMMIT
  publishes them. The argument is that a statement for a purged account either
  breaks a foreign key or finds nothing to change (`AfterClosed`).
* `LockExcludes`: `LockInv` is inductive, and two running handlers of one
  account, neither its purge, are the same. `HandlerMoves` reduces every step
  to four kinds.
* `SalesReadStable`: `Spec => []SaleReadsStable`. Besides `LockInv` it needs
  `WriterInv`: an open transaction differs from the committed rows only in the
  positions of its own account, and not before its handler writes one.

`PortfolioRefinementProofs` is about the engine with one SQL transaction per
request: each theorem assumes `~Autocommit`, because with `DB_KEY` the first
finding refutes it.

* `RefinesAtomic`: `Spec => ImplementsAtomic`. The COMMIT of a request is the
  step of `AtomicPortfolio`, every other step a stutter. `RefInv` carries it:
  for each point of a handler (`TxInv`) it says how the rows its transaction
  sees differ from the committed ones, and that the statements still in its
  plan lead from there to what the request means on the committed rows as they
  are now, or that the account is gone and they cannot all be flushed. The
  account's lock keeps other handlers from changing what the plan was computed
  from; the purge, which takes no lock, is why the second case exists.
* `NoOrphanStocks`: `Spec => StocksEnterReferenced`, and `AnswersTrue`:
  `Spec => []AnswersAreTrue`, both from `RefInv` and what a COMMIT does to the
  rows. `AnswerInv` adds what is known between the COMMIT and the answer.
* `LedgerExplains`: `Spec => []LedgerBacked`, from `RefInv` and `BackedInv`
  (`LedgerBacked`, and that the ledger is finite). The step adds or takes one
  row of a sum over the ledger.

The sums are those of `SumLemmas`: `SumFunctionOnSet` is empty on the empty
set, splits off an element, depends only on the values, is monotone and linear,
and a sum of sums over a family of sets can be taken in the other order.
An induction over finite sets is needed for each; `SubsetInduction` states it
with the property given as a set of subsets, and follows from the least
natural among the sizes of the counterexamples.

Assumptions: those named in `Book` and `PortfolioLedger` on the constants,
which TLC evaluates in the runs. `OpsAssumption`: what is asked for are
operations; `OneTitleAssumption`: only an import and the demo seed name several
titles, as the request schemas say; `DustAssumption`; `NoReqAssumption`; the
rest are types.

Only model-checked: `Answered` (liveness).

## 4. Encryption of the database file

### Module

`DbEncryption` models what happens before the engine is used when `DB_KEY` is
set on an existing installation: `ensure_db_encryption` and
`migrate_plaintext_to_encrypted` step by step, the first connections of
`init_db`, and what can happen around them.

| Code | Model |
|---|---|
| a file | an inode with `file[i]` (what `detect_db_state` would say, its rows, whether an export was synced) and `wal[i]` |
| file names | `dir`: the database, the WAL beside it, exports, backups, backed-up WALs |
| what is not yet synced | `past`: the directories a power loss may leave; `synced` of an export |
| a starting process | `pc[p]`, `key[p]`; `open`, `source`, `export`, `snap` are `lock_fd`, `src`, `tmp_path`, `snapshot_before` |
| `flock` | `flock[i]`: on the inode, so it follows a renamed file |
| `ensure_db_encryption` | `Detect`, `CheckOrphans`, `Converge` |
| `migrate_plaintext_to_encrypted` | `OpenForLock`, `Flock`, `Recheck`, `Snapshot`, `Export`, `Verify`, `Sync`, `SwapOut`, `SwapWal`, `SwapIn`, `Settle` |
| its errors | `ExportFails`, `GiveUp`, `SwapFails`; a removal of the export may fail too |
| `init_db`, the server | `Connect`, `ConnectFails`, `CommitRow` |
| around it | `Kill`, `PowerLoss`, the operator's `Start`, `Restore` (the text of the error), `Archive` |

Assumptions of the model. Renames of one directory last in the order they were
made, and an fsync makes all of them last (a journalling file system). Rows in
`committed` are those SQLite has on disk; nothing is assumed of the disk state
of an export before `_fsync_file`, nor that `sqlcipher_export` copies
faithfully, which is what the verification is for. A server commits to the
file it has open, under whatever name. Processes that are up together all have
`DB_KEY`: that is the discipline under which the migration is safe, and
`OldServers` are the processes that break it. The checkpoint may be kept from
completing by such a server; otherwise it completes. Not modelled: the -shm and
-journal files, permissions, `user_version`, the shape of the schema, two
different keys, new connections of an old server during the swap, and the
rollback to plaintext that the README of the repository describes (it says that
it loses rows).

### Runs

| Run | Instance | Shows |
|---|---|---|
| `MCEncrypt` | 2 processes, 3 files, 2 rows, 4 starts | `MainIsWhole`, `BackupIsWhole`, `OneMigrator` |
| `MCEncryptOld` | an old server and 2 processes with the key, 2 starts, fairness, no symmetry | `NothingDestroyed`, `NoForeignWal`, `StartEnds` |
| `MCEncryptWriter` | an old server | finding 3 |

Four starts let a migration be interrupted, refused, repaired, and run again
while another process waits for the lock; three files are the original and two
exports. Two rows make a difference between the old and the new contents.
Processes end up stopped when the starts are used up, hence
`CHECK_DEADLOCK FALSE`. Fairness: `WF_vars(Starting(p))`, a start is straight
code, and `flock` is granted when it is free; nothing is assumed of kills,
starts, commits or the operator.

### Finding

3. `MCEncryptWriter`, `MainIsWhole`: the migration's `flock` is not a lock
   SQLite looks at. A server that is still up without the key commits between
   the export and the swap; its rows are in the backup and not in the encrypted
   database, against "senza perdita dati ... sotto lock esclusivo (flock,
   single-writer)". `MCEncryptOld` shows that such rows are not destroyed: they
   stay in the backup. The operator is told not to run two instances.

What the other runs say about the design: the search for orphans, the second
look under the lock and the backups are each necessary (their mutants lose
rows or let two migrators run), and together they are enough.

### Proofs

`DbEncryptionProofs` proves, for every number of processes, files, rows and
starts:

* `MigratorsExclude`: `Spec => []OneMigrator`. The lock is on a file, which is
  renamed while it is held, so two processes can hold the locks of two files.
  `EncInv` says why they cannot both pass the second look: whoever opened the
  plaintext to lock it has the file that is plaintext under the name, if one is
  (`Good`); a migrator before the swap holds the lock of that file, and after
  `SwapOut` no plaintext has the name. No plaintext can come back under the
  name while a process with the key runs, which is what `SameKey` is for: a
  start without the key would create one. `StepInv` reduces the steps to what
  they change of the name, the plaintext and the locks.
* `TypeCorrect`: `Spec => []EncryptTypeOK`, which includes that no file has two names.
* `NothingIsDestroyed`: `Spec => []NothingDestroyed`, and `WalOfItsOwn`:
  `Spec => []NoForeignWal`.
* `MainStaysWhole` and `BackupStaysWhole`: `Spec => []MainIsWhole` and
  `Spec => []BackupIsWhole`, where `OldServers` is empty. Finding 3 is why they
  assume it.

The last four rest on `DiskInv`, which rests on `EncInv`. It is stated of the
directory as it is and of every directory in `past`, since a power loss may
choose any: each of them has one of four shapes (`Sound`: no database yet, a
plaintext one, the middle of the swap, an encrypted one), keeps every
committed row in something that has a name (`Kept`), and, without old servers, has all of them in
one place (`Whole`). An export gets into such a directory only after it was
verified and synced. Assumptions: `FilesAssumption`, `NoneAssumption`,
`StartsAssumption`.

Only model-checked: `StartEnds` (liveness).

## 5. Market data

### Module

`MarketData` models what stands between the callers of Yahoo Finance
(requests, scheduler jobs) and the network, and how it ends.

| Code | Model |
|---|---|
| a coroutine that called a fetch function | `call[c]`: the task it waits for, what it read in the caches |
| an asyncio task or a call of one's own | a slot of `task`: new, queued, running, ended (done callback due), over |
| `_INFLIGHT_FETCHES` | `inflight` |
| the five caches, `_cache_put` | `cache`, sequences in order of insertion; `Put` |
| rows of `price_history` | `history`: what the last pass of `fetch_all_prices` added, until time passes |
| `_yf_executor`, threads given up by `wait_for` | `pool`, `zombies` |
| `request_yf_shutdown`, `shutdown_yf_executor`, APScheduler | `phase`, `scheduling` |
| the fetch functions | `FetchCurrentPrice`, `FetchBatchPrices`, `FetchMarketIndices`, `FetchAllPrices`, `FetchStockDeepDive`, `FetchStockCandles`, `ResolveStockInfo`, `SearchTicker`, `CalculatePortfolioHistory`, all over `Call` and `Wait` |
| the shared coroutine, the pool, Yahoo | `Start`, `Run`, `Finish`, `Timeout`, `ZombieEnds` |
| the done callback, the waiters | `Cleanup`, `Resume` |
| cancellation, `asyncio.shield` | `Cancel` |
| shutdown | `RequestShutdown`, `StopScheduler`, `CloseExecutor` |

A datum is real (Yahoo's) or synthetic (the fallback, `stale` in the code);
`since` is how old it really is, whatever its cache says. Time is relative:
`Tick` ages everything, and happens only when the loop has nothing ready to
run, since callbacks take no time beside the TTLs of seconds. A request is
cancelled when its client leaves (Starlette's `BaseHTTPMiddleware` does that),
a job when the scheduler stops; `scheduler.shutdown(wait=False)` of an
`AsyncIOScheduler` is deferred to the loop, hence `StopScheduler` is a step of
its own. Yahoo answers any subset of what it is asked, late or never. Left
out: values, names and currencies, the retries inside one blocking call, the
random walk of the fallback; of a price, only whether it rounds to 0.00, with
which a deep dive is answered but not stored (`Unpriced`). The tag of an entry
says what the stored datum really is, not what the code thinks it is: an entry
of the 60 s caches can be synthetic in the model, and it is the code's guards
(`stale`, `AnyStale`, `Persistable`) that keep it from being so. `FetchAllPrices`
passes the long budget, as its one caller does (`scheduler.py:63`), so that its
batch shares no key with a request's. `CloseExecutor` waits for every caller,
where the code stops waiting after 5 s.

### Run

`MCMarket`: 2 callers, 2 tickers of which each cache holds one, 1 worker
thread, 2 tasks; a behaviour's callers ask from one of seven menus of functions
(`PriceMenus`), which pair those that share state. One cache entry makes every
second ticker evict, one thread makes the pool full as soon as one call is
slow, and two callers are enough to share a task, to cancel one of them, and
to replace a finished task whose callback has not run. About 462 000 states.

| Property | Says |
|---|---|
| `OneFetchPerKey` | two tasks of one key are never alive at once, whatever finished task a new one displaced; of threads it says nothing: that of a task that timed out may still be asking Yahoo |
| `SyntheticIsShortLived` | a made-up datum is out of every answer 10 s after it was made up (and the wait of the call that has it in hand), whichever caches it went through, the indices computed from it included; `price_history` is given real rows only |
| `AnswersRecent` | no answer, and no row of `price_history`, is older than its cache promises plus the wait of its call; the indices, cached over cached prices, twice 60 s |
| `PoolStaysClosed` | no late caller or task makes a new pool after the close |
| `OthersKeepTheirFetch` | a cancelled caller never takes the shared fetch with it |
| `CallersAnswered` | every caller is answered or cancelled (liveness) |

Fairness: weak for `Start`, `Timeout`, `Cleanup` of each task and `Resume` of
each caller, which are ready callbacks of the loop or timers that are due; strong
for `Tick`, because time passes although other callers may make the loop busy
again and again. None for Yahoo (`Finish`), the threads (`Run`, `ZombieEnds`),
callers, or the shutdown: `CallersAnswered` holds with a network that never
answers. After a shutdown the loop is empty, so `CHECK_DEADLOCK FALSE`.

### Proofs

`MarketDataProofs` proves, for every number of callers, titles, tasks and
threads, of a specification (`MarketSpec`) in which anyone calls any function
at any time, where the run's callers keep to a menu:

* `SingleFlight`: `MarketSpec => []OneFetchPerKey`. Alone it is not inductive:
  a new task is kept apart only from the tasks that `inflight` lists under its
  key. `FlightInv` adds that every shared task under way is listed, which
  `Cleanup` could break, since it unlists by task what may have been replaced
  under its key. `NoneNew` covers the steps that start nothing, `SweptTasks`
  those that also free finished tasks.
* `ClosedForGood`: `MarketSpec => []PoolStaysClosed`. It is inductive by
  itself; `PoolNeedsFlag` says why for each step.
* `SharedFetchSurvives`, `SyntheticExpires`, `AnswersStayRecent`: the properties
  `OthersKeepTheirFetch`, `SyntheticIsShortLived`, `AnswersRecent`, from one
  invariant, `MarketInv`. Besides `FlightInv` it has `WaitInv` (the task a
  caller waits for is of the kind it asked for, is not swept away or cancelled
  under it, and what it has in hand is younger than the lifetime of the cache
  plus the time its call has taken), `CacheInv` (what each cache may hold: in those
  of prices, candles and indices only real data, because of the guards where
  they are filled, and how much older than its date), and `RowsOK` (the rows that `history` was
  given). They need each other: what a waiter stores is what it was given, and
  what it is given may come from a cache.
* `MarketBounds`: `MarketSpec => []MarketTypeOK`. `ThreadInv` bounds the threads
  in use, those given up included, by `Workers`.

`PutEach` puts a set of prices one by one, with a fold. That the fold has a
value, and that every cache on the way fits `CacheInv`, is shown by an induction
of its own, as in `SumLemmas`.

Assumption: `MarketAssumption` (the constants are positive numbers, the titles
finitely many, the lifetimes in their order). Only model-checked:
`CallersAnswered` (liveness).

## 6. The services

Eight modules, each with its `Init`, `Next` and properties. They share no
state that their properties speak of, so one run checks them side by side:
`MCServices` takes them all, and `active` says whose steps a behaviour takes
(about 507 000 states). In their names for time a tick is a unit that each
module fixes.

* `AlertEngine` (`check_alerts_job`). `rows` stand for rules, watchlist items
  and holdings; `throttle` for `_last_alert_times`. A pass is `BeginPass`
  (which evicts keys of unseen rows) or `SkipPass`, `Price` or `FailPass`, then
  `Evaluate` per row; between the steps rows come and go, ids are reused,
  titles are switched off, the process restarts. `Throttled`: no second
  message within the window of a row that stays. `AlertedInTime`: a row that
  every pass finds hot is alerted after its window at the latest, even with an
  inherited throttle (a message whose sending fails counts: the code has
  marked it). Ages are counted up to `Longest`, the longest window.
  Bounds: 2 ids over 2 titles, windows of 2 and 3 passes.
* `AnalyticsCaches`. What is kept of a figure is the age of the oldest write
  it misses. `StalenessBounded`: a served series shows every write older than
  its TTL and the wait for prices, the metrics, which may be built from a
  cached series, every write older than both TTLs and the wait. `WritesShowUnlessRaced`: after the answer to a write a cached figure
  hides it only if its computation ran across the invalidation. Both TTLs are
  short and the wait shorter; 2 readers are enough for a series that goes
  into the metrics of another request.
* `UserSettings`. `OneRowPerUser` holds without the UNIQUE index, by the lock
  and the second read under it. `KeyCacheCoherent`: the key in memory is the
  row's, but for two cases the code does not exclude, recorded in `excused`: a
  resolution under way at the invalidation, and an account deleted with its
  key in memory (its id may be given again). It shows that nothing else makes
  the two differ; the two cases are recorded as a hazard that no property
  covers. 3 requests, 2 keys.
* `Watchlist`. `DuplicateNeedsRace`: a title is twice in a list only where two
  additions overlapped, which nothing in the code forbids: of that race itself
  it says nothing. The look and the UPDATE of what it found are two steps, with
  removals between them. 3 requests, ids up to 4.
* `Rebalance`. `TargetsWithinCap` through overlapping creations and deletions
  without the lock; the plan is an operator over the state,
  `OverlapsKeepShares` and `PlanReachesTargets` its properties: where buckets
  share titles and all that meet one buy, that one still reaches its share, and
  where all sell, it comes down to its share, never below nothing; where they
  split the positions, every bucket ends at its share. (Where one buys what
  another sells, the plan promises neither its share.) Positions are
  worth whole hundreds of euros, counted in a unit of which a euro has `Euro`,
  so small that every division of the plan is exact (`ExactAssumption`): with
  the percentages 0, 50, 100 and values up to 200, 6 units to the euro are
  enough. A bucket's difference is then whole euros, so the plan's neglect of
  differences under one euro cannot show. 2 titles, 2 targets of any scope, 2 requests.
* `RateLimiter`. `RefusedExactlyWhenFull`: against the true list of granted
  calls, so pruning changes no answer. 2 clients, 2 calls in 3 ticks.
* `AdviceDesk` (`generate_advice_job`, the routes of `routers/advice.py`), over
  the plain database. `session` is who is in a transaction, `writer` who holds
  SQLite's lock. `WaitsOutsideTransactions`: nobody waits for the news, a
  permit or Gemini inside one, though a query flushes the rows of the previous
  account. `EarlierAdviceSafe`: while one account is asked for, the answers of
  those before it are committed. 2 coroutines, 2 accounts, 1 permit.
* `Startup` (`init_db` and the lifespan), plain and encrypted, killed at any
  statement and started again. `MCStartup` has the databases a first start may
  find: of a single user without an owner, of two accounts with duplicates,
  with and without settings, and a new one. `PositionsKept`: the quantities on
  disk are what each account had and bought. The lifespan looks for the account
  of `ADMIN_USERNAME` and adds one where it is missing, also among others, since
  the setting may change between starts. `ProfilesKept`: an account never
  loses its last settings row.

Used-up ids of the watchlist and desks that are all done leave nothing to do,
hence `CHECK_DEADLOCK FALSE`. These modules state safety only.

### Proofs

Each module's specification is its own `Init` and `Next` (`SettingsSpec`,
`DeskSpec`, `WatchSpec`, `AlertSpec`, `RebalanceSpec`, `LimiterSpec`,
`AnalyticsSpec`, `StartupSpec`), for every value of its constants.

`ServicesProofs` has a section per module:

* settings: `RowIsUnique` (`OneRowPerUser`), from `RowInv`: who is about to
  insert holds the lock and has found no row since. `KeyIsTheRows`
  (`KeyCacheCoherent`), from `KeyInv`, which adds the writes whose invalidation
  is due and the resolutions under way;
* watchlist: `DuplicatesComeFromRaces` (`DuplicateNeedsRace`), from `LookInv`:
  while no two additions have overlapped, at most one is under way and, past
  its look, the title is not in the list;
* alerts: `NoSecondAlert` (`Throttled`), from `QuietInv`: the throttle of a row
  that every pass saw is no older than its last message, so the eviction,
  which only takes keys of unseen rows, never unlocks it early.
  `NoLateAlert` (`AlertedInTime`), from `HotInv`: a hot row's throttle, its own
  or inherited with the id, is at least as old as the row has been hot;
* caches: `ServedIsRecent` (`StalenessBounded`) and `WritesShow`
  (`WritesShowUnlessRaced`), from one invariant, `CacheInv`. What a request
  misses is no older than the request, until it takes a series from the cache
  (`ReaderOK`); what an entry misses is older than its date by at most the
  wait, or the wait and a lifetime of the series (`EntryOK`); and whoever misses
  a write that is no longer being invalidated was under way at an invalidation
  (`RacedOK`);
* advice: `SlowWaitsHoldNothing` (`WaitsOutsideTransactions`), from `RestInv`:
  the points of a slow wait are outside `session`. `EarlierAdviceCommitted`
  (`EarlierAdviceSafe`), from `AnswerInv`: an answer is in its transaction or
  committed when its coroutine moves on. `PermitsSuffice` (`DeskTypeOK`), from
  `PermitInv`: those in Gemini are finitely many, and no more than the permits;
* rebalance: `CapHolds` (`TargetsWithinCap`), from `RoomInv`: who has read the
  sum holds the lock and has room for its percentage, whatever is deleted
  meanwhile. `OverlapsAreServed` (`OverlapsKeepShares`): the order of a
  title covers the leg of each bucket that has it when all legs have one sign
  (`OrdersCoverLegs`), a bucket's legs add up to its difference (`BucketLegs`), and
  the caps add up to no more than its value (`NothingOwed`).
  `PlanIsExact` (`PlanReachesTargets`): a bucket's difference is spread over
  its titles at one rate, never below minus their value, so no order is capped
  (`BucketRate`); where the buckets are disjoint, the order of a title is that of
  the one bucket that has it (`OrderIsLeg`); a bucket's orders add up to its
  difference (`BucketLegs`, `BucketOrders`), all orders to the sum of the differences
  (`SumFamily`, `AllBuckets`), and that to the cash the targets leave
  (`CashSpent`);
* limiter: `LimiterIsExact` (`RefusedExactlyWhenFull`), from `LimiterInv`: the
  stamps kept are the granted calls within the window, in order, so a
  client whose last call is too old has none. Calls are appended and dropped
  at the other end; the inductions over sequences are `SequenceInduction`.

The others have modules of their own:

* `StartupProofs`: `PositionsSurvive` (`PositionsKept`) and `ProfilesSurvive`
  (`ProfilesKept`), for every set of accounts and of databases to start from.
  `StartInv` says of the disk, and of what the transaction under way sees, that
  each account's quantities add up to what it had and bought. Inside the merge
  of duplicates that is not so: first the kept row is given the sum, then the
  others are deleted. `HalfMerged` says what is counted twice there, and that
  the disk and what the SAVEPOINT keeps are still whole. `IndexesHold`
  (`StartupTypeOK`), from `IndexInv`: in a merge the accounts that are done
  have one row besides those yet to be deleted, so the index can be created at
  its end; a backfill that would break an index is refused.
* `MCServicesProofs`: `ServicesApart`, a behaviour of `MCServices` is one of each
  service (a step is one of the active service, the others stutter), so the
  theorems above hold of what the run checks; `ServicesStayTyped`
  (`ServicesTypeOK`), from it and the types of each service (`SettingsTypes`,
  `WatchTypes`, `AlertsStayTyped`, `FiguresStayTyped`, `PermitsSuffice`,
  `TargetsStayTyped`, `IndexesHold`).

Assumptions: those named in the modules (types of the constants; that a UNIQUE
index that a start finds holds; for the caches, that the series lives no longer
than the metrics; for the plan, that the unit of value is fine enough, since the
code computes with fractions and only rounds its answer).

### Finding

4. `MCLegacyRules`, `OrphansAdopted`: the backfill of owners at
   `backend/database.py:698` is one `try`; its comment says that rows without an
   owner go to account 1. When its UPDATE of `user_settings` or `holdings`
   breaks a UNIQUE index (the lifespan itself adds a profile without an owner),
   the later tables are left as they were, at this and every later start.

## Only model-checked

Liveness (`Answered`, `StartEnds`, `CallersAnswered`) is out of the prover's
reach.

## Not modelled

`PROJECT.json` lists every component with its status. Not modelled, and why:

* login and lockout: `failed_attempts` is read before an awaited password check
  and written after it; what that means is a matter of the security of the
  login, which this project does not treat;
* dashboard, stocks and portfolio rows: reads without state of their own, and
  floating-point arithmetic; likewise the metrics (drawdown, volatility,
  Sharpe), of which only the caching is modelled, and the benchmarks;
* prompts, scoring and parsing of advice, and sentiment scoring: functions of
  external text;
* the Telegram bot: replies to commands without state;
* `cleanup_old_data_job`: bounded deletions of old rows that nothing refers to;
* the Go backend: its handlers run statement by statement without SQL
  transactions, so none of these modules describes it; it needs modules of its
  own;
* the Flutter client: presentation, but for the session: its epoch discards
  answers of an earlier one, a late 401 may end a later one
  (`auth_controller.dart:164`).
