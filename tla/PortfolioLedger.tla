-------------------------- MODULE PortfolioLedger --------------------------
(***************************************************************************)
(* The write handlers of backend/routers/portfolio.py (holdings, import,   *)
(* demo seed, trade ledger) and delete_user of backend/routers/auth.py, as *)
(* concurrent requests of one uvicorn worker over SQLite.                  *)
(*                                                                         *)
(* A step of a request runs from one await of a database or network call   *)
(* to the next.  The handlers of one account are serialised by its         *)
(* asyncio.Lock; delete_user takes no lock.  SQLite lets one transaction   *)
(* write at a time and shows its rows to nobody else before its COMMIT; a  *)
(* statement that waits too long for the writer raises OperationalError.   *)
(* Without DB_KEY the driver opens a transaction before the first          *)
(* INSERT, UPDATE or DELETE.  With DB_KEY the connection is opened with    *)
(* isolation_level=None: every statement commits by itself, and COMMIT and *)
(* ROLLBACK do nothing (Autocommit).                                       *)
(***************************************************************************)
EXTENDS Book

CONSTANTS
  Autocommit,  \* the engine of DB_KEY (SQLCipher) instead of the plain one
  Cascade,     \* users' foreign keys delete the rows that refer to them
  MaxCrashes   \* bound: how often the process may be killed

ASSUME EngineAssumption == Autocommit \in BOOLEAN /\ Cascade \in BOOLEAN
ASSUME CrashesAssumption == MaxCrashes \in Nat

VARIABLES
  db,        \* the committed rows
  writer,    \* the request whose SQL transaction is open for writing
  work,      \* the rows as that transaction sees them
  lock,      \* lock[u]: the request that holds the asyncio.Lock of account u
  who, ask,  \* who[r] sends r, ask[r] is what r asks for (fixed)
  pc,        \* where r is in its handler
  missing,   \* the tickers r found no stocks row for
  seen,      \* the quantities a sale read before it decremented them
  plan,      \* the statements r's session flushes when it commits
  expired,   \* r's session was rolled back and its handler went on
  answer,    \* r's HTTP status
  applied,   \* the requests whose COMMIT succeeded
  crashes

dbVars == <<db, writer, work>>
localVars == <<missing, seen, plan, expired>>
vars == <<dbVars, lock, who, ask, pc, localVars, answer, applied, crashes>>

\* Statements of the unit of work: rows gives the tickers they touch.
Statement == [do : {"insert", "update", "delete", "record"}, rows : [Tickers -> Nat]]

Labels == {"idle", "wait", "stock", "ensure", "create", "refetch", "recreate",
           "read", "shrink", "drop", "lookup", "unledger", "recompute", "flush",
           "purgeHoldings", "purgeLedger", "purgeUser", "reply", "done"}

Answers == {"none", "200", "401", "404", "409", "500", "503", "lost"}

TypeOK ==
  /\ db \in BookType /\ work \in BookType
  /\ writer \in Reqs \cup {NoReq}
  /\ lock \in [Users -> Reqs \cup {NoReq}]
  /\ who \in [Reqs -> Users] /\ ask \in [Reqs -> Ops]
  /\ pc \in [Reqs -> Labels]
  /\ missing \in [Reqs -> SUBSET Tickers]
  /\ seen \in [Reqs -> [Tickers -> Nat]]
  /\ plan \in [Reqs -> SUBSET Statement]
  /\ expired \in [Reqs -> BOOLEAN]
  /\ answer \in [Reqs -> Answers]
  /\ applied \in SUBSET Reqs
  /\ crashes \in 0..MaxCrashes

Init ==
  /\ db = EmptyBook
  /\ work = EmptyBook
  /\ writer = NoReq
  /\ lock = [u \in Users |-> NoReq]
  /\ who \in [Reqs -> Users] /\ ask \in [Reqs -> Ops]
  /\ pc = [r \in Reqs |-> "idle"]
  /\ missing = [r \in Reqs |-> {}]
  /\ seen = [r \in Reqs |-> Nothing]
  /\ plan = [r \in Reqs |-> {}]
  /\ expired = [r \in Reqs |-> FALSE]
  /\ answer = [r \in Reqs |-> "none"]
  /\ applied = {}
  /\ crashes = 0

-----------------------------------------------------------------------------
(* The session: what it sees, how it writes, how a request ends.           *)

At(r, label) == pc[r] = label
Go(r, label) == pc' = [pc EXCEPT ![r] = label]
Asks(r, names) == ask[r].name \in names
Wanted(r) == ask[r].rows
Held(r, t) == db.hold[who[r]][t]

View(r) == IF writer = r THEN work ELSE db
Holding(r) == View(r).hold[who[r]]

CanWrite(r) == Autocommit \/ writer \in {NoReq, r}

\* A statement of r turns the rows r sees into b.
Write(r, b) ==
  /\ CanWrite(r)
  /\ IF Autocommit THEN db' = b /\ UNCHANGED <<writer, work>>
                   ELSE writer' = r /\ work' = b /\ UNCHANGED db

Rollback(r) ==
  /\ writer' = IF writer = r THEN NoReq ELSE writer
  /\ work' = IF writer = r THEN EmptyBook ELSE work
  /\ UNCHANGED db

\* Mutant: an error path that leaves without releasing the lock.
FinishHoldingLock(r, status) ==
  /\ Rollback(r)
  /\ Go(r, "done")
  /\ answer' = [answer EXCEPT ![r] = status]
  /\ lock' = [lock EXCEPT ![who[r]] = IF @ = r /\ status = "200" THEN NoReq ELSE @]
  /\ missing' = [missing EXCEPT ![r] = {}]
  /\ seen' = [seen EXCEPT ![r] = Nothing]
  /\ plan' = [plan EXCEPT ![r] = {}]
  /\ UNCHANGED <<who, ask, expired, applied, crashes>>

\* The handler returns or raises: `async with lock` releases the account's
\* lock, get_db rolls back what is not committed.
Finish(r, status) ==
  /\ Rollback(r)
  /\ Go(r, "done")
  /\ answer' = [answer EXCEPT ![r] = status]
  /\ lock' = [lock EXCEPT ![who[r]] = IF @ = r THEN NoReq ELSE @]
  /\ missing' = [missing EXCEPT ![r] = {}]
  /\ seen' = [seen EXCEPT ![r] = Nothing]
  /\ plan' = [plan EXCEPT ![r] = {}]
  /\ UNCHANGED <<who, ask, expired, applied, crashes>>

\* The handler goes on to label; only pc and what the caller names change.
Proceed(r, label) ==
  /\ Go(r, label)
  /\ UNCHANGED <<lock, who, ask, answer, applied, crashes>>

-----------------------------------------------------------------------------
(* Arrival, authentication and the account's lock.                         *)

\* get_current_user loads the account; for delete_user it is the target that
\* db.get loads, and no lock is taken.
Arrive(r) ==
  /\ At(r, "idle")
  /\ who[r] \in db.users
  /\ Proceed(r, IF Asks(r, {"purge"}) THEN "purgeHoldings" ELSE "wait")
  /\ UNCHANGED <<dbVars, localVars>>

ArriveGone(r) ==
  /\ At(r, "idle")
  /\ who[r] \notin db.users
  /\ Finish(r, IF Asks(r, {"purge"}) THEN "404" ELSE "401")

FirstStep(r) ==
  CASE Asks(r, {"buy", "sell", "dividend", "add"}) -> "stock"
    [] Asks(r, {"import", "seed"})                 -> "ensure"
    [] Asks(r, {"undo"})                           -> "lookup"
    [] OTHER                                       -> "read"

\* Mutant: the handler does not wait for the lock.
AcquireUnlocked(r) ==
  /\ At(r, "wait")
  /\ lock' = [lock EXCEPT ![who[r]] = r]
  /\ Go(r, FirstStep(r))
  /\ UNCHANGED <<dbVars, who, ask, localVars, answer, applied, crashes>>

Acquire(r) ==
  /\ At(r, "wait")
  /\ lock[who[r]] = NoReq
  /\ lock' = [lock EXCEPT ![who[r]] = r]
  /\ Go(r, FirstStep(r))
  /\ UNCHANGED <<dbVars, who, ask, localVars, answer, applied, crashes>>

-----------------------------------------------------------------------------
(* Resolving the stocks rows: select, then _ensure_stocks.                 *)

\* The handler's own SELECT by ticker.  When it finds nothing the handler
\* awaits Yahoo (resolve_stock_info) and calls _ensure_stocks.
FindStock(r) ==
  /\ At(r, "stock")
  /\ Proceed(r, IF Scope(Wanted(r)) \subseteq View(r).stocks THEN "read" ELSE "ensure")
  /\ UNCHANGED <<dbVars, localVars>>

\* _fetch and _add_missing, the first time and after a rollback.
FetchStocks(r, from, to) ==
  LET absent == Scope(Wanted(r)) \ View(r).stocks IN
  /\ At(r, from)
  /\ missing' = [missing EXCEPT ![r] = absent]
  /\ Proceed(r, IF absent = {} THEN "read" ELSE to)
  /\ UNCHANGED <<dbVars, seen, plan, expired>>

EnsureStocks(r) == FetchStocks(r, "ensure", "create")
RefetchStocks(r) == FetchStocks(r, "refetch", "recreate")

\* Mutant: the stocks rows are committed as soon as they are created.
CreateStocksCommitted(r) ==
  /\ pc[r] \in {"create", "recreate"}
  /\ missing[r] \cap View(r).stocks = {}
  /\ CanWrite(r)
  /\ db' = [db EXCEPT !.stocks = @ \cup missing[r]]
  /\ missing' = [missing EXCEPT ![r] = {}]
  /\ Proceed(r, "read")
  /\ UNCHANGED <<writer, work, seen, plan, expired>>

\* db.flush(): INSERT INTO stocks.
CreateStocks(r) ==
  /\ pc[r] \in {"create", "recreate"}
  /\ missing[r] \cap View(r).stocks = {}
  /\ Write(r, [View(r) EXCEPT !.stocks = @ \cup missing[r]])
  /\ missing' = [missing EXCEPT ![r] = {}]
  /\ Proceed(r, "read")
  /\ UNCHANGED <<seen, plan, expired>>

\* UNIQUE(stocks.ticker): another session inserted the ticker in between.
\* The rollback expires every loaded object of the session, current_user
\* too; the helper itself goes on.
StockRace(r) ==
  /\ At(r, "create")
  /\ CanWrite(r)
  /\ missing[r] \cap View(r).stocks # {}
  /\ Rollback(r)
  /\ expired' = [expired EXCEPT ![r] = TRUE]
  /\ Proceed(r, "refetch")
  /\ UNCHANGED <<missing, seen, plan>>

\* The second flush is not guarded: its IntegrityError leaves the handler.
StockRaceAgain(r) ==
  /\ At(r, "recreate")
  /\ CanWrite(r)
  /\ missing[r] \cap View(r).stocks # {}
  /\ Finish(r, "500")

\* After a rollback current_user.id must be reloaded, which an AsyncSession
\* cannot do outside an await: MissingGreenlet, not caught.
UseExpiredUser(r) ==
  /\ At(r, "read")
  /\ expired[r]
  /\ Finish(r, "500")

-----------------------------------------------------------------------------
(* Reading the positions and planning what the commit flushes.             *)

Record(r) == {[do |-> "record", rows |-> Wanted(r)]}

Change(what, rows, S) == {[do |-> what, rows |-> Only(rows, {t})] : t \in S}

\* New positions go in one INSERT.
InsertNew(rows, S) ==
  IF S = {} THEN {} ELSE {[do |-> "insert", rows |-> Only(rows, S)]}

\* Insert the positions of new that do not exist, update those that do.
Upsert(h, new, S) ==
  InsertNew(new, {t \in S : h[t] = 0}) \cup Change("update", new, {t \in S : h[t] # 0})

Plan(r, statements) ==
  /\ plan' = [plan EXCEPT ![r] = statements]
  /\ Proceed(r, "flush")
  /\ UNCHANGED <<dbVars, missing, seen, expired>>

Reads(r, names) == At(r, "read") /\ ~expired[r] /\ Asks(r, names)

Merged(h, q) == [t \in Tickers |-> h[t] + q[t]]

PlanBuy(r) ==
  /\ Reads(r, {"buy"})
  /\ Plan(r, Upsert(Holding(r), Merged(Holding(r), Wanted(r)), Scope(Wanted(r))) \cup Record(r))

PlanAdd(r) ==
  /\ Reads(r, {"add"})
  /\ Plan(r, Upsert(Holding(r), Merged(Holding(r), Wanted(r)), Scope(Wanted(r))))

PlanDividend(r) ==
  /\ Reads(r, {"dividend"})
  /\ Plan(r, Record(r))

PlanImport(r) ==
  /\ Reads(r, {"import"})
  /\ Plan(r, Upsert(Holding(r), Wanted(r), Scope(Wanted(r))))

PlanSeed(r) ==
  /\ Reads(r, {"seed"})
  /\ Plan(r, InsertNew(Wanted(r), {t \in Scope(Wanted(r)) : Holding(r)[t] = 0}))

\* update names one holding and answers 404 when it is not there; batch skips
\* the ones that are not.
PlanUpdate(r) ==
  LET there == {t \in Scope(Wanted(r)) : Holding(r)[t] # 0} IN
  /\ Reads(r, {"update", "batch"})
  /\ Asks(r, {"update"}) => there # {}
  /\ Plan(r, Change("update", Wanted(r), there))

PlanRemove(r) ==
  LET there == {t \in Scope(Wanted(r)) : Holding(r)[t] # 0} IN
  /\ Reads(r, {"remove"})
  /\ there # {}
  /\ Plan(r, Change("delete", Wanted(r), there))

HoldingNotFound(r) ==
  /\ Reads(r, {"update", "remove"})
  /\ \A t \in Scope(Wanted(r)) : Holding(r)[t] = 0
  /\ Finish(r, "404")

\* The first check of a sale, on the quantity just read.
CheckSell(r) ==
  /\ Reads(r, {"sell"})
  /\ \A t \in Scope(Wanted(r)) : Holding(r)[t] >= Wanted(r)[t]
  /\ seen' = [seen EXCEPT ![r] = Holding(r)]
  /\ Proceed(r, "shrink")
  /\ UNCHANGED <<dbVars, missing, plan, expired>>

RefuseSell(r) ==
  /\ Reads(r, {"sell"})
  /\ \E t \in Scope(Wanted(r)) : Holding(r)[t] < Wanted(r)[t]
  /\ Finish(r, "409")

-----------------------------------------------------------------------------
(* The statements of a sale and of an undo that run before the commit.     *)

Guarded(r) == \A t \in Scope(Wanted(r)) : Holding(r)[t] >= Wanted(r)[t]

\* UPDATE holdings SET quantity = quantity - q WHERE ... AND quantity >= q.
\* The quantity read before decides whether the row is deleted next.
Shrink(r) ==
  LET left == [t \in Tickers |-> Holding(r)[t] - Wanted(r)[t]]
      dust == \E t \in Scope(Wanted(r)) : seen[r][t] - Wanted(r)[t] <= Dust
  IN  /\ At(r, "shrink")
      /\ Guarded(r)
      /\ Write(r, [View(r) EXCEPT !.hold[who[r]] = left])
      /\ plan' = [plan EXCEPT ![r] = Record(r)]
      /\ seen' = [seen EXCEPT ![r] = Nothing]
      /\ Proceed(r, IF dust THEN "drop" ELSE "flush")
      /\ UNCHANGED <<missing, expired>>

\* rowcount 0: the position changed under the sale.
ShrinkMisses(r) ==
  /\ At(r, "shrink")
  /\ CanWrite(r)
  /\ ~Guarded(r)
  /\ Finish(r, "409")

DropDust(r) ==
  /\ At(r, "drop")
  /\ Write(r, [View(r) EXCEPT !.hold[who[r]] =
                 [t \in Tickers |-> IF t \in Scope(Wanted(r)) THEN 0 ELSE @[t]]])
  /\ Proceed(r, "flush")
  /\ UNCHANGED localVars

\* delete_transaction: the row must be there and be the caller's.
LookupRow(r) ==
  /\ At(r, "lookup")
  /\ RowsOf(View(r), who[r], ask[r].tx) # {}
  /\ Proceed(r, "unledger")
  /\ UNCHANGED <<dbVars, localVars>>

RowNotFound(r) ==
  /\ At(r, "lookup")
  /\ RowsOf(View(r), who[r], ask[r].tx) = {}
  /\ Finish(r, "404")

\* The autoflush of the DELETE by the SELECT of the rows that are left.
Unledger(r) ==
  /\ At(r, "unledger")
  /\ Write(r, [View(r) EXCEPT !.ledger = @ \ RowsOf(View(r), who[r], ask[r].tx)])
  /\ Proceed(r, "recompute")
  /\ UNCHANGED localVars

\* Mutant: the rows that are left are read without the autoflush.
PlanRecomputeStale(r) ==
  LET S     == Scope(ask[ask[r].tx].rows)
      total == [t \in Tickers |-> Recomputed(db, who[r], t)]
      none  == {t \in S : total[t] = 0}
  IN  /\ At(r, "recompute")
      /\ Plan(r, Upsert(Holding(r), total, S \ none)
                 \cup Change("delete", Holding(r), {t \in none : Holding(r)[t] # 0}))

PlanRecompute(r) ==
  LET S     == Scope(ask[ask[r].tx].rows)
      total == [t \in Tickers |-> Recomputed(View(r), who[r], t)]
      none  == {t \in S : total[t] = 0}
  IN  /\ At(r, "recompute")
      /\ Plan(r, Upsert(Holding(r), total, S \ none)
                 \cup Change("delete", Holding(r), {t \in none : Holding(r)[t] # 0}))

-----------------------------------------------------------------------------
(* db.commit(): the flush of the plan, statement by statement, and COMMIT. *)

After(r, s) ==
  LET u == who[r] IN
  CASE s.do \in {"insert", "update"} ->
         [View(r) EXCEPT !.hold[u] = [t \in Tickers |-> IF s.rows[t] # 0 THEN s.rows[t] ELSE @[t]]]
    [] s.do = "delete" ->
         [View(r) EXCEPT !.hold[u] = [t \in Tickers |-> IF s.rows[t] # 0 THEN 0 ELSE @[t]]]
    [] s.do = "record" ->
         [View(r) EXCEPT !.ledger = @ \cup {TradeRow(r, u, ask[r])}]

\* Mutant: foreign keys are not enforced.
BreaksUniqueOnly(r, s) == s.do = "insert" /\ \E t \in Scope(s.rows) : Holding(r)[t] # 0

\* A foreign key to a purged account, or UNIQUE(user_id, stock_id).
BreaksConstraint(r, s) ==
  \/ s.do \in {"insert", "record"} /\ who[r] \notin View(r).users
  \/ s.do = "insert" /\ \E t \in Scope(s.rows) : Holding(r)[t] # 0

\* An UPDATE by primary key that finds no row (StaleDataError).
FindsNoRow(r, s) == s.do = "update" /\ \E t \in Scope(s.rows) : Holding(r)[t] = 0

\* Mutant: a commit for every row.
FlushCommitted(r, s) ==
  /\ At(r, "flush")
  /\ s \in plan[r]
  /\ ~BreaksConstraint(r, s) /\ ~FindsNoRow(r, s)
  /\ CanWrite(r)
  /\ db' = After(r, s) /\ writer' = NoReq /\ work' = EmptyBook
  /\ plan' = [plan EXCEPT ![r] = @ \ {s}]
  /\ UNCHANGED <<lock, who, ask, pc, missing, seen, expired, answer, applied, crashes>>

Flush(r, s) ==
  /\ At(r, "flush")
  /\ s \in plan[r]
  /\ ~BreaksConstraint(r, s) /\ ~FindsNoRow(r, s)
  /\ Write(r, After(r, s))
  /\ plan' = [plan EXCEPT ![r] = @ \ {s}]
  /\ UNCHANGED <<lock, who, ask, pc, missing, seen, expired, answer, applied, crashes>>

\* IntegrityError: 409 through _commit_write.
FlushConflict(r, s) ==
  /\ At(r, "flush")
  /\ s \in plan[r]
  /\ CanWrite(r)
  /\ BreaksConstraint(r, s)
  /\ ~Asks(r, {"add"})
  /\ Finish(r, "409")

\* add_holding handles IntegrityError itself: rollback, resolve the stock
\* again, next attempt.
RetryAdd(r, s) ==
  /\ At(r, "flush")
  /\ s \in plan[r]
  /\ CanWrite(r)
  /\ BreaksConstraint(r, s)
  /\ Asks(r, {"add"})
  /\ Rollback(r)
  /\ expired' = [expired EXCEPT ![r] = TRUE]
  /\ plan' = [plan EXCEPT ![r] = {}]
  /\ Proceed(r, "stock")
  /\ UNCHANGED <<missing, seen>>

FlushStale(r, s) ==
  /\ At(r, "flush")
  /\ s \in plan[r]
  /\ CanWrite(r)
  /\ FindsNoRow(r, s)
  /\ Finish(r, "500")

\* The writer of another session outlives the busy timeout:
\* OperationalError, 503 when the commit handles it and 500 elsewhere.
Busy(r) ==
  /\ \/ pc[r] \in {"create", "recreate", "shrink", "unledger", "purgeHoldings"}
     \/ At(r, "flush") /\ plan[r] # {}
  /\ ~CanWrite(r)
  /\ Finish(r, IF At(r, "flush") THEN "503" ELSE "500")

Commit(r) ==
  /\ At(r, "flush")
  /\ plan[r] = {}
  /\ applied' = applied \cup {r}
  /\ db' = View(r)
  /\ writer' = IF writer = r THEN NoReq ELSE writer
  /\ work' = IF writer = r THEN EmptyBook ELSE work
  /\ Go(r, "reply")
  /\ UNCHANGED <<lock, who, ask, localVars, answer, crashes>>

\* db.refresh of the row just written: it raises when the row is gone.
Refreshed(r) ==
  /\ Asks(r, {"buy", "sell", "dividend"}) => RowsOf(db, who[r], r) # {}
  /\ Asks(r, {"add", "update"}) => \A t \in Scope(Wanted(r)) : Held(r, t) # 0

Reply(r) == At(r, "reply") /\ Refreshed(r) /\ Finish(r, "200")

RefreshFails(r) == At(r, "reply") /\ ~Refreshed(r) /\ Finish(r, "500")

-----------------------------------------------------------------------------
(* delete_user: explicit deletes, then the account, then commit.           *)

PurgeHoldings(r) ==
  /\ At(r, "purgeHoldings")
  /\ Write(r, [View(r) EXCEPT !.hold[who[r]] = Nothing])
  /\ Proceed(r, "purgeLedger")
  /\ UNCHANGED localVars

PurgeLedger(r) ==
  /\ At(r, "purgeLedger")
  /\ Write(r, [View(r) EXCEPT !.ledger = {w \in @ : w.user # who[r]}])
  /\ Proceed(r, "purgeUser")
  /\ UNCHANGED localVars

Owns(b, u) == b.hold[u] # Nothing \/ \E w \in b.ledger : w.user = u

\* Mutant: the account goes whatever still refers to it.
PurgeUserUnchecked(r) ==
  /\ At(r, "purgeUser")
  /\ Write(r, [View(r) EXCEPT !.users = @ \ {who[r]}])
  /\ Proceed(r, "flush")
  /\ UNCHANGED localVars

PurgeUser(r) ==
  /\ At(r, "purgeUser")
  /\ Cascade \/ ~Owns(View(r), who[r])
  /\ Write(r, [View(r) EXCEPT !.users   = @ \ {who[r]},
                              !.hold[who[r]] = Nothing,
                              !.ledger  = {w \in @ : w.user # who[r]}])
  /\ Proceed(r, "flush")
  /\ UNCHANGED localVars

\* Without cascade the rows that still refer to the account stop the delete.
PurgeBlocked(r) ==
  /\ At(r, "purgeUser")
  /\ CanWrite(r)
  /\ ~Cascade /\ Owns(View(r), who[r])
  /\ Finish(r, "500")

-----------------------------------------------------------------------------
(* The process is killed and started again: sessions, locks and handlers   *)
(* are gone, the committed rows stay.                                      *)

InFlight(r) == pc[r] \notin {"idle", "done"}

Crash ==
  /\ crashes < MaxCrashes
  /\ crashes' = crashes + 1
  /\ writer' = NoReq /\ work' = EmptyBook
  /\ lock' = [u \in Users |-> NoReq]
  /\ pc' = [r \in Reqs |-> IF InFlight(r) THEN "done" ELSE pc[r]]
  /\ answer' = [r \in Reqs |-> IF InFlight(r) THEN "lost" ELSE answer[r]]
  /\ missing' = [r \in Reqs |-> {}]
  /\ seen' = [r \in Reqs |-> Nothing]
  /\ plan' = [r \in Reqs |-> {}]
  /\ UNCHANGED <<db, who, ask, expired, applied>>

-----------------------------------------------------------------------------
Session(r) ==
  \/ Acquire(r) \/ FindStock(r) \/ EnsureStocks(r) \/ RefetchStocks(r)
  \/ CreateStocks(r) \/ StockRace(r) \/ StockRaceAgain(r) \/ UseExpiredUser(r)

Planning(r) ==
  \/ PlanBuy(r) \/ PlanAdd(r) \/ PlanDividend(r) \/ PlanImport(r) \/ PlanSeed(r)
  \/ PlanUpdate(r) \/ PlanRemove(r) \/ HoldingNotFound(r) \/ CheckSell(r) \/ RefuseSell(r)

Writing(r) ==
  \/ Shrink(r) \/ ShrinkMisses(r) \/ DropDust(r)
  \/ LookupRow(r) \/ RowNotFound(r) \/ Unledger(r) \/ PlanRecompute(r)
  \/ \E s \in plan[r] : Flush(r, s) \/ FlushConflict(r, s) \/ RetryAdd(r, s) \/ FlushStale(r, s)
  \/ Busy(r) \/ Commit(r) \/ Reply(r) \/ RefreshFails(r)

Purging(r) == PurgeHoldings(r) \/ PurgeLedger(r) \/ PurgeUser(r) \/ PurgeBlocked(r)

Handle(r) == Session(r) \/ Planning(r) \/ Writing(r) \/ Purging(r)

Next == (\E r \in Reqs : Arrive(r) \/ ArriveGone(r) \/ Handle(r)) \/ Crash

\* A client may never send a request; a handler that runs goes on: the event
\* loop schedules it, and every wait for the SQLite writer ends at the busy
\* timeout at the latest.
Spec == Init /\ [][Next]_vars

FairSpec == Spec /\ \A r \in Reqs : WF_vars(Handle(r))

-----------------------------------------------------------------------------
(* Properties.                                                             *)

Atomic == INSTANCE AtomicPortfolio WITH book <- db

\* create_transaction "aggiorna atomicamente il portafoglio", import commits
\* once, two sales never both take the last shares: whatever the
\* interleaving, the failures and the crashes, the committed rows change only
\* by whole requests, each applied once to the rows as they are at that
\* moment, although each handler computed its statements from rows it read
\* several awaits earlier.
ImplementsAtomic == Atomic!Spec

\* The dust a sale may have dropped with the row it closed.
ClosingSales(u, t) ==
  {r \in applied : who[r] = u /\ ask[r].name = "sell" /\ ask[r].rows[t] # 0}

\* No applied request moved the holding of u in t other than by a trade.
OnlyTraded(u, t) ==
  ~\E r \in applied :
    /\ who[r] = u
    /\ \/ ask[r].name \in {"add", "update", "batch", "remove", "import", "seed"}
          /\ ask[r].rows[t] # 0
       \/ ask[r].name = "undo" /\ ask[ask[r].tx].rows[t] # 0

\* The ledger explains the portfolio: a position moved by BUY and SELL alone
\* is never more than what the ledger nets to (no shares from a lost update
\* or a double sale), and less only by the dust of the sales that closed it.
LedgerBacked ==
  \A u \in Users, t \in Tickers :
    OnlyTraded(u, t) =>
      /\ db.hold[u][t] <= Net(db, u, t)
      /\ Net(db, u, t) - db.hold[u][t] <= Dust * Cardinality(ClosingSales(u, t))

\* "un errore non lascia Stock orfani": a stocks row enters the database only
\* together with a row that refers to it.
StocksEnterReferenced ==
  [][\A t \in db'.stocks \ db.stocks :
        \/ \E u \in Users : db'.hold[u][t] # 0
        \/ \E w \in db'.ledger : w.rows[t] # 0]_vars

Undone(r) == \E x \in applied : ask[x].name = "undo" /\ ask[x].tx = r /\ who[x] = who[r]

\* A trade that was answered 200 is in the ledger until its account is purged
\* or its row deleted; one that was refused or failed left no row, so sending
\* it again does not double it.
AnswersAreTrue ==
  \A r \in Reqs : ask[r].name \in {"buy", "sell", "dividend"} =>
    /\ answer[r] = "200" /\ who[r] \in db.users /\ ~Undone(r)
         => \E w \in db.ledger : w.tx = r
    /\ answer[r] \in {"401", "404", "409", "500", "503"} => ~\E w \in db.ledger : w.tx = r

\* Every position and every transaction of b belongs to an account of b.
Closed(b) == \A u \in Users \ b.users : ~Owns(b, u)

\* Whatever delete_user overlaps with, no position and no transaction of a
\* purged account is ever committed.
NoDanglingRows == Closed(db)

\* Between the check of a sale and its last statement the position cannot
\* move under it except by the purge of the account.
SaleReadsStable ==
  \A r \in Reqs : At(r, "shrink") =>
    \/ db.hold[who[r]] = seen[r]
    \/ \E x \in Reqs : ask[x].name = "purge" /\ who[x] = who[r]

\* Every request whose handler starts is answered: no error path keeps the
\* account's lock, and no wait for the lock or the writer is circular.
Answered == \A r \in Reqs : InFlight(r) ~> pc[r] = "done"

Quiet == \A r \in Reqs : ~InFlight(r)

\* create_transaction "aggiorna atomicamente il portafoglio": when no request
\* is running the ledger explains the positions, after a crash too.
LedgerBackedAtRest == Quiet => LedgerBacked

\* _ensure_stocks: "Gestisce la race su UNIQUE stocks.ticker tra richieste
\* concorrenti: su IntegrityError esegue rollback e re-select, senza rompere
\* i flussi bulk di import/seed".
BulkSurvivesStockRace ==
  \A r \in Reqs : expired[r] /\ ask[r].name \in {"import", "seed"} => answer[r] # "500"
=============================================================================
