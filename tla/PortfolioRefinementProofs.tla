---------------------- MODULE PortfolioRefinementProofs ----------------------
(***************************************************************************)
(* With one SQL transaction per request (the engine without DB_KEY),       *)
(* PortfolioLedger implements AtomicPortfolio, for every number of         *)
(* accounts, titles, requests and crashes: the step of the refinement is   *)
(* the COMMIT of a request, every other step is a stutter.                 *)
(*                                                                         *)
(* A handler reads the positions, plans statements from them and flushes   *)
(* the plan several awaits later, one statement at a time.  The invariant  *)
(* says, for each point of a handler, how the rows its transaction sees    *)
(* differ from the committed ones, and that the statements it still has to *)
(* flush lead to what the request means on the committed rows as they are  *)
(* now, or cannot all be flushed because the account is gone.              *)
(*                                                                         *)
(* Three properties of the detailed module follow, with what a COMMIT does *)
(* to the rows: no orphan stocks rows, true answers, and a ledger that     *)
(* explains the positions.                                                 *)
(***************************************************************************)
EXTENDS PortfolioLedgerProofs, SumLemmas

-----------------------------------------------------------------------------
(* What a request means on the committed rows.                             *)

\* The requests that create the stocks rows they name, and those that write
\* a row of the ledger.
Creating == {"buy", "dividend", "add", "import", "seed"}
Recording == {"buy", "sell", "dividend"}
Resolvers == Creating \cup {"sell"}

Mine(r) == db.hold[who[r]]
Present(r) == who[r] \in db.users
Gone(r) == RowsOf(db, who[r], ask[r].tx)
Left(r) == [db EXCEPT !.ledger = @ \ Gone(r)]

\* The committed rows with the given parts, and h as the positions of r's account.
BookOf(r, us, st, h, le) ==
  [users |-> us, stocks |-> st, hold |-> [db.hold EXCEPT ![who[r]] = h], ledger |-> le]

PositionAfter(r, t) ==
  LET h == Mine(r)[t]
      q == Wanted(r)[t]
  IN  CASE Asks(r, {"buy", "add"})      -> h + q
        [] Asks(r, {"sell"})            -> IF q # 0 THEN Remainder(h, q) ELSE h
        [] Asks(r, {"update", "batch"}) -> IF q # 0 /\ h # 0 THEN q ELSE h
        [] Asks(r, {"remove"})          -> IF q # 0 THEN 0 ELSE h
        [] Asks(r, {"import"})          -> IF q # 0 THEN q ELSE h
        [] Asks(r, {"seed"})            -> IF q # 0 /\ h = 0 /\ Present(r) THEN q ELSE h
        [] Asks(r, {"undo"})            -> IF \E w \in Gone(r) : w.rows[t] # 0
                                           THEN Recomputed(Left(r), who[r], t) ELSE h
        [] OTHER                        -> h

PositionsAfter(r) == [t \in Tickers |-> PositionAfter(r, t)]

StocksAfter(r) ==
  IF Asks(r, Creating) /\ (Asks(r, {"seed"}) => Present(r))
  THEN db.stocks \cup Scope(Wanted(r)) ELSE db.stocks

LedgerAfter(r) ==
  CASE Asks(r, Recording) -> db.ledger \cup {TradeRow(r, who[r], ask[r])}
    [] Asks(r, {"undo"})  -> db.ledger \ Gone(r)
    [] OTHER              -> db.ledger

OthersRows(r) == {w \in db.ledger : w.user # who[r]}

\* The committed rows after a commit of r.
BookAfter(r) ==
  IF Purges(r) THEN BookOf(r, db.users \ {who[r]}, db.stocks, Nothing, OthersRows(r))
               ELSE BookOf(r, db.users, StocksAfter(r), PositionsAfter(r), LedgerAfter(r))

\* What r needs to be allowed: its account, and the shares it sells.
NeedsAccount(r) ==
  Asks(r, Recording \cup {"add"}) \/ (Asks(r, {"import"}) /\ Scope(Wanted(r)) # {})
Allowed(r) ==
  /\ NeedsAccount(r) => Present(r)
  /\ Asks(r, {"sell"}) => \A t \in Tickers : Mine(r)[t] >= Wanted(r)[t]

-----------------------------------------------------------------------------
(* The invariant.                                                          *)

\* Some statement in P writes the ledger; is checked against the account.
Records(P) == \E s \in P : s.do = "record"
Checks(P) == \E s \in P : s.do # "delete"

\* The statements in P set positions of r's account to what they become.
Aims(r, P) ==
  \A s \in P :
    /\ s.do = "record" => s.rows = Wanted(r) /\ Asks(r, Recording)
    /\ s.do # "record" => Scope(s.rows) # {}
    /\ s.do # "record" => \A t \in Tickers : s.rows[t] # 0 =>
         PositionAfter(r, t) = IF s.do = "delete" THEN 0 ELSE s.rows[t]

\* A position no statement in P sets.
Spared(P, t) == \A s \in P : s.do = "record" \/ s.rows[t] = 0

OnTrack(r) ==
  /\ View(r).stocks = StocksAfter(r)
  /\ View(r).ledger = IF Records(plan[r]) THEN db.ledger ELSE LedgerAfter(r)
  /\ \A t \in Tickers : Spared(plan[r], t) => Holding(r)[t] = PositionAfter(r, t)
  /\ Aims(r, plan[r])
  /\ Allowed(r)

\* The account is gone and a statement that is left will be refused.
Doomed(r) ==
  /\ ~Present(r) /\ Checks(plan[r])
  /\ \A s \in plan[r] : s.do # "record" => Scope(s.rows) # {}

\* Before its first statement r has not passed the check on its account.
Unwritten(r) ==
  /\ ~Asks(r, {"sell", "undo"})
  /\ Asks(r, Recording) => Records(plan[r])
  /\ NeedsAccount(r) => Checks(plan[r])

Flushing(r) ==
  /\ ~Purges(r)
  /\ View(r) = BookOf(r, db.users, View(r).stocks, Holding(r), View(r).ledger)
  /\ writer # r => Unwritten(r)
  /\ OnTrack(r) \/ Doomed(r)

Resolving(r) ==
  /\ missing[r] \subseteq Scope(Wanted(r))
  /\ Scope(Wanted(r)) \subseteq db.stocks \cup missing[r]

\* The rows r reads: the committed ones and the stocks rows r created.
Reading(r) ==
  View(r) = BookOf(r, db.users,
                   IF Asks(r, Resolvers) THEN db.stocks \cup Scope(Wanted(r)) ELSE db.stocks,
                   Mine(r), db.ledger)

Shrinking(r) == Reading(r) /\ Asks(r, {"sell"}) /\ (seen[r] = Mine(r) \/ ~Present(r))

Dropping(r) ==
  /\ writer = r /\ Asks(r, {"sell"}) /\ plan[r] = Record(r)
  /\ \A t \in Tickers : Mine(r)[t] >= Wanted(r)[t]
  /\ \E t \in Scope(Wanted(r)) : Mine(r)[t] - Wanted(r)[t] <= Dust
  /\ View(r) = BookOf(r, db.users, db.stocks,
                      [t \in Tickers |-> Mine(r)[t] - Wanted(r)[t]], db.ledger)

Found(r) == Asks(r, {"undo"}) /\ (Gone(r) # {} \/ ~Present(r))

Recomputing(r) ==
  /\ writer = r /\ Found(r)
  /\ View(r) = BookOf(r, db.users, db.stocks, Mine(r), db.ledger \ Gone(r))

\* The purge after each of its statements.
HoldingsPurged(r) ==
  writer = r /\ View(r) = BookOf(r, db.users, db.stocks, Nothing, db.ledger)
LedgerPurged(r) ==
  writer = r /\ View(r) = BookOf(r, db.users, db.stocks, Nothing, OthersRows(r))
UserPurged(r) == writer = r /\ View(r) = BookAfter(r)

Waiting == {"idle", "wait", "stock", "ensure", "create", "refetch", "recreate", "lookup",
            "unledger", "purgeHoldings", "reply", "done"}

TxInv(r) ==
  /\ r \in applied => pc[r] \in {"reply", "done"}
  /\ pc[r] \in Waiting => writer # r
  /\ pc[r] \notin {"drop", "flush"} => plan[r] = {}
  /\ pc[r] \in {"wait"} \cup (Inside \ {"flush", "reply"}) => ~Purges(r)
  /\ pc[r] \in {"stock", "ensure", "create", "refetch", "recreate"} => Asks(r, Resolvers)
  /\ pc[r] \in {"create", "recreate"} => Resolving(r)
  /\ pc[r] = "read" => Reading(r)
  /\ pc[r] = "shrink" => Shrinking(r)
  /\ pc[r] = "drop" => Dropping(r)
  /\ pc[r] = "lookup" => Asks(r, {"undo"})
  /\ pc[r] = "unledger" => Found(r)
  /\ pc[r] = "recompute" => Recomputing(r)
  /\ pc[r] = "flush" /\ ~Purges(r) => Flushing(r)
  /\ pc[r] = "flush" /\ Purges(r) => UserPurged(r) /\ plan[r] = {}
  /\ pc[r] = "purgeLedger" => HoldingsPurged(r)
  /\ pc[r] = "purgeUser" => LedgerPurged(r)

\* A row of the ledger is what its request asked for, and was committed with
\* it; a position and a row of the ledger have their stocks rows.
Honest(b) ==
  \A w \in b.ledger : /\ w = TradeRow(w.tx, who[w.tx], ask[w.tx])
                      /\ w.tx \in applied /\ ask[w.tx].name \in Recording
Referenced(b) ==
  \A t \in Tickers :
    (\E u \in Users : b.hold[u][t] # 0) \/ (\E w \in b.ledger : w.rows[t] # 0) => t \in b.stocks

RowsInv == Honest(db) /\ Referenced(db)

RefInv == RowsInv /\ \A r \in Reqs : TxInv(r)

-----------------------------------------------------------------------------
(* Books with the rows of one account changed.                             *)

\* What is where in BookOf.
LEMMA BookParts ==
  ASSUME TypeOK, NEW r \in Reqs, NEW us, NEW st, NEW h, NEW le
  PROVE  LET b == BookOf(r, us, st, h, le) IN
         /\ b.users = us /\ b.stocks = st /\ b.ledger = le
         /\ b.hold[who[r]] = h
         /\ \A u \in Users \ {who[r]} : b.hold[u] = db.hold[u]
  BY RequestTypes DEF BookOf, TypeOK, BookType

\* A book that differs from the committed one in the positions of r's account.
LEMMA BookEquals ==
  ASSUME TypeOK, NEW r \in Reqs, NEW b \in BookType, NEW h,
         b.hold[who[r]] = h,
         \A u \in Users \ {who[r]} : b.hold[u] = db.hold[u]
  PROVE  b = BookOf(r, b.users, b.stocks, h, b.ledger)
<1>1. b = [users |-> b.users, stocks |-> b.stocks, hold |-> b.hold, ledger |-> b.ledger]
  BY DEF BookType
<1>2. b.hold = [db.hold EXCEPT ![who[r]] = h]
  BY RequestTypes DEF TypeOK, BookType
<1> QED
  BY <1>1, <1>2 DEF BookOf

\* The committed rows are such a book.
LEMMA BookIsDb ==
  ASSUME TypeOK, NEW r \in Reqs
  PROVE  db = BookOf(r, db.users, db.stocks, Mine(r), db.ledger)
  BY BookEquals DEF TypeOK, Mine

\* A statement changes one part.
LEMMA BookStep ==
  ASSUME TypeOK, NEW r \in Reqs, NEW us, NEW st, NEW h, NEW le, NEW f, NEW x
  PROVE  LET b == BookOf(r, us, st, h, le) IN
         /\ [b EXCEPT !.stocks = x] = BookOf(r, us, x, h, le)
         /\ [b EXCEPT !.ledger = x] = BookOf(r, us, st, h, x)
         /\ [b EXCEPT !.hold[who[r]] = f] = BookOf(r, us, st, f, le)
<1>1. who[r] \in Users /\ db.hold \in [Users -> [Tickers -> Nat]]
  BY RequestTypes DEF TypeOK, BookType
<1>2. [[db.hold EXCEPT ![who[r]] = h] EXCEPT ![who[r]] = f] = [db.hold EXCEPT ![who[r]] = f]
  BY <1>1
<1> QED
  BY <1>2 DEF BookOf

-----------------------------------------------------------------------------
(* Steps that leave a request alone.                                       *)

SameRequests == who' = who /\ ask' = ask

\* Nothing r's invariant speaks of has changed but the committed rows.
LocalsKept(r) ==
  /\ pc'[r] = pc[r] /\ plan'[r] = plan[r] /\ missing'[r] = missing[r] /\ seen'[r] = seen[r]
  /\ r \in applied' => r \in applied
ViewKept(r) == (writer' = r <=> writer = r) /\ (writer = r => work' = work)

\* What a request means depends on the committed rows alone.
LEMMA SameMeaning ==
  ASSUME SameRequests, db' = db, NEW r \in Reqs
  PROVE  /\ Mine(r)' = Mine(r) /\ Present(r)' = Present(r) /\ Gone(r)' = Gone(r)
         /\ Wanted(r)' = Wanted(r) /\ Purges(r)' = Purges(r)
         /\ \A names : Asks(r, names)' = Asks(r, names)
         /\ \A t : PositionAfter(r, t)' = PositionAfter(r, t)
         /\ StocksAfter(r)' = StocksAfter(r) /\ LedgerAfter(r)' = LedgerAfter(r)
         /\ OthersRows(r)' = OthersRows(r) /\ BookAfter(r)' = BookAfter(r)
         /\ Allowed(r)' = Allowed(r) /\ NeedsAccount(r)' = NeedsAccount(r)
         /\ Record(r)' = Record(r)
         /\ \A us, st, h, le : BookOf(r, us, st, h, le)' = BookOf(r, us, st, h, le)
         /\ \A P : Aims(r, P)' = Aims(r, P)
<1>1. /\ Mine(r)' = Mine(r) /\ Present(r)' = Present(r) /\ Gone(r)' = Gone(r)
      /\ Wanted(r)' = Wanted(r) /\ Purges(r)' = Purges(r) /\ Left(r)' = Left(r)
      /\ \A names : Asks(r, names)' = Asks(r, names)
  BY DEF SameRequests, Mine, Present, Gone, Wanted, Purges, Asks, Left, RowsOf
<1>2. \A t : PositionAfter(r, t)' = PositionAfter(r, t)
  BY <1>1 DEF SameRequests, PositionAfter
<1>3. /\ StocksAfter(r)' = StocksAfter(r) /\ LedgerAfter(r)' = LedgerAfter(r)
      /\ OthersRows(r)' = OthersRows(r)
      /\ Allowed(r)' = Allowed(r) /\ NeedsAccount(r)' = NeedsAccount(r)
      /\ Record(r)' = Record(r)
  BY <1>1 DEF SameRequests, StocksAfter, LedgerAfter, OthersRows, Allowed, NeedsAccount, Record
<1>4. \A us, st, h, le : BookOf(r, us, st, h, le)' = BookOf(r, us, st, h, le)
  BY DEF SameRequests, BookOf
<1>5. \A P : Aims(r, P)' = Aims(r, P)
  BY <1>1, <1>2 DEF SameRequests, Aims
<1>6. BookAfter(r)' = BookAfter(r)
  BY <1>1, <1>2, <1>3, <1>4 DEF SameRequests, BookAfter, PositionsAfter
<1> QED
  BY <1>1, <1>2, <1>3, <1>4, <1>5, <1>6

\* A step of another request that commits nothing.
LEMMA OthersKept ==
  ASSUME SameRequests, db' = db, NEW x \in Reqs, LocalsKept(x), ViewKept(x), TxInv(x)
  PROVE  TxInv(x)'
<1>1. View(x)' = View(x) /\ Holding(x)' = Holding(x)
  BY DEF ViewKept, View, SameRequests, Holding
<1>2. Reading(x)' = Reading(x) /\ Found(x)' = Found(x) /\ (Flushing(x) => Flushing(x)')
  <2>1. Reading(x)' = Reading(x) /\ Found(x)' = Found(x)
    BY <1>1, SameMeaning DEF Reading, Found
  <2>2. OnTrack(x)' = OnTrack(x) /\ Doomed(x)' = Doomed(x) /\ Unwritten(x)' = Unwritten(x)
    BY <1>1, SameMeaning DEF OnTrack, Doomed, Unwritten, LocalsKept
  <2>3. Flushing(x)' = Flushing(x)
    BY <1>1, <2>2, SameMeaning DEF Flushing, ViewKept
  <2> QED
    BY <2>1, <2>3
<1>3. /\ Resolving(x)' = Resolving(x) /\ Shrinking(x)' = Shrinking(x)
      /\ Dropping(x)' = Dropping(x) /\ Recomputing(x)' = Recomputing(x)
  <2>1. Resolving(x)' = Resolving(x)
    BY SameMeaning DEF Resolving, LocalsKept
  <2>2. Shrinking(x)' = Shrinking(x)
    BY <1>2, SameMeaning DEF Shrinking, LocalsKept
  <2>3. Dropping(x)' = Dropping(x)
    BY <1>1, SameMeaning DEF Dropping, LocalsKept, ViewKept
  <2>4. Recomputing(x)' = Recomputing(x)
    BY <1>1, <1>2, SameMeaning DEF Recomputing, ViewKept
  <2> QED
    BY <2>1, <2>2, <2>3, <2>4
<1>4. /\ HoldingsPurged(x)' = HoldingsPurged(x) /\ LedgerPurged(x)' = LedgerPurged(x)
      /\ UserPurged(x)' = UserPurged(x)
  BY <1>1, SameMeaning DEF HoldingsPurged, LedgerPurged, UserPurged, ViewKept
<1>5. Purges(x)' = Purges(x) /\ \A names : Asks(x, names)' = Asks(x, names)
  BY SameMeaning
<1> QED
  BY <1>2, <1>3, <1>4, <1>5 DEF TxInv, LocalsKept, ViewKept

\* Handlers of one transaction at a time: a step of r writes its own rows.
OthersLeft(r) == \A x \in Reqs \ {r} : LocalsKept(x) /\ ViewKept(x)

LEMMA WriteLeaves ==
  ASSUME ~Autocommit, NEW r \in Reqs, NEW b, Write(r, b)
  PROVE  /\ db' = db /\ writer' = r /\ View(r)' = b
         /\ \A x \in Reqs \ {r} : ViewKept(x)
  BY NoReqAssumption DEF Write, CanWrite, View, ViewKept

LEMMA RollbackLeaves ==
  ASSUME NEW r \in Reqs, Rollback(r)
  PROVE  /\ db' = db /\ writer' # r
         /\ \A x \in Reqs \ {r} : ViewKept(x)
  BY NoReqAssumption DEF Rollback, ViewKept

\* A handler that ends leaves the others alone, and keeps nothing of its own.
LEMMA FinishLeaves ==
  ASSUME TypeOK, NEW r \in Reqs, NEW status, Finish(r, status)
  PROVE  /\ SameRequests /\ db' = db /\ applied' = applied /\ OthersLeft(r)
         /\ pc'[r] = "done" /\ writer' # r /\ plan'[r] = {}
<1>1. Rollback(r) /\ Go(r, "done") /\ SameRequests /\ applied' = applied
  BY DEF Finish, SameRequests
<1>2. \A x \in Reqs \ {r} : LocalsKept(x)
  BY <1>1 DEF TypeOK, Finish, Go, LocalsKept
<1>3. pc'[r] = "done" /\ plan'[r] = {}
  BY DEF TypeOK, Finish, Go
<1> QED
  BY <1>1, <1>2, <1>3, RollbackLeaves DEF OthersLeft

\* A handler that goes on to label.
LEMMA ProceedLeaves ==
  ASSUME TypeOK, NEW r \in Reqs, NEW label, Proceed(r, label),
         \A x \in Reqs \ {r} : plan'[x] = plan[x] /\ missing'[x] = missing[x] /\ seen'[x] = seen[x]
  PROVE  /\ SameRequests /\ applied' = applied /\ pc'[r] = label
         /\ \A x \in Reqs \ {r} : LocalsKept(x)
  BY DEF TypeOK, Proceed, Go, SameRequests, LocalsKept

\* The rows stay as they are.
LEMMA RowsLeave ==
  ASSUME NEW r \in Reqs, UNCHANGED dbVars
  PROVE  db' = db /\ writer' = writer /\ View(r)' = View(r) /\ \A x \in Reqs : ViewKept(x)
  BY DEF dbVars, ViewKept, View

\* A step of r that commits nothing.
LEMMA HandleLeaves ==
  ASSUME TypeOK, ~Autocommit, NEW r \in Reqs, Handle(r), ~Commit(r)
  PROVE  SameRequests /\ db' = db /\ applied' = applied /\ OthersLeft(r)
<1> USE DEF OthersLeft
<1>0. plan \in [Reqs -> SUBSET Statement] /\ missing \in [Reqs -> SUBSET Tickers]
      /\ seen \in [Reqs -> [Tickers -> Nat]]
  BY DEF TypeOK
<1>1. CASE \E status : Finish(r, status)
  BY <1>1, FinishLeaves
<1>2. CASE Acquire(r)
  BY <1>2, RowsLeave DEF TypeOK, Acquire, Go, localVars, SameRequests, LocalsKept
<1>3. CASE FindStock(r) \/ LookupRow(r)
  BY <1>3, ProceedLeaves, RowsLeave DEF FindStock, LookupRow, localVars
<1>4. CASE EnsureStocks(r) \/ RefetchStocks(r)
  BY <1>0, <1>4, ProceedLeaves, RowsLeave DEF EnsureStocks, RefetchStocks, FetchStocks
<1>5. CASE CreateStocks(r)
  BY <1>0, <1>5, ProceedLeaves, WriteLeaves DEF CreateStocks
<1>6. CASE StockRace(r)
  BY <1>6, ProceedLeaves, RollbackLeaves DEF StockRace
<1>7. CASE \E S : Plan(r, S)
  BY <1>0, <1>7, ProceedLeaves, RowsLeave DEF Plan
<1>8. CASE CheckSell(r)
  BY <1>0, <1>8, ProceedLeaves, RowsLeave DEF CheckSell
<1>9. CASE Shrink(r)
  BY <1>0, <1>9, ProceedLeaves, WriteLeaves DEF Shrink
<1>10. CASE DropDust(r) \/ Unledger(r) \/ PurgeHoldings(r) \/ PurgeLedger(r) \/ PurgeUser(r)
  <2>1. /\ UNCHANGED localVars
        /\ \E label : Proceed(r, label)
        /\ \E b : Write(r, b)
    BY <1>10 DEF DropDust, Unledger, PurgeHoldings, PurgeLedger, PurgeUser
  <2> QED
    BY <2>1, ProceedLeaves, WriteLeaves DEF localVars
<1>11. CASE \E s \in plan[r] : Flush(r, s)
  BY <1>0, <1>11, WriteLeaves DEF Flush, LocalsKept, SameRequests
<1>12. CASE \E s \in plan[r] : RetryAdd(r, s)
  BY <1>0, <1>12, ProceedLeaves, RollbackLeaves DEF RetryAdd
<1>13. CASE Session(r)
  BY <1>1, <1>2, <1>3, <1>4, <1>5, <1>6, <1>13 DEF Session, StockRaceAgain, UseExpiredUser
<1>14. CASE Planning(r)
  BY <1>1, <1>7, <1>8, <1>14
     DEF Planning, PlanBuy, PlanAdd, PlanDividend, PlanImport, PlanSeed, PlanUpdate,
         PlanRemove, HoldingNotFound, RefuseSell
<1>15. CASE Writing(r)
  BY <1>1, <1>3, <1>7, <1>9, <1>10, <1>11, <1>12, <1>15
     DEF Writing, ShrinkMisses, RowNotFound, PlanRecompute, FlushConflict, FlushStale,
         Busy, Reply, RefreshFails
<1>16. CASE Purging(r)
  BY <1>1, <1>10, <1>16 DEF Purging, PurgeBlocked
<1> QED
  BY <1>13, <1>14, <1>15, <1>16 DEF Handle

-----------------------------------------------------------------------------
(* The commit of a request is its step of AtomicPortfolio.                 *)

\* What is committed is what the request means on the rows as they are.
LEMMA CommitMeans ==
  ASSUME TypeOK, ~Autocommit, NEW r \in Reqs, Commit(r), TxInv(r)
  PROVE  /\ db' = BookAfter(r) /\ r \notin applied /\ applied' = applied \cup {r}
         /\ ~Purges(r) => Allowed(r)
         /\ SameRequests
<1>1. pc[r] = "flush" /\ plan[r] = {} /\ db' = View(r) /\ applied' = applied \cup {r}
  BY DEF Commit, At
<1>2. SameRequests /\ r \notin applied
  BY <1>1 DEF Commit, SameRequests, TxInv
<1>3. CASE Purges(r)
  BY <1>1, <1>2, <1>3 DEF TxInv, UserPurged
<1>4. CASE ~Purges(r)
  <2>1. Flushing(r) /\ OnTrack(r)
    BY <1>1, <1>4 DEF TxInv, Flushing, Doomed, Checks
  <2>2. View(r).stocks = StocksAfter(r) /\ View(r).ledger = LedgerAfter(r) /\ Allowed(r)
    BY <1>1, <2>1 DEF OnTrack, Records
  <2>3. Holding(r) = PositionsAfter(r)
    <3>1. \A t \in Tickers : Holding(r)[t] = PositionAfter(r, t)
      BY <1>1, <2>1 DEF OnTrack, Spared
    <3> QED
      BY <3>1, ViewTypes DEF PositionsAfter
  <2>4. View(r) = BookOf(r, db.users, StocksAfter(r), PositionsAfter(r), LedgerAfter(r))
    BY <2>1, <2>2, <2>3 DEF Flushing
  <2> QED
    BY <1>1, <1>2, <1>4, <2>2, <2>4 DEF BookAfter
<1> QED
  BY <1>3, <1>4

\* The helpers of the two specifications are the same.
LEMMA SameHelpers ==
  /\ \A rows : Atomic!Scope(rows) = Scope(rows)
  /\ \A b, u, x : Atomic!RowsOf(b, u, x) = RowsOf(b, u, x)
  /\ \A r, u, o : Atomic!TradeRow(r, u, o) = TradeRow(r, u, o)
  /\ \A h, q : Atomic!Remainder(h, q) = Remainder(h, q)
  /\ Atomic!Nothing = Nothing
  /\ \A r, name : Atomic!Asks(r, name) = (ask[r].name = name)
  BY DEF Scope, Atomic!Scope, RowsOf, Atomic!RowsOf, TradeRow, Atomic!TradeRow, TradeType,
         Atomic!TradeType, Remainder, Atomic!Remainder, Nothing, Atomic!Nothing, Atomic!Asks

LEMMA SameRecomputed ==
  ASSUME NEW b, NEW u, NEW t
  PROVE  Atomic!Recomputed(b, u, t) = Recomputed(b, u, t)
  BY DEF Recomputed, Atomic!Recomputed, Net, Atomic!Net, Traded, Atomic!Traded,
         SumFunctionOnSet, Atomic!SumFunctionOnSet, FoldFunctionOnSet, Atomic!FoldFunctionOnSet,
         MapThenFoldSet, Atomic!MapThenFoldSet

LEMMA MeaningTypes ==
  ASSUME TypeOK, NEW r \in Reqs
  PROVE  /\ PositionsAfter(r) \in [Tickers -> Nat]
         /\ StocksAfter(r) \in SUBSET Tickers
         /\ LedgerAfter(r) \in SUBSET Row
         /\ Mine(r) \in [Tickers -> Nat]
<1>1. Mine(r) \in [Tickers -> Nat] /\ Wanted(r) \in [Tickers -> Nat]
  BY RequestTypes DEF Mine, TypeOK, BookType
<1>2. \A h, q \in Nat : Remainder(h, q) \in Nat
  BY DustAssumption DEF Remainder
<1>3. \A t \in Tickers : PositionAfter(r, t) \in Nat
  <2> SUFFICES ASSUME NEW t \in Tickers PROVE PositionAfter(r, t) \in Nat
    OBVIOUS
  <2>1. /\ Mine(r)[t] \in Nat /\ Wanted(r)[t] \in Nat
        /\ Remainder(Mine(r)[t], Wanted(r)[t]) \in Nat
        /\ Recomputed(Left(r), who[r], t) \in Nat
    BY <1>1, <1>2, RecomputedType
  <2> QED
    BY <2>1 DEF PositionAfter
<1>4. StocksAfter(r) \in SUBSET Tickers /\ LedgerAfter(r) \in SUBSET Row
  BY RequestTypes, RecordTypes DEF StocksAfter, LedgerAfter, TypeOK, BookType
<1> QED
  BY <1>1, <1>3, <1>4 DEF PositionsAfter

\* Trades and new positions.
LEMMA CommitBuys ==
  ASSUME TypeOK, NEW r \in Reqs, Asks(r, {"buy", "add", "dividend"}), Present(r),
         r \notin applied, applied' = applied \cup {r}, SameRequests,
         db' = BookOf(r, db.users, StocksAfter(r), PositionsAfter(r), LedgerAfter(r))
  PROVE  Atomic!Buy(r, who[r]) \/ Atomic!Add(r, who[r]) \/ Atomic!Dividend(r, who[r])
<1> DEFINE u == who[r]
           q == Wanted(r)
           sum == [t \in Tickers |-> db.hold[u][t] + q[t]]
           st == db.stocks \cup Scope(q)
           le == db.ledger \cup {TradeRow(r, u, ask[r])}
<1>1. /\ u \in Users /\ q \in [Tickers -> Nat] /\ Mine(r) \in [Tickers -> Nat]
      /\ db \in BookType /\ st \in SUBSET Tickers /\ TradeRow(r, u, ask[r]) \in Row
      /\ sum \in [Tickers -> Nat]
  BY RequestTypes, MeaningTypes, RecordTypes DEF TypeOK, BookType
<1>2. StocksAfter(r) = st
  BY DEF StocksAfter, Asks, Creating
<1>3. CASE ask[r].name = "buy"
  <2> DEFINE c == [db EXCEPT !.stocks  = @ \cup Scope(ask[r].rows),
                             !.hold[u] = [t \in Tickers |-> @[t] + ask[r].rows[t]],
                             !.ledger  = @ \cup {TradeRow(r, u, ask[r])}]
  <2>1. PositionsAfter(r) = sum /\ LedgerAfter(r) = le
    BY <1>3 DEF PositionsAfter, PositionAfter, LedgerAfter, Asks, Recording, Mine
  <2>2. /\ c \in BookType /\ c.hold[u] = sum
        /\ \A x \in Users \ {u} : c.hold[x] = db.hold[x]
    BY <1>1 DEF BookType, Wanted
  <2>3. c.users = db.users /\ c.stocks = st /\ c.ledger = le
    BY <1>1 DEF BookType, Wanted
  <2>4. c = db'
    <3> HIDE DEF c, sum, st, le
    <3> QED
      BY <1>2, <2>1, <2>2, <2>3, BookEquals
  <2> QED
    BY <1>3, <2>4, SameHelpers DEF Atomic!Buy, Atomic!Once, SameRequests, Present
<1>4. CASE ask[r].name = "add"
  <2> DEFINE c == [db EXCEPT !.stocks  = @ \cup Scope(ask[r].rows),
                             !.hold[u] = [t \in Tickers |-> @[t] + ask[r].rows[t]]]
  <2>1. PositionsAfter(r) = sum /\ LedgerAfter(r) = db.ledger
    BY <1>4 DEF PositionsAfter, PositionAfter, LedgerAfter, Asks, Recording, Mine
  <2>2. /\ c \in BookType /\ c.hold[u] = sum
        /\ \A x \in Users \ {u} : c.hold[x] = db.hold[x]
    BY <1>1 DEF BookType, Wanted
  <2>3. c.users = db.users /\ c.stocks = st /\ c.ledger = db.ledger
    BY <1>1 DEF BookType, Wanted
  <2>4. c = db'
    <3> HIDE DEF c, sum, st, le
    <3> QED
      BY <1>2, <2>1, <2>2, <2>3, BookEquals
  <2> QED
    BY <1>4, <2>4, SameHelpers DEF Atomic!Add, Atomic!Once, SameRequests, Present
<1>5. CASE ask[r].name = "dividend"
  <2> DEFINE c == [db EXCEPT !.stocks = @ \cup Scope(ask[r].rows),
                             !.ledger = @ \cup {TradeRow(r, u, ask[r])}]
  <2>1. PositionsAfter(r) = Mine(r) /\ LedgerAfter(r) = le
    BY <1>1, <1>5 DEF PositionsAfter, PositionAfter, LedgerAfter, Asks, Recording
  <2>2. /\ c \in BookType /\ c.hold[u] = Mine(r)
        /\ \A x \in Users \ {u} : c.hold[x] = db.hold[x]
    BY <1>1 DEF BookType, Wanted, Mine
  <2>3. c.users = db.users /\ c.stocks = st /\ c.ledger = le
    BY <1>1 DEF BookType, Wanted
  <2>4. c = db'
    <3> HIDE DEF c, sum, st, le
    <3> QED
      BY <1>2, <2>1, <2>2, <2>3, BookEquals
  <2> QED
    BY <1>5, <2>4, SameHelpers DEF Atomic!Dividend, Atomic!Once, SameRequests, Present
<1> QED
  BY <1>3, <1>4, <1>5 DEF Asks

\* Sales, manual changes, imports and the demo positions.
LEMMA CommitSells ==
  ASSUME TypeOK, NEW r \in Reqs, Asks(r, {"sell"}), Allowed(r),
         r \notin applied, applied' = applied \cup {r}, SameRequests,
         db' = BookOf(r, db.users, StocksAfter(r), PositionsAfter(r), LedgerAfter(r))
  PROVE  Atomic!Sell(r, who[r])
<1> DEFINE u == who[r]
           q == Wanted(r)
           h == [t \in Tickers |-> IF t \in Scope(q) THEN Remainder(db.hold[u][t], q[t])
                                                     ELSE db.hold[u][t]]
           le == db.ledger \cup {TradeRow(r, u, ask[r])}
           c == [db EXCEPT !.hold[u] = [t \in Tickers |-> IF t \in Scope(ask[r].rows)
                                                          THEN Remainder(@[t], ask[r].rows[t])
                                                          ELSE @[t]],
                           !.ledger  = @ \cup {TradeRow(r, u, ask[r])}]
<1>1. /\ u \in Users /\ q \in [Tickers -> Nat] /\ PositionsAfter(r) \in [Tickers -> Nat]
      /\ db \in BookType /\ TradeRow(r, u, ask[r]) \in Row
  BY RequestTypes, MeaningTypes, RecordTypes DEF TypeOK
<1>2. PositionsAfter(r) = h
  BY DEF PositionsAfter, PositionAfter, Asks, Mine, Scope
<1>3. StocksAfter(r) = db.stocks /\ LedgerAfter(r) = le
  BY DEF StocksAfter, LedgerAfter, Asks, Creating, Recording
<1>4. /\ c \in BookType /\ c.hold[u] = h
      /\ \A x \in Users \ {u} : c.hold[x] = db.hold[x]
  <2>1. h \in [Tickers -> Nat]
    BY <1>1, <1>2
  <2> QED
    BY <1>1, <2>1 DEF BookType, Wanted
<1>5. c.users = db.users /\ c.stocks = db.stocks /\ c.ledger = le
  BY <1>1 DEF BookType, Wanted
<1>6. c = db'
  <2> HIDE DEF c, h, le
  <2> QED
    BY <1>2, <1>3, <1>4, <1>5, BookEquals
<1>7. Present(r) /\ \A t \in Scope(q) : db.hold[u][t] >= q[t]
  BY DEF Allowed, NeedsAccount, Asks, Recording, Mine, Scope
<1> QED
  BY <1>6, <1>7, SameHelpers DEF Atomic!Sell, Atomic!Once, SameRequests, Present, Asks, Wanted

LEMMA CommitChanges ==
  ASSUME TypeOK, NEW r \in Reqs, Asks(r, {"update", "batch", "remove"}),
         r \notin applied, applied' = applied \cup {r}, SameRequests,
         db' = BookOf(r, db.users, StocksAfter(r), PositionsAfter(r), LedgerAfter(r))
  PROVE  Atomic!Update(r, who[r]) \/ Atomic!Remove(r, who[r])
<1> DEFINE u == who[r]
           q == Wanted(r)
           new == [t \in Tickers |-> IF t \in Scope(q) /\ db.hold[u][t] # 0
                                     THEN q[t] ELSE db.hold[u][t]]
           zero == [t \in Tickers |-> IF t \in Scope(q) THEN 0 ELSE db.hold[u][t]]
<1>1. /\ u \in Users /\ q \in [Tickers -> Nat] /\ PositionsAfter(r) \in [Tickers -> Nat]
      /\ db \in BookType
  BY RequestTypes, MeaningTypes DEF TypeOK
<1>2. StocksAfter(r) = db.stocks /\ LedgerAfter(r) = db.ledger
  BY DEF StocksAfter, LedgerAfter, Asks, Creating, Recording
<1>3. CASE ask[r].name \in {"update", "batch"}
  <2> DEFINE c == [db EXCEPT !.hold[u] = [t \in Tickers |->
                                            IF t \in Scope(ask[r].rows) /\ @[t] # 0
                                            THEN ask[r].rows[t] ELSE @[t]]]
  <2>1. PositionsAfter(r) = new
    BY <1>3 DEF PositionsAfter, PositionAfter, Asks, Mine, Scope
  <2>2. /\ c \in BookType /\ c.hold[u] = new
        /\ \A x \in Users \ {u} : c.hold[x] = db.hold[x]
    BY <1>1, <2>1 DEF BookType, Wanted
  <2>3. c.users = db.users /\ c.stocks = db.stocks /\ c.ledger = db.ledger
    BY <1>1 DEF BookType, Wanted
  <2>4. c = db'
    <3> HIDE DEF c, new
    <3> QED
      BY <1>2, <2>1, <2>2, <2>3, BookEquals
  <2> QED
    BY <1>3, <2>4, SameHelpers DEF Atomic!Update, Atomic!Once, SameRequests
<1>4. CASE ask[r].name = "remove"
  <2> DEFINE c == [db EXCEPT !.hold[u] = [t \in Tickers |-> IF t \in Scope(ask[r].rows)
                                                            THEN 0 ELSE @[t]]]
  <2>1. PositionsAfter(r) = zero
    BY <1>4 DEF PositionsAfter, PositionAfter, Asks, Mine, Scope
  <2>2. /\ c \in BookType /\ c.hold[u] = zero
        /\ \A x \in Users \ {u} : c.hold[x] = db.hold[x]
    BY <1>1, <2>1 DEF BookType, Wanted
  <2>3. c.users = db.users /\ c.stocks = db.stocks /\ c.ledger = db.ledger
    BY <1>1 DEF BookType, Wanted
  <2>4. c = db'
    <3> HIDE DEF c, zero
    <3> QED
      BY <1>2, <2>1, <2>2, <2>3, BookEquals
  <2> QED
    BY <1>4, <2>4, SameHelpers DEF Atomic!Remove, Atomic!Once, SameRequests
<1> QED
  BY <1>3, <1>4 DEF Asks

LEMMA CommitImports ==
  ASSUME TypeOK, NEW r \in Reqs, Asks(r, {"import", "seed"}), Allowed(r),
         r \notin applied, applied' = applied \cup {r}, SameRequests,
         db' = BookOf(r, db.users, StocksAfter(r), PositionsAfter(r), LedgerAfter(r))
  PROVE  Atomic!Import(r, who[r]) \/ Atomic!Seed(r, who[r])
<1> DEFINE u == who[r]
           q == Wanted(r)
           st == db.stocks \cup Scope(q)
           all == [t \in Tickers |-> IF t \in Scope(q) THEN q[t] ELSE db.hold[u][t]]
           new == [t \in Tickers |-> IF t \in Scope(q) /\ db.hold[u][t] = 0
                                     THEN q[t] ELSE db.hold[u][t]]
<1>1. /\ u \in Users /\ q \in [Tickers -> Nat] /\ PositionsAfter(r) \in [Tickers -> Nat]
      /\ db \in BookType /\ st \in SUBSET Tickers
  BY RequestTypes, MeaningTypes DEF TypeOK, BookType
<1>2. LedgerAfter(r) = db.ledger
  BY DEF LedgerAfter, Asks, Recording
<1>3. CASE ask[r].name = "import"
  <2> DEFINE c == [db EXCEPT !.stocks  = @ \cup Scope(ask[r].rows),
                             !.hold[u] = [t \in Tickers |-> IF t \in Scope(ask[r].rows)
                                                            THEN ask[r].rows[t] ELSE @[t]]]
  <2>1. PositionsAfter(r) = all /\ StocksAfter(r) = st
    BY <1>3 DEF PositionsAfter, PositionAfter, StocksAfter, Asks, Mine, Scope, Creating
  <2>2. /\ c \in BookType /\ c.hold[u] = all
        /\ \A x \in Users \ {u} : c.hold[x] = db.hold[x]
    BY <1>1, <2>1 DEF BookType, Wanted
  <2>3. c.users = db.users /\ c.stocks = st /\ c.ledger = db.ledger
    BY <1>1 DEF BookType, Wanted
  <2>4. c = db'
    <3> HIDE DEF c, all, st
    <3> QED
      BY <1>2, <2>1, <2>2, <2>3, BookEquals
  <2>5. Scope(q) # {} => u \in db.users
    BY <1>3 DEF Allowed, NeedsAccount, Present, Asks
  <2> QED
    BY <1>3, <2>4, <2>5, SameHelpers DEF Atomic!Import, Atomic!Once, SameRequests, Wanted
<1>4. CASE ask[r].name = "seed" /\ Present(r)
  <2> DEFINE c == [db EXCEPT !.stocks  = @ \cup Scope(ask[r].rows),
                             !.hold[u] = [t \in Tickers |->
                                            IF t \in Scope(ask[r].rows) /\ @[t] = 0
                                            THEN ask[r].rows[t] ELSE @[t]]]
  <2>1. PositionsAfter(r) = new /\ StocksAfter(r) = st
    BY <1>4 DEF PositionsAfter, PositionAfter, StocksAfter, Asks, Mine, Scope, Creating
  <2>2. /\ c \in BookType /\ c.hold[u] = new
        /\ \A x \in Users \ {u} : c.hold[x] = db.hold[x]
    BY <1>1, <2>1 DEF BookType, Wanted
  <2>3. c.users = db.users /\ c.stocks = st /\ c.ledger = db.ledger
    BY <1>1 DEF BookType, Wanted
  <2>4. c = db'
    <3> HIDE DEF c, new, st
    <3> QED
      BY <1>2, <2>1, <2>2, <2>3, BookEquals
  <2> QED
    BY <1>4, <2>4, SameHelpers DEF Atomic!Seed, Atomic!Once, SameRequests, Present
<1>5. CASE ask[r].name = "seed" /\ ~Present(r)
  <2>1. PositionsAfter(r) = Mine(r) /\ StocksAfter(r) = db.stocks
    BY <1>5, MeaningTypes DEF PositionsAfter, PositionAfter, StocksAfter, Asks, Creating
  <2>2. db' = db
    BY <1>2, <2>1, BookIsDb
  <2> QED
    BY <1>5, <2>2, SameHelpers DEF Atomic!Seed, Atomic!Once, SameRequests, Present
<1> QED
  BY <1>3, <1>4, <1>5 DEF Asks

\* The deletion of a row and of an account.
LEMMA CommitUndoes ==
  ASSUME TypeOK, NEW r \in Reqs, Asks(r, {"undo"}),
         r \notin applied, applied' = applied \cup {r}, SameRequests,
         db' = BookOf(r, db.users, StocksAfter(r), PositionsAfter(r), LedgerAfter(r))
  PROVE  Atomic!Undo(r, who[r])
<1> DEFINE u == who[r]
           gone == Atomic!RowsOf(db, u, ask[r].tx)
           left == [db EXCEPT !.ledger = @ \ gone]
           h == [t \in Tickers |-> IF \E w \in gone : w.rows[t] # 0
                                   THEN Recomputed(left, u, t) ELSE db.hold[u][t]]
           c == [left EXCEPT !.hold[u] =
                   [t \in Tickers |-> IF \E w \in gone : w.rows[t] # 0
                                      THEN Atomic!Recomputed(left, u, t) ELSE @[t]]]
<1>1. u \in Users /\ PositionsAfter(r) \in [Tickers -> Nat] /\ db \in BookType
  BY RequestTypes, MeaningTypes DEF TypeOK
<1>2. gone = Gone(r) /\ left = Left(r)
  BY SameHelpers DEF Gone, Left
<1>3. PositionsAfter(r) = h
  BY <1>2 DEF PositionsAfter, PositionAfter, Asks, Mine
<1>4. StocksAfter(r) = db.stocks /\ LedgerAfter(r) = db.ledger \ gone
  BY <1>2 DEF StocksAfter, LedgerAfter, Asks, Creating, Recording
<1>5. /\ left \in BookType /\ left.hold = db.hold /\ left.users = db.users
      /\ left.stocks = db.stocks /\ left.ledger = db.ledger \ gone
  BY <1>1 DEF BookType
<1>6. c = [left EXCEPT !.hold[u] = h]
  <2> HIDE DEF left, gone
  <2>1. left.hold[u] = db.hold[u]
    BY <1>5
  <2> QED
    BY <1>1, <1>5, <2>1, SameRecomputed DEF BookType
<1>7. /\ c \in BookType /\ c.hold[u] = h
      /\ \A x \in Users \ {u} : c.hold[x] = db.hold[x]
      /\ c.users = db.users /\ c.stocks = db.stocks /\ c.ledger = db.ledger \ gone
  <2>1. h \in [Tickers -> Nat]
    BY <1>1, <1>3
  <2> HIDE DEF left, gone, h, c
  <2> QED
    BY <1>1, <1>5, <1>6, <2>1 DEF BookType
<1>8. c = db'
  <2> HIDE DEF c, h, gone, left
  <2>1. c = BookOf(r, c.users, c.stocks, h, c.ledger)
    BY <1>7, BookEquals
  <2> QED
    BY <1>3, <1>4, <1>7, <2>1
<1> QED
  BY <1>8, SameHelpers DEF Atomic!Undo, Atomic!Once, SameRequests, Asks

LEMMA CommitPurges ==
  ASSUME TypeOK, NEW r \in Reqs, Purges(r),
         r \notin applied, applied' = applied \cup {r}, SameRequests,
         db' = BookOf(r, db.users \ {who[r]}, db.stocks, Nothing, OthersRows(r))
  PROVE  Atomic!Purge(r, who[r])
<1> DEFINE u == who[r]
           c == [db EXCEPT !.users   = @ \ {u},
                           !.hold[u] = Nothing,
                           !.ledger  = {w \in @ : w.user # u}]
<1>1. u \in Users /\ db \in BookType
  BY RequestTypes DEF TypeOK
<1>2. /\ c \in BookType /\ c.hold[u] = Nothing
      /\ \A x \in Users \ {u} : c.hold[x] = db.hold[x]
  BY <1>1 DEF BookType, Nothing
<1>3. c.users = db.users \ {u} /\ c.stocks = db.stocks /\ c.ledger = OthersRows(r)
  BY <1>1 DEF BookType, OthersRows
<1>4. c = db'
  <2> HIDE DEF c
  <2>1. c = BookOf(r, c.users, c.stocks, Nothing, c.ledger)
    BY <1>2, BookEquals
  <2> QED
    BY <1>3, <2>1
<1> QED
  BY <1>4, SameHelpers DEF Atomic!Purge, Atomic!Once, SameRequests, Purges

LEMMA CommitApplies ==
  ASSUME TypeOK, ~Autocommit, NEW r \in Reqs, Commit(r), TxInv(r)
  PROVE  Atomic!Apply(r, who[r])
<1>1. /\ db' = BookAfter(r) /\ r \notin applied /\ applied' = applied \cup {r} /\ SameRequests
      /\ ~Purges(r) => Allowed(r)
  BY CommitMeans
<1>2. CASE Purges(r)
  BY <1>1, <1>2, CommitPurges DEF BookAfter, Atomic!Apply
<1>3. CASE ~Purges(r)
  <2>1. db' = BookOf(r, db.users, StocksAfter(r), PositionsAfter(r), LedgerAfter(r))
    BY <1>1, <1>3 DEF BookAfter
  <2>2. CASE Asks(r, {"buy", "add", "dividend"})
    <3>1. Present(r)
      BY <1>1, <1>3, <2>2 DEF Allowed, NeedsAccount, Asks, Recording
    <3> QED
      BY <1>1, <2>1, <2>2, <3>1, CommitBuys DEF Atomic!Apply
  <2>3. CASE Asks(r, {"sell"})
    BY <1>1, <1>3, <2>1, <2>3, CommitSells DEF Atomic!Apply
  <2>4. CASE Asks(r, {"update", "batch", "remove"})
    BY <1>1, <2>1, <2>4, CommitChanges DEF Atomic!Apply
  <2>5. CASE Asks(r, {"import", "seed"})
    BY <1>1, <1>3, <2>1, <2>5, CommitImports DEF Atomic!Apply
  <2>6. CASE Asks(r, {"undo"})
    BY <1>1, <2>1, <2>6, CommitUndoes DEF Atomic!Apply
  <2> QED
    BY <1>3, <2>2, <2>3, <2>4, <2>5, <2>6, RequestTypes DEF Asks, Purges, Op, Names
<1> QED
  BY <1>2, <1>3

\* Rows are honest and referenced after a commit as they were before.
LEMMA CommitKeepsRows ==
  ASSUME TypeOK, TypeOK', ~Autocommit, RowsInv, NEW r \in Reqs, Commit(r), TxInv(r)
  PROVE  RowsInv'
<1>1. /\ db' = BookAfter(r) /\ applied' = applied \cup {r} /\ SameRequests
      /\ ~Purges(r) => Allowed(r)
  BY CommitMeans
<1>2. who[r] \in Users /\ Wanted(r) \in [Tickers -> Nat] /\ Mine(r) \in [Tickers -> Nat]
  BY RequestTypes, MeaningTypes
<1>3. Honest(db)'
  <2>1. db'.ledger \subseteq db.ledger \cup {w \in {TradeRow(r, who[r], ask[r])} : Asks(r, Recording)}
    BY <1>1, BookParts DEF BookAfter, OthersRows, LedgerAfter
  <2> QED
    BY <1>1, <2>1 DEF RowsInv, Honest, TradeRow, SameRequests, Asks
<1>4. Referenced(db)'
  <2> SUFFICES ASSUME NEW t \in Tickers,
                      (\E u \in Users : db'.hold[u][t] # 0) \/ (\E w \in db'.ledger : w.rows[t] # 0)
               PROVE  t \in db'.stocks
    BY DEF Referenced
  <2>1. db.stocks \subseteq db'.stocks
    BY <1>1, BookParts DEF BookAfter, StocksAfter
  <2>2. ASSUME NEW u \in Users \ {who[r]}, db'.hold[u][t] # 0 PROVE t \in db'.stocks
    BY <1>1, <2>1, <2>2, BookParts DEF BookAfter, RowsInv, Referenced
  <2>3. CASE Purges(r)
    <3>1. db' = BookOf(r, db.users \ {who[r]}, db.stocks, Nothing, OthersRows(r))
      BY <1>1, <2>3 DEF BookAfter
    <3>2. db'.hold = [db.hold EXCEPT ![who[r]] = Nothing] /\ db'.ledger \subseteq db.ledger
      BY <3>1 DEF BookOf, OthersRows
    <3>3. db'.hold[who[r]] = Nothing
      BY <1>2, <3>2 DEF TypeOK, BookType
    <3>4. \A w \in db'.ledger : w.rows[t] # 0 => t \in db.stocks
      BY <3>2 DEF RowsInv, Referenced
    <3> QED
      BY <2>1, <2>2, <3>3, <3>4 DEF Nothing
  <2>4. CASE ~Purges(r)
    <3>1. /\ db'.hold[who[r]] = PositionsAfter(r) /\ db'.stocks = StocksAfter(r)
          /\ db'.ledger = LedgerAfter(r) /\ Allowed(r)
      BY <1>1, <2>4, BookParts DEF BookAfter
    <3>2. Mine(r)[t] # 0 => t \in db.stocks
      BY <1>2 DEF RowsInv, Referenced, Mine
    <3>3. (\E w \in db.ledger : w.rows[t] # 0) => t \in db.stocks
      BY DEF RowsInv, Referenced
    <3>4. Asks(r, Creating) /\ (Asks(r, {"seed"}) => Present(r)) /\ Wanted(r)[t] # 0 => t \in db'.stocks
      BY <1>2, <3>1 DEF StocksAfter, Scope
    <3>5. ASSUME PositionAfter(r, t) # 0 PROVE t \in db'.stocks
      <4>1. Mine(r)[t] \in Nat /\ Wanted(r)[t] \in Nat
        BY <1>2
      <4>2. Asks(r, {"sell"}) /\ Mine(r)[t] = 0 => PositionAfter(r, t) = 0
        BY <4>1, DustAssumption DEF PositionAfter, Remainder, Asks
      <4>3. Asks(r, {"undo"}) /\ Mine(r)[t] = 0 /\ PositionAfter(r, t) # 0
              => \E w \in db.ledger : w.rows[t] # 0
        BY DEF PositionAfter, Asks, Gone, RowsOf
      <4>4. Asks(r, {"update", "batch", "remove"}) /\ Mine(r)[t] = 0 => PositionAfter(r, t) = 0
        BY DEF PositionAfter, Asks
      <4>5. Asks(r, {"buy", "add", "import", "seed"}) /\ Mine(r)[t] = 0 /\ PositionAfter(r, t) # 0
              => Wanted(r)[t] # 0 /\ Asks(r, Creating) /\ (Asks(r, {"seed"}) => Present(r))
        BY <4>1 DEF PositionAfter, Asks, Creating
      <4>6. Asks(r, {"dividend"}) => PositionAfter(r, t) = Mine(r)[t]
        BY DEF PositionAfter, Asks
      <4> QED
        BY <2>1, <2>4, <3>2, <3>3, <3>4, <3>5, <4>2, <4>3, <4>4, <4>5, <4>6, RequestTypes
           DEF Asks, Purges, Op, Names
    <3>6. ASSUME NEW w \in db'.ledger, w.rows[t] # 0 PROVE t \in db'.stocks
      <4>1. CASE w \in db.ledger
        BY <2>1, <3>3, <3>6, <4>1
      <4>2. CASE w \notin db.ledger
        <5>1. Asks(r, Recording) /\ Wanted(r)[t] # 0
          BY <3>1, <3>6, <4>2 DEF LedgerAfter, TradeRow, Wanted
        <5>2. CASE Asks(r, {"sell"})
          BY <1>2, <2>1, <3>1, <3>2, <5>1, <5>2 DEF Allowed
        <5>3. CASE ~Asks(r, {"sell"})
          BY <3>4, <5>1, <5>3 DEF Asks, Recording, Creating
        <5> QED
          BY <5>2, <5>3
      <4> QED
        BY <4>1, <4>2
    <3> QED
      BY <2>2, <3>1, <3>5, <3>6 DEF PositionsAfter
  <2> QED
    BY <2>3, <2>4
<1> QED
  BY <1>3, <1>4 DEF RowsInv

-----------------------------------------------------------------------------
(* The commit of another request.                                          *)

\* The rows of x's account stay, or the account is gone with them.
Calm(x) == Mine(x)' = Mine(x) /\ Present(x)' = Present(x) /\ Gone(x)' = Gone(x)
Wiped(x) == ~Present(x)' /\ Mine(x)' = Nothing

\* The committed rows after the step are a book of x's account.
LEMMA BookIsDbNext ==
  ASSUME TypeOK', NEW x \in Reqs
  PROVE  db' = BookOf(x, db.users, db.stocks, Mine(x), db.ledger)'
<1>1. who'[x] \in Users /\ db' \in BookType
  BY DEF TypeOK
<1>2. db' = [users |-> db'.users, stocks |-> db'.stocks, hold |-> db'.hold, ledger |-> db'.ledger]
  BY <1>1 DEF BookType
<1>3. db'.hold = [db'.hold EXCEPT ![who'[x]] = db'.hold[who'[x]]]
  BY <1>1 DEF BookType
<1> QED
  BY <1>2, <1>3 DEF BookOf, Mine

\* A commit changes the rows of one account, and a handler that runs for the
\* same account is its purge or has its rows purged.
LEMMA CommitSpares ==
  ASSUME TypeOK, ~Autocommit, LockInv, NEW r \in Reqs, Commit(r), TxInv(r),
         NEW x \in Reqs \ {r}
  PROVE  /\ db.stocks \subseteq db'.stocks /\ db'.users \subseteq db.users
         /\ pc[x] \in Inside /\ ~Purges(x) => Calm(x) \/ Wiped(x)
<1>1. /\ db' = BookAfter(r) /\ SameRequests /\ pc[r] = "flush"
  BY CommitMeans DEF Commit, At
<1>2. CASE Purges(r)
  <2>1. db' = BookOf(r, db.users \ {who[r]}, db.stocks, Nothing, OthersRows(r))
    BY <1>1, <1>2 DEF BookAfter
  <2>2. /\ db'.users = db.users \ {who[r]} /\ db'.stocks = db.stocks
        /\ db'.hold = [db.hold EXCEPT ![who[r]] = Nothing] /\ db'.ledger = OthersRows(r)
    BY <2>1 DEF BookOf
  <2>3. CASE who[x] = who[r]
    BY <1>1, <2>2, <2>3, RequestTypes DEF Wiped, Present, Mine, SameRequests, TypeOK, BookType
  <2>4. CASE who[x] # who[r]
    <3>1. Mine(x)' = Mine(x) /\ Present(x)' = Present(x)
      BY <1>1, <2>2, <2>4, RequestTypes DEF Present, Mine, SameRequests, TypeOK, BookType
    <3>2. Gone(x)' = Gone(x)
      BY <1>1, <2>2, <2>4 DEF Gone, RowsOf, OthersRows, SameRequests
    <3> QED
      BY <2>2, <3>1, <3>2 DEF Calm
  <2> QED
    BY <2>2, <2>3, <2>4
<1>3. CASE ~Purges(r)
  <2>1. db' = BookOf(r, db.users, StocksAfter(r), PositionsAfter(r), LedgerAfter(r))
    BY <1>1, <1>3 DEF BookAfter
  <2>2. /\ db'.users = db.users /\ db'.stocks = StocksAfter(r)
        /\ db'.hold = [db.hold EXCEPT ![who[r]] = PositionsAfter(r)]
        /\ db'.ledger = LedgerAfter(r)
    BY <2>1 DEF BookOf
  <2>3. db.stocks \subseteq db'.stocks
    BY <2>2 DEF StocksAfter
  <2>4. CASE who[x] = who[r]
    BY <1>1, <1>3, <2>2, <2>3, <2>4 DEF LockInv, Inside
  <2>5. CASE who[x] # who[r]
    <3>1. Mine(x)' = Mine(x) /\ Present(x)' = Present(x)
      BY <1>1, <2>2, <2>5, RequestTypes DEF Present, Mine, SameRequests, TypeOK, BookType
    <3>2. Gone(x)' = Gone(x)
      BY <1>1, <2>2, <2>5 DEF Gone, RowsOf, LedgerAfter, TradeRow, SameRequests
    <3> QED
      BY <2>2, <2>3, <3>1, <3>2 DEF Calm
  <2> QED
    BY <2>4, <2>5
<1> QED
  BY <1>2, <1>3

\* A handler that has not written yet and flushes a plan: what it plans stays
\* right, or is refused.
LEMMA PlanSurvives ==
  ASSUME TypeOK, TypeOK', SameRequests, NEW x \in Reqs, LocalsKept(x),
         Flushing(x), writer # x, writer' # x,
         db.stocks \subseteq db'.stocks, db'.users \subseteq db.users,
         Calm(x) \/ Wiped(x)
  PROVE  Flushing(x)'
<1>1. /\ View(x) = db /\ Holding(x) = Mine(x) /\ View(x)' = db' /\ Holding(x)' = Mine(x)'
  BY DEF View, Holding, Mine
<1>2. /\ plan'[x] = plan[x] /\ Wanted(x)' = Wanted(x) /\ Purges(x)' = Purges(x)
      /\ \A names : Asks(x, names)' = Asks(x, names)
      /\ Unwritten(x)' = Unwritten(x) /\ Unwritten(x)
  BY DEF LocalsKept, SameRequests, Wanted, Purges, Asks, Unwritten, NeedsAccount, Flushing
<1>3. View(x)' = BookOf(x, db.users, View(x).stocks, Holding(x), View(x).ledger)'
  BY <1>1, BookIsDbNext
<1>4. Doomed(x) => Doomed(x)'
  BY <1>2 DEF Doomed, Present, SameRequests
<1>5. ASSUME OnTrack(x) PROVE OnTrack(x)' \/ Doomed(x)'
  <2>1. /\ db.stocks = StocksAfter(x)
        /\ \A t \in Tickers : Spared(plan[x], t) => Mine(x)[t] = PositionAfter(x, t)
        /\ Aims(x, plan[x]) /\ Allowed(x)
    BY <1>1, <1>5 DEF OnTrack
  <2>2. db'.ledger = IF Records(plan[x]) THEN db'.ledger ELSE LedgerAfter(x)'
    BY <1>2 DEF Unwritten, LedgerAfter, Asks
  <2>3. ~Asks(x, {"sell"}) /\ ~Asks(x, {"undo"})
    BY <1>2 DEF Unwritten, Asks
  <2>4. CASE Calm(x)
    <3>1. /\ Mine(x)' = Mine(x) /\ Present(x)' = Present(x)
          /\ \A t : PositionAfter(x, t)' = PositionAfter(x, t)
      BY <1>2, <2>3, <2>4 DEF Calm, PositionAfter
    <3>2. StocksAfter(x)' = db'.stocks
      <4>1. Asks(x, Creating) /\ (Asks(x, {"seed"}) => Present(x)) => Scope(Wanted(x)) \subseteq db.stocks
        BY <2>1 DEF StocksAfter
      <4> QED
        BY <1>2, <3>1, <4>1 DEF StocksAfter
    <3>3. Aims(x, plan[x])'
      BY <1>2, <2>1, <3>1 DEF Aims
    <3>4. Allowed(x)'
      BY <1>2, <2>1, <3>1 DEF Allowed, NeedsAccount
    <3>5. \A t \in Tickers : Spared(plan[x], t)' => Holding(x)'[t] = PositionAfter(x, t)'
      BY <1>1, <1>2, <2>1, <3>1 DEF Spared
    <3> QED
      BY <1>1, <1>2, <2>2, <3>2, <3>3, <3>4, <3>5 DEF OnTrack
  <2>5. CASE Wiped(x) /\ Checks(plan[x])
    BY <1>2, <2>1, <2>5 DEF Wiped, Doomed, Aims
  <2>6. CASE Wiped(x) /\ ~Checks(plan[x])
    <3>1. ~NeedsAccount(x) /\ \A s \in plan[x] : s.do = "delete"
      BY <1>2, <2>6 DEF Unwritten, Checks
    <3>2. ~Asks(x, Recording \cup {"add"}) /\ (Asks(x, {"import"}) => Scope(Wanted(x)) = {})
      BY <3>1 DEF NeedsAccount
    <3>3. \A t \in Tickers : Mine(x)'[t] = 0 /\ PositionAfter(x, t)' = 0
      <4> SUFFICES ASSUME NEW t \in Tickers PROVE Mine(x)'[t] = 0 /\ PositionAfter(x, t)' = 0
        OBVIOUS
      <4>1. Mine(x)'[t] = 0
        BY <2>6 DEF Wiped, Nothing
      <4>2. Asks(x, {"import"}) => Wanted(x)[t] = 0
        BY <3>2 DEF Scope
      <4>3. ~Asks(x, {"buy", "add"})
        BY <3>2 DEF Asks, Recording
      <4> QED
        BY <1>2, <2>3, <2>6, <4>1, <4>2, <4>3 DEF Wiped, PositionAfter
    <3>4. StocksAfter(x)' = db'.stocks
      BY <1>2, <2>6, <3>2 DEF Wiped, StocksAfter, Asks, Creating, Recording
    <3>5. Aims(x, plan[x])'
      BY <1>2, <2>1, <3>1, <3>3 DEF Aims
    <3>6. Allowed(x)'
      BY <1>2, <2>3, <3>1 DEF Allowed, NeedsAccount
    <3> QED
      BY <1>1, <1>2, <2>2, <3>3, <3>4, <3>5, <3>6 DEF OnTrack
  <2> QED
    BY <2>4, <2>5, <2>6
<1> QED
  BY <1>2, <1>3, <1>4, <1>5 DEF Flushing

\* The commit of r leaves the others where they were.
LEMMA CommitLeaves ==
  ASSUME TypeOK, TypeOK', ~Autocommit, LockInv, NEW r \in Reqs, Commit(r), TxInv(r),
         NEW x \in Reqs \ {r}, TxInv(x)
  PROVE  TxInv(x)'
<1>1. SameRequests /\ LocalsKept(x) /\ db' = View(r)
  BY DEF Commit, SameRequests, localVars, Go, TypeOK, LocalsKept
<1>2. CASE writer # r
  BY <1>1, <1>2, OthersKept DEF View, Commit, ViewKept
<1>3. CASE writer = r
  <2>1. writer # x /\ writer' # x
    BY <1>3, NoReqAssumption DEF Commit
  <2>2. /\ db.stocks \subseteq db'.stocks /\ db'.users \subseteq db.users
        /\ pc[x] \in Inside /\ ~Purges(x) => Calm(x) \/ Wiped(x)
    BY CommitSpares
  <2>3. /\ Purges(x)' = Purges(x) /\ Wanted(x)' = Wanted(x)
        /\ \A names : Asks(x, names)' = Asks(x, names)
        /\ ~Present(x) => ~Present(x)'
    BY <1>1, <2>2 DEF SameRequests, Purges, Wanted, Asks, Present
  <2>4. View(x) = db /\ View(x)' = db' /\ Holding(x)' = Mine(x)'
    BY <2>1 DEF View, Holding, Mine
  <2>5. ASSUME Reading(x) PROVE Reading(x)'
    <3>1. Asks(x, Resolvers) => Scope(Wanted(x)) \subseteq db.stocks
      <4>1. db = BookOf(x, db.users,
                        IF Asks(x, Resolvers) THEN db.stocks \cup Scope(Wanted(x)) ELSE db.stocks,
                        Mine(x), db.ledger)
        BY <2>4, <2>5 DEF Reading
      <4>2. db.stocks = IF Asks(x, Resolvers) THEN db.stocks \cup Scope(Wanted(x)) ELSE db.stocks
        BY <4>1 DEF BookOf
      <4> QED
        BY <4>2
    <3>2. (IF Asks(x, Resolvers) THEN db.stocks \cup Scope(Wanted(x)) ELSE db.stocks)' = db'.stocks
      BY <2>2, <2>3, <3>1
    <3>3. db' = BookOf(x, db.users, db.stocks, Mine(x), db.ledger)'
      BY BookIsDbNext
    <3> QED
      BY <2>4, <3>2, <3>3 DEF Reading
  <2>6. CASE pc[x] \in Waiting
    <3>1. pc[x] \in {"create", "recreate"} => Resolving(x)'
      BY <1>1, <2>2, <2>3 DEF TxInv, Resolving, LocalsKept
    <3>2. pc[x] = "unledger" => Found(x)'
      BY <2>2, <2>3 DEF TxInv, Found, Calm, Wiped, Inside
    <3> QED
      BY <1>1, <2>1, <2>3, <2>6, <3>1, <3>2 DEF TxInv, LocalsKept, Waiting
  <2>7. CASE pc[x] = "read"
    BY <1>1, <2>1, <2>3, <2>5, <2>7 DEF TxInv, LocalsKept, Waiting
  <2>8. CASE pc[x] = "shrink"
    <3>1. Shrinking(x)'
      BY <1>1, <2>2, <2>3, <2>5, <2>8 DEF TxInv, Shrinking, Calm, Wiped, Inside, Before, LocalsKept
    <3> QED
      BY <1>1, <2>1, <2>3, <2>8, <3>1 DEF TxInv, LocalsKept, Waiting
  <2>9. CASE pc[x] = "flush"
    <3>1. ~Purges(x)
      BY <2>1, <2>9 DEF TxInv, UserPurged
    <3>2. Flushing(x)'
      BY <1>1, <2>1, <2>2, <2>9, <3>1, PlanSurvives DEF TxInv, Inside
    <3> QED
      BY <1>1, <2>1, <2>3, <2>9, <3>1, <3>2 DEF TxInv, LocalsKept, Waiting
  <2>10. pc[x] \notin {"drop", "recompute", "purgeLedger", "purgeUser"}
    BY <2>1 DEF TxInv, Dropping, Recomputing, HoldingsPurged, LedgerPurged
  <2> QED
    BY <2>6, <2>7, <2>8, <2>9, <2>10 DEF TypeOK, Labels, Waiting
<1> QED
  BY <1>2, <1>3

-----------------------------------------------------------------------------
(* The plans of the handlers.                                              *)

\* One statement inserts all the new positions.
LEMMA InsertSets ==
  ASSUME NEW q \in [Tickers -> Nat], NEW S \in SUBSET Tickers, \A t \in S : q[t] # 0
  PROVE  /\ \A s \in InsertNew(q, S) : s.do = "insert" /\ Scope(s.rows) = S
         /\ \A s \in InsertNew(q, S), t \in Tickers : s.rows[t] # 0 => t \in S /\ s.rows[t] = q[t]
         /\ \A t \in Tickers : Spared(InsertNew(q, S), t) => t \notin S
         /\ S # {} => Checks(InsertNew(q, S))
<1>1. \A t \in Tickers : Only(q, S)[t] = IF t \in S THEN q[t] ELSE 0
  BY DEF Only
<1>2. \A s \in InsertNew(q, S) : s.do = "insert" /\ s.rows = Only(q, S)
  BY DEF InsertNew
<1>3. Scope(Only(q, S)) = S
  BY <1>1 DEF Scope
<1>4. S # {} => [do |-> "insert", rows |-> Only(q, S)] \in InsertNew(q, S)
  BY DEF InsertNew
<1> QED
  BY <1>1, <1>2, <1>3, <1>4 DEF Spared, Checks

\* A statement for each position changed.
LEMMA ChangeSets ==
  ASSUME NEW what \in {"update", "delete"}, NEW q \in [Tickers -> Nat],
         NEW S \in SUBSET Tickers, \A t \in S : q[t] # 0
  PROVE  /\ \A s \in Change(what, q, S) : s.do = what /\ Scope(s.rows) # {}
         /\ \A s \in Change(what, q, S), t \in Tickers : s.rows[t] # 0 => t \in S /\ s.rows[t] = q[t]
         /\ \A t \in Tickers : Spared(Change(what, q, S), t) => t \notin S
         /\ S # {} /\ what = "update" => Checks(Change(what, q, S))
         /\ S = {} => Change(what, q, S) = {}
<1>1. \A x \in S, t \in Tickers : Only(q, {x})[t] = IF t = x THEN q[t] ELSE 0
  BY DEF Only
<1>2. ASSUME NEW s \in Change(what, q, S)
      PROVE  s.do = what /\ \E x \in S : s.rows = Only(q, {x})
  <2>1. PICK x \in S : s = [do |-> what, rows |-> Only(q, {x})]
    BY DEF Change
  <2> QED
    BY <2>1
<1>3. \A x \in S : x \in Scope(Only(q, {x}))
  BY <1>1 DEF Scope
<1>4. ASSUME NEW x \in S
      PROVE  \E s \in Change(what, q, S) : s.do = what /\ s.rows = Only(q, {x})
  <2>1. [do |-> what, rows |-> Only(q, {x})] \in Change(what, q, S)
    BY DEF Change
  <2> QED
    BY <2>1
<1>5. \A t \in Tickers : Spared(Change(what, q, S), t) => t \notin S
  BY <1>1, <1>4 DEF Spared
<1>6. S # {} /\ what = "update" => Checks(Change(what, q, S))
  BY <1>4 DEF Checks
<1>7. S = {} => Change(what, q, S) = {}
  BY DEF Change
<1>8. \A s \in Change(what, q, S), t \in Tickers : s.rows[t] # 0 => t \in S /\ s.rows[t] = q[t]
  <2> SUFFICES ASSUME NEW s \in Change(what, q, S), NEW t \in Tickers, s.rows[t] # 0
               PROVE  t \in S /\ s.rows[t] = q[t]
    OBVIOUS
  <2>1. PICK x \in S : s.rows = Only(q, {x})
    BY <1>2
  <2> QED
    BY <1>1, <2>1
<1>9. \A s \in Change(what, q, S) : s.do = what /\ Scope(s.rows) # {}
  BY <1>2, <1>3
<1> QED
  BY <1>5, <1>6, <1>7, <1>8, <1>9

\* Both: every position of S is set to what q says, and no other.
LEMMA UpsertSets ==
  ASSUME NEW h \in [Tickers -> Nat], NEW q \in [Tickers -> Nat],
         NEW S \in SUBSET Tickers, \A t \in S : q[t] # 0
  PROVE  /\ \A s \in Upsert(h, q, S) : s.do \in {"insert", "update"} /\ Scope(s.rows) # {}
         /\ \A s \in Upsert(h, q, S), t \in Tickers : s.rows[t] # 0 => t \in S /\ s.rows[t] = q[t]
         /\ \A t \in Tickers : Spared(Upsert(h, q, S), t) => t \notin S
         /\ S # {} => Checks(Upsert(h, q, S))
<1> DEFINE new == {t \in S : h[t] = 0}
           old == {t \in S : h[t] # 0}
<1>1. new \subseteq Tickers /\ old \subseteq Tickers /\ S = new \cup old
  OBVIOUS
<1>2. Upsert(h, q, S) = InsertNew(q, new) \cup Change("update", q, old)
  BY DEF Upsert
<1>3. /\ \A s \in InsertNew(q, new) : s.do = "insert" /\ Scope(s.rows) = new
      /\ \A s \in InsertNew(q, new), t \in Tickers : s.rows[t] # 0 => t \in new /\ s.rows[t] = q[t]
      /\ \A t \in Tickers : Spared(InsertNew(q, new), t) => t \notin new
      /\ new # {} => Checks(InsertNew(q, new))
  BY <1>1, InsertSets
<1>4. new = {} => InsertNew(q, new) = {}
  BY DEF InsertNew
<1>5. /\ \A s \in Change("update", q, old) : s.do = "update" /\ Scope(s.rows) # {}
      /\ \A s \in Change("update", q, old), t \in Tickers :
           s.rows[t] # 0 => t \in old /\ s.rows[t] = q[t]
      /\ \A t \in Tickers : Spared(Change("update", q, old), t) => t \notin old
      /\ old # {} => Checks(Change("update", q, old))
  BY <1>1, ChangeSets
<1> HIDE DEF new, old
<1>6. \A t \in Tickers : Spared(Upsert(h, q, S), t) => t \notin S
  BY <1>1, <1>2, <1>3, <1>5 DEF Spared
<1>7. S # {} => Checks(Upsert(h, q, S))
  BY <1>1, <1>2, <1>3, <1>5 DEF Checks
<1> QED
  BY <1>1, <1>2, <1>3, <1>4, <1>5, <1>6, <1>7

\* The positions a handler reads are the committed ones.
LEMMA ReadsMine ==
  ASSUME TypeOK, NEW r \in Reqs, Reading(r)
  PROVE  Holding(r) = Mine(r)
<1> DEFINE st == IF Asks(r, Resolvers) THEN db.stocks \cup Scope(Wanted(r)) ELSE db.stocks
           b == BookOf(r, db.users, st, Mine(r), db.ledger)
<1>1. b.hold[who[r]] = Mine(r)
  <2> HIDE DEF st
  <2> QED
    BY BookParts
<1>2. View(r) = b
  BY DEF Reading
<1> QED
  BY <1>1, <1>2 DEF Holding

\* The account of r is gone: so are its positions and its rows.
LEMMA GoneHolds ==
  ASSUME ClosedInv, NEW r \in Reqs, ~Present(r)
  PROVE  Mine(r) = Nothing /\ \A w \in db.ledger : w.user # who[r]
  BY RequestTypes DEF ClosedInv, Closed, Owns, Present, Mine

\* A plan that sets what the request means, made from the rows just read.
LEMMA PlanFlushes ==
  ASSUME TypeOK, NEW r \in Reqs, Reading(r), ~Purges(r), ~Asks(r, {"sell", "undo"}),
         NEW P, Plan(r, P),
         \A s \in P : s.do # "record" => Scope(s.rows) # {},
         Present(r) \/ ~Checks(P) =>
           Aims(r, P) /\ \A t \in Tickers : Spared(P, t) => PositionAfter(r, t) = Mine(r)[t],
         Asks(r, Recording) => Records(P),
         NeedsAccount(r) => Checks(P),
         Asks(r, {"seed"}) /\ ~Present(r) /\ ~Checks(P) => Scope(Wanted(r)) = {}
  PROVE  Flushing(r)'
<1>1. /\ SameRequests /\ db' = db /\ writer' = writer /\ View(r)' = View(r)
      /\ Holding(r)' = Holding(r) /\ plan'[r] = P
  BY DEF Plan, Proceed, dbVars, SameRequests, View, Holding, TypeOK
<1> DEFINE st == IF Asks(r, Resolvers) THEN db.stocks \cup Scope(Wanted(r)) ELSE db.stocks
<1>2. View(r) = BookOf(r, db.users, st, Mine(r), db.ledger)
  BY DEF Reading
<1>3. View(r).stocks = st /\ View(r).ledger = db.ledger /\ Holding(r) = Mine(r)
  <2>1. View(r).stocks = st /\ View(r).ledger = db.ledger
    BY <1>2 DEF BookOf
  <2> QED
    BY <2>1, ReadsMine
<1>4. View(r) = BookOf(r, db.users, View(r).stocks, Holding(r), View(r).ledger)
  BY <1>2, <1>3
<1>5. Unwritten(r)'
  BY <1>1, SameMeaning DEF Unwritten, Asks
<1>6. CASE ~Present(r) /\ Checks(P)
  <2>1. Doomed(r)'
    BY <1>1, <1>6, SameMeaning DEF Doomed
  <2> QED
    BY <1>1, <1>4, <1>5, <2>1, SameMeaning DEF Flushing
<1>7. CASE Present(r) \/ ~Checks(P)
  <2>1. Allowed(r)
    BY <1>7 DEF Allowed, Asks
  <2>2. st = StocksAfter(r)
    BY <1>7 DEF StocksAfter, Asks, Creating, Resolvers
  <2>3. db.ledger = IF Records(P) THEN db.ledger ELSE LedgerAfter(r)
    BY DEF LedgerAfter, Asks
  <2>4. Aims(r, P) /\ \A t \in Tickers : Spared(P, t) => PositionAfter(r, t) = Mine(r)[t]
    BY <1>7
  <2>5. OnTrack(r)'
    <3> HIDE DEF st
    <3> QED
      BY <1>1, <1>3, <2>1, <2>2, <2>3, <2>4, SameMeaning DEF OnTrack
  <2> QED
    BY <1>1, <1>4, <1>5, <2>5, SameMeaning DEF Flushing
<1> QED
  BY <1>6, <1>7

\* Trades, new positions and imports: the tickers asked for are inserted or
\* updated.
LEMMA UpsertFlushes ==
  ASSUME TypeOK, ClosedInv, NEW r \in Reqs, Reading(r),
         PlanBuy(r) \/ PlanAdd(r) \/ PlanDividend(r) \/ PlanImport(r)
  PROVE  Flushing(r)'
<1> DEFINE h == Holding(r)
           q == Wanted(r)
           S == Scope(Wanted(r))
           new == IF Asks(r, {"import"}) THEN q ELSE Merged(h, q)
           sets == IF Asks(r, {"dividend"}) THEN {} ELSE Upsert(h, new, S)
           notes == IF Asks(r, {"buy", "dividend"}) THEN Record(r) ELSE {}
           P == sets \cup notes
<1>1. /\ Asks(r, {"buy", "add", "dividend", "import"}) /\ Plan(r, P)
  <2>1. CASE PlanBuy(r)
    BY <2>1 DEF PlanBuy, Reads, Asks
  <2>2. CASE PlanAdd(r)
    <3>1. Plan(r, Upsert(h, Merged(h, q), S)) /\ P = Upsert(h, Merged(h, q), S)
      BY <2>2 DEF PlanAdd, Reads, Asks
    <3> QED
      BY <2>2, <3>1 DEF PlanAdd, Reads, Asks
  <2>3. CASE PlanDividend(r)
    BY <2>3 DEF PlanDividend, Reads, Asks
  <2>4. CASE PlanImport(r)
    <3>1. Plan(r, Upsert(h, q, S)) /\ P = Upsert(h, q, S)
      BY <2>4 DEF PlanImport, Reads, Asks
    <3> QED
      BY <2>4, <3>1 DEF PlanImport, Reads, Asks
  <2> QED
    BY <2>1, <2>2, <2>3, <2>4
<1>2. ~Purges(r) /\ ~Asks(r, {"sell", "undo", "seed"})
  BY <1>1 DEF Purges, Asks
<1>3. /\ h \in [Tickers -> Nat] /\ q \in [Tickers -> Nat] /\ h = Mine(r) /\ S \subseteq Tickers
  BY RequestTypes, ViewTypes, ReadsMine
<1>4. new \in [Tickers -> Nat] /\ \A t \in Tickers : new[t] = IF Asks(r, {"import"}) THEN q[t] ELSE h[t] + q[t]
  BY <1>3 DEF Merged
<1>5. \A t \in S : new[t] # 0
  BY <1>3, <1>4 DEF Scope
<1>6. \A t \in Tickers : IF Asks(r, {"dividend"}) \/ t \notin S THEN PositionAfter(r, t) = Mine(r)[t]
                                                               ELSE PositionAfter(r, t) = new[t]
  BY <1>1, <1>3, <1>4 DEF PositionAfter, Asks, Scope
<1>7. /\ \A s \in notes : s.do = "record" /\ s.rows = q /\ Asks(r, Recording)
      /\ notes # {} => Records(P)
      /\ Asks(r, Recording) => notes # {}
  <2>1. \A s \in Record(r) : s.do = "record" /\ s.rows = q
    BY DEF Record
  <2>2. Record(r) # {}
    BY DEF Record
  <2>3. Asks(r, Recording) <=> Asks(r, {"buy", "dividend"})
    BY <1>1 DEF Asks, Recording
  <2> HIDE DEF sets
  <2> QED
    BY <2>1, <2>2, <2>3 DEF Records
<1>8. /\ \A s \in Upsert(h, new, S) : s.do \in {"insert", "update"} /\ Scope(s.rows) # {}
      /\ \A s \in Upsert(h, new, S), t \in Tickers : s.rows[t] # 0 => t \in S /\ s.rows[t] = new[t]
      /\ \A t \in Tickers : Spared(Upsert(h, new, S), t) => t \notin S
      /\ S # {} => Checks(Upsert(h, new, S))
  <2> HIDE DEF h, new, S
  <2> QED
    BY <1>3, <1>4, <1>5, UpsertSets
<1> HIDE DEF h, q, S, new
<1>9. \A s \in P : s.do # "record" => Scope(s.rows) # {}
  BY <1>7, <1>8
<1>10. Aims(r, P)
  BY <1>6, <1>7, <1>8 DEF Aims, q
<1>11. \A t \in Tickers : Spared(P, t) => PositionAfter(r, t) = Mine(r)[t]
  BY <1>6, <1>8 DEF Spared
<1>12. NeedsAccount(r) => Checks(P)
  <2>1. notes # {} => Checks(P)
    BY <1>7 DEF Checks
  <2>2. ~Asks(r, {"dividend"}) /\ S # {} => Checks(P)
    BY <1>8 DEF Checks
  <2>3. Asks(r, {"add"}) => S # {}
    BY OneTitleAssumption DEF TypeOK, Asks, S, Wanted
  <2> QED
    BY <1>7, <2>1, <2>2, <2>3 DEF NeedsAccount, Asks, Recording, S
<1> HIDE DEF P
<1> QED
  BY <1>1, <1>2, <1>7, <1>9, <1>10, <1>11, <1>12, PlanFlushes DEF Asks

\* The demo positions that are not there are inserted.
LEMMA SeedFlushes ==
  ASSUME TypeOK, ClosedInv, NEW r \in Reqs, Reading(r), PlanSeed(r)
  PROVE  Flushing(r)'
<1> DEFINE q == Wanted(r)
           S == {t \in Scope(Wanted(r)) : Holding(r)[t] = 0}
           P == InsertNew(q, S)
<1>1. Asks(r, {"seed"}) /\ Plan(r, P)
  BY DEF PlanSeed, Reads
<1>2. ~Purges(r) /\ ~Asks(r, {"sell", "undo"}) /\ ~Asks(r, Recording) /\ ~NeedsAccount(r)
  BY <1>1 DEF Purges, Asks, Recording, NeedsAccount
<1>3. q \in [Tickers -> Nat] /\ Holding(r) = Mine(r) /\ Mine(r) \in [Tickers -> Nat] /\ S \subseteq Tickers
  BY RequestTypes, MeaningTypes, ReadsMine
<1>4. \A t \in Tickers : t \in S <=> q[t] # 0 /\ Mine(r)[t] = 0
  BY <1>3 DEF Scope
<1>5. \A t \in Tickers : PositionAfter(r, t) = IF t \in S /\ Present(r) THEN q[t] ELSE Mine(r)[t]
  BY <1>1, <1>4 DEF PositionAfter, Asks
<1>6. ~Present(r) => S = Scope(q)
  <2>1. ~Present(r) => \A t \in Tickers : Mine(r)[t] = 0
    BY GoneHolds DEF Nothing
  <2> QED
    BY <1>3, <2>1 DEF Scope
<1> HIDE DEF S
<1>7. /\ \A s \in P : s.do = "insert" /\ Scope(s.rows) = S
      /\ \A s \in P, t \in Tickers : s.rows[t] # 0 => t \in S /\ s.rows[t] = q[t]
      /\ \A t \in Tickers : Spared(P, t) => t \notin S
      /\ S # {} => Checks(P)
  <2> HIDE DEF q
  <2> QED
    BY <1>3, <1>4, InsertSets
<1>8. S = {} => P = {}
  BY DEF InsertNew
<1> HIDE DEF P, q
<1>9. \A s \in P : s.do # "record" => Scope(s.rows) # {}
  BY <1>7, <1>8
<1>10. Present(r) \/ ~Checks(P) => Aims(r, P)
  BY <1>5, <1>7, <1>8, <1>9 DEF Aims
<1>11. \A t \in Tickers : Spared(P, t) => PositionAfter(r, t) = Mine(r)[t]
  BY <1>5, <1>7
<1>12. ~Present(r) /\ ~Checks(P) => Scope(Wanted(r)) = {}
  BY <1>6, <1>7 DEF q
<1> QED
  BY <1>1, <1>2, <1>9, <1>10, <1>11, <1>12, PlanFlushes

\* The positions that are there are updated or deleted.
LEMMA ChangeFlushes ==
  ASSUME TypeOK, ClosedInv, NEW r \in Reqs, Reading(r), PlanUpdate(r) \/ PlanRemove(r)
  PROVE  Flushing(r)'
<1> DEFINE q == Wanted(r)
           S == {t \in Scope(Wanted(r)) : Holding(r)[t] # 0}
           what == IF Asks(r, {"remove"}) THEN "delete" ELSE "update"
           P == Change(what, q, S)
<1>1. Asks(r, {"update", "batch", "remove"}) /\ Plan(r, P)
  BY DEF PlanUpdate, PlanRemove, Reads, Asks
<1>2. /\ ~Purges(r) /\ ~Asks(r, {"sell", "undo"}) /\ ~Asks(r, Recording) /\ ~NeedsAccount(r)
      /\ ~Asks(r, {"seed"})
  BY <1>1 DEF Purges, Asks, Recording, NeedsAccount
<1>3. q \in [Tickers -> Nat] /\ Holding(r) = Mine(r) /\ Mine(r) \in [Tickers -> Nat] /\ S \subseteq Tickers
  BY RequestTypes, MeaningTypes, ReadsMine
<1>4. \A t \in Tickers : t \in S <=> q[t] # 0 /\ Mine(r)[t] # 0
  BY <1>3 DEF Scope
<1>5. \A t \in Tickers : PositionAfter(r, t) = IF t \notin S THEN Mine(r)[t]
                                               ELSE IF what = "delete" THEN 0 ELSE q[t]
  BY <1>1, <1>4 DEF PositionAfter, Asks
<1> HIDE DEF S
<1>6. what \in {"update", "delete"}
  OBVIOUS
<1>7. /\ \A s \in P : s.do = what /\ Scope(s.rows) # {}
      /\ \A s \in P, t \in Tickers : s.rows[t] # 0 => t \in S /\ s.rows[t] = q[t]
      /\ \A t \in Tickers : Spared(P, t) => t \notin S
  <2> HIDE DEF q, what
  <2> QED
    BY <1>3, <1>4, <1>6, ChangeSets
<1> HIDE DEF P, q, what
<1>8. Aims(r, P)
  BY <1>5, <1>6, <1>7 DEF Aims
<1>9. \A t \in Tickers : Spared(P, t) => PositionAfter(r, t) = Mine(r)[t]
  BY <1>5, <1>7
<1> QED
  BY <1>1, <1>2, <1>7, <1>8, <1>9, PlanFlushes

\* The position of a deleted trade is recomputed from the rows that are left.
LEMMA RecomputeFlushes ==
  ASSUME TypeOK, ClosedInv, RowsInv, NEW r \in Reqs, Recomputing(r), PlanRecompute(r)
  PROVE  Flushing(r)'
<1> DEFINE S == Scope(ask[ask[r].tx].rows)
           total == [t \in Tickers |-> Recomputed(View(r), who[r], t)]
           none == {t \in S : total[t] = 0}
           some == S \ none
           drop == {t \in none : Holding(r)[t] # 0}
           h == Holding(r)
           P == Upsert(h, total, some) \cup Change("delete", h, drop)
<1>1. /\ Plan(r, P) /\ Asks(r, {"undo"}) /\ writer = r
      /\ View(r) = BookOf(r, db.users, db.stocks, Mine(r), db.ledger \ Gone(r))
      /\ Gone(r) # {} \/ ~Present(r)
  BY DEF PlanRecompute, Recomputing, Found
<1>2. /\ SameRequests /\ db' = db /\ writer' = writer /\ View(r)' = View(r)
      /\ Holding(r)' = Holding(r) /\ plan'[r] = P
  BY <1>1 DEF Plan, Proceed, dbVars, SameRequests, View, Holding, TypeOK
<1>3. View(r).stocks = db.stocks /\ View(r).ledger = db.ledger \ Gone(r) /\ Holding(r) = Mine(r)
  BY <1>1, BookParts DEF Holding
<1>4. View(r) = Left(r)
  <2>1. db = BookOf(r, db.users, db.stocks, Mine(r), db.ledger)
    BY BookIsDb
  <2>2. [BookOf(r, db.users, db.stocks, Mine(r), db.ledger) EXCEPT !.ledger = db.ledger \ Gone(r)]
        = BookOf(r, db.users, db.stocks, Mine(r), db.ledger \ Gone(r))
    BY DEF BookOf
  <2>3. Left(r) = [db EXCEPT !.ledger = db.ledger \ Gone(r)]
    BY DEF Left
  <2> QED
    BY <1>1, <2>1, <2>2, <2>3
<1>5. /\ h \in [Tickers -> Nat] /\ h = Mine(r) /\ total \in [Tickers -> Nat]
      /\ S \subseteq Tickers /\ some \subseteq Tickers /\ drop \subseteq Tickers
      /\ \A t \in Tickers : total[t] = Recomputed(Left(r), who[r], t)
  BY <1>3, <1>4, ViewTypes, RecomputedType DEF Scope
<1>6. /\ \A t \in Tickers : t \in some <=> t \in S /\ total[t] # 0
      /\ \A t \in Tickers : t \in drop <=> t \in S /\ total[t] = 0 /\ h[t] # 0
  BY <1>5
<1> HIDE DEF h, total, none, some, drop
<1>7. /\ \A s \in Upsert(h, total, some) : s.do \in {"insert", "update"} /\ Scope(s.rows) # {}
      /\ \A s \in Upsert(h, total, some), t \in Tickers :
           s.rows[t] # 0 => t \in some /\ s.rows[t] = total[t]
      /\ \A t \in Tickers : Spared(Upsert(h, total, some), t) => t \notin some
      /\ some # {} => Checks(Upsert(h, total, some))
  BY <1>5, <1>6, UpsertSets
<1>8. /\ \A s \in Change("delete", h, drop) : s.do = "delete" /\ Scope(s.rows) # {}
      /\ \A s \in Change("delete", h, drop), t \in Tickers : s.rows[t] # 0 => t \in drop
      /\ \A t \in Tickers : Spared(Change("delete", h, drop), t) => t \notin drop
      /\ drop = {} => Change("delete", h, drop) = {}
  BY <1>5, <1>6, ChangeSets
<1>9. /\ \A s \in P : Scope(s.rows) # {} /\ s.do # "record"
      /\ some # {} => Checks(P)
      /\ \A t \in Tickers : Spared(P, t) => t \notin some /\ t \notin drop
  BY <1>7, <1>8 DEF Checks, Spared
<1>10. ~Purges(r) /\ Allowed(r)
  BY <1>1 DEF Purges, Asks, Allowed, NeedsAccount, Recording
<1>11. StocksAfter(r) = db.stocks /\ LedgerAfter(r) = db.ledger \ Gone(r)
  BY <1>1 DEF StocksAfter, LedgerAfter, Asks, Creating, Recording
<1>12. \A t \in Tickers : PositionAfter(r, t) =
         IF \E w \in Gone(r) : w.rows[t] # 0 THEN total[t] ELSE h[t]
  BY <1>1, <1>5 DEF PositionAfter, Asks
<1>13. CASE Gone(r) # {}
  <2>1. \A t \in Tickers : t \in S <=> \E w \in Gone(r) : w.rows[t] # 0
    BY <1>13 DEF Gone, RowsOf, RowsInv, Honest, TradeRow, Scope
  <2>2. Aims(r, P)
    <3> HIDE DEF S
    <3> QED
      BY <1>6, <1>7, <1>8, <1>9, <1>12, <2>1 DEF Aims
  <2>3. \A t \in Tickers : Spared(P, t) => PositionAfter(r, t) = Mine(r)[t]
    <3> HIDE DEF S, P
    <3> QED
      BY <1>5, <1>6, <1>9, <1>12, <2>1
  <2> HIDE DEF S, P
  <2>4. ~Records(P)
    BY <1>9 DEF Records
  <2>5. OnTrack(r)'
    BY <1>2, <1>3, <1>10, <1>11, <2>2, <2>3, <2>4, SameMeaning DEF OnTrack
  <2> QED
    BY <1>1, <1>2, <1>3, <1>10, <2>5, SameMeaning DEF Flushing
<1>14. CASE Gone(r) = {} /\ ~Present(r)
  <2>1. \A t \in Tickers : h[t] = 0
    BY <1>5, <1>14, GoneHolds DEF Nothing
  <2>2. drop = {}
    BY <1>5, <1>6, <2>1
  <2> HIDE DEF S
  <2>3. CASE some # {}
    <3> HIDE DEF P
    <3>1. Doomed(r)'
      BY <1>2, <1>9, <1>14, <2>3, SameMeaning DEF Doomed
    <3> QED
      BY <1>1, <1>2, <1>3, <1>10, <3>1, SameMeaning DEF Flushing
  <2>4. CASE some = {}
    <3>1. P = {}
      BY <1>7, <1>8, <2>2, <2>4 DEF Upsert, InsertNew, Change
    <3> HIDE DEF P
    <3>2. Aims(r, P) /\ ~Records(P)
      BY <3>1 DEF Aims, Records
    <3>3. \A t \in Tickers : PositionAfter(r, t) = Mine(r)[t]
      BY <1>5, <1>12, <1>14
    <3>4. OnTrack(r)'
      BY <1>2, <1>3, <1>10, <1>11, <3>2, <3>3, SameMeaning DEF OnTrack
    <3> QED
      BY <1>1, <1>2, <1>3, <1>10, <3>4, SameMeaning DEF Flushing
  <2> QED
    BY <2>3, <2>4
<1> QED
  BY <1>1, <1>13, <1>14

\* A statement that is flushed leaves the others on their way.
LEMMA FlushKeeps ==
  ASSUME TypeOK, ClosedInv, ~Autocommit, NEW r \in Reqs, NEW s \in plan[r], Flush(r, s), Flushing(r)
  PROVE  Flushing(r)'
<1> DEFINE Q == plan[r] \ {s}
<1>1. /\ SameRequests /\ db' = db /\ writer' = r /\ View(r)' = After(r, s) /\ plan'[r] = Q
      /\ ~BreaksConstraint(r, s) /\ ~FindsNoRow(r, s)
  BY WriteLeaves DEF Flush, SameRequests, TypeOK
<1>2. /\ s \in Statement /\ Q \subseteq Statement /\ Holding(r) \in [Tickers -> Nat]
      /\ Holding(r) = View(r).hold[who[r]] /\ who[r] \in Users
  BY ViewTypes, RequestTypes DEF TypeOK, Holding
<1> DEFINE v == View(r)
<1>3. v = BookOf(r, db.users, v.stocks, Holding(r), v.ledger) /\ v \in BookType
  BY ViewTypes DEF Flushing
<1>4. v.users = db.users
  <2> HIDE DEF v
  <2> QED
    BY <1>3 DEF BookOf
<1> DEFINE c == After(r, s)
           h == c.hold[who[r]]
\* What the statement does to each part of the rows r sees.
<1>5. /\ c = BookOf(r, db.users, v.stocks, h, c.ledger) /\ c.stocks = v.stocks
      /\ s.do = "record" => h = Holding(r) /\ c.ledger = v.ledger \cup {TradeRow(r, who[r], ask[r])}
      /\ s.do # "record" => c.ledger = v.ledger
      /\ s.do # "record" => \A t \in Tickers :
           h[t] = IF s.rows[t] = 0 THEN Holding(r)[t] ELSE IF s.do = "delete" THEN 0 ELSE s.rows[t]
  <2>1. c \in BookType
    BY <1>2, AfterType
  <2>2. /\ c.users = v.users /\ c.stocks = v.stocks
        /\ \A u \in Users \ {who[r]} : c.hold[u] = v.hold[u]
    BY <1>2, <1>3 DEF After, BookType, Statement
  <2>3. \A u \in Users \ {who[r]} : v.hold[u] = db.hold[u]
    <3> HIDE DEF v
    <3>1. v.hold = [db.hold EXCEPT ![who[r]] = Holding(r)]
      BY <1>3 DEF BookOf
    <3> QED
      BY <1>2, <3>1 DEF TypeOK, BookType
  <2>4. s.do = "record" => h = Holding(r) /\ c.ledger = v.ledger \cup {TradeRow(r, who[r], ask[r])}
    BY <1>2, <1>3 DEF After, BookType
  <2>5. s.do # "record" => c.ledger = v.ledger
    BY <1>2, <1>3 DEF After, BookType, Statement
  <2>6. ASSUME s.do # "record", NEW t \in Tickers
        PROVE  h[t] = IF s.rows[t] = 0 THEN Holding(r)[t] ELSE IF s.do = "delete" THEN 0 ELSE s.rows[t]
    BY <1>2, <1>3, <2>6 DEF After, BookType, Statement
  <2> HIDE DEF c, v
  <2>7. c = BookOf(r, c.users, c.stocks, h, c.ledger)
    BY <2>1, <2>2, <2>3, BookEquals
  <2> QED
    BY <1>4, <2>2, <2>4, <2>5, <2>6, <2>7
<1>6. View(r)' = c /\ Holding(r)' = h
  BY <1>1 DEF Holding, SameRequests
<1> HIDE DEF c, h, v, Q
<1>7. ASSUME OnTrack(r) PROVE OnTrack(r)'
  <2>1. /\ v.stocks = StocksAfter(r) /\ Aims(r, plan[r]) /\ Allowed(r)
        /\ v.ledger = IF Records(plan[r]) THEN db.ledger ELSE LedgerAfter(r)
        /\ \A t \in Tickers : Spared(plan[r], t) => Holding(r)[t] = PositionAfter(r, t)
    BY <1>7 DEF OnTrack, v
  <2>2. Aims(r, Q)
    BY <2>1 DEF Aims, Q
  <2>3. CASE s.do = "record"
    <3>1. \A x \in plan[r] : x.do = "record" => x = s
      BY <2>1, <2>3 DEF Aims, TypeOK, Statement
    <3>2. Records(plan[r]) /\ ~Records(Q)
      BY <2>3, <3>1 DEF Records, Q
    <3>3. c.ledger = LedgerAfter(r)
      <4>1. Asks(r, Recording)
        BY <2>1, <2>3 DEF Aims
      <4>2. LedgerAfter(r) = db.ledger \cup {TradeRow(r, who[r], ask[r])}
        BY <4>1 DEF LedgerAfter, Asks, Recording
      <4> QED
        BY <1>5, <2>1, <2>3, <3>2, <4>2
    <3>4. \A t \in Tickers : Spared(Q, t) => h[t] = PositionAfter(r, t)
      BY <1>5, <2>1, <2>3 DEF Spared, Q
    <3> QED
      BY <1>1, <1>5, <1>6, <2>1, <2>2, <3>2, <3>3, <3>4, SameMeaning DEF OnTrack
  <2>4. CASE s.do # "record"
    <3>1. Records(Q) <=> Records(plan[r])
      BY <2>4 DEF Records, Q
    <3>2. \A t \in Tickers : Spared(Q, t) => h[t] = PositionAfter(r, t)
      <4> SUFFICES ASSUME NEW t \in Tickers, Spared(Q, t) PROVE h[t] = PositionAfter(r, t)
        OBVIOUS
      <4>1. CASE s.rows[t] = 0
        <5>1. Spared(plan[r], t)
          BY <4>1 DEF Spared, Q
        <5> QED
          BY <1>5, <2>1, <2>4, <4>1, <5>1
      <4>2. CASE s.rows[t] # 0
        BY <1>5, <2>1, <2>4, <4>2 DEF Aims
      <4> QED
        BY <4>1, <4>2
    <3> QED
      BY <1>1, <1>5, <1>6, <2>1, <2>2, <2>4, <3>1, <3>2, SameMeaning DEF OnTrack
  <2> QED
    BY <2>3, <2>4
<1>8. ASSUME Doomed(r) PROVE Doomed(r)'
  <2>1. who[r] \notin v.users /\ Holding(r) = Nothing
    BY <1>4, <1>8, PurgedHolds DEF Doomed, Present, v
  <2>2. s.do \notin {"insert", "record"}
    BY <1>1, <2>1 DEF BreaksConstraint, v
  <2>3. s.do # "update"
    <3>1. s.do # "record" => Scope(s.rows) # {}
      BY <1>8 DEF Doomed
    <3> QED
      BY <1>1, <2>1, <3>1 DEF FindsNoRow, Nothing, Scope
  <2>4. s.do = "delete"
    BY <1>2, <2>2, <2>3 DEF Statement
  <2>5. Checks(Q)
    BY <1>8, <2>4 DEF Doomed, Checks, Q
  <2> QED
    BY <1>1, <1>8, <2>5, SameMeaning DEF Doomed, Q
<1> QED
  BY <1>1, <1>5, <1>6, <1>7, <1>8, SameMeaning DEF Flushing

\* A sale takes the shares it checked; what is left is dust or stays.
LEMMA ShrinkKeeps ==
  ASSUME TypeOK, ClosedInv, RowsInv, ~Autocommit, NEW r \in Reqs, Shrinking(r), Shrink(r)
  PROVE  \/ pc'[r] = "drop" /\ Dropping(r)'
         \/ pc'[r] = "flush" /\ Flushing(r)'
<1> DEFINE q == Wanted(r)
           left == [t \in Tickers |-> Holding(r)[t] - Wanted(r)[t]]
           dust == \E t \in Scope(Wanted(r)) : seen[r][t] - Wanted(r)[t] <= Dust
           v == View(r)
           c == [v EXCEPT !.hold[who[r]] = left]
<1>1. /\ SameRequests /\ db' = db /\ writer' = r /\ View(r)' = c /\ plan'[r] = Record(r)
      /\ pc'[r] = IF dust THEN "drop" ELSE "flush"
      /\ \A t \in Scope(q) : Holding(r)[t] >= q[t]
  BY WriteLeaves DEF Shrink, Proceed, Go, Guarded, SameRequests, TypeOK
<1>2. /\ Asks(r, {"sell"}) /\ ~Purges(r) /\ Holding(r) = Mine(r)
      /\ v = BookOf(r, db.users, db.stocks \cup Scope(q), Mine(r), db.ledger)
  BY ReadsMine DEF Shrinking, Reading, Asks, Resolvers, Purges
<1>3. /\ q \in [Tickers -> Nat] /\ Mine(r) \in [Tickers -> Nat]
      /\ \A t \in Tickers : Mine(r)[t] >= q[t]
      /\ \A t \in Tickers : left[t] = Mine(r)[t] - q[t]
  <2>1. q \in [Tickers -> Nat] /\ Mine(r) \in [Tickers -> Nat]
    BY RequestTypes, MeaningTypes
  <2>2. \A t \in Tickers : Mine(r)[t] >= q[t]
    BY <1>1, <1>2, <2>1 DEF Scope
  <2> QED
    BY <1>2, <2>1, <2>2
<1>4. Scope(q) # {} /\ \A t \in Scope(q) : t \in Tickers /\ q[t] > 0 /\ Mine(r)[t] > 0
  <2>1. Scope(q) # {}
    BY <1>2, OneTitleAssumption DEF TypeOK, Asks, Wanted
  <2> QED
    BY <1>3, <2>1 DEF Scope
<1>5. Present(r) /\ seen[r] = Mine(r)
  <2>1. Present(r)
    BY <1>4, GoneHolds DEF Nothing
  <2> QED
    BY <2>1 DEF Shrinking
<1>6. db.stocks \cup Scope(q) = db.stocks
  BY <1>4, RequestTypes DEF RowsInv, Referenced, Mine
<1>7. c = BookOf(r, db.users, db.stocks, left, db.ledger)
  <2> HIDE DEF left, q
  <2>1. v = BookOf(r, db.users, db.stocks, Mine(r), db.ledger)
    BY <1>2, <1>6
  <2> QED
    BY <2>1, BookStep
<1>8. View(r)' = BookOf(r, db.users, db.stocks, left, db.ledger)
  BY <1>1, <1>7
<1>9. CASE dust
  <2>1. \E t \in Scope(q) : Mine(r)[t] - q[t] <= Dust
    BY <1>5, <1>9
  <2>2. left = [t \in Tickers |-> Mine(r)[t] - Wanted(r)[t]]
    BY <1>2
  <2>3. left = [t \in Tickers |-> Mine(r)[t] - Wanted(r)[t]]'
    BY <1>1, <2>2, SameMeaning
  <2> HIDE DEF left, dust, c, v
  <2>4. View(r)' = BookOf(r, db.users, db.stocks,
                          [t \in Tickers |-> Mine(r)[t] - Wanted(r)[t]], db.ledger)'
    BY <1>1, <1>8, <2>3, SameMeaning
  <2>5. /\ \A t \in Tickers : Mine(r)'[t] >= Wanted(r)'[t]
        /\ \E t \in Scope(Wanted(r))' : Mine(r)'[t] - Wanted(r)'[t] <= Dust
    BY <1>1, <1>3, <2>1, SameMeaning
  <2>6. writer' = r /\ Asks(r, {"sell"})' /\ plan'[r] = Record(r)'
    BY <1>1, <1>2, SameMeaning
  <2>7. Dropping(r)'
    BY <2>4, <2>5, <2>6 DEF Dropping
  <2> QED
    BY <1>1, <1>9, <2>7
<1>10. CASE ~dust
  <2>1. \A t \in Scope(q) : left[t] > Dust
    BY <1>3, <1>4, <1>5, <1>10, DustAssumption
  <2>2. \A t \in Tickers : left[t] = PositionAfter(r, t)
    BY <1>2, <1>3, <2>1, DustAssumption DEF PositionAfter, Asks, Scope, Remainder
  <2>3. Aims(r, Record(r)) /\ Records(Record(r))
    BY <1>2 DEF Aims, Record, Records, Asks, Recording
  <2>4. Allowed(r)
    BY <1>3, <1>5 DEF Allowed
  <2>5. StocksAfter(r) = db.stocks
    BY <1>2 DEF StocksAfter, Asks, Creating
  <2> HIDE DEF left, c, v
  <2>6. View(r)'.stocks = db.stocks /\ View(r)'.ledger = db.ledger /\ View(r)'.hold[who[r]] = left
    BY <1>8, BookParts
  <2>7. Holding(r)' = left
    BY <1>1, <2>6 DEF Holding, SameRequests
  <2>8. OnTrack(r)'
    BY <1>1, <2>2, <2>3, <2>4, <2>5, <2>6, <2>7, SameMeaning DEF OnTrack
  <2>9. Flushing(r)'
    BY <1>1, <1>2, <1>8, <2>6, <2>7, <2>8, SameMeaning DEF Flushing
  <2> QED
    BY <1>1, <1>10, <2>9
<1> QED
  BY <1>9, <1>10

\* The row of a closed position goes: it held the dust of the one title sold.
LEMMA DropKeeps ==
  ASSUME TypeOK, ClosedInv, ~Autocommit, NEW r \in Reqs, Dropping(r), DropDust(r)
  PROVE  Flushing(r)'
<1> DEFINE q == Wanted(r)
           left == [t \in Tickers |-> Mine(r)[t] - Wanted(r)[t]]
           v == View(r)
           zero == [t \in Tickers |-> IF t \in Scope(Wanted(r)) THEN 0 ELSE v.hold[who[r]][t]]
           c == [v EXCEPT !.hold[who[r]] =
                   [t \in Tickers |-> IF t \in Scope(Wanted(r)) THEN 0 ELSE @[t]]]
<1>1. /\ SameRequests /\ db' = db /\ writer' = r /\ View(r)' = c /\ plan'[r] = Record(r)
      /\ Asks(r, {"sell"}) /\ ~Purges(r)
      /\ v = BookOf(r, db.users, db.stocks, left, db.ledger)
  BY WriteLeaves DEF Dropping, DropDust, Proceed, SameRequests, localVars, Asks, Purges
<1>2. /\ q \in [Tickers -> Nat] /\ Mine(r) \in [Tickers -> Nat]
      /\ \A t \in Tickers : Mine(r)[t] >= q[t]
      /\ \E t \in Scope(q) : Mine(r)[t] - q[t] <= Dust
  BY RequestTypes, MeaningTypes DEF Dropping
<1>3. PICK only \in Tickers : Scope(q) = {only}
  BY <1>1, OneTitleAssumption DEF TypeOK, Asks, Wanted
<1>4. /\ q[only] > 0 /\ Mine(r)[only] - q[only] <= Dust
      /\ \A t \in Tickers : t # only => q[t] = 0
  BY <1>2, <1>3 DEF Scope
<1>5. Present(r)
  BY <1>2, <1>4, GoneHolds DEF Nothing
<1>6. v.hold[who[r]] = left
  <2> HIDE DEF left, v
  <2> QED
    BY <1>1, BookParts
<1>7. \A t \in Tickers : zero[t] = PositionAfter(r, t)
  BY <1>1, <1>2, <1>3, <1>4, <1>6, DustAssumption DEF PositionAfter, Asks, Remainder
<1>8. c = BookOf(r, db.users, db.stocks, zero, db.ledger)
  <2>1. c = [v EXCEPT !.hold[who[r]] = zero]
    BY ViewTypes, RequestTypes DEF BookType
  <2> HIDE DEF zero, left, v, c
  <2> QED
    BY <1>1, <2>1, BookStep
<1>9. View(r)' = BookOf(r, db.users, db.stocks, zero, db.ledger)
  BY <1>1, <1>8
<1>10. Aims(r, Record(r)) /\ Records(Record(r))
  BY <1>1 DEF Aims, Record, Records, Asks, Recording
<1>11. Allowed(r)
  BY <1>2, <1>5 DEF Allowed
<1>12. StocksAfter(r) = db.stocks
  BY <1>1 DEF StocksAfter, Asks, Creating
<1> HIDE DEF zero, c, v, left
<1>13. View(r)'.stocks = db.stocks /\ View(r)'.ledger = db.ledger /\ View(r)'.hold[who[r]] = zero
  BY <1>9, BookParts
<1>14. Holding(r)' = zero
  BY <1>1, <1>13 DEF Holding, SameRequests
<1>15. OnTrack(r)'
  BY <1>1, <1>7, <1>10, <1>11, <1>12, <1>13, <1>14, SameMeaning DEF OnTrack
<1> QED
  BY <1>1, <1>9, <1>13, <1>14, <1>15, SameMeaning DEF Flushing

-----------------------------------------------------------------------------
(* The steps of a handler.                                                 *)

\* A handler that ends.
LEMMA EndKeeps ==
  ASSUME TypeOK, NEW r \in Reqs, NEW status, Finish(r, status), TxInv(r)
  PROVE  TxInv(r)'
  BY FinishLeaves DEF TxInv, Waiting, Inside, Before

\* A handler that goes on to a label where it has nothing open.
LEMMA WaitKeeps ==
  ASSUME SameRequests, applied' = applied, NEW r \in Reqs, r \notin applied,
         NEW label \in {"wait", "stock", "ensure", "refetch", "lookup", "purgeHoldings"},
         pc'[r] = label, writer' # r, plan'[r] = {},
         label # "purgeHoldings" => ~Purges(r),
         label \in {"stock", "ensure", "refetch"} => Asks(r, Resolvers),
         label = "lookup" => Asks(r, {"undo"})
  PROVE  TxInv(r)'
<1>1. Purges(r)' = Purges(r) /\ \A names : Asks(r, names)' = Asks(r, names)
  BY DEF SameRequests, Purges, Asks
<1> QED
  BY <1>1 DEF TxInv, Waiting, Inside, Before

\* A handler that has the stocks rows it needs and reads.
LEMMA ReadKeeps ==
  ASSUME TypeOK, SameRequests, db' = db, applied' = applied, NEW r \in Reqs, r \notin applied,
         pc'[r] = "read", plan'[r] = {}, ~Purges(r), NEW st,
         st = IF Asks(r, Resolvers) THEN db.stocks \cup Scope(Wanted(r)) ELSE db.stocks,
         View(r)' = BookOf(r, db.users, st, Mine(r), db.ledger)
  PROVE  TxInv(r)'
<1>1. Reading(r)'
  BY SameMeaning DEF Reading
<1>2. ~Purges(r)'
  BY SameMeaning
<1> QED
  BY <1>1, <1>2 DEF TxInv, Waiting, Inside, Before

\* A handler that flushes.
LEMMA FlushingKeeps ==
  ASSUME SameRequests, applied' = applied, NEW r \in Reqs, r \notin applied,
         pc'[r] = "flush", ~Purges(r), Flushing(r)'
  PROVE  TxInv(r)'
<1>1. ~Purges(r)'
  BY DEF SameRequests, Purges
<1> QED
  BY <1>1 DEF TxInv, Waiting, Inside, Before

\* The lock and the stocks rows.
LEMMA SessionKeeps ==
  ASSUME TypeOK, ~Autocommit, NEW r \in Reqs, TxInv(r), Session(r)
  PROVE  TxInv(r)'
<1>1. CASE StockRaceAgain(r) \/ UseExpiredUser(r)
  BY <1>1, EndKeeps DEF StockRaceAgain, UseExpiredUser
<1>2. CASE ~(StockRaceAgain(r) \/ UseExpiredUser(r))
  <2>1. /\ pc[r] \in {"wait", "stock", "ensure", "create", "refetch", "recreate"}
        /\ SameRequests /\ applied' = applied /\ plan'[r] = plan[r]
    BY <1>2 DEF Session, Acquire, FindStock, EnsureStocks, RefetchStocks, FetchStocks,
                CreateStocks, StockRace, At, Proceed, SameRequests, localVars
  <2>2. r \notin applied /\ plan'[r] = {} /\ writer # r /\ View(r) = db /\ ~Purges(r)
    BY <2>1 DEF TxInv, Waiting, View, Inside, Before
  <2>3. ask[r] \in Op
    BY RequestTypes
  <2>4. db = BookOf(r, db.users, db.stocks, Mine(r), db.ledger)
    BY BookIsDb
  <2>5. CASE Acquire(r)
    <3>1. db' = db /\ writer' = writer /\ View(r)' = db
      BY <2>2, <2>5 DEF Acquire, dbVars, View
    <3>2. pc'[r] = FirstStep(r)
      BY <2>5 DEF Acquire, Go, TypeOK
    <3>3. CASE Asks(r, {"update", "batch", "remove"})
      <4>1. pc'[r] = "read" /\ ~Asks(r, Resolvers)
        BY <3>2, <3>3 DEF FirstStep, Asks, Resolvers, Creating
      <4> QED
        BY <2>1, <2>2, <2>4, <3>1, <4>1, ReadKeeps
    <3>4. CASE ~Asks(r, {"update", "batch", "remove"})
      <4>1. /\ pc'[r] \in {"stock", "ensure", "lookup"}
            /\ pc'[r] \in {"stock", "ensure"} => Asks(r, Resolvers)
            /\ pc'[r] = "lookup" => Asks(r, {"undo"})
        BY <2>2, <2>3, <3>2, <3>4 DEF FirstStep, Asks, Resolvers, Creating, Op, Names, Purges
      <4> QED
        BY <2>1, <2>2, <3>1, <4>1, WaitKeeps
    <3> QED
      BY <3>3, <3>4
  <2>6. CASE FindStock(r)
    <3>1. db' = db /\ writer' = writer /\ View(r)' = db /\ Asks(r, Resolvers)
      BY <2>2, <2>6 DEF FindStock, dbVars, View, At, TxInv
    <3>2. pc'[r] = IF Scope(Wanted(r)) \subseteq db.stocks THEN "read" ELSE "ensure"
      BY <2>2, <2>6 DEF FindStock, Proceed, Go, TypeOK
    <3>3. CASE Scope(Wanted(r)) \subseteq db.stocks
      <4>1. db.stocks = db.stocks \cup Scope(Wanted(r))
        BY <3>3
      <4> QED
        BY <2>1, <2>2, <2>4, <3>1, <3>2, <3>3, <4>1, ReadKeeps
    <3>4. CASE ~(Scope(Wanted(r)) \subseteq db.stocks)
      BY <2>1, <2>2, <3>1, <3>2, <3>4, WaitKeeps
    <3> QED
      BY <3>3, <3>4
  <2>7. ASSUME NEW from \in {"ensure", "refetch"}, NEW to \in {"create", "recreate"},
               FetchStocks(r, from, to)
        PROVE  TxInv(r)'
    <3>1. db' = db /\ writer' = writer /\ View(r)' = db /\ Asks(r, Resolvers)
      BY <2>2, <2>7 DEF FetchStocks, dbVars, View, At, TxInv
    <3>2. /\ missing'[r] = Scope(Wanted(r)) \ db.stocks
          /\ pc'[r] = IF Scope(Wanted(r)) \ db.stocks = {} THEN "read" ELSE to
      BY <2>2, <2>7 DEF FetchStocks, Proceed, Go, TypeOK
    <3>3. CASE Scope(Wanted(r)) \ db.stocks = {}
      <4>1. db.stocks = db.stocks \cup Scope(Wanted(r))
        BY <3>3
      <4> QED
        BY <2>1, <2>2, <2>4, <3>1, <3>2, <3>3, <4>1, ReadKeeps
    <3>4. CASE Scope(Wanted(r)) \ db.stocks # {}
      <4>1. Resolving(r)'
        BY <2>1, <3>1, <3>2, SameMeaning DEF Resolving
      <4>2. ~Purges(r)' /\ Asks(r, Resolvers)'
        BY <2>1, <2>2, <3>1, SameMeaning
      <4> QED
        BY <2>1, <2>2, <3>1, <3>2, <3>4, <4>1, <4>2 DEF TxInv, Waiting, Inside, Before
    <3> QED
      BY <3>3, <3>4
  <2>8. CASE CreateStocks(r)
    <3>1. /\ Write(r, [db EXCEPT !.stocks = @ \cup missing[r]]) /\ pc'[r] = "read"
          /\ Asks(r, Resolvers) /\ Resolving(r)
      BY <2>2, <2>8 DEF CreateStocks, Proceed, Go, TypeOK, TxInv
    <3>2. db' = db /\ View(r)' = [db EXCEPT !.stocks = db.stocks \cup missing[r]]
      BY <3>1, WriteLeaves
    <3>3. db.stocks \cup missing[r] = db.stocks \cup Scope(Wanted(r))
      BY <3>1 DEF Resolving
    <3>4. [BookOf(r, db.users, db.stocks, Mine(r), db.ledger)
             EXCEPT !.stocks = db.stocks \cup Scope(Wanted(r))]
          = BookOf(r, db.users, db.stocks \cup Scope(Wanted(r)), Mine(r), db.ledger)
      BY DEF BookOf
    <3>5. View(r)' = BookOf(r, db.users, db.stocks \cup Scope(Wanted(r)), Mine(r), db.ledger)
      BY <2>4, <3>2, <3>3, <3>4
    <3> QED
      BY <2>1, <2>2, <3>1, <3>2, <3>5, ReadKeeps
  <2>9. CASE StockRace(r)
    <3>1. writer' # r /\ pc'[r] = "refetch" /\ Asks(r, Resolvers)
      BY <2>9, RollbackLeaves DEF StockRace, Proceed, Go, TypeOK, TxInv, At
    <3> QED
      BY <2>1, <2>2, <3>1, WaitKeeps
  <2> QED
    BY <1>2, <2>5, <2>6, <2>7, <2>8, <2>9 DEF Session, EnsureStocks, RefetchStocks
<1> QED
  BY <1>1, <1>2

\* What a handler plans.
LEMMA PlanningKeeps ==
  ASSUME TypeOK, ClosedInv, ~Autocommit, NEW r \in Reqs, TxInv(r), Planning(r)
  PROVE  TxInv(r)'
<1>1. pc[r] = "read" /\ Reading(r) /\ r \notin applied /\ ~Purges(r) /\ plan[r] = {}
  BY DEF Planning, PlanBuy, PlanAdd, PlanDividend, PlanImport, PlanSeed, PlanUpdate, PlanRemove,
         HoldingNotFound, CheckSell, RefuseSell, Reads, At, TxInv, Inside, Before
<1>2. CASE HoldingNotFound(r) \/ RefuseSell(r)
  BY <1>2, EndKeeps DEF HoldingNotFound, RefuseSell
<1>3. CASE CheckSell(r)
  <2>1. /\ SameRequests /\ applied' = applied /\ pc'[r] = "shrink" /\ seen'[r] = Holding(r)
        /\ db' = db /\ writer' = writer /\ View(r)' = View(r) /\ plan'[r] = {}
        /\ Asks(r, {"sell"})
    BY <1>1, <1>3 DEF CheckSell, Reads, Proceed, Go, TypeOK, SameRequests, dbVars, View
  <2>2. Shrinking(r)'
    BY <1>1, <2>1, ReadsMine, SameMeaning DEF Shrinking, Reading
  <2>3. ~Purges(r)'
    BY <1>1, <2>1, SameMeaning
  <2> QED
    BY <1>1, <2>1, <2>2, <2>3 DEF TxInv, Waiting, Inside, Before
<1>4. CASE ~(HoldingNotFound(r) \/ RefuseSell(r) \/ CheckSell(r))
  <2>1. Flushing(r)'
    BY <1>1, <1>4, UpsertFlushes, SeedFlushes, ChangeFlushes DEF Planning
  <2>2. SameRequests /\ applied' = applied /\ pc'[r] = "flush"
    <3>1. \E P : Plan(r, P)
      BY <1>4 DEF Planning, PlanBuy, PlanAdd, PlanDividend, PlanImport, PlanSeed, PlanUpdate,
                  PlanRemove
    <3> QED
      BY <3>1 DEF Plan, Proceed, Go, TypeOK, SameRequests
  <2> QED
    BY <1>1, <2>1, <2>2, FlushingKeeps
<1> QED
  BY <1>2, <1>3, <1>4

\* Sales, undos and commits.
LEMMA WritingKeeps ==
  ASSUME TypeOK, ClosedInv, LockInv, RowsInv, ~Autocommit, NEW r \in Reqs, TxInv(r), Writing(r)
  PROVE  TxInv(r)'
<1>1. CASE \E status : Finish(r, status)
  BY <1>1, EndKeeps
<1>2. CASE Shrink(r)
  <2>1. Shrinking(r) /\ r \notin applied /\ ~Purges(r)
    BY <1>2 DEF Shrink, At, TxInv, Inside, Before
  <2>2. SameRequests /\ applied' = applied /\ db' = db /\ writer' = r /\ plan'[r] = Record(r)
    BY <1>2, WriteLeaves DEF Shrink, Proceed, SameRequests, TypeOK
  <2>3. CASE pc'[r] = "drop" /\ Dropping(r)'
    <3>1. ~Purges(r)'
      BY <2>1, <2>2, SameMeaning
    <3> QED
      BY <2>1, <2>2, <2>3, <3>1 DEF TxInv, Waiting, Inside, Before
  <2>4. CASE pc'[r] = "flush" /\ Flushing(r)'
    BY <2>1, <2>2, <2>4, FlushingKeeps
  <2> QED
    BY <1>2, <2>1, <2>3, <2>4, ShrinkKeeps
<1>3. CASE DropDust(r)
  <2>1. Dropping(r) /\ r \notin applied /\ ~Purges(r)
    BY <1>3 DEF DropDust, At, TxInv, Inside, Before
  <2>2. SameRequests /\ applied' = applied /\ pc'[r] = "flush"
    BY <1>3 DEF DropDust, Proceed, Go, SameRequests, TypeOK
  <2> QED
    BY <1>3, <2>1, <2>2, DropKeeps, FlushingKeeps
<1>4. CASE LookupRow(r)
  <2>1. /\ r \notin applied /\ ~Purges(r) /\ writer # r /\ plan[r] = {} /\ Asks(r, {"undo"})
    BY <1>4 DEF LookupRow, At, TxInv, Waiting, Inside, Before
  <2>2. /\ SameRequests /\ applied' = applied /\ pc'[r] = "unledger" /\ db' = db /\ writer' = writer
        /\ plan' = plan
    BY <1>4 DEF LookupRow, Proceed, Go, SameRequests, TypeOK, dbVars, localVars
  <2>3. Found(r)
    BY <1>4, <2>1 DEF LookupRow, View, Found, Gone
  <2>4. Found(r)' /\ ~Purges(r)'
    BY <2>1, <2>2, <2>3, SameMeaning DEF Found
  <2> QED
    BY <2>1, <2>2, <2>4 DEF TxInv, Waiting, Inside, Before
<1>5. CASE Unledger(r)
  <2>1. /\ r \notin applied /\ ~Purges(r) /\ writer # r /\ plan[r] = {} /\ Found(r) /\ View(r) = db
    BY <1>5 DEF Unledger, At, TxInv, Waiting, Inside, Before, View
  <2>2. /\ SameRequests /\ applied' = applied /\ pc'[r] = "recompute" /\ db' = db /\ writer' = r
        /\ plan' = plan /\ View(r)' = [db EXCEPT !.ledger = @ \ Gone(r)]
    BY <1>5, <2>1, WriteLeaves DEF Unledger, Proceed, Go, SameRequests, TypeOK, localVars, Gone
  <2>3. View(r)' = BookOf(r, db.users, db.stocks, Mine(r), db.ledger \ Gone(r))
    <3>1. db = BookOf(r, db.users, db.stocks, Mine(r), db.ledger)
      BY BookIsDb
    <3>2. [BookOf(r, db.users, db.stocks, Mine(r), db.ledger) EXCEPT !.ledger = db.ledger \ Gone(r)]
          = BookOf(r, db.users, db.stocks, Mine(r), db.ledger \ Gone(r))
      BY DEF BookOf
    <3> QED
      BY <2>2, <3>1, <3>2
  <2>4. View(r)' = BookOf(r, db.users, db.stocks, Mine(r), db.ledger \ Gone(r))'
    BY <2>2, <2>3, SameMeaning
  <2>5. Found(r)' /\ ~Purges(r)'
    BY <2>1, <2>2, SameMeaning DEF Found
  <2>6. Recomputing(r)'
    BY <2>2, <2>4, <2>5 DEF Recomputing
  <2> QED
    BY <2>1, <2>2, <2>5, <2>6 DEF TxInv, Waiting, Inside, Before
<1>6. CASE PlanRecompute(r)
  <2>1. Recomputing(r) /\ r \notin applied /\ ~Purges(r)
    BY <1>6 DEF PlanRecompute, At, TxInv, Inside, Before
  <2>2. SameRequests /\ applied' = applied /\ pc'[r] = "flush"
    BY <1>6 DEF PlanRecompute, Plan, Proceed, Go, SameRequests, TypeOK
  <2> QED
    BY <1>6, <2>1, <2>2, RecomputeFlushes, FlushingKeeps
<1>7. ASSUME NEW s \in plan[r], Flush(r, s) PROVE TxInv(r)'
  <2>1. pc[r] = "flush" /\ r \notin applied /\ ~Purges(r) /\ Flushing(r)
    BY <1>7 DEF Flush, At, TxInv
  <2>2. SameRequests /\ applied' = applied /\ pc'[r] = "flush"
    BY <1>7, <2>1 DEF Flush, SameRequests
  <2> QED
    BY <1>7, <2>1, <2>2, FlushKeeps, FlushingKeeps
<1>8. ASSUME NEW s \in plan[r], RetryAdd(r, s) PROVE TxInv(r)'
  <2>1. /\ r \notin applied /\ ~Purges(r) /\ Asks(r, Resolvers)
    BY <1>8 DEF RetryAdd, At, TxInv, Purges, Asks, Resolvers, Creating
  <2>2. /\ SameRequests /\ applied' = applied /\ pc'[r] = "stock" /\ writer' # r /\ plan'[r] = {}
    BY <1>8, RollbackLeaves DEF RetryAdd, Proceed, Go, SameRequests, TypeOK
  <2> QED
    BY <2>1, <2>2, WaitKeeps
<1>9. CASE Commit(r)
  <2>1. writer' # r /\ pc'[r] = "reply" /\ plan'[r] = {}
    BY <1>9, NoReqAssumption DEF Commit, Go, TypeOK, localVars
  <2> QED
    BY <2>1 DEF TxInv, Waiting, Inside, Before
<1> QED
  BY <1>1, <1>2, <1>3, <1>4, <1>5, <1>6, <1>7, <1>8, <1>9
     DEF Writing, ShrinkMisses, RowNotFound, FlushConflict, FlushStale, Busy, Reply, RefreshFails

\* The purge.
LEMMA PurgingKeeps ==
  ASSUME TypeOK, LockInv, ~Autocommit, NEW r \in Reqs, TxInv(r), Purging(r)
  PROVE  TxInv(r)'
<1>1. CASE PurgeBlocked(r)
  BY <1>1, EndKeeps DEF PurgeBlocked
<1>2. CASE PurgeHoldings(r) \/ PurgeLedger(r) \/ PurgeUser(r)
  <2>1. /\ SameRequests /\ applied' = applied /\ plan' = plan /\ r \notin applied /\ plan[r] = {}
        /\ Purges(r)
    BY <1>2 DEF PurgeHoldings, PurgeLedger, PurgeUser, Proceed, SameRequests, localVars, At, TxInv,
                LockInv, PurgeLabels
  <2>2. CASE PurgeHoldings(r)
    <3>1. writer # r /\ View(r) = db
      BY <2>2 DEF PurgeHoldings, At, TxInv, Waiting, View
    <3>2. /\ pc'[r] = "purgeLedger" /\ db' = db /\ writer' = r
          /\ View(r)' = [db EXCEPT !.hold[who[r]] = Nothing]
      BY <2>2, <3>1, WriteLeaves DEF PurgeHoldings, Proceed, Go, TypeOK
    <3>3. View(r)' = BookOf(r, db.users, db.stocks, Nothing, db.ledger)
      BY <3>2, BookIsDb, BookStep
    <3>4. HoldingsPurged(r)'
      BY <2>1, <3>2, <3>3, SameMeaning DEF HoldingsPurged
    <3> QED
      BY <2>1, <3>2, <3>4 DEF TxInv, Waiting, Inside, Before
  <2>3. CASE PurgeLedger(r)
    <3>1. View(r) = BookOf(r, db.users, db.stocks, Nothing, db.ledger)
      BY <2>3 DEF PurgeLedger, At, TxInv, HoldingsPurged
    <3>2. /\ pc'[r] = "purgeUser" /\ db' = db /\ writer' = r
          /\ View(r)' = [View(r) EXCEPT !.ledger = {w \in @ : w.user # who[r]}]
      BY <2>3, WriteLeaves DEF PurgeLedger, Proceed, Go, TypeOK
    <3>3. View(r)' = BookOf(r, db.users, db.stocks, Nothing, OthersRows(r))
      BY <3>1, <3>2 DEF BookOf, OthersRows
    <3>4. View(r)' = BookOf(r, db.users, db.stocks, Nothing, OthersRows(r))'
      BY <2>1, <3>2, <3>3, SameMeaning DEF Nothing
    <3>5. LedgerPurged(r)'
      BY <3>2, <3>4 DEF LedgerPurged
    <3> QED
      BY <2>1, <3>2, <3>5 DEF TxInv, Waiting, Inside, Before
  <2>4. CASE PurgeUser(r)
    <3>1. View(r) = BookOf(r, db.users, db.stocks, Nothing, OthersRows(r))
      BY <2>4 DEF PurgeUser, At, TxInv, LedgerPurged
    <3>2. /\ pc'[r] = "flush" /\ db' = db /\ writer' = r
          /\ View(r)' = [View(r) EXCEPT !.users = @ \ {who[r]},
                                        !.hold[who[r]] = Nothing,
                                        !.ledger = {w \in @ : w.user # who[r]}]
      BY <2>4, WriteLeaves DEF PurgeUser, Proceed, Go, TypeOK
    <3>3. {w \in OthersRows(r) : w.user # who[r]} = OthersRows(r)
      BY DEF OthersRows
    <3>4. [[db.hold EXCEPT ![who[r]] = Nothing] EXCEPT ![who[r]] = Nothing]
          = [db.hold EXCEPT ![who[r]] = Nothing]
      BY RequestTypes DEF TypeOK, BookType
    <3> DEFINE b == BookOf(r, db.users, db.stocks, Nothing, OthersRows(r))
    <3>5. View(r)' = BookAfter(r)
      <4>1. /\ b.users = db.users /\ b.ledger = OthersRows(r)
            /\ b.hold = [db.hold EXCEPT ![who[r]] = Nothing]
        BY DEF BookOf
      <4>2. View(r)' = [b EXCEPT !.users = db.users \ {who[r]},
                                 !.hold = [db.hold EXCEPT ![who[r]] = Nothing],
                                 !.ledger = OthersRows(r)]
        <5> HIDE DEF b
        <5>1. View(r) = b
          BY <3>1 DEF b
        <5>2. View(r)' = [b EXCEPT !.users = b.users \ {who[r]},
                                   !.hold = [b.hold EXCEPT ![who[r]] = Nothing],
                                   !.ledger = {w \in b.ledger : w.user # who[r]}]
          BY <3>2, <5>1
        <5> QED
          BY <3>3, <3>4, <4>1, <5>2
      <4>3. BookAfter(r) = BookOf(r, db.users \ {who[r]}, db.stocks, Nothing, OthersRows(r))
        BY <2>1 DEF BookAfter
      <4> QED
        BY <4>2, <4>3 DEF BookOf
    <3>6. UserPurged(r)' /\ Purges(r)'
      BY <2>1, <3>2, <3>5, SameMeaning DEF UserPurged
    <3> QED
      BY <2>1, <3>2, <3>6 DEF TxInv, Waiting, Inside, Before
  <2> QED
    BY <1>2, <2>2, <2>3, <2>4
<1> QED
  BY <1>1, <1>2 DEF Purging

-----------------------------------------------------------------------------
(* The invariant and the refinement.                                       *)

\* Rows are what they were.
LEMMA SameRows ==
  ASSUME SameRequests, db' = db, applied' = applied, RowsInv
  PROVE  RowsInv'
  BY DEF RowsInv, Honest, Referenced, SameRequests

LEMMA RefKept ==
  ASSUME TypeOK, TypeOK', ClosedInv, LockInv, ~Autocommit, RefInv, [Next]_vars
  PROVE  RefInv'
<1>1. RowsInv /\ \A x \in Reqs : TxInv(x)
  BY DEF RefInv
<1>2. ASSUME NEW r \in Reqs, Handle(r), ~Commit(r) PROVE RefInv'
  <2>1. SameRequests /\ db' = db /\ applied' = applied /\ OthersLeft(r)
    BY <1>2, HandleLeaves
  <2>2. TxInv(r)'
    BY <1>1, <1>2, SessionKeeps, PlanningKeeps, WritingKeeps, PurgingKeeps DEF Handle
  <2>3. \A x \in Reqs \ {r} : TxInv(x)'
    BY <1>1, <2>1, OthersKept DEF OthersLeft
  <2> QED
    BY <1>1, <2>1, <2>2, <2>3, SameRows DEF RefInv
<1>3. ASSUME NEW r \in Reqs, Commit(r) PROVE RefInv'
  <2>1. TxInv(r)'
    BY <1>1, <1>3, WritingKeeps DEF Writing
  <2>2. \A x \in Reqs \ {r} : TxInv(x)'
    BY <1>1, <1>3, CommitLeaves
  <2> QED
    BY <1>1, <1>3, <2>1, <2>2, CommitKeepsRows DEF RefInv
<1>4. ASSUME NEW r \in Reqs, Arrive(r) PROVE RefInv'
  <2>1. /\ SameRequests /\ db' = db /\ applied' = applied /\ writer' = writer /\ plan' = plan
        /\ pc'[r] = IF Purges(r) THEN "purgeHoldings" ELSE "wait"
        /\ pc[r] = "idle"
        /\ \A x \in Reqs \ {r} : LocalsKept(x)
        /\ \A x \in Reqs : ViewKept(x)
    BY <1>4, RowsLeave
       DEF Arrive, Proceed, Go, At, TypeOK, SameRequests, dbVars, localVars, LocalsKept, Purges, Asks
  <2>2. TxInv(r)'
    <3>1. r \notin applied /\ writer # r /\ plan[r] = {}
      BY <1>1, <2>1 DEF TxInv, Waiting
    <3> QED
      BY <2>1, <3>1, WaitKeeps
  <2>3. \A x \in Reqs \ {r} : TxInv(x)'
    BY <1>1, <2>1, OthersKept
  <2> QED
    BY <1>1, <2>1, <2>2, <2>3, SameRows DEF RefInv
<1>5. ASSUME NEW r \in Reqs, ArriveGone(r) PROVE RefInv'
  <2>1. PICK status : Finish(r, status)
    BY <1>5 DEF ArriveGone
  <2>2. SameRequests /\ db' = db /\ applied' = applied /\ OthersLeft(r)
    BY <2>1, FinishLeaves
  <2>3. TxInv(r)'
    BY <1>1, <2>1, EndKeeps
  <2>4. \A x \in Reqs \ {r} : TxInv(x)'
    BY <1>1, <2>2, OthersKept DEF OthersLeft
  <2> QED
    BY <1>1, <2>2, <2>3, <2>4, SameRows DEF RefInv
<1>6. CASE Crash
  <2>1. SameRequests /\ db' = db /\ applied' = applied /\ writer' = NoReq
    BY <1>6 DEF Crash, SameRequests
  <2>2. ASSUME NEW x \in Reqs PROVE TxInv(x)'
    <3>1. pc'[x] \in {"idle", "done"} /\ plan'[x] = {} /\ writer' # x
      BY <1>6, NoReqAssumption DEF Crash, InFlight
    <3>2. x \in applied' => pc'[x] = "done"
      BY <1>1, <1>6, <2>1 DEF TxInv, Crash, InFlight
    <3> QED
      BY <3>1, <3>2 DEF TxInv, Waiting, Inside, Before
  <2> QED
    BY <1>1, <2>1, <2>2, SameRows DEF RefInv
<1>7. CASE UNCHANGED vars
  <2>1. /\ SameRequests /\ db' = db /\ applied' = applied
        /\ \A x \in Reqs : LocalsKept(x) /\ ViewKept(x)
    BY <1>7 DEF vars, dbVars, localVars, SameRequests, LocalsKept, ViewKept
  <2> QED
    BY <1>1, <2>1, OthersKept, SameRows DEF RefInv
<1> QED
  BY <1>2, <1>3, <1>4, <1>5, <1>6, <1>7 DEF Next

\* At the start nothing is committed and no handler runs.
LEMMA RefStarts == Init => RefInv /\ Atomic!Init
<1> SUFFICES ASSUME Init PROVE RefInv /\ Atomic!Init
  OBVIOUS
<1>1. RowsInv
  BY DEF Init, RowsInv, Honest, Referenced, EmptyBook, Nothing
<1>2. \A x \in Reqs : TxInv(x)
  BY NoReqAssumption DEF Init, TxInv, Waiting, Inside, Before
<1>3. Atomic!Init
  BY DEF Init, Atomic!Init, EmptyBook, Atomic!EmptyBook, Nothing, Atomic!Nothing
<1> QED
  BY <1>1, <1>2, <1>3 DEF RefInv

\* The invariant holds in every reachable state of the engine that keeps a
\* request in one SQL transaction.
LEMMA RefAlways ==
  ASSUME ~Autocommit
  PROVE  Spec => []RefInv
<1>1. TypeOK /\ TypeOK' /\ ClosedInv /\ LockInv /\ RefInv /\ [Next]_vars => RefInv'
  BY RefKept
<1>2. Init => RefInv
  BY RefStarts
<1> QED
  BY <1>1, <1>2, TypeCorrect, ClosedAlways, LockExcludes, PTL DEF Spec

\* create_transaction "aggiorna atomicamente il portafoglio", and so do the
\* other handlers: however requests of any accounts, purges, failures and
\* crashes interleave, the committed rows change only by whole requests, each
\* applied once to the rows as they are at its COMMIT, although each handler
\* computed its statements from rows it read several awaits earlier.
THEOREM RefinesAtomic ==
  ASSUME ~Autocommit
  PROVE  Spec => ImplementsAtomic
<1>1. Init => Atomic!Init
  BY RefStarts
<1>2. TypeOK /\ RefInv /\ [Next]_vars => [Atomic!Next]_(Atomic!vars)
  <2> SUFFICES ASSUME TypeOK, RefInv, [Next]_vars
               PROVE  Atomic!Next \/ UNCHANGED <<db, applied, who, ask>>
    BY DEF Atomic!vars
  <2>1. ASSUME NEW r \in Reqs, Commit(r) PROVE Atomic!Next
    BY <2>1, CommitApplies DEF RefInv, Atomic!Next
  <2>2. ASSUME NEW r \in Reqs, Handle(r), ~Commit(r) PROVE UNCHANGED <<db, applied, who, ask>>
    BY <2>2, HandleLeaves DEF SameRequests
  <2>3. ASSUME NEW r \in Reqs, Arrive(r) PROVE UNCHANGED <<db, applied, who, ask>>
    BY <2>3 DEF Arrive, Proceed, dbVars
  <2>4. ASSUME NEW r \in Reqs, ArriveGone(r) PROVE UNCHANGED <<db, applied, who, ask>>
    BY <2>4 DEF ArriveGone, Finish, Rollback
  <2>5. CASE Crash
    BY <2>5 DEF Crash
  <2>6. CASE UNCHANGED vars
    BY <2>6 DEF vars, dbVars
  <2> QED
    BY <2>1, <2>2, <2>3, <2>4, <2>5, <2>6 DEF Next
<1> QED
  BY <1>1, <1>2, TypeCorrect, RefAlways, PTL DEF Spec, ImplementsAtomic, Atomic!Spec

-----------------------------------------------------------------------------
(* What follows for the stocks rows and for the answers.                   *)

\* A request that creates a stocks row commits a position or a row of the
\* ledger that refers to it.
LEMMA CommitRefersToStocks ==
  ASSUME TypeOK, ~Autocommit, NEW r \in Reqs, Commit(r), TxInv(r),
         NEW t \in db'.stocks \ db.stocks
  PROVE  \/ \E u \in Users : db'.hold[u][t] # 0
         \/ \E w \in db'.ledger : w.rows[t] # 0
<1>1. db' = BookAfter(r) /\ (~Purges(r) => Allowed(r))
  BY CommitMeans
<1>2. ~Purges(r)
  BY <1>1 DEF BookAfter, BookOf
<1>3. db' = BookOf(r, db.users, StocksAfter(r), PositionsAfter(r), LedgerAfter(r))
  BY <1>1, <1>2 DEF BookAfter
<1>4. /\ db'.stocks = StocksAfter(r) /\ db'.ledger = LedgerAfter(r)
      /\ db'.hold = [db.hold EXCEPT ![who[r]] = PositionsAfter(r)]
  BY <1>3 DEF BookOf
<1>5. /\ Asks(r, Creating) /\ (Asks(r, {"seed"}) => Present(r)) /\ t \in Tickers
      /\ Wanted(r)[t] # 0
  BY <1>4 DEF StocksAfter, Scope
<1>6. /\ who[r] \in Users /\ Mine(r)[t] \in Nat /\ Wanted(r)[t] \in Nat
      /\ db'.hold[who[r]][t] = PositionAfter(r, t)
  BY <1>4, <1>5, RequestTypes, MeaningTypes DEF TypeOK, BookType, PositionsAfter
<1>7. CASE Asks(r, {"dividend"})
  <2>1. LedgerAfter(r) = db.ledger \cup {TradeRow(r, who[r], ask[r])}
    BY <1>7 DEF LedgerAfter, Asks, Recording
  <2>2. TradeRow(r, who[r], ask[r]).rows[t] # 0
    BY <1>5 DEF TradeRow, Wanted
  <2> QED
    BY <1>4, <2>1, <2>2
<1>8. CASE ~Asks(r, {"dividend"})
  <2>1. PositionAfter(r, t) # 0
    BY <1>5, <1>6, <1>8 DEF PositionAfter, Asks, Creating
  <2> QED
    BY <1>6, <2>1
<1> QED
  BY <1>7, <1>8

\* "un errore non lascia Stock orfani" (import_holdings): a request that fails
\* or crashes after creating stocks rows commits none of them, and one that
\* succeeds commits what refers to them in the same COMMIT.
THEOREM NoOrphanStocks ==
  ASSUME ~Autocommit
  PROVE  Spec => StocksEnterReferenced
<1> DEFINE Referred == \A t \in db'.stocks \ db.stocks :
                         \/ \E u \in Users : db'.hold[u][t] # 0
                         \/ \E w \in db'.ledger : w.rows[t] # 0
<1>1. TypeOK /\ RefInv /\ [Next]_vars => [Referred]_vars
  <2> SUFFICES ASSUME TypeOK, RefInv, Next PROVE Referred
    OBVIOUS
  <2>1. ASSUME NEW r \in Reqs, Commit(r) PROVE Referred
    BY <2>1, CommitRefersToStocks DEF RefInv
  <2>2. ASSUME NEW r \in Reqs, Handle(r), ~Commit(r) PROVE db' = db
    BY <2>2, HandleLeaves
  <2>3. ASSUME NEW r \in Reqs, Arrive(r) \/ ArriveGone(r) PROVE db' = db
    BY <2>3 DEF Arrive, ArriveGone, Finish, Rollback, dbVars
  <2>4. CASE Crash
    BY <2>4 DEF Crash
  <2> QED
    BY <2>1, <2>2, <2>3, <2>4 DEF Next
<1> QED
  BY <1>1, TypeCorrect, RefAlways, PTL DEF Spec, StocksEnterReferenced

-----------------------------------------------------------------------------
(* The answers.                                                            *)

Failures == {"401", "404", "409", "500", "503"}
InLedger(x) == \E w \in db.ledger : w.tx = x

\* A handler that has answered has ended; only what was committed is answered
\* 200; a committed trade is in the ledger, and one that failed is not.
AnswerInv ==
  \A x \in Reqs :
    /\ answer[x] # "none" => pc[x] = "done"
    /\ pc[x] = "reply" \/ answer[x] = "200" => x \in applied
    /\ x \in applied /\ Asks(x, Recording) /\ Present(x) /\ ~Undone(x) => InLedger(x)
    /\ answer[x] \in Failures => ~InLedger(x)

\* A row of the ledger was committed, by the account it belongs to.
LEMMA RowsAreSent ==
  ASSUME RowsInv, NEW w \in db.ledger
  PROVE  w.user = who[w.tx] /\ w.tx \in applied /\ Asks(w.tx, Recording)
  BY DEF RowsInv, Honest, TradeRow, Asks

\* What a handler answers when it ends: 200 after its commit and its refresh,
\* a failure before it or when the row is gone again.
LEMMA EndsTruly ==
  ASSUME TypeOK, NEW r \in Reqs, Handle(r), ~Commit(r), RowsInv, TxInv(r), AnswerInv
  PROVE  \/ answer' = answer /\ pc'[r] # "reply"
         \/ \E status : /\ Finish(r, status)
                        /\ status = "200" => r \in applied
                        /\ status \in Failures => ~InLedger(r)
<1>1. CASE Reply(r)
  BY <1>1 DEF Reply, At, AnswerInv, Failures
<1>2. CASE RefreshFails(r)
  <2>1. Finish(r, "500") /\ ~Refreshed(r)
    BY <1>2 DEF RefreshFails
  <2>2. ~InLedger(r)
    BY <2>1, RowsAreSent DEF InLedger, Refreshed, RowsOf, Asks, Recording
  <2> QED
    BY <2>1, <2>2
<1>3. ASSUME NEW status \in Failures, Finish(r, status), pc[r] \notin {"reply", "done"}
      PROVE  Finish(r, status) /\ status # "200" /\ ~InLedger(r)
  BY <1>3, RowsAreSent DEF TxInv, InLedger, Failures
<1>4. CASE StockRaceAgain(r) \/ UseExpiredUser(r) \/ HoldingNotFound(r) \/ RefuseSell(r)
           \/ ShrinkMisses(r) \/ RowNotFound(r) \/ Busy(r) \/ PurgeBlocked(r)
           \/ \E s \in plan[r] : FlushConflict(r, s) \/ FlushStale(r, s)
  <2>1. pc[r] \notin {"reply", "done"} /\ \E status \in Failures : Finish(r, status)
    BY <1>4 DEF StockRaceAgain, UseExpiredUser, HoldingNotFound, RefuseSell, Reads, ShrinkMisses,
                RowNotFound, Busy, PurgeBlocked, FlushConflict, FlushStale, At, Failures
  <2> QED
    BY <1>3, <2>1
<1>5. CASE \/ Acquire(r) \/ FindStock(r) \/ EnsureStocks(r) \/ RefetchStocks(r)
           \/ CreateStocks(r) \/ StockRace(r)
  BY <1>5 DEF Acquire, FirstStep, FindStock, EnsureStocks, RefetchStocks, FetchStocks, CreateStocks,
              StockRace, Proceed, Go, TypeOK
<1>6. CASE \E P : Plan(r, P)
  BY <1>6 DEF Plan, Proceed, Go, TypeOK
<1>7. CASE CheckSell(r) \/ Shrink(r) \/ DropDust(r) \/ LookupRow(r) \/ Unledger(r)
  BY <1>7 DEF CheckSell, Shrink, DropDust, LookupRow, Unledger, Proceed, Go, TypeOK
<1>8. CASE \E s \in plan[r] : Flush(r, s) \/ RetryAdd(r, s)
  BY <1>8 DEF Flush, RetryAdd, Proceed, Go, TypeOK, At
<1>9. CASE PurgeHoldings(r) \/ PurgeLedger(r) \/ PurgeUser(r)
  BY <1>9 DEF PurgeHoldings, PurgeLedger, PurgeUser, Proceed, Go, TypeOK
<1>10. CASE Session(r)
  BY <1>4, <1>5, <1>10 DEF Session
<1>11. CASE Planning(r)
  BY <1>4, <1>6, <1>7, <1>11
     DEF Planning, PlanBuy, PlanAdd, PlanDividend, PlanImport, PlanSeed, PlanUpdate, PlanRemove
<1>12. CASE Writing(r)
  BY <1>1, <1>2, <1>4, <1>6, <1>7, <1>8, <1>12 DEF Writing, PlanRecompute
<1>13. CASE Purging(r)
  BY <1>4, <1>9, <1>13 DEF Purging
<1> QED
  BY <1>10, <1>11, <1>12, <1>13 DEF Handle

\* A commit adds the row of its own trade at most, and takes a row only with
\* its account or as the deletion of that row.
LEMMA CommitMovesRows ==
  ASSUME TypeOK, ~Autocommit, NEW r \in Reqs, Commit(r), TxInv(r), RowsInv, NEW x \in Reqs
  PROVE  /\ InLedger(x)' /\ ~InLedger(x) => x = r
         /\ InLedger(x) /\ ~InLedger(x)' => ~Present(x)' \/ Undone(x)'
         /\ Asks(r, Recording) => InLedger(r)'
         /\ Present(x)' => Present(x)
         /\ Undone(x) => Undone(x)'
<1>1. /\ db' = BookAfter(r) /\ applied' = applied \cup {r} /\ SameRequests
  BY CommitMeans
<1>2. CASE Purges(r)
  <2>1. db' = BookOf(r, db.users \ {who[r]}, db.stocks, Nothing, OthersRows(r))
    BY <1>1, <1>2 DEF BookAfter
  <2>2. db'.users = db.users \ {who[r]} /\ db'.ledger = OthersRows(r)
    BY <2>1 DEF BookOf
  <2>3. InLedger(x) /\ ~InLedger(x)' => ~Present(x)'
    BY <1>1, <2>2, RowsAreSent DEF InLedger, Present, OthersRows, SameRequests
  <2>4. InLedger(x)' => InLedger(x)
    BY <2>2 DEF InLedger, OthersRows
  <2>5. Present(x)' => Present(x)
    BY <1>1, <2>2 DEF Present, SameRequests
  <2> QED
    BY <1>1, <1>2, <2>3, <2>4, <2>5 DEF Undone, SameRequests, Purges, Asks, Recording
<1>3. CASE ~Purges(r)
  <2>1. db' = BookOf(r, db.users, StocksAfter(r), PositionsAfter(r), LedgerAfter(r))
    BY <1>1, <1>3 DEF BookAfter
  <2>2. db'.users = db.users /\ db'.ledger = LedgerAfter(r)
    BY <2>1 DEF BookOf
  <2>3. Present(x)' = Present(x) /\ (Undone(x) => Undone(x)')
    BY <1>1, <2>2 DEF Present, Undone, SameRequests
  <2>4. CASE Asks(r, Recording)
    <3>1. db'.ledger = db.ledger \cup {TradeRow(r, who[r], ask[r])}
      BY <2>2, <2>4 DEF LedgerAfter, Asks, Recording
    <3>2. TradeRow(r, who[r], ask[r]).tx = r
      BY DEF TradeRow
    <3> QED
      BY <2>3, <3>1, <3>2 DEF InLedger
  <2>5. CASE Asks(r, {"undo"})
    <3>1. db'.ledger = db.ledger \ Gone(r) /\ ~Asks(r, Recording)
      BY <2>2, <2>5 DEF LedgerAfter, Asks, Recording
    <3>2. InLedger(x) /\ ~InLedger(x)' => ask[r].tx = x /\ who[r] = who[x]
      BY <3>1, RowsAreSent DEF InLedger, Gone, RowsOf
    <3>3. ask[r].tx = x /\ who[r] = who[x] => Undone(x)'
      BY <1>1, <2>5 DEF Undone, SameRequests, Asks
    <3> QED
      BY <2>3, <3>1, <3>2, <3>3 DEF InLedger
  <2>6. CASE ~Asks(r, Recording) /\ ~Asks(r, {"undo"})
    <3>1. db'.ledger = db.ledger
      BY <2>2, <2>6 DEF LedgerAfter
    <3> QED
      BY <2>3, <2>6, <3>1 DEF InLedger
  <2> QED
    BY <2>4, <2>5, <2>6
<1> QED
  BY <1>2, <1>3

\* A request that is done has no step left.
LEMMA HandlersAreNotDone ==
  ASSUME NEW r \in Reqs, Handle(r)
  PROVE  pc[r] # "done"
<1>1. CASE Session(r)
  BY <1>1 DEF Session, Acquire, FindStock, EnsureStocks, RefetchStocks, FetchStocks,
              CreateStocks, StockRace, StockRaceAgain, UseExpiredUser, At
<1>2. CASE Planning(r)
  BY <1>2 DEF Planning, PlanBuy, PlanAdd, PlanDividend, PlanImport, PlanSeed, PlanUpdate,
              PlanRemove, HoldingNotFound, CheckSell, RefuseSell, Reads, At
<1>3. CASE Writing(r)
  BY <1>3 DEF Writing, Shrink, ShrinkMisses, DropDust, LookupRow, RowNotFound, Unledger,
              PlanRecompute, Flush, FlushConflict, RetryAdd, FlushStale, Busy, Commit,
              Reply, RefreshFails, At
<1>4. CASE Purging(r)
  BY <1>4 DEF Purging, PurgeHoldings, PurgeLedger, PurgeUser, PurgeBlocked, At
<1> QED
  BY <1>1, <1>2, <1>3, <1>4 DEF Handle

LEMMA AnswerKept ==
  ASSUME TypeOK, ~Autocommit, RefInv, AnswerInv, [Next]_vars
  PROVE  AnswerInv'
<1>1. RowsInv /\ \A x \in Reqs : TxInv(x)
  BY DEF RefInv
\* A step that commits nothing and answers nothing.
<1>2. ASSUME SameRequests, db' = db, applied' = applied,
             NEW x \in Reqs, answer'[x] = answer[x],
             answer[x] # "none" => pc'[x] = "done",
             pc'[x] = "reply" => pc[x] = "reply"
      PROVE  /\ answer'[x] # "none" => pc'[x] = "done"
             /\ pc'[x] = "reply" \/ answer'[x] = "200" => x \in applied'
             /\ x \in applied' /\ Asks(x, Recording)' /\ Present(x)' /\ ~Undone(x)' => InLedger(x)'
             /\ answer'[x] \in Failures => ~InLedger(x)'
  BY <1>2 DEF AnswerInv, SameRequests, Asks, Present, Undone, InLedger
<1>3. ASSUME NEW r \in Reqs, NEW status, Finish(r, status),
             status = "200" => r \in applied,
             status \in Failures => ~InLedger(r)
      PROVE  AnswerInv'
  <2>1. SameRequests /\ db' = db /\ applied' = applied
    BY <1>3, FinishLeaves
  <2>2. /\ pc'[r] = "done" /\ answer'[r] = status
        /\ \A x \in Reqs \ {r} : pc'[x] = pc[x] /\ answer'[x] = answer[x]
    BY <1>3 DEF Finish, Go, TypeOK
  <2>3. ASSUME NEW x \in Reqs \ {r}
        PROVE  /\ answer'[x] # "none" => pc'[x] = "done"
               /\ pc'[x] = "reply" \/ answer'[x] = "200" => x \in applied'
               /\ x \in applied' /\ Asks(x, Recording)' /\ Present(x)' /\ ~Undone(x)' => InLedger(x)'
               /\ answer'[x] \in Failures => ~InLedger(x)'
    <3>1. answer[x] # "none" => pc[x] = "done"
      BY DEF AnswerInv
    <3> QED
      BY <1>2, <2>1, <2>2, <3>1
  <2>4. /\ answer'[r] # "none" => pc'[r] = "done"
        /\ pc'[r] = "reply" \/ answer'[r] = "200" => r \in applied'
        /\ answer'[r] \in Failures => ~InLedger(r)'
    BY <1>3, <2>1, <2>2 DEF InLedger
  <2>5. r \in applied' /\ Asks(r, Recording)' /\ Present(r)' /\ ~Undone(r)' => InLedger(r)'
    BY <2>1 DEF AnswerInv, SameRequests, Asks, Present, Undone, InLedger
  <2> QED
    BY <2>3, <2>4, <2>5 DEF AnswerInv
<1>4. ASSUME NEW r \in Reqs, Handle(r), ~Commit(r) PROVE AnswerInv'
  <2>1. CASE \E status : /\ Finish(r, status)
                         /\ status = "200" => r \in applied
                         /\ status \in Failures => ~InLedger(r)
    BY <1>3, <2>1
  <2>2. CASE answer' = answer /\ pc'[r] # "reply"
    <3>1. SameRequests /\ db' = db /\ applied' = applied /\ OthersLeft(r)
      BY <1>4, HandleLeaves
    <3>2. pc[r] # "done"
      BY <1>4, HandlersAreNotDone
    <3> QED
      BY <1>2, <2>2, <3>1, <3>2 DEF AnswerInv, OthersLeft, LocalsKept
  <2> QED
    BY <1>1, <1>4, <2>1, <2>2, EndsTruly
<1>5. ASSUME NEW r \in Reqs, Commit(r) PROVE AnswerInv'
  <2>1. /\ SameRequests /\ applied' = applied \cup {r} /\ answer' = answer
        /\ pc' = [pc EXCEPT ![r] = "reply"] /\ pc[r] = "flush"
    BY <1>1, <1>5, CommitMeans DEF Commit, At, Go
  <2>2. answer[r] = "none"
    BY <2>1 DEF AnswerInv
  <2>3. ASSUME NEW x \in Reqs
        PROVE  /\ answer'[x] # "none" => pc'[x] = "done"
               /\ pc'[x] = "reply" \/ answer'[x] = "200" => x \in applied'
               /\ answer'[x] \in Failures => ~InLedger(x)'
    <3>1. InLedger(x)' /\ ~InLedger(x) => x = r
      BY <1>1, <1>5, CommitMovesRows
    <3> QED
      BY <2>1, <2>2, <3>1 DEF AnswerInv, TypeOK, Failures
  <2>4. ASSUME NEW x \in Reqs, x \in applied', Asks(x, Recording)', Present(x)', ~Undone(x)'
        PROVE  InLedger(x)'
    <3>1. /\ InLedger(x) /\ ~InLedger(x)' => ~Present(x)' \/ Undone(x)'
          /\ Asks(r, Recording) => InLedger(r)'
          /\ Present(x)' => Present(x)
          /\ Undone(x) => Undone(x)'
      BY <1>1, <1>5, CommitMovesRows
    <3>2. Asks(x, Recording)
      BY <2>1, <2>4 DEF SameRequests, Asks
    <3> QED
      BY <2>1, <2>4, <3>1, <3>2 DEF AnswerInv
  <2> QED
    BY <2>3, <2>4 DEF AnswerInv
<1>6. ASSUME NEW r \in Reqs, Arrive(r) PROVE AnswerInv'
  <2>1. /\ SameRequests /\ db' = db /\ applied' = applied /\ answer' = answer
        /\ pc[r] = "idle" /\ pc'[r] \in {"wait", "purgeHoldings"}
        /\ \A x \in Reqs \ {r} : pc'[x] = pc[x]
    BY <1>6 DEF Arrive, Proceed, Go, At, TypeOK, SameRequests, dbVars
  <2> QED
    BY <1>2, <2>1 DEF AnswerInv
<1>7. ASSUME NEW r \in Reqs, ArriveGone(r) PROVE AnswerInv'
  <2>1. \E status \in {"401", "404"} : Finish(r, status)
    BY <1>7 DEF ArriveGone
  <2>2. ~InLedger(r)
    BY <1>1, <1>7, RowsAreSent DEF ArriveGone, At, TxInv, InLedger
  <2> QED
    BY <1>3, <2>1, <2>2
<1>8. CASE Crash
  <2>1. /\ SameRequests /\ db' = db /\ applied' = applied
        /\ \A x \in Reqs : pc'[x] \in {"idle", "done"}
        /\ \A x \in Reqs : IF pc[x] \notin {"idle", "done"}
                           THEN answer'[x] = "lost" /\ pc'[x] = "done"
                           ELSE answer'[x] = answer[x] /\ pc'[x] = pc[x]
    BY <1>8 DEF Crash, SameRequests, InFlight
  <2> QED
    BY <2>1 DEF AnswerInv, SameRequests, Asks, Present, Undone, InLedger, Failures
<1>9. CASE UNCHANGED vars
  BY <1>9 DEF vars, dbVars, AnswerInv, Asks, Present, Undone, InLedger
<1> QED
  BY <1>4, <1>5, <1>6, <1>7, <1>8, <1>9 DEF Next

\* A trade answered 200 is in the ledger until its account is purged or the
\* row deleted, also when another request, a crash or a retry came between
\* its COMMIT and its answer; one that was refused or failed left no row, so a
\* client that sends it again does not double it.
THEOREM AnswersTrue ==
  ASSUME ~Autocommit
  PROVE  Spec => []AnswersAreTrue
<1>1. Init => AnswerInv
  BY DEF Init, AnswerInv, Failures
<1>2. TypeOK /\ RefInv /\ AnswerInv /\ [Next]_vars => AnswerInv'
  BY AnswerKept
<1>3. AnswerInv => AnswersAreTrue
  BY DEF AnswerInv, AnswersAreTrue, Asks, Recording, Present, InLedger, Failures
<1> QED
  BY <1>1, <1>2, <1>3, TypeCorrect, RefAlways, PTL DEF Spec

-----------------------------------------------------------------------------
(* What the ledger adds up to.                                             *)

TradesOf(b, u, type) == {w \in b.ledger : w.user = u /\ w.type = type}

LEMMA TradedIs ==
  ASSUME NEW b, NEW u, NEW t, NEW type
  PROVE  Traded(b, u, t, type)
           = SumFunctionOnSet([w \in b.ledger |-> w.rows[t]], TradesOf(b, u, type))
  BY DEF Traded, TradesOf

LEMMA TradesFinite ==
  ASSUME NEW b \in BookType, IsFiniteSet(b.ledger), NEW u, NEW t \in Tickers, NEW type
  PROVE  /\ IsFiniteSet(TradesOf(b, u, type))
         /\ \A w \in TradesOf(b, u, type) : [x \in b.ledger |-> x.rows[t]][w] = w.rows[t]
         /\ \A w \in b.ledger : w.rows[t] \in Nat
         /\ Traded(b, u, t, type) \in Nat
<1>1. TradesOf(b, u, type) \subseteq b.ledger
  BY DEF TradesOf
<1>2. IsFiniteSet(TradesOf(b, u, type))
  BY <1>1, FS_Subset
<1>3. \A w \in b.ledger : w.rows[t] \in Nat
  BY DEF BookType, Row
<1>4. \A w \in TradesOf(b, u, type) : [x \in b.ledger |-> x.rows[t]][w] = w.rows[t]
  BY <1>1
<1>5. Traded(b, u, t, type) \in Nat
  <2> DEFINE f == [x \in b.ledger |-> x.rows[t]]
  <2>1. \A w \in TradesOf(b, u, type) : f[w] \in Nat
    BY <1>1, <1>3, <1>4
  <2>2. Traded(b, u, t, type) = SumFunctionOnSet(f, TradesOf(b, u, type))
    BY TradedIs
  <2> HIDE DEF f
  <2> QED
    BY <1>2, <2>1, <2>2, SumOfNaturals
<1> QED
  BY <1>2, <1>3, <1>4, <1>5

\* The trades of an account are what they were.
LEMMA TradedSame ==
  ASSUME NEW b \in BookType, NEW c \in BookType, IsFiniteSet(b.ledger), IsFiniteSet(c.ledger),
         NEW u, NEW t \in Tickers, NEW type, TradesOf(c, u, type) = TradesOf(b, u, type)
  PROVE  Traded(c, u, t, type) = Traded(b, u, t, type)
<1> DEFINE f == [x \in b.ledger |-> x.rows[t]]
           h == [x \in c.ledger |-> x.rows[t]]
           S == TradesOf(b, u, type)
<1>1. IsFiniteSet(S) /\ \A w \in S : f[w] = h[w]
  BY TradesFinite
<1>2. /\ Traded(b, u, t, type) = SumFunctionOnSet(f, S)
      /\ Traded(c, u, t, type) = SumFunctionOnSet(h, S)
  BY TradedIs
<1> HIDE DEF f, h, S
<1> QED
  BY <1>1, <1>2, SumSame

\* One trade more.
LEMMA TradedMore ==
  ASSUME NEW b \in BookType, NEW c \in BookType, IsFiniteSet(b.ledger), IsFiniteSet(c.ledger),
         NEW u, NEW t \in Tickers, NEW type, NEW w, w \notin TradesOf(b, u, type),
         TradesOf(c, u, type) = TradesOf(b, u, type) \cup {w}
  PROVE  Traded(c, u, t, type) = Traded(b, u, t, type) + w.rows[t]
<1> DEFINE f == [x \in b.ledger |-> x.rows[t]]
           h == [x \in c.ledger |-> x.rows[t]]
           S == TradesOf(b, u, type)
<1>0. \A x \in b.ledger : x.rows[t] \in Nat
  BY TradesFinite
<1>9. \A x \in c.ledger : x.rows[t] \in Nat
  BY TradesFinite
<1>8. S \subseteq b.ledger /\ S \cup {w} \subseteq c.ledger
  BY DEF TradesOf
<1>7. IsFiniteSet(TradesOf(b, u, type)) /\ IsFiniteSet(TradesOf(c, u, type))
  BY TradesFinite
<1>5. \A x \in S : f[x] = x.rows[t] /\ f[x] \in Nat
  BY <1>0, <1>8
<1>6. \A x \in S \cup {w} : h[x] = x.rows[t] /\ h[x] \in Nat
  BY <1>9, <1>8
<1>1. /\ IsFiniteSet(S) /\ IsFiniteSet(S \cup {w})
      /\ \A x \in S : f[x] = x.rows[t] /\ f[x] \in Nat
      /\ \A x \in S \cup {w} : h[x] = x.rows[t] /\ h[x] \in Nat
  BY <1>7, <1>5, <1>6
<1>2. /\ Traded(b, u, t, type) = SumFunctionOnSet(f, S)
      /\ Traded(c, u, t, type) = SumFunctionOnSet(h, S \cup {w})
  BY TradedIs
<1>3. /\ SumFunctionOnSet(h, S) = SumFunctionOnSet(f, S)
      /\ SumFunctionOnSet(h, S) \in Nat
      /\ h[w] = w.rows[t] /\ w \notin S
      /\ SumFunctionOnSet(h, S \cup {w}) = h[w] + SumFunctionOnSet(h, S)
  <2>1. w \notin S /\ h[w] = w.rows[t]
    BY <1>1
  <2>2. \A x \in S \cup {w} : h[x] \in Int
    BY <1>1
  <2>3. \A x \in S : h[x] = f[x]
    BY <1>1
  <2> HIDE DEF f, h, S
  <2> QED
    BY <1>1, <2>1, <2>2, <2>3, SumAdd, SumSame, SumOfNaturals
<1>4. h[w] \in Nat
  BY <1>1
<1> HIDE DEF f, h, S
<1> QED
  BY <1>2, <1>3, <1>4

-----------------------------------------------------------------------------
(* What a commit does to the trades of an account.                         *)

\* The committed parts after a commit.
LEMMA CommitParts ==
  ASSUME TypeOK, ~Autocommit, NEW r \in Reqs, Commit(r), TxInv(r)
  PROVE  /\ who[r] \in Users
         /\ \A u \in Users \ {who[r]} : db'.hold[u] = db.hold[u]
         /\ Purges(r) => db'.ledger = OthersRows(r) /\ db'.hold[who[r]] = Nothing
         /\ ~Purges(r) => /\ db'.ledger = LedgerAfter(r)
                          /\ \A t \in Tickers : db'.hold[who[r]][t] = PositionAfter(r, t)
<1>1. db' = BookAfter(r)
  BY CommitMeans
<1>2. CASE Purges(r)
  <2>1. db' = BookOf(r, db.users \ {who[r]}, db.stocks, Nothing, OthersRows(r))
    BY <1>1, <1>2 DEF BookAfter
  <2>2. db'.ledger = OthersRows(r) /\ db'.hold = [db.hold EXCEPT ![who[r]] = Nothing]
    BY <2>1 DEF BookOf
  <2>3. who[r] \in Users /\ db.hold \in [Users -> [Tickers -> Nat]]
    BY RequestTypes DEF TypeOK, BookType
  <2> QED
    BY <1>2, <2>2, <2>3, RequestTypes
<1>3. CASE ~Purges(r)
  <2>1. db' = BookOf(r, db.users, StocksAfter(r), PositionsAfter(r), LedgerAfter(r))
    BY <1>1, <1>3 DEF BookAfter
  <2>2. db'.ledger = LedgerAfter(r) /\ db'.hold[who[r]] = PositionsAfter(r)
    BY <2>1, BookParts
  <2>3. \A u \in Users \ {who[r]} : db'.hold[u] = db.hold[u]
    BY <2>1, BookParts
  <2> QED
    BY <1>3, <2>2, <2>3, RequestTypes DEF PositionsAfter
<1> QED
  BY <1>2, <1>3

\* The ledger stays finite.
LEMMA CommitFinite ==
  ASSUME TypeOK, ~Autocommit, NEW r \in Reqs, Commit(r), TxInv(r), IsFiniteSet(db.ledger)
  PROVE  IsFiniteSet(db'.ledger)
<1>1. CASE db'.ledger \subseteq db.ledger
  BY <1>1, FS_Subset
<1>2. CASE db'.ledger = db.ledger \cup {TradeRow(r, who[r], ask[r])}
  BY <1>2, FS_AddElement
<1> QED
  BY <1>1, <1>2, CommitParts DEF LedgerAfter, OthersRows

\* The trades of the other accounts stay.
LEMMA CommitSparesTrades ==
  ASSUME TypeOK, TypeOK', ~Autocommit, NEW r \in Reqs, Commit(r), TxInv(r), IsFiniteSet(db.ledger),
         NEW u \in Users \ {who[r]}, NEW t \in Tickers, NEW type
  PROVE  Traded(db', u, t, type) = Traded(db, u, t, type)
<1>1. TradesOf(db', u, type) = TradesOf(db, u, type)
  <2>1. db'.ledger \subseteq db.ledger \cup {TradeRow(r, who[r], ask[r])}
    BY CommitParts DEF LedgerAfter, OthersRows
  <2>2. \A w \in db.ledger : w.user = u => w \in db'.ledger
    BY CommitParts DEF LedgerAfter, OthersRows, Gone, RowsOf
  <2> QED
    BY <2>1, <2>2 DEF TradesOf, TradeRow
<1>2. db \in BookType /\ db' \in BookType /\ IsFiniteSet(db'.ledger)
  BY CommitFinite DEF TypeOK
<1> QED
  BY <1>1, <1>2, TradedSame

\* A row not in the ledger yet.
LEMMA NewRow ==
  ASSUME Honest(db), NEW r \in Reqs, r \notin applied
  PROVE  TradeRow(r, who[r], ask[r]) \notin db.ledger
  BY DEF Honest, TradeRow

\* A purchase or a sale enters the ledger; a dividend is no trade.
LEMMA CommitRecords ==
  ASSUME TypeOK, TypeOK', ~Autocommit, NEW r \in Reqs, Commit(r), TxInv(r), Honest(db),
         IsFiniteSet(db.ledger), Asks(r, Recording), NEW t \in Tickers, NEW type \in {"BUY", "SELL"}
  PROVE  Traded(db', who[r], t, type)
           = Traded(db, who[r], t, type)
               + (IF TradeType(ask[r].name) = type THEN Wanted(r)[t] ELSE 0)
<1> DEFINE w == TradeRow(r, who[r], ask[r])
<1>1. ~Purges(r) /\ db'.ledger = db.ledger \cup {w} /\ r \notin applied
  BY CommitParts, CommitMeans DEF Asks, Recording, Purges, LedgerAfter
<1>2. w \notin db.ledger /\ w.user = who[r] /\ w.type = TradeType(ask[r].name)
      /\ w.rows = Wanted(r)
  BY <1>1, NewRow DEF TradeRow, Wanted
<1>3. db \in BookType /\ db' \in BookType /\ IsFiniteSet(db'.ledger)
  BY CommitFinite DEF TypeOK
<1> HIDE DEF w
<1>4. CASE TradeType(ask[r].name) = type
  <2>1. TradesOf(db', who[r], type) = TradesOf(db, who[r], type) \cup {w}
        /\ w \notin TradesOf(db, who[r], type)
    BY <1>1, <1>2, <1>4 DEF TradesOf
  <2> QED
    BY <1>2, <1>3, <1>4, <2>1, TradedMore
<1>5. CASE TradeType(ask[r].name) # type
  <2>1. TradesOf(db', who[r], type) = TradesOf(db, who[r], type)
    BY <1>1, <1>2, <1>5 DEF TradesOf
  <2>2. Traded(db', who[r], t, type) = Traded(db, who[r], t, type)
    BY <1>3, <2>1, TradedSame
  <2>3. Traded(db, who[r], t, type) \in Nat
    BY <1>3, TradesFinite
  <2> QED
    BY <1>5, <2>2, <2>3
<1> QED
  BY <1>4, <1>5

\* A row of another title leaves the ledger.
LEMMA CommitUnrecords ==
  ASSUME TypeOK, TypeOK', ~Autocommit, NEW r \in Reqs, Commit(r), TxInv(r), Honest(db),
         IsFiniteSet(db.ledger), Asks(r, {"undo"}), NEW t \in Tickers, NEW type,
         ask[ask[r].tx].rows[t] = 0
  PROVE  /\ Traded(db', who[r], t, type) = Traded(db, who[r], t, type)
         /\ ~\E w \in Gone(r) : w.rows[t] # 0
<1>1. ~Purges(r) /\ db'.ledger = db.ledger \ Gone(r)
  BY CommitParts DEF Asks, Recording, Purges, LedgerAfter
<1>2. db \in BookType /\ db' \in BookType /\ IsFiniteSet(db'.ledger)
  BY CommitFinite DEF TypeOK
<1>3. \A w \in Gone(r) : /\ w = TradeRow(ask[r].tx, who[ask[r].tx], ask[ask[r].tx])
                         /\ w \in db.ledger /\ w.rows[t] = 0
  BY DEF Gone, RowsOf, Honest, TradeRow
<1>4. CASE TradesOf(db', who[r], type) = TradesOf(db, who[r], type)
  BY <1>2, <1>3, <1>4, TradedSame
<1>5. CASE TradesOf(db', who[r], type) # TradesOf(db, who[r], type)
  <2>1. PICK w \in Gone(r) : w \in TradesOf(db, who[r], type)
    BY <1>1, <1>5 DEF TradesOf
  <2>2. Gone(r) = {w}
    BY <1>3, <2>1
  <2>3. TradesOf(db, who[r], type) = TradesOf(db', who[r], type) \cup {w}
        /\ w \notin TradesOf(db', who[r], type)
    BY <1>1, <2>1, <2>2 DEF TradesOf
  <2>4. Traded(db, who[r], t, type) = Traded(db', who[r], t, type) + w.rows[t]
    BY <1>2, <2>3, TradedMore
  <2>5. Traded(db', who[r], t, type) \in Nat /\ w.rows[t] = 0
    BY <1>2, <1>3, TradesFinite
  <2> QED
    BY <1>3, <2>4, <2>5
<1> QED
  BY <1>4, <1>5

\* The other requests leave the ledger alone, a purge empties it.
LEMMA CommitKeepsTrades ==
  ASSUME TypeOK, TypeOK', ~Autocommit, NEW r \in Reqs, Commit(r), TxInv(r), IsFiniteSet(db.ledger),
         ~Asks(r, Recording \cup {"undo"}), NEW t \in Tickers, NEW type
  PROVE  Traded(db', who[r], t, type) = IF Purges(r) THEN 0 ELSE Traded(db, who[r], t, type)
<1>1. db \in BookType /\ db' \in BookType /\ IsFiniteSet(db'.ledger)
  BY CommitFinite DEF TypeOK
<1>2. CASE Purges(r)
  <2>1. TradesOf(db', who[r], type) = {}
    BY <1>2, CommitParts DEF TradesOf, OthersRows
  <2> QED
    BY <1>2, <2>1, TradedIs, SumEmpty
<1>3. CASE ~Purges(r)
  <2>1. db'.ledger = db.ledger
    BY <1>3, CommitParts DEF LedgerAfter, Asks
  <2>2. TradesOf(db', who[r], type) = TradesOf(db, who[r], type)
    BY <2>1 DEF TradesOf
  <2> QED
    BY <1>1, <1>3, <2>2, TradedSame
<1> QED
  BY <1>2, <1>3

-----------------------------------------------------------------------------
(* The ledger explains the positions.                                      *)

Backed(u, t) ==
  /\ db.hold[u][t] <= Net(db, u, t)
  /\ Net(db, u, t) - db.hold[u][t] <= Dust * Cardinality(ClosingSales(u, t))

BackedInv == IsFiniteSet(applied) /\ IsFiniteSet(db.ledger) /\ LedgerBacked

LEMMA BackedDef == LedgerBacked <=> \A u \in Users, t \in Tickers : OnlyTraded(u, t) => Backed(u, t)
  BY DEF LedgerBacked, Backed

\* The bound on the dust grows by Dust with every sale.
LEMMA DustGrows ==
  ASSUME NEW n \in Nat
  PROVE  Dust * n \in Nat /\ Dust * (n + 1) = Dust * n + Dust
  BY DustAssumption

\* The requests that count as sales of a position.
LEMMA CommitCloses ==
  ASSUME TypeOK, ~Autocommit, NEW r \in Reqs, Commit(r), TxInv(r), IsFiniteSet(applied),
         NEW u \in Users, NEW t \in Tickers
  PROVE  /\ IsFiniteSet(applied')
         /\ Cardinality(ClosingSales(u, t)) \in Nat
         /\ IF who[r] = u /\ Asks(r, {"sell"}) /\ Wanted(r)[t] # 0
            THEN Cardinality(ClosingSales(u, t))' = Cardinality(ClosingSales(u, t)) + 1
            ELSE Cardinality(ClosingSales(u, t))' = Cardinality(ClosingSales(u, t))
<1>1. applied' = applied \cup {r} /\ r \notin applied /\ who' = who /\ ask' = ask
  BY CommitMeans DEF SameRequests
<1>2. IsFiniteSet(applied')
  BY <1>1, FS_AddElement
<1> DEFINE C == ClosingSales(u, t)
<1>3. C \subseteq applied /\ r \notin C
  BY <1>1 DEF ClosingSales
<1>4. IsFiniteSet(C) /\ Cardinality(C) \in Nat
  BY <1>3, FS_Subset, FS_CardinalityType
<1>5. CASE who[r] = u /\ Asks(r, {"sell"}) /\ Wanted(r)[t] # 0
  <2>1. C' = C \cup {r}
    BY <1>1, <1>5 DEF ClosingSales, Asks, Wanted
  <2>2. Cardinality(C \cup {r}) = Cardinality(C) + 1
    <3> HIDE DEF C
    <3> QED
      BY <1>3, <1>4, FS_AddElement
  <2> QED
    BY <1>2, <1>4, <1>5, <2>1, <2>2
<1>6. CASE ~(who[r] = u /\ Asks(r, {"sell"}) /\ Wanted(r)[t] # 0)
  <2>1. C' = C
    BY <1>1, <1>6 DEF ClosingSales, Asks, Wanted
  <2> QED
    BY <1>2, <1>4, <1>6, <2>1
<1> QED
  BY <1>5, <1>6

\* A position that only trades have moved was so before.
LEMMA OnlyTradedBefore ==
  ASSUME SameRequests, applied \subseteq applied', NEW u, NEW t, OnlyTraded(u, t)'
  PROVE  OnlyTraded(u, t)
  BY DEF OnlyTraded, SameRequests

LEMMA CommitStaysBacked ==
  ASSUME TypeOK, TypeOK', ~Autocommit, NEW r \in Reqs, Commit(r), TxInv(r), Honest(db),
         IsFiniteSet(db.ledger), IsFiniteSet(applied),
         NEW u \in Users, NEW t \in Tickers, OnlyTraded(u, t)', Backed(u, t)
  PROVE  Backed(u, t)'
<1> DEFINE h == db.hold[u][t]
           k == db'.hold[u][t]
           q == Wanted(r)[t]
           n == Cardinality(ClosingSales(u, t))
           m == Cardinality(ClosingSales(u, t))'
           B == Traded(db, u, t, "BUY")
           S == Traded(db, u, t, "SELL")
           X == Traded(db', u, t, "BUY")
           Y == Traded(db', u, t, "SELL")
<1>1. /\ h \in Nat /\ k \in Nat /\ q \in Nat
      /\ B \in Nat /\ S \in Nat /\ X \in Nat /\ Y \in Nat
  <2>1. db \in BookType /\ db' \in BookType /\ IsFiniteSet(db'.ledger)
    BY CommitFinite DEF TypeOK
  <2>2. B \in Nat /\ S \in Nat /\ X \in Nat /\ Y \in Nat
    BY <2>1, TradesFinite
  <2>3. h \in Nat /\ k \in Nat /\ q \in Nat
    BY <2>1, RequestTypes DEF BookType
  <2> QED
    BY <2>2, <2>3
<1>2. /\ n \in Nat /\ Dust * n \in Nat /\ Dust * (n + 1) = Dust * n + Dust
      /\ IF who[r] = u /\ Asks(r, {"sell"}) /\ q # 0 THEN m = n + 1 ELSE m = n
  BY CommitCloses, DustGrows
<1>3. h <= B - S /\ (B - S) - h <= Dust * n
  BY DEF Backed, Net
<1>4. k <= X - Y /\ (X - Y) - k <= Dust * m => Backed(u, t)'
  BY DEF Backed, Net
<1>5. CASE who[r] # u
  <2>1. X = B /\ Y = S
    BY <1>5, CommitSparesTrades
  <2>2. k = h
    BY <1>5, CommitParts
  <2> HIDE DEF h, k, q, n, m, B, S, X, Y
  <2> QED
    BY <1>1, <1>2, <1>3, <1>4, <1>5, <2>1, <2>2
<1>6. ASSUME who[r] = u, Purges(r) PROVE Backed(u, t)'
  <2>1. X = 0 /\ Y = 0
    BY <1>6, CommitKeepsTrades DEF Purges, Asks, Recording
  <2>2. k = 0
    BY <1>6, CommitParts DEF Nothing
  <2>3. m = n
    BY <1>2, <1>6 DEF Purges, Asks
  <2> HIDE DEF h, k, q, n, m, B, S, X, Y
  <2> QED
    BY <1>1, <1>2, <1>4, <2>1, <2>2, <2>3
<1>7. ASSUME who[r] = u, ~Purges(r) PROVE Backed(u, t)'
  <2>1. k = PositionAfter(r, t) /\ h = Mine(r)[t]
    BY <1>7, CommitParts DEF Mine
  <2>2. ~Purges(r) => Allowed(r)
    BY CommitMeans
  <2>3. r \in applied' /\ who' = who /\ ask' = ask
    BY CommitMeans DEF SameRequests
  <2>4. CASE Asks(r, {"buy"})
    <3>1. X = B + q /\ Y = S
      BY <1>1, <1>7, <2>4, CommitRecords DEF Asks, Recording, TradeType
    <3>2. k = h + q /\ m = n
      BY <1>2, <2>1, <2>4 DEF PositionAfter, Asks
    <3> HIDE DEF h, k, q, n, m, B, S, X, Y
    <3> QED
      BY <1>1, <1>2, <1>3, <1>4, <3>1, <3>2
  <2>5. CASE Asks(r, {"sell"})
    <3>1. X = B /\ Y = S + q
      BY <1>1, <1>7, <2>5, CommitRecords DEF Asks, Recording, TradeType
    <3>2. k = (IF q # 0 THEN Remainder(h, q) ELSE h)
      BY <2>1, <2>5 DEF PositionAfter, Asks
    <3>3. h >= q
      BY <1>7, <2>1, <2>2, <2>5 DEF Allowed
    <3>4. IF q # 0 THEN m = n + 1 ELSE m = n
      BY <1>2, <1>7, <2>5
    <3> HIDE DEF h, k, q, n, m, B, S, X, Y
    <3>5. CASE q = 0
      BY <1>1, <1>2, <1>3, <1>4, <3>1, <3>2, <3>4, <3>5
    <3>6. CASE q # 0
      <4>1. k = (IF h - q > Dust THEN h - q ELSE 0) /\ m = n + 1
        BY <3>2, <3>4, <3>6 DEF Remainder
      <4>2. Dust * m = Dust * n + Dust
        BY <1>2, <4>1
      <4> QED
        BY <1>1, <1>2, <1>3, <1>4, <3>1, <3>3, <4>1, <4>2, DustAssumption
    <3> QED
      BY <3>5, <3>6
  <2>6. CASE Asks(r, {"dividend"})
    <3>1. X = B /\ Y = S
      BY <1>1, <1>7, <2>6, CommitRecords DEF Asks, Recording, TradeType
    <3>2. k = h /\ m = n
      BY <1>2, <2>1, <2>6 DEF PositionAfter, Asks
    <3> HIDE DEF h, k, q, n, m, B, S, X, Y
    <3> QED
      BY <1>1, <1>2, <1>3, <1>4, <3>1, <3>2
  <2>7. CASE Asks(r, {"undo"})
    <3>1. ask[ask[r].tx].rows[t] = 0
      BY <1>7, <2>3, <2>7 DEF OnlyTraded, Asks
    <3>2. X = B /\ Y = S /\ ~\E w \in Gone(r) : w.rows[t] # 0
      BY <1>7, <2>7, <3>1, CommitUnrecords
    <3>3. k = h /\ m = n
      BY <1>2, <2>1, <2>7, <3>2 DEF PositionAfter, Asks
    <3> HIDE DEF h, k, q, n, m, B, S, X, Y
    <3> QED
      BY <1>1, <1>2, <1>3, <1>4, <3>2, <3>3
  <2>8. CASE ~Asks(r, Recording \cup {"undo"})
    <3>1. X = B /\ Y = S
      BY <1>7, <2>8, CommitKeepsTrades
    <3>2. ask[r].name \in {"add", "update", "batch", "remove", "import", "seed"}
      BY <1>7, <2>8, RequestTypes DEF Asks, Recording, Purges, Names, Op
    <3>3. q = 0
      BY <1>7, <2>3, <3>2 DEF OnlyTraded, Wanted
    <3>4. k = h /\ m = n
      BY <1>1, <1>2, <2>1, <3>2, <3>3 DEF PositionAfter, Asks
    <3> HIDE DEF h, k, q, n, m, B, S, X, Y
    <3> QED
      BY <1>1, <1>2, <1>3, <1>4, <3>1, <3>4
  <2> QED
    BY <2>4, <2>5, <2>6, <2>7, <2>8 DEF Asks, Recording
<1> QED
  BY <1>5, <1>6, <1>7

LEMMA BackedKept ==
  ASSUME TypeOK, TypeOK', ~Autocommit, RefInv, BackedInv, [Next]_vars
  PROVE  BackedInv'
<1>1. ASSUME NEW r \in Reqs, Commit(r) PROVE BackedInv'
  <2>1. TxInv(r) /\ Honest(db) /\ IsFiniteSet(applied) /\ IsFiniteSet(db.ledger)
    BY DEF RefInv, RowsInv, BackedInv
  <2>2. IsFiniteSet(db'.ledger)
    BY <1>1, <2>1, CommitFinite
  <2>3. applied' = applied \cup {r} /\ SameRequests
    BY <1>1, <2>1, CommitMeans
  <2>4. IsFiniteSet(applied')
    BY <2>1, <2>3, FS_AddElement
  <2>5. ASSUME NEW u \in Users, NEW t \in Tickers, OnlyTraded(u, t)' PROVE Backed(u, t)'
    <3>1. OnlyTraded(u, t)
      BY <2>3, <2>5, OnlyTradedBefore
    <3>2. Backed(u, t)
      BY <3>1, BackedDef DEF BackedInv
    <3> QED
      BY <1>1, <2>1, <2>5, <3>2, CommitStaysBacked
  <2>6. LedgerBacked'
    BY <2>5 DEF LedgerBacked, Backed
  <2> QED
    BY <2>2, <2>4, <2>6 DEF BackedInv
<1>2. ASSUME UNCHANGED <<db, applied, who, ask>> PROVE BackedInv'
  BY <1>2 DEF BackedInv, LedgerBacked, OnlyTraded, ClosingSales
<1>3. ASSUME NEW r \in Reqs, Handle(r), ~Commit(r) PROVE UNCHANGED <<db, applied, who, ask>>
  BY <1>3, HandleLeaves DEF SameRequests
<1>4. ASSUME NEW r \in Reqs, Arrive(r) PROVE UNCHANGED <<db, applied, who, ask>>
  BY <1>4 DEF Arrive, Proceed, dbVars
<1>5. ASSUME NEW r \in Reqs, ArriveGone(r) PROVE UNCHANGED <<db, applied, who, ask>>
  BY <1>5 DEF ArriveGone, Finish, Rollback
<1>6. CASE Crash
  BY <1>2, <1>6 DEF Crash
<1>7. CASE UNCHANGED vars
  BY <1>2, <1>7 DEF vars, dbVars
<1> QED
  BY <1>1, <1>2, <1>3, <1>4, <1>5, <1>6, <1>7 DEF Next

LEMMA BackedStarts == Init => BackedInv
<1> SUFFICES ASSUME Init PROVE BackedInv
  OBVIOUS
<1>1. applied = {} /\ db = EmptyBook /\ IsFiniteSet(applied) /\ IsFiniteSet(db.ledger)
  BY FS_EmptySet DEF Init, EmptyBook
<1>2. ASSUME NEW u \in Users, NEW t \in Tickers PROVE Backed(u, t)
  <2>1. db.hold[u][t] = 0
    BY <1>1 DEF EmptyBook, Nothing
  <2>2. \A type : TradesOf(db, u, type) = {}
    BY <1>1 DEF TradesOf, EmptyBook
  <2>3. \A type : Traded(db, u, t, type) = 0
    BY <2>2, TradedIs, SumEmpty
  <2>4. ClosingSales(u, t) = {}
    BY <1>1 DEF ClosingSales
  <2>5. Cardinality(ClosingSales(u, t)) = 0
    BY <2>4, FS_EmptySet
  <2> QED
    BY <2>1, <2>3, <2>5, DustAssumption DEF Backed, Net
<1> QED
  BY <1>1, <1>2, BackedDef DEF BackedInv

\* create_transaction "aggiorna atomicamente il portafoglio": whatever the
\* interleaving of trades, undos and purges, a committed position that only
\* BUY and SELL moved is never more than SUM(BUY) - SUM(SELL) of the committed
\* ledger (no shares from a lost update or from selling twice), and less only
\* by the dust of the sales that closed it.
THEOREM LedgerExplains ==
  ASSUME ~Autocommit
  PROVE  Spec => []LedgerBacked
<1>1. TypeOK /\ TypeOK' /\ RefInv /\ BackedInv /\ [Next]_vars => BackedInv'
  BY BackedKept
<1>2. BackedInv => LedgerBacked
  BY DEF BackedInv
<1> QED
  BY <1>1, <1>2, BackedStarts, TypeCorrect, RefAlways, PTL DEF Spec
=============================================================================
