----------------------- MODULE PortfolioLedgerProofs -----------------------
(***************************************************************************)
(* Theorems about PortfolioLedger, for every number of accounts, tickers,  *)
(* requests and crashes and for both engines.                              *)
(***************************************************************************)
EXTENDS PortfolioLedger, TLAPS

-----------------------------------------------------------------------------
(* What the helpers on rows, statements and books return.                  *)

\* A request asks for a quantity per ticker and has an account.
LEMMA RequestTypes ==
  ASSUME TypeOK, NEW r \in Reqs
  PROVE  /\ who[r] \in Users
         /\ ask[r] \in Op
         /\ Wanted(r) \in [Tickers -> Nat]
         /\ Scope(Wanted(r)) \subseteq Tickers
  BY OpsAssumption DEF TypeOK, Wanted, Scope, Op

\* What a session sees is a book, and its account's positions are quantities.
LEMMA ViewTypes ==
  ASSUME TypeOK, NEW r \in Reqs
  PROVE  /\ View(r) \in BookType
         /\ Holding(r) \in [Tickers -> Nat]
  BY RequestTypes DEF TypeOK, View, Holding, BookType

\* The statements built for a set of tickers are statements.
LEMMA StatementTypes ==
  ASSUME NEW h \in [Tickers -> Nat], NEW new \in [Tickers -> Nat],
         NEW S \in SUBSET Tickers
  PROVE  /\ Upsert(h, new, S) \subseteq Statement
         /\ InsertNew(new, S) \subseteq Statement
         /\ Change("update", new, S) \subseteq Statement
         /\ Change("delete", new, S) \subseteq Statement
<1>1. \A T : Only(new, T) \in [Tickers -> Nat]
  BY DEF Only
<1>2. \A T : InsertNew(new, T) \subseteq Statement
  BY <1>1 DEF InsertNew, Statement
<1>3. \A T : Change("update", new, T) \subseteq Statement
  <2>1. \A t : [do |-> "update", rows |-> Only(new, {t})] \in Statement
    BY <1>1 DEF Statement
  <2> QED
    BY <2>1 DEF Change
<1>4. \A T : Change("delete", new, T) \subseteq Statement
  <2>1. \A t : [do |-> "delete", rows |-> Only(new, {t})] \in Statement
    BY <1>1 DEF Statement
  <2> QED
    BY <2>1 DEF Change
<1> QED
  BY <1>2, <1>3, <1>4 DEF Upsert

\* The row a trade writes is a row of the ledger.
LEMMA RecordTypes ==
  ASSUME TypeOK, NEW r \in Reqs
  PROVE  /\ Record(r) \subseteq Statement
         /\ TradeRow(r, who[r], ask[r]) \in Row
<1>1. Record(r) \subseteq Statement
  BY RequestTypes DEF Record, Statement
<1>2. TradeType(ask[r].name) \in Types
  BY DEF TradeType, Types
<1>3. TradeRow(r, who[r], ask[r]) \in Row
  BY <1>2, RequestTypes DEF TradeRow, Row, Wanted
<1> QED
  BY <1>1, <1>3

\* A recomputed position is a quantity, whatever the ledger nets to.
LEMMA RecomputedType ==
  ASSUME NEW b, NEW u, NEW t
  PROVE  Recomputed(b, u, t) \in Nat
  BY DEF Recomputed

\* Replacing the positions of an account leaves a book.
LEMMA HoldType ==
  ASSUME NEW b \in BookType, NEW u \in Users, NEW f \in [Tickers -> Nat]
  PROVE  [b EXCEPT !.hold[u] = f] \in BookType
  BY DEF BookType

\* A flushed statement turns a book into a book.
LEMMA AfterType ==
  ASSUME TypeOK, NEW r \in Reqs, NEW s \in Statement
  PROVE  After(r, s) \in BookType
<1> DEFINE set == [t \in Tickers |-> IF s.rows[t] # 0 THEN s.rows[t] ELSE View(r).hold[who[r]][t]]
           zero == [t \in Tickers |-> IF s.rows[t] # 0 THEN 0 ELSE View(r).hold[who[r]][t]]
<1>1. View(r) \in BookType /\ who[r] \in Users /\ Holding(r) \in [Tickers -> Nat]
  BY RequestTypes, ViewTypes
<1>2. s.rows \in [Tickers -> Nat]
  BY DEF Statement
<1>3. CASE s.do \in {"insert", "update"}
  <2>1. set \in [Tickers -> Nat]
    BY <1>1, <1>2 DEF Holding
  <2>2. After(r, s) = [View(r) EXCEPT !.hold[who[r]] = set]
    BY <1>1, <1>3 DEF After, BookType
  <2> QED
    BY <1>1, <2>1, <2>2, HoldType
<1>4. CASE s.do = "delete"
  <2>1. zero \in [Tickers -> Nat]
    BY <1>1, <1>2 DEF Holding
  <2>2. After(r, s) = [View(r) EXCEPT !.hold[who[r]] = zero]
    BY <1>1, <1>4 DEF After, BookType
  <2> QED
    BY <1>1, <2>1, <2>2, HoldType
<1>5. CASE s.do = "record"
  BY <1>1, <1>5, RecordTypes DEF After, BookType
<1> QED
  BY <1>3, <1>4, <1>5 DEF Statement

\* The empty book is a book.
LEMMA EmptyBookType == EmptyBook \in BookType
  BY ListedAssumption DEF EmptyBook, BookType, Nothing

-----------------------------------------------------------------------------
(* What the ways to go on leave of the type invariant.                     *)

\* Every variable but pc, the rows and the request's own notes.
LEMMA WriteTypes ==
  ASSUME TypeOK, NEW r \in Reqs, NEW b \in BookType, Write(r, b)
  PROVE  db' \in BookType /\ work' \in BookType /\ writer' \in Reqs \cup {NoReq}
  BY DEF TypeOK, Write

LEMMA RollbackTypes ==
  ASSUME TypeOK, NEW r \in Reqs, Rollback(r)
  PROVE  db' \in BookType /\ work' \in BookType /\ writer' \in Reqs \cup {NoReq}
  BY EmptyBookType DEF TypeOK, Rollback

LEMMA ProceedTypes ==
  ASSUME TypeOK, NEW r \in Reqs, NEW label \in Labels, Proceed(r, label)
  PROVE  /\ lock' \in [Users -> Reqs \cup {NoReq}]
         /\ who' \in [Reqs -> Users] /\ ask' \in [Reqs -> Ops]
         /\ pc' \in [Reqs -> Labels]
         /\ answer' \in [Reqs -> Answers]
         /\ applied' \in SUBSET Reqs
         /\ crashes' \in 0..MaxCrashes
  BY DEF TypeOK, Proceed, Go

\* A handler that ends keeps the types.
LEMMA FinishTypes ==
  ASSUME TypeOK, NEW r \in Reqs, NEW status \in Answers, Finish(r, status)
  PROVE  TypeOK'
<1>1. db' \in BookType /\ work' \in BookType /\ writer' \in Reqs \cup {NoReq}
  BY RollbackTypes DEF Finish
<1>2. lock' \in [Users -> Reqs \cup {NoReq}] /\ pc' \in [Reqs -> Labels]
  BY DEF TypeOK, Finish, Go, Labels
<1> QED
  BY <1>1, <1>2 DEF TypeOK, Finish, Nothing

\* Planning keeps the types when what is planned are statements.
LEMMA PlanTypes ==
  ASSUME TypeOK, NEW r \in Reqs, NEW S \in SUBSET Statement, Plan(r, S)
  PROVE  TypeOK'
<1>1. Proceed(r, "flush") /\ "flush" \in Labels
  BY DEF Plan, Labels
<1> QED
  BY <1>1, ProceedTypes DEF TypeOK, Plan, dbVars

-----------------------------------------------------------------------------
(* The type invariant.                                                     *)

\* Locking and the stocks rows keep the types.
LEMMA SessionTypes ==
  ASSUME TypeOK, NEW r \in Reqs, Session(r)
  PROVE  TypeOK'
<1> USE DEF Labels
<1>1. CASE Acquire(r)
  <2>1. FirstStep(r) \in Labels
    BY DEF FirstStep
  <2> QED
    BY <1>1, <2>1 DEF TypeOK, Acquire, Go, dbVars, localVars
<1>2. CASE FindStock(r)
  BY <1>2, ProceedTypes DEF TypeOK, FindStock, dbVars, localVars
<1>3. CASE EnsureStocks(r)
  BY <1>3, ProceedTypes, RequestTypes DEF TypeOK, EnsureStocks, FetchStocks, dbVars
<1>4. CASE RefetchStocks(r)
  BY <1>4, ProceedTypes, RequestTypes DEF TypeOK, RefetchStocks, FetchStocks, dbVars
<1>5. CASE CreateStocks(r)
  <2>1. [View(r) EXCEPT !.stocks = @ \cup missing[r]] \in BookType
    BY ViewTypes DEF TypeOK, BookType
  <2>2. db' \in BookType /\ work' \in BookType /\ writer' \in Reqs \cup {NoReq}
    BY <1>5, <2>1, WriteTypes DEF CreateStocks
  <2> QED
    BY <1>5, <2>2, ProceedTypes DEF TypeOK, CreateStocks
<1>6. CASE StockRace(r)
  BY <1>6, RollbackTypes, ProceedTypes DEF TypeOK, StockRace
<1>7. CASE StockRaceAgain(r) \/ UseExpiredUser(r)
  BY <1>7, FinishTypes DEF StockRaceAgain, UseExpiredUser, Answers
<1> QED
  BY <1>1, <1>2, <1>3, <1>4, <1>5, <1>6, <1>7 DEF Session

\* What a handler plans are statements.
LEMMA PlanningTypes ==
  ASSUME TypeOK, NEW r \in Reqs, Planning(r)
  PROVE  TypeOK'
<1> DEFINE h == Holding(r)
           q == Wanted(r)
           there == {t \in Scope(Wanted(r)) : Holding(r)[t] # 0}
<1>1. h \in [Tickers -> Nat] /\ q \in [Tickers -> Nat] /\ Merged(h, q) \in [Tickers -> Nat]
  BY RequestTypes, ViewTypes DEF Merged
<1>2. Scope(q) \subseteq Tickers /\ there \subseteq Tickers
  BY DEF Scope
<1>3. Record(r) \subseteq Statement
  BY RecordTypes
<1>4. /\ Upsert(h, Merged(h, q), Scope(q)) \subseteq Statement
      /\ Upsert(h, q, Scope(q)) \subseteq Statement
      /\ Change("update", q, there) \subseteq Statement
      /\ Change("delete", q, there) \subseteq Statement
      /\ InsertNew(q, {t \in Scope(q) : h[t] = 0}) \subseteq Statement
  <2>1. {t \in Scope(q) : h[t] = 0} \subseteq Tickers
    BY <1>2
  <2> QED
    BY <1>1, <1>2, <2>1, StatementTypes
<1>5. CASE PlanBuy(r) \/ PlanAdd(r) \/ PlanDividend(r)
  BY <1>3, <1>4, <1>5, PlanTypes DEF PlanBuy, PlanAdd, PlanDividend
<1>6. CASE PlanImport(r) \/ PlanSeed(r)
  BY <1>4, <1>6, PlanTypes DEF PlanImport, PlanSeed
<1>7. CASE PlanUpdate(r) \/ PlanRemove(r)
  BY <1>4, <1>7, PlanTypes DEF PlanUpdate, PlanRemove
<1>8. CASE HoldingNotFound(r) \/ RefuseSell(r)
  BY <1>8, FinishTypes DEF HoldingNotFound, RefuseSell, Answers
<1>9. CASE CheckSell(r)
  BY <1>1, <1>9, ProceedTypes DEF TypeOK, CheckSell, dbVars, Labels
<1> QED
  BY <1>5, <1>6, <1>7, <1>8, <1>9 DEF Planning

\* The statements of a sale, of an undo and of a flush keep the types.
LEMMA WritingTypes ==
  ASSUME TypeOK, NEW r \in Reqs, Writing(r)
  PROVE  TypeOK'
<1> USE DEF Labels
<1>1. View(r) \in BookType /\ who[r] \in Users /\ Holding(r) \in [Tickers -> Nat]
      /\ Wanted(r) \in [Tickers -> Nat]
  BY RequestTypes, ViewTypes
<1>2. CASE Shrink(r)
  <2> DEFINE left == [t \in Tickers |-> Holding(r)[t] - Wanted(r)[t]]
  <2>1. left \in [Tickers -> Nat]
    BY <1>1, <1>2 DEF Shrink, Guarded, Scope
  <2>2. [View(r) EXCEPT !.hold[who[r]] = left] \in BookType
    BY <1>1, <2>1, HoldType
  <2>3. db' \in BookType /\ work' \in BookType /\ writer' \in Reqs \cup {NoReq}
    BY <1>2, <2>2, WriteTypes DEF Shrink
  <2>4. Record(r) \subseteq Statement
    BY RecordTypes
  <2> QED
    BY <1>2, <2>3, <2>4, ProceedTypes DEF TypeOK, Shrink, Nothing
<1>3. CASE DropDust(r)
  <2> DEFINE f == [t \in Tickers |-> IF t \in Scope(Wanted(r)) THEN 0 ELSE View(r).hold[who[r]][t]]
  <2>1. f \in [Tickers -> Nat]
    BY <1>1 DEF Holding
  <2>2. [View(r) EXCEPT !.hold[who[r]] = f] \in BookType
    BY <1>1, <2>1, HoldType
  <2>3. [View(r) EXCEPT !.hold[who[r]] =
           [t \in Tickers |-> IF t \in Scope(Wanted(r)) THEN 0 ELSE @[t]]]
        = [View(r) EXCEPT !.hold[who[r]] = f]
    BY <1>1 DEF BookType
  <2>4. db' \in BookType /\ work' \in BookType /\ writer' \in Reqs \cup {NoReq}
    BY <1>3, <2>2, <2>3, WriteTypes DEF DropDust
  <2> QED
    BY <1>3, <2>4, ProceedTypes DEF TypeOK, DropDust, localVars
<1>4. CASE LookupRow(r)
  BY <1>4, ProceedTypes DEF TypeOK, LookupRow, dbVars, localVars
<1>5. CASE Unledger(r)
  <2>1. [View(r) EXCEPT !.ledger = @ \ RowsOf(View(r), who[r], ask[r].tx)] \in BookType
    BY <1>1 DEF BookType
  <2>2. db' \in BookType /\ work' \in BookType /\ writer' \in Reqs \cup {NoReq}
    BY <1>5, <2>1, WriteTypes DEF Unledger
  <2> QED
    BY <1>5, <2>2, ProceedTypes DEF TypeOK, Unledger, localVars
<1>6. CASE PlanRecompute(r)
  <2> DEFINE S == Scope(ask[ask[r].tx].rows)
             total == [t \in Tickers |-> Recomputed(View(r), who[r], t)]
             none == {t \in S : total[t] = 0}
             gone == {t \in none : Holding(r)[t] # 0}
  <2>1. total \in [Tickers -> Nat]
    BY RecomputedType
  <2>2. S \ none \subseteq Tickers /\ gone \subseteq Tickers
    BY DEF Scope
  <2>3. Upsert(Holding(r), total, S \ none) \subseteq Statement
    BY <1>1, <2>1, <2>2, StatementTypes
  <2>4. Change("delete", Holding(r), gone) \subseteq Statement
    BY <1>1, <2>2, StatementTypes
  <2>5. Plan(r, Upsert(Holding(r), total, S \ none) \cup Change("delete", Holding(r), gone))
    BY <1>6 DEF PlanRecompute
  <2> QED
    BY <2>3, <2>4, <2>5, PlanTypes
<1>7. ASSUME NEW s \in plan[r], Flush(r, s)
      PROVE  TypeOK'
  <2>1. After(r, s) \in BookType
    BY AfterType DEF TypeOK
  <2>2. db' \in BookType /\ work' \in BookType /\ writer' \in Reqs \cup {NoReq}
    BY <1>7, <2>1, WriteTypes DEF Flush
  <2> QED
    BY <1>7, <2>2 DEF TypeOK, Flush
<1>8. ASSUME NEW s \in plan[r], RetryAdd(r, s)
      PROVE  TypeOK'
  BY <1>8, RollbackTypes, ProceedTypes DEF TypeOK, RetryAdd
<1>9. ASSUME NEW s \in plan[r], FlushConflict(r, s) \/ FlushStale(r, s)
      PROVE  TypeOK'
  BY <1>9, FinishTypes DEF FlushConflict, FlushStale, Answers
<1>10. CASE ShrinkMisses(r) \/ RowNotFound(r) \/ Busy(r) \/ Reply(r) \/ RefreshFails(r)
  BY <1>10, FinishTypes DEF ShrinkMisses, RowNotFound, Busy, Reply, RefreshFails, Answers
<1>11. CASE Commit(r)
  BY <1>1, <1>11, EmptyBookType DEF TypeOK, Commit, Go, localVars
<1> QED
  BY <1>2, <1>3, <1>4, <1>5, <1>6, <1>7, <1>8, <1>9, <1>10, <1>11 DEF Writing

\* The purge of an account keeps the types.
LEMMA PurgingTypes ==
  ASSUME TypeOK, NEW r \in Reqs, Purging(r)
  PROVE  TypeOK'
<1> USE DEF Labels
<1>1. View(r) \in BookType /\ who[r] \in Users /\ Nothing \in [Tickers -> Nat]
  BY RequestTypes, ViewTypes DEF Nothing
<1>2. CASE PurgeHoldings(r)
  <2>1. [View(r) EXCEPT !.hold[who[r]] = Nothing] \in BookType
    BY <1>1, HoldType
  <2>2. db' \in BookType /\ work' \in BookType /\ writer' \in Reqs \cup {NoReq}
    BY <1>2, <2>1, WriteTypes DEF PurgeHoldings
  <2> QED
    BY <1>2, <2>2, ProceedTypes DEF TypeOK, PurgeHoldings, localVars
<1>3. CASE PurgeLedger(r)
  <2>1. [View(r) EXCEPT !.ledger = {w \in @ : w.user # who[r]}] \in BookType
    BY <1>1 DEF BookType
  <2>2. db' \in BookType /\ work' \in BookType /\ writer' \in Reqs \cup {NoReq}
    BY <1>3, <2>1, WriteTypes DEF PurgeLedger
  <2> QED
    BY <1>3, <2>2, ProceedTypes DEF TypeOK, PurgeLedger, localVars
<1>4. CASE PurgeUser(r)
  <2>1. [View(r) EXCEPT !.users   = @ \ {who[r]},
                        !.hold[who[r]] = Nothing,
                        !.ledger  = {w \in @ : w.user # who[r]}] \in BookType
    BY <1>1 DEF BookType
  <2>2. db' \in BookType /\ work' \in BookType /\ writer' \in Reqs \cup {NoReq}
    BY <1>4, <2>1, WriteTypes DEF PurgeUser
  <2> QED
    BY <1>4, <2>2, ProceedTypes DEF TypeOK, PurgeUser, localVars
<1>5. CASE PurgeBlocked(r)
  BY <1>5, FinishTypes DEF PurgeBlocked, Answers
<1> QED
  BY <1>2, <1>3, <1>4, <1>5 DEF Purging

\* A restart keeps the types.
LEMMA CrashTypes ==
  ASSUME TypeOK, Crash
  PROVE  TypeOK'
  BY EmptyBookType, CrashesAssumption DEF TypeOK, Crash, Labels, Answers, Nothing

\* Every reachable state has the types the model gives its variables: rows
\* are only ever stored with a quantity that is not negative, for known
\* accounts, and every planned statement is one the session can flush.
THEOREM TypeCorrect == Spec => []TypeOK
<1>1. Init => TypeOK
  BY EmptyBookType, CrashesAssumption DEF Init, TypeOK, Labels, Answers, Nothing
<1>2. TypeOK /\ [Next]_vars => TypeOK'
  <2> SUFFICES ASSUME TypeOK, [Next]_vars PROVE TypeOK'
    OBVIOUS
  <2>1. ASSUME NEW r \in Reqs, Arrive(r) PROVE TypeOK'
    BY <2>1, ProceedTypes DEF TypeOK, Arrive, Labels, dbVars, localVars
  <2>2. ASSUME NEW r \in Reqs, ArriveGone(r) PROVE TypeOK'
    BY <2>2, FinishTypes DEF ArriveGone, Answers
  <2>3. ASSUME NEW r \in Reqs, Handle(r) PROVE TypeOK'
    BY <2>3, SessionTypes, PlanningTypes, WritingTypes, PurgingTypes DEF Handle
  <2>4. CASE UNCHANGED vars
    BY <2>4 DEF TypeOK, vars, dbVars, localVars
  <2> QED
    BY <2>1, <2>2, <2>3, <2>4, CrashTypes DEF Next
<1> QED
  BY <1>1, <1>2, PTL DEF Spec

-----------------------------------------------------------------------------
(* Referential integrity: whatever overlaps with the purge of an account,  *)
(* the rows that are committed belong to accounts that are there.          *)
(* NoDanglingRows alone is not inductive: COMMIT publishes the rows of the *)
(* open transaction, which must be closed as well.                         *)

ClosedInv == TypeOK /\ Closed(db) /\ Closed(work)

\* No positions and no rows: nothing to belong to anybody.
LEMMA EmptyBookClosed == Closed(EmptyBook)
  BY DEF Closed, EmptyBook

\* A session sees a closed book and, by a statement, leaves one.
LEMMA ViewClosed ==
  ASSUME ClosedInv, NEW r \in Reqs
  PROVE  Closed(View(r))
  BY DEF ClosedInv, View

LEMMA WriteClosed ==
  ASSUME ClosedInv, NEW r \in Reqs, NEW b, Closed(b), Write(r, b)
  PROVE  Closed(db)' /\ Closed(work)'
<1>1. CASE Autocommit
  BY <1>1 DEF ClosedInv, Write, Closed, Owns
<1>2. CASE ~Autocommit
  BY <1>2 DEF ClosedInv, Write, Closed, Owns
<1> QED
  BY <1>1, <1>2

LEMMA RollbackClosed ==
  ASSUME ClosedInv, NEW r \in Reqs, Rollback(r)
  PROVE  Closed(db)' /\ Closed(work)'
  BY EmptyBookClosed DEF ClosedInv, Rollback, Closed, Owns

LEMMA SameRowsClosed ==
  ASSUME ClosedInv, UNCHANGED dbVars
  PROVE  Closed(db)' /\ Closed(work)'
  BY DEF ClosedInv, dbVars, Closed, Owns

\* New positions of an account that is there, or none of one that is not.
LEMMA HoldClosed ==
  ASSUME NEW b \in BookType, Closed(b), NEW u \in Users, NEW f \in [Tickers -> Nat],
         u \in b.users \/ f = Nothing
  PROVE  Closed([b EXCEPT !.hold[u] = f])
  BY DEF Closed, Owns, BookType

\* The rows of a purged account are empty in a closed book.
LEMMA PurgedHolds ==
  ASSUME ClosedInv, NEW r \in Reqs, who[r] \notin View(r).users
  PROVE  Holding(r) = Nothing
  BY ViewClosed, RequestTypes DEF ClosedInv, Closed, Owns, Holding

\* The constraints a flush meets keep the book closed.
LEMMA AfterClosed ==
  ASSUME ClosedInv, NEW r \in Reqs, NEW s \in Statement,
         ~BreaksConstraint(r, s), ~FindsNoRow(r, s)
  PROVE  Closed(After(r, s))
<1> DEFINE set == [t \in Tickers |-> IF s.rows[t] # 0 THEN s.rows[t] ELSE Holding(r)[t]]
           zero == [t \in Tickers |-> IF s.rows[t] # 0 THEN 0 ELSE Holding(r)[t]]
<1>1. View(r) \in BookType /\ who[r] \in Users /\ Holding(r) \in [Tickers -> Nat]
  BY RequestTypes, ViewTypes DEF ClosedInv
<1>2. s.rows \in [Tickers -> Nat] /\ Closed(View(r))
  BY ViewClosed DEF Statement
<1>3. who[r] \notin View(r).users => Holding(r) = Nothing
  BY PurgedHolds
<1>4. CASE s.do \in {"insert", "update"}
  <2>1. After(r, s) = [View(r) EXCEPT !.hold[who[r]] = set]
    BY <1>1, <1>4 DEF After, Holding, BookType
  <2>2. who[r] \in View(r).users \/ set = Nothing
    <3> SUFFICES ASSUME who[r] \notin View(r).users PROVE set = Nothing
      OBVIOUS
    <3>1. s.do = "update" /\ \A t \in Scope(s.rows) : Holding(r)[t] # 0
      BY <1>4 DEF BreaksConstraint, FindsNoRow
    <3>2. \A t \in Tickers : s.rows[t] = 0
      BY <1>3, <3>1 DEF Scope, Nothing
    <3> QED
      BY <1>3, <3>2 DEF Nothing
  <2>3. set \in [Tickers -> Nat]
    BY <1>1, <1>2
  <2> QED
    BY <1>1, <1>2, <2>1, <2>2, <2>3, HoldClosed
<1>5. CASE s.do = "delete"
  <2>1. After(r, s) = [View(r) EXCEPT !.hold[who[r]] = zero]
    BY <1>1, <1>5 DEF After, Holding, BookType
  <2>2. who[r] \in View(r).users \/ zero = Nothing
    BY <1>3 DEF Nothing
  <2>3. zero \in [Tickers -> Nat]
    BY <1>1, <1>2
  <2> QED
    BY <1>1, <1>2, <2>1, <2>2, <2>3, HoldClosed
<1>6. CASE s.do = "record"
  <2>1. who[r] \in View(r).users
    BY <1>6 DEF BreaksConstraint
  <2>2. TradeRow(r, who[r], ask[r]).user = who[r]
    BY DEF TradeRow
  <2> QED
    BY <1>1, <1>2, <1>6, <2>1, <2>2 DEF After, Closed, Owns, BookType
<1> QED
  BY <1>4, <1>5, <1>6 DEF Statement

\* A step of a handler keeps the rows closed.
LEMMA HandleClosed ==
  ASSUME ClosedInv, NEW r \in Reqs, Handle(r)
  PROVE  Closed(db)' /\ Closed(work)'
<1>1. /\ TypeOK /\ Closed(View(r))
      /\ View(r) \in BookType /\ who[r] \in Users /\ Holding(r) \in [Tickers -> Nat]
      /\ Wanted(r) \in [Tickers -> Nat]
  BY RequestTypes, ViewTypes, ViewClosed DEF ClosedInv
<1>2. CASE \E status : Finish(r, status)
  BY <1>2, RollbackClosed DEF Finish
<1>3. CASE UNCHANGED dbVars
  BY <1>3, SameRowsClosed
<1>4. CASE CreateStocks(r)
  <2>1. Closed([View(r) EXCEPT !.stocks = @ \cup missing[r]])
    BY <1>1 DEF Closed, Owns, BookType
  <2> QED
    BY <1>4, <2>1, WriteClosed DEF CreateStocks
<1>5. CASE StockRace(r) \/ \E s \in plan[r] : RetryAdd(r, s)
  BY <1>5, RollbackClosed DEF StockRace, RetryAdd
<1>6. CASE Shrink(r)
  <2> DEFINE left == [t \in Tickers |-> Holding(r)[t] - Wanted(r)[t]]
  <2>1. left \in [Tickers -> Nat]
    BY <1>1, <1>6 DEF Shrink, Guarded, Scope
  <2>2. who[r] \in View(r).users \/ left = Nothing
    <3> SUFFICES ASSUME who[r] \notin View(r).users PROVE left = Nothing
      OBVIOUS
    <3>1. Holding(r) = Nothing
      BY PurgedHolds
    <3>2. \A t \in Tickers : Wanted(r)[t] = 0
      BY <1>1, <1>6, <3>1 DEF Shrink, Guarded, Scope, Nothing
    <3> QED
      BY <3>1, <3>2 DEF Nothing
  <2>3. Closed([View(r) EXCEPT !.hold[who[r]] = left])
    BY <1>1, <2>1, <2>2, HoldClosed
  <2> QED
    BY <1>6, <2>3, WriteClosed DEF Shrink
<1>7. CASE DropDust(r)
  <2> DEFINE f == [t \in Tickers |-> IF t \in Scope(Wanted(r)) THEN 0 ELSE Holding(r)[t]]
  <2>1. f \in [Tickers -> Nat]
    BY <1>1
  <2>2. who[r] \in View(r).users \/ f = Nothing
    BY PurgedHolds DEF Nothing
  <2>3. Closed([View(r) EXCEPT !.hold[who[r]] = f])
    BY <1>1, <2>1, <2>2, HoldClosed
  <2>4. [View(r) EXCEPT !.hold[who[r]] =
           [t \in Tickers |-> IF t \in Scope(Wanted(r)) THEN 0 ELSE @[t]]]
        = [View(r) EXCEPT !.hold[who[r]] = f]
    BY <1>1 DEF BookType, Holding
  <2> QED
    BY <1>7, <2>3, <2>4, WriteClosed DEF DropDust
<1>8. CASE Unledger(r)
  <2>1. Closed([View(r) EXCEPT !.ledger = @ \ RowsOf(View(r), who[r], ask[r].tx)])
    BY <1>1 DEF Closed, Owns, BookType
  <2> QED
    BY <1>8, <2>1, WriteClosed DEF Unledger
<1>9. CASE \E s \in plan[r] : Flush(r, s)
  <2>1. PICK s \in plan[r] : Flush(r, s)
    BY <1>9
  <2>2. s \in Statement
    BY <1>1 DEF TypeOK
  <2>3. Closed(After(r, s))
    BY <2>1, <2>2, AfterClosed DEF Flush
  <2> QED
    BY <2>1, <2>3, WriteClosed DEF Flush
<1>10. CASE Commit(r)
  BY <1>1, <1>10, EmptyBookClosed DEF Commit, ClosedInv, Closed, Owns
<1>11. CASE PurgeHoldings(r)
  <2>1. Closed([View(r) EXCEPT !.hold[who[r]] = Nothing])
    BY <1>1, HoldClosed DEF Nothing
  <2> QED
    BY <1>11, <2>1, WriteClosed DEF PurgeHoldings
<1>12. CASE PurgeLedger(r)
  <2>1. Closed([View(r) EXCEPT !.ledger = {w \in @ : w.user # who[r]}])
    BY <1>1 DEF Closed, Owns, BookType
  <2> QED
    BY <1>12, <2>1, WriteClosed DEF PurgeLedger
<1>13. CASE PurgeUser(r)
  <2>1. Closed([View(r) EXCEPT !.users   = @ \ {who[r]},
                               !.hold[who[r]] = Nothing,
                               !.ledger  = {w \in @ : w.user # who[r]}])
    BY <1>1 DEF Closed, Owns, BookType
  <2> QED
    BY <1>13, <2>1, WriteClosed DEF PurgeUser
<1>14. CASE Session(r)
  BY <1>2, <1>3, <1>4, <1>5, <1>14
     DEF Session, Acquire, FindStock, EnsureStocks, RefetchStocks, FetchStocks,
         StockRaceAgain, UseExpiredUser
<1>15. CASE Planning(r)
  BY <1>2, <1>3, <1>15
     DEF Planning, Plan, PlanBuy, PlanAdd, PlanDividend, PlanImport, PlanSeed, PlanUpdate,
         PlanRemove, HoldingNotFound, CheckSell, RefuseSell
<1>16. CASE Writing(r)
  BY <1>2, <1>3, <1>5, <1>6, <1>7, <1>8, <1>9, <1>10, <1>16
     DEF Writing, Plan, ShrinkMisses, LookupRow, RowNotFound, PlanRecompute, FlushConflict,
         FlushStale, Busy, Reply, RefreshFails
<1>17. CASE Purging(r)
  BY <1>2, <1>11, <1>12, <1>13, <1>17 DEF Purging, PurgeBlocked
<1> QED
  BY <1>14, <1>15, <1>16, <1>17 DEF Handle

\* The inductive invariant holds in every reachable state.
LEMMA ClosedAlways == Spec => []ClosedInv
<1>1. Init => ClosedInv
  <2> SUFFICES ASSUME Init PROVE ClosedInv
    OBVIOUS
  <2>1. TypeOK
    BY EmptyBookType, CrashesAssumption DEF Init, TypeOK, Labels, Answers, Nothing
  <2> QED
    BY <2>1, EmptyBookClosed DEF Init, ClosedInv
<1>2. TypeOK' /\ ClosedInv /\ [Next]_vars => ClosedInv'
  <2> SUFFICES ASSUME TypeOK', ClosedInv, [Next]_vars PROVE Closed(db)' /\ Closed(work)'
    BY DEF ClosedInv
  <2>1. ASSUME NEW r \in Reqs, Arrive(r) PROVE Closed(db)' /\ Closed(work)'
    BY <2>1, SameRowsClosed DEF Arrive
  <2>2. ASSUME NEW r \in Reqs, ArriveGone(r) PROVE Closed(db)' /\ Closed(work)'
    BY <2>2, RollbackClosed DEF ArriveGone, Finish
  <2>3. ASSUME NEW r \in Reqs, Handle(r) PROVE Closed(db)' /\ Closed(work)'
    BY <2>3, HandleClosed
  <2>4. CASE Crash
    BY <2>4, EmptyBookClosed DEF Crash, ClosedInv, Closed, Owns
  <2>5. CASE UNCHANGED vars
    BY <2>5, SameRowsClosed DEF vars
  <2> QED
    BY <2>1, <2>2, <2>3, <2>4, <2>5 DEF Next
<1> QED
  BY <1>1, <1>2, TypeCorrect, PTL DEF Spec

\* However delete_user, the handlers of its account and crashes interleave,
\* with foreign keys that cascade or that do not, in one SQL transaction or
\* committing every statement: no committed row refers to a purged account.
THEOREM RowsStayClosed == Spec => []NoDanglingRows
<1>1. ClosedInv => NoDanglingRows
  BY DEF ClosedInv, NoDanglingRows
<1> QED
  BY <1>1, ClosedAlways, PTL

-----------------------------------------------------------------------------
(* The lock of an account.  A handler between its Acquire and its answer   *)
(* holds the lock of its account, unless it is the purge, which takes      *)
(* none.  From there: the position a sale has checked is the committed one *)
(* until the sale writes it.                                               *)

PurgeLabels == {"purgeHoldings", "purgeLedger", "purgeUser"}
Before == {"stock", "ensure", "create", "refetch", "recreate", "read", "shrink"}
Inside == Before \cup {"drop", "lookup", "unledger", "recompute", "flush", "reply"}

Purges(r) == ask[r].name = "purge"

LockInv ==
  \A r \in Reqs : /\ pc[r] \in PurgeLabels => Purges(r)
                  /\ pc[r] \in Inside => Purges(r) \/ lock[who[r]] = r

\* A handler that goes on inside its critical section.
GoesOn(r) ==
  /\ pc[r] \in Inside
  /\ \E label \in Inside : Go(r, label)
  /\ UNCHANGED <<lock, who, ask>>

\* The purge goes on without a lock.
PurgeGoesOn(r) ==
  /\ pc[r] \in PurgeLabels
  /\ \E label \in PurgeLabels \cup {"flush"} : Go(r, label)
  /\ UNCHANGED <<lock, who, ask>>

\* What a step of a handler does to pc and to the lock.
LEMMA HandlerMoves ==
  ASSUME TypeOK, NEW r \in Reqs, Handle(r)
  PROVE  \/ Acquire(r)
         \/ GoesOn(r)
         \/ PurgeGoesOn(r)
         \/ \E status : Finish(r, status)
<1> USE DEF Inside, Before, PurgeLabels, At
<1>1. CASE Session(r)
  <2>1. CASE FindStock(r) \/ EnsureStocks(r) \/ RefetchStocks(r) \/ CreateStocks(r) \/ StockRace(r)
    <3>1. pc[r] \in Inside /\ \E label \in Inside : Proceed(r, label)
      BY <2>1 DEF FindStock, EnsureStocks, RefetchStocks, FetchStocks, CreateStocks, StockRace
    <3> QED
      BY <3>1 DEF GoesOn, Proceed
  <2>2. CASE StockRaceAgain(r) \/ UseExpiredUser(r)
    BY <2>2 DEF StockRaceAgain, UseExpiredUser
  <2> QED
    BY <1>1, <2>1, <2>2 DEF Session
<1>2. CASE Planning(r)
  <2>1. CASE HoldingNotFound(r) \/ RefuseSell(r)
    BY <2>1 DEF HoldingNotFound, RefuseSell
  <2>2. CASE ~(HoldingNotFound(r) \/ RefuseSell(r))
    <3>1. pc[r] \in Inside /\ \E label \in Inside : Proceed(r, label)
      BY <1>2, <2>2 DEF Planning, Reads, Plan, PlanBuy, PlanAdd, PlanDividend, PlanImport,
                        PlanSeed, PlanUpdate, PlanRemove, CheckSell
    <3> QED
      BY <3>1 DEF GoesOn, Proceed
  <2> QED
    BY <2>1, <2>2
<1>3. CASE Writing(r)
  <2>1. CASE ShrinkMisses(r) \/ RowNotFound(r) \/ Busy(r) \/ Reply(r) \/ RefreshFails(r)
    BY <2>1 DEF ShrinkMisses, RowNotFound, Busy, Reply, RefreshFails
  <2>2. CASE \E s \in plan[r] : FlushConflict(r, s) \/ FlushStale(r, s)
    BY <2>2 DEF FlushConflict, FlushStale
  <2>3. CASE \E s \in plan[r] : Flush(r, s)
    BY <2>3 DEF Flush, Go, GoesOn, TypeOK
  <2>4. CASE Commit(r)
    BY <2>4 DEF Commit, GoesOn
  <2>5. CASE \/ Shrink(r) \/ DropDust(r) \/ LookupRow(r) \/ Unledger(r) \/ PlanRecompute(r)
             \/ \E s \in plan[r] : RetryAdd(r, s)
    <3>1. pc[r] \in Inside /\ \E label \in Inside : Proceed(r, label)
      BY <2>5 DEF Plan, Shrink, DropDust, LookupRow, Unledger, PlanRecompute, RetryAdd
    <3> QED
      BY <3>1 DEF GoesOn, Proceed
  <2> QED
    BY <1>3, <2>1, <2>2, <2>3, <2>4, <2>5 DEF Writing
<1>4. CASE Purging(r)
  <2>1. CASE PurgeHoldings(r) \/ PurgeLedger(r) \/ PurgeUser(r)
    <3>1. pc[r] \in PurgeLabels /\ \E label \in PurgeLabels \cup {"flush"} : Proceed(r, label)
      BY <2>1 DEF PurgeHoldings, PurgeLedger, PurgeUser
    <3> QED
      BY <3>1 DEF PurgeGoesOn, Proceed
  <2>2. CASE PurgeBlocked(r)
    BY <2>2 DEF PurgeBlocked
  <2> QED
    BY <1>4, <2>1, <2>2 DEF Purging
<1> QED
  BY <1>1, <1>2, <1>3, <1>4 DEF Handle

\* The asyncio.Lock of an account excludes: two handlers that run for the
\* same account, neither of them its purge, are the same handler.
OneHandlerPerAccount ==
  \A r, x \in Reqs :
    /\ who[r] = who[x] /\ ~Purges(r) /\ ~Purges(x)
    /\ pc[r] \in Inside /\ pc[x] \in Inside
    => r = x

THEOREM LockExcludes == Spec => [](LockInv /\ OneHandlerPerAccount)
<1> USE DEF PurgeLabels, Before, Inside
<1>1. Init => LockInv
  BY DEF Init, LockInv
<1>2. TypeOK /\ LockInv /\ [Next]_vars => LockInv'
  <2> SUFFICES ASSUME TypeOK, LockInv, [Next]_vars PROVE LockInv'
    OBVIOUS
  <2>1. ASSUME NEW r \in Reqs, \E status : Finish(r, status) PROVE LockInv'
    BY <2>1 DEF TypeOK, LockInv, Finish, Go, Purges
  <2>2. ASSUME NEW r \in Reqs, Arrive(r) PROVE LockInv'
    BY <2>2 DEF TypeOK, LockInv, Arrive, Proceed, Go, Asks, Purges
  <2>3. ASSUME NEW r \in Reqs, Handle(r) PROVE LockInv'
    <3>1. CASE Acquire(r)
      <4>1. FirstStep(r) \in Inside
        BY DEF FirstStep
      <4> QED
        BY <3>1, <4>1, NoReqAssumption DEF TypeOK, LockInv, Acquire, Go, Purges
    <3>2. CASE GoesOn(r)
      BY <3>2 DEF TypeOK, LockInv, GoesOn, Go, Purges
    <3>3. CASE PurgeGoesOn(r)
      BY <3>3 DEF TypeOK, LockInv, PurgeGoesOn, Go, Purges
    <3> QED
      BY <2>1, <2>3, <3>1, <3>2, <3>3, HandlerMoves
  <2>4. CASE Crash
    BY <2>4 DEF TypeOK, LockInv, Crash, InFlight, Purges
  <2>5. CASE UNCHANGED vars
    BY <2>5 DEF LockInv, vars, Purges
  <2> QED
    BY <2>1, <2>2, <2>3, <2>4, <2>5 DEF Next, ArriveGone
<1>3. LockInv => OneHandlerPerAccount
  BY DEF LockInv, OneHandlerPerAccount
<1> QED
  BY <1>1, <1>2, <1>3, TypeCorrect, PTL DEF Spec

-----------------------------------------------------------------------------
(* What a sale has read stays what is committed.  The lock alone does not  *)
(* give it: an open transaction must differ from the committed rows only   *)
(* in the positions of its own account, and not at all before the handler  *)
(* writes its first position.                                              *)

WriterInv ==
  /\ Autocommit => writer = NoReq
  /\ writer # NoReq =>
       /\ \A u \in Users \ {who[writer]} : work.hold[u] = db.hold[u]
       /\ pc[writer] \in Inside \cup PurgeLabels
       /\ pc[writer] \in Before => work.hold[who[writer]] = db.hold[who[writer]]

PurgeAround(r) == \E x \in Reqs : ask[x].name = "purge" /\ who[x] = who[r]

SeenInv ==
  \A r \in Reqs : pc[r] = "shrink" => db.hold[who[r]] = seen[r] \/ PurgeAround(r)

SaleInv == LockInv /\ WriterInv /\ SeenInv

\* A step that writes no row, moves r only, and does not let r check a sale.
LEMMA QuietStep ==
  ASSUME TypeOK, SaleInv, NEW r \in Reqs, NEW label,
         UNCHANGED <<dbVars, who, ask>>, Go(r, label), label # "shrink",
         \A x \in Reqs \ {r} : seen'[x] = seen[x],
         writer = r => /\ label \in Inside \cup PurgeLabels
                       /\ label \in Before => pc[r] \in Before
  PROVE  WriterInv' /\ SeenInv'
<1>1. WriterInv'
  BY DEF TypeOK, SaleInv, WriterInv, Go, dbVars, Before, Inside, PurgeLabels
<1>2. SeenInv'
  BY DEF TypeOK, SaleInv, SeenInv, PurgeAround, Go, dbVars
<1> QED
  BY <1>1, <1>2

\* A statement that writes positions of r's account only, after which r is
\* past its reads; or that writes no position at all.
LEMMA OwnWrite ==
  ASSUME TypeOK, SaleInv, NEW r \in Reqs, NEW b \in BookType, Write(r, b),
         \A u \in Users \ {who[r]} : b.hold[u] = View(r).hold[u],
         UNCHANGED <<who, ask>>,
         pc[r] \in Inside \cup PurgeLabels,
         NEW label \in Inside \cup PurgeLabels, Go(r, label), label # "shrink",
         label \in Before => /\ pc[r] \in Before
                             /\ b.hold[who[r]] = View(r).hold[who[r]],
         \A x \in Reqs \ {r} : seen'[x] = seen[x]
  PROVE  WriterInv' /\ SeenInv'
<1>1. who[r] \in Users /\ r # NoReq
  BY RequestTypes, NoReqAssumption
<1>2. CASE Autocommit
  <2>1. writer = NoReq /\ View(r) = db /\ db' = b /\ writer' = writer /\ work' = work
    BY <1>1, <1>2 DEF SaleInv, WriterInv, Write, View
  <2>2. WriterInv'
    BY <1>2, <2>1 DEF WriterInv
  <2>3. SeenInv'
    <3> SUFFICES ASSUME NEW x \in Reqs, pc'[x] = "shrink"
                 PROVE  db'.hold[who'[x]] = seen'[x] \/ PurgeAround(x)'
      BY DEF SeenInv
    <3>1. x # r /\ pc[x] = "shrink" /\ seen'[x] = seen[x]
      BY DEF TypeOK, Go
    <3>2. CASE who[x] # who[r]
      BY <2>1, <3>1, <3>2, RequestTypes DEF SaleInv, SeenInv, PurgeAround
    <3>3. CASE who[x] = who[r]
      BY <3>1, <3>3 DEF SaleInv, LockInv, PurgeAround, Purges, Inside, Before
    <3> QED
      BY <3>2, <3>3
  <2> QED
    BY <2>2, <2>3
<1>3. CASE ~Autocommit
  <2>1. writer \in {NoReq, r} /\ writer' = r /\ work' = b /\ db' = db
    BY <1>3 DEF Write, CanWrite
  <2>2. \A u \in Users \ {who[r]} : b.hold[u] = db.hold[u]
    BY <1>1, <2>1 DEF SaleInv, WriterInv, View
  <2>3. label \in Before => b.hold[who[r]] = db.hold[who[r]]
    BY <1>1, <2>1 DEF SaleInv, WriterInv, View
  <2>4. WriterInv'
    BY <1>1, <1>3, <2>1, <2>2, <2>3 DEF WriterInv, Go, TypeOK
  <2>5. SeenInv'
    BY <2>1 DEF TypeOK, SaleInv, SeenInv, PurgeAround, Go
  <2> QED
    BY <2>4, <2>5
<1> QED
  BY <1>2, <1>3

\* The open transaction of r, if any, is dropped; the committed rows stay.
LEMMA RollbackStep ==
  ASSUME TypeOK, SaleInv, NEW r \in Reqs, NEW label, Rollback(r),
         UNCHANGED <<who, ask>>, Go(r, label), label # "shrink",
         \A x \in Reqs \ {r} : seen'[x] = seen[x]
  PROVE  WriterInv' /\ SeenInv'
<1>1. WriterInv'
  <2>1. writer' # NoReq => writer' = writer /\ work' = work /\ writer # r
    BY NoReqAssumption DEF Rollback
  <2>2. db' = db /\ \A x \in Reqs \ {r} : pc'[x] = pc[x]
    BY DEF Rollback, Go, TypeOK
  <2>3. Autocommit => writer' = NoReq
    BY DEF SaleInv, WriterInv, Rollback
  <2> QED
    BY <2>1, <2>2, <2>3 DEF TypeOK, SaleInv, WriterInv
<1>2. SeenInv'
  BY DEF TypeOK, SaleInv, SeenInv, PurgeAround, Go, Rollback
<1> QED
  BY <1>1, <1>2

\* COMMIT publishes the positions of r's account, which no other handler but
\* a purge is reading.
LEMMA CommitStep ==
  ASSUME TypeOK, SaleInv, NEW r \in Reqs, Commit(r)
  PROVE  WriterInv' /\ SeenInv'
<1>1. r # NoReq /\ pc[r] = "flush" /\ who[r] \in Users
  BY RequestTypes, NoReqAssumption DEF Commit, At
<1>2. \A x \in Reqs \ {r} : pc'[x] = pc[x]
  BY DEF Commit, Go, TypeOK
<1>3. UNCHANGED <<who, ask, seen>> /\ pc'[r] = "reply"
  BY DEF Commit, Go, localVars, TypeOK
<1>4. CASE writer = r
  <2>1. writer' = NoReq /\ db' = work
    BY <1>4 DEF Commit, View
  <2>2. \A u \in Users \ {who[r]} : db'.hold[u] = db.hold[u]
    BY <1>1, <1>4, <2>1 DEF SaleInv, WriterInv
  <2>3. SeenInv'
    <3> SUFFICES ASSUME NEW x \in Reqs, pc'[x] = "shrink"
                 PROVE  db'.hold[who'[x]] = seen'[x] \/ PurgeAround(x)'
      BY DEF SeenInv
    <3>1. x # r /\ pc[x] = "shrink" /\ seen'[x] = seen[x]
      BY <1>2, <1>3
    <3>2. CASE who[x] # who[r]
      BY <1>3, <2>2, <3>1, <3>2, RequestTypes DEF SaleInv, SeenInv, PurgeAround
    <3>3. CASE who[x] = who[r]
      BY <1>1, <1>3, <3>1, <3>3 DEF SaleInv, LockInv, PurgeAround, Purges, Inside, Before
    <3> QED
      BY <3>2, <3>3
  <2> QED
    BY <2>1, <2>3 DEF WriterInv
<1>5. CASE writer # r
  <2>1. writer' = writer /\ work' = work /\ db' = db
    BY <1>5 DEF Commit, View
  <2> QED
    BY <1>2, <1>3, <1>5, <2>1 DEF TypeOK, SaleInv, WriterInv, SeenInv, PurgeAround, Before, Inside
<1> QED
  BY <1>4, <1>5

\* A step of a handler.
LEMMA HandleSale ==
  ASSUME TypeOK, SaleInv, NEW r \in Reqs, Handle(r)
  PROVE  WriterInv' /\ SeenInv'
<1> USE DEF Before, Inside, PurgeLabels, At
<1>1. View(r) \in BookType /\ who[r] \in Users
  BY RequestTypes, ViewTypes
<1>2. r \in Reqs /\ pc \in [Reqs -> Labels] /\ seen \in [Reqs -> [Tickers -> Nat]]
  BY DEF TypeOK
<1>3. CASE \E status : Finish(r, status)
  BY <1>2, <1>3, RollbackStep DEF Finish
<1>4. CASE StockRace(r) \/ \E s \in plan[r] : RetryAdd(r, s)
  <2>1. Rollback(r) /\ UNCHANGED seen /\ \E label \in {"refetch", "stock"} : Proceed(r, label)
    BY <1>4 DEF StockRace, RetryAdd
  <2> QED
    BY <2>1, RollbackStep DEF Proceed
<1>5. CASE Acquire(r)
  <2>1. writer # r
    BY <1>5, NoReqAssumption DEF SaleInv, WriterInv, Acquire
  <2>2. FirstStep(r) # "shrink"
    BY DEF FirstStep
  <2> QED
    BY <1>5, <2>1, <2>2, QuietStep DEF Acquire, localVars
<1>6. CASE FindStock(r) \/ EnsureStocks(r) \/ RefetchStocks(r)
  <2>1. \E label \in {"read", "ensure", "create", "recreate"} : Proceed(r, label)
    BY <1>6 DEF FindStock, EnsureStocks, RefetchStocks, FetchStocks
  <2>2. pc[r] \in Before /\ UNCHANGED <<dbVars, seen>>
    BY <1>6 DEF FindStock, EnsureStocks, RefetchStocks, FetchStocks, localVars
  <2> QED
    BY <2>1, <2>2, QuietStep DEF Proceed
<1>7. CASE CreateStocks(r)
  <2> DEFINE b == [View(r) EXCEPT !.stocks = @ \cup missing[r]]
  <2>1. b \in BookType /\ \A u \in Users : b.hold[u] = View(r).hold[u]
    BY <1>1 DEF TypeOK, BookType
  <2> HIDE DEF b
  <2>2. Write(r, b) /\ Proceed(r, "read") /\ UNCHANGED seen /\ pc[r] \in Before
    BY <1>7 DEF CreateStocks, b
  <2> QED
    BY <1>1, <2>1, <2>2, OwnWrite DEF Proceed
<1>8. CASE CheckSell(r)
  <2>1. /\ pc[r] = "read" /\ Go(r, "shrink") /\ UNCHANGED <<dbVars, who, ask>>
        /\ seen' = [seen EXCEPT ![r] = Holding(r)]
    BY <1>8 DEF CheckSell, Reads, Proceed
  <2>2. Holding(r) = db.hold[who[r]]
    BY <1>1, <1>2, <2>1, NoReqAssumption DEF Holding, View, SaleInv, WriterInv
  <2>3. WriterInv'
    BY <1>2, <2>1 DEF SaleInv, WriterInv, dbVars, Go
  <2>4. SeenInv'
    BY <1>2, <2>1, <2>2 DEF SaleInv, SeenInv, PurgeAround, dbVars, Go
  <2> QED
    BY <2>3, <2>4
<1>9. CASE \/ PlanBuy(r) \/ PlanAdd(r) \/ PlanDividend(r) \/ PlanImport(r) \/ PlanSeed(r)
           \/ PlanUpdate(r) \/ PlanRemove(r) \/ LookupRow(r) \/ PlanRecompute(r)
  <2>1. \E label \in {"flush", "unledger"} : Proceed(r, label)
    BY <1>9 DEF PlanBuy, PlanAdd, PlanDividend, PlanImport, PlanSeed, PlanUpdate, PlanRemove,
                LookupRow, PlanRecompute, Plan
  <2>2. UNCHANGED <<dbVars, seen>>
    BY <1>9 DEF PlanBuy, PlanAdd, PlanDividend, PlanImport, PlanSeed, PlanUpdate, PlanRemove,
                LookupRow, PlanRecompute, Plan, localVars
  <2> QED
    BY <2>1, <2>2, QuietStep DEF Proceed
<1>10. CASE Shrink(r)
  <2> DEFINE left == [t \in Tickers |-> Holding(r)[t] - Wanted(r)[t]]
             b == [View(r) EXCEPT !.hold[who[r]] = left]
  <2>1. left \in [Tickers -> Nat]
    BY <1>10, RequestTypes, ViewTypes DEF Shrink, Guarded, Scope
  <2>2. b \in BookType
    BY <1>1, <2>1, HoldType
  <2>3. \A u \in Users \ {who[r]} : b.hold[u] = View(r).hold[u]
    BY <1>1 DEF BookType
  <2> HIDE DEF b
  <2>4. /\ Write(r, b) /\ pc[r] \in Inside
        /\ seen' = [seen EXCEPT ![r] = Nothing]
        /\ \E label \in {"drop", "flush"} : Proceed(r, label)
    BY <1>10 DEF Shrink, b
  <2> QED
    BY <1>2, <2>2, <2>3, <2>4, OwnWrite DEF Proceed
<1>11. CASE DropDust(r)
  <2> DEFINE f == [t \in Tickers |-> IF t \in Scope(Wanted(r)) THEN 0 ELSE View(r).hold[who[r]][t]]
             b == [View(r) EXCEPT !.hold[who[r]] = f]
  <2>1. f \in [Tickers -> Nat]
    BY ViewTypes DEF Holding
  <2>2. b \in BookType
    BY <1>1, <2>1, HoldType
  <2>3. \A u \in Users \ {who[r]} : b.hold[u] = View(r).hold[u]
    BY <1>1 DEF BookType
  <2>4. b = [View(r) EXCEPT !.hold[who[r]] =
               [t \in Tickers |-> IF t \in Scope(Wanted(r)) THEN 0 ELSE @[t]]]
    BY <1>1 DEF BookType
  <2> HIDE DEF b
  <2>5. Write(r, b) /\ pc[r] \in Inside /\ Proceed(r, "flush") /\ UNCHANGED seen
    BY <1>11, <2>4 DEF DropDust, localVars
  <2> QED
    BY <2>2, <2>3, <2>5, OwnWrite DEF Proceed
<1>12. CASE Unledger(r)
  <2> DEFINE b == [View(r) EXCEPT !.ledger = @ \ RowsOf(View(r), who[r], ask[r].tx)]
  <2>1. b \in BookType /\ \A u \in Users : b.hold[u] = View(r).hold[u]
    BY <1>1 DEF BookType
  <2> HIDE DEF b
  <2>2. Write(r, b) /\ pc[r] \in Inside /\ Proceed(r, "recompute") /\ UNCHANGED seen
    BY <1>12 DEF Unledger, localVars, b
  <2> QED
    BY <2>1, <2>2, OwnWrite DEF Proceed
<1>13. CASE \E s \in plan[r] : Flush(r, s)
  <2>1. PICK s \in plan[r] : Flush(r, s)
    BY <1>13
  <2>2. s \in Statement /\ After(r, s) \in BookType
    BY AfterType DEF TypeOK
  <2>3. \A u \in Users \ {who[r]} : After(r, s).hold[u] = View(r).hold[u]
    BY <1>1, <2>2 DEF After, BookType, Statement
  <2>4. Write(r, After(r, s)) /\ pc[r] = "flush" /\ Go(r, "flush") /\ UNCHANGED <<who, ask, seen>>
    BY <1>2, <2>1 DEF Flush, Go
  <2> QED
    BY <2>2, <2>3, <2>4, OwnWrite
<1>14. CASE PurgeHoldings(r)
  <2> DEFINE b == [View(r) EXCEPT !.hold[who[r]] = Nothing]
  <2>1. b \in BookType
    BY <1>1, HoldType DEF Nothing
  <2>2. \A u \in Users \ {who[r]} : b.hold[u] = View(r).hold[u]
    BY <1>1 DEF BookType
  <2> HIDE DEF b
  <2>3. Write(r, b) /\ pc[r] \in PurgeLabels /\ Proceed(r, "purgeLedger") /\ UNCHANGED seen
    BY <1>14 DEF PurgeHoldings, localVars, b
  <2> QED
    BY <2>1, <2>2, <2>3, OwnWrite DEF Proceed
<1>15. CASE PurgeLedger(r)
  <2> DEFINE b == [View(r) EXCEPT !.ledger = {w \in @ : w.user # who[r]}]
  <2>1. b \in BookType /\ \A u \in Users : b.hold[u] = View(r).hold[u]
    BY <1>1 DEF BookType
  <2> HIDE DEF b
  <2>2. Write(r, b) /\ pc[r] \in PurgeLabels /\ Proceed(r, "purgeUser") /\ UNCHANGED seen
    BY <1>15 DEF PurgeLedger, localVars, b
  <2> QED
    BY <2>1, <2>2, OwnWrite DEF Proceed
<1>16. CASE PurgeUser(r)
  <2> DEFINE b == [View(r) EXCEPT !.users   = @ \ {who[r]},
                                  !.hold[who[r]] = Nothing,
                                  !.ledger  = {w \in @ : w.user # who[r]}]
  <2>1. b \in BookType /\ \A u \in Users \ {who[r]} : b.hold[u] = View(r).hold[u]
    BY <1>1 DEF BookType, Nothing
  <2> HIDE DEF b
  <2>2. Write(r, b) /\ pc[r] \in PurgeLabels /\ Proceed(r, "flush") /\ UNCHANGED seen
    BY <1>16 DEF PurgeUser, localVars, b
  <2> QED
    BY <2>1, <2>2, OwnWrite DEF Proceed
<1>17. CASE Session(r)
  BY <1>3, <1>4, <1>5, <1>6, <1>7, <1>17 DEF Session, StockRaceAgain, UseExpiredUser
<1>18. CASE Planning(r)
  BY <1>3, <1>8, <1>9, <1>18 DEF Planning, HoldingNotFound, RefuseSell
<1>19. CASE Writing(r)
  BY <1>3, <1>4, <1>9, <1>10, <1>11, <1>12, <1>13, <1>19, CommitStep
     DEF Writing, ShrinkMisses, RowNotFound, FlushConflict, FlushStale, Busy, Reply, RefreshFails
<1>20. CASE Purging(r)
  BY <1>3, <1>14, <1>15, <1>16, <1>20 DEF Purging, PurgeBlocked
<1> QED
  BY <1>17, <1>18, <1>19, <1>20 DEF Handle

\* Between the check of a sale and its guarded UPDATE the committed position
\* is the one that was checked, unless the account is being purged: with any
\* number of accounts, handlers and crashes, on either engine.
THEOREM SalesReadStable == Spec => []SaleReadsStable
<1> USE DEF PurgeLabels, Before, Inside
<1>1. Init => WriterInv /\ SeenInv
  BY DEF Init, WriterInv, SeenInv
<1>2. TypeOK /\ LockInv /\ WriterInv /\ SeenInv /\ [Next]_vars => WriterInv' /\ SeenInv'
  <2> SUFFICES ASSUME TypeOK, SaleInv, [Next]_vars PROVE WriterInv' /\ SeenInv'
    BY DEF SaleInv
  <2>1. ASSUME NEW r \in Reqs, Arrive(r) PROVE WriterInv' /\ SeenInv'
    <3>1. writer # r
      BY <2>1, NoReqAssumption DEF Arrive, At, SaleInv, WriterInv
    <3>2. \E label \in {"purgeHoldings", "wait"} : Proceed(r, label)
      BY <2>1 DEF Arrive
    <3> QED
      BY <2>1, <3>1, <3>2, QuietStep DEF Arrive, Proceed, localVars
  <2>2. ASSUME NEW r \in Reqs, ArriveGone(r) PROVE WriterInv' /\ SeenInv'
    BY <2>2, RollbackStep DEF ArriveGone, Finish, TypeOK
  <2>3. CASE Crash
    BY <2>3 DEF TypeOK, Crash, InFlight, SaleInv, WriterInv, SeenInv
  <2>4. CASE UNCHANGED vars
    BY <2>4 DEF vars, dbVars, localVars, SaleInv, WriterInv, SeenInv, PurgeAround
  <2> QED
    BY <2>1, <2>2, <2>3, <2>4, HandleSale DEF Next
<1>3. SeenInv => SaleReadsStable
  BY DEF SeenInv, SaleReadsStable, PurgeAround, At
<1>4. Spec => []LockInv
  BY LockExcludes, PTL
<1> QED
  BY <1>1, <1>2, <1>3, <1>4, TypeCorrect, PTL DEF Spec
=============================================================================
