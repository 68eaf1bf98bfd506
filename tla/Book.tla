-------------------------------- MODULE Book --------------------------------
(***************************************************************************)
(* The data of the portfolio API: the rows of the tables users, stocks,    *)
(* holdings and transactions, and the operations a client may ask for      *)
(* (backend/models/*.py, backend/routers/portfolio.py).                    *)
(*                                                                         *)
(* Abstractions.  A quantity is a natural number of ticks of 10^-4, the    *)
(* precision the code rounds to; prices, fees, notes and dates are left    *)
(* out, no property here depends on them.  The row of a holding is the     *)
(* entry hold[u][t]: UNIQUE(user_id, stock_id) allows one row at most, and *)
(* 0 stands for "no row" because no handler stores a quantity of 0.  A     *)
(* transaction row is named by the request that wrote it.                  *)
(***************************************************************************)
EXTENDS Integers, FiniteSets, FiniteSetsExt

CONSTANTS
  Users,      \* the accounts (the administrator who purges them is not one)
  Tickers,    \* the titles clients name
  Reqs,       \* the HTTP requests of a behaviour, each sent once at most
  NoReq,      \* "no request"
  Listed,     \* the titles that have a stocks row from the start
  Ops,        \* the operations the requests of this instance ask for
  Dust        \* a holding that a sale leaves at or below Dust is removed

Names == {"buy", "sell", "dividend", "add", "update", "batch", "remove",
          "import", "seed", "undo", "purge"}

\* rows gives the quantity asked for per ticker, 0 for a ticker not named;
\* tx is the transaction an "undo" deletes.
Op == [name : Names, rows : [Tickers -> Nat], tx : Reqs \cup {NoReq}]

Types == {"BUY", "SELL", "DIVIDEND"}
Row == [tx : Reqs, user : Users, type : Types, rows : [Tickers -> Nat]]

BookType == [users : SUBSET Users, stocks : SUBSET Tickers,
             hold : [Users -> [Tickers -> Nat]], ledger : SUBSET Row]

ASSUME ListedAssumption == Listed \subseteq Tickers
ASSUME NoReqAssumption == NoReq \notin Reqs
ASSUME OpsAssumption == Ops \subseteq Op
ASSUME DustAssumption == Dust \in Nat

Scope(rows) == {t \in Tickers : rows[t] # 0}

\* A purchase, a sale and a new position name one title, and a quantity
\* greater than 0 (HoldingCreate; the checks of create_transaction).
ASSUME OneTitleAssumption ==
  \A o \in Ops : o.name \in {"buy", "sell", "add"} => \E t \in Tickers : Scope(o.rows) = {t}

Nothing == [t \in Tickers |-> 0]
Only(rows, S) == [t \in Tickers |-> IF t \in S THEN rows[t] ELSE 0]

EmptyBook == [users |-> Users, stocks |-> Listed,
              hold |-> [u \in Users |-> Nothing], ledger |-> {}]

TradeType(name) == CASE name = "buy"  -> "BUY"
                     [] name = "sell" -> "SELL"
                     [] OTHER         -> "DIVIDEND"

TradeRow(r, u, o) == [tx |-> r, user |-> u, type |-> TradeType(o.name), rows |-> o.rows]

\* Mutant: the WHERE clause of a delete loses the id.
RowsOfAnyId(b, u, x) == {w \in b.ledger : w.user = u}

\* The rows of u's ledger that transaction x names: none or one.
RowsOf(b, u, x) == {w \in b.ledger : w.tx = x /\ w.user = u}

Traded(b, u, t, type) ==
  SumFunctionOnSet([w \in b.ledger |-> w.rows[t]],
                   {w \in b.ledger : w.user = u /\ w.type = type})

\* SUM(BUY) - SUM(SELL) over the rows of u for t.
Net(b, u, t) == Traded(b, u, t, "BUY") - Traded(b, u, t, "SELL")

\* Mutant: the sign of total_qty is not looked at.
RecomputedUnchecked(b, u, t) == Net(b, u, t)

\* The holding that delete_transaction recomputes: total_qty, or no row when
\* total_qty <= 0.0001.
Recomputed(b, u, t) ==
  LET total == Net(b, u, t) IN IF total \in Nat /\ total > Dust THEN total ELSE 0

\* What a sale of q leaves of a holding of h.
Remainder(h, q) == IF h - q > Dust THEN h - q ELSE 0
=============================================================================
