-------------------------- MODULE AtomicPortfolio --------------------------
(***************************************************************************)
(* What the portfolio API promises: each request takes effect at most once *)
(* and in a single step, on the rows as they are at that step.  A request  *)
(* that is refused, fails or is lost in a crash has no effect at all.      *)
(* PortfolioLedger is shown to implement this specification.               *)
(***************************************************************************)
EXTENDS Book

VARIABLES
  book,       \* the committed rows
  applied,    \* the requests whose effect is in book's history
  who,        \* who[r]: the account that sends r (fixed)
  ask         \* ask[r]: what r asks for (fixed)

vars == <<book, applied, who, ask>>

Init == /\ book = EmptyBook
        /\ applied = {}
        /\ who \in [Reqs -> Users]
        /\ ask \in [Reqs -> Ops]

\* r takes effect: once.
Once(r) == r \notin applied /\ applied' = applied \cup {r} /\ UNCHANGED <<who, ask>>

Asks(r, name) == ask[r].name = name

Buy(r, u) ==
  LET q == ask[r].rows IN
  /\ Asks(r, "buy") /\ Once(r)
  /\ u \in book.users
  /\ book' = [book EXCEPT !.stocks  = @ \cup Scope(q),
                          !.hold[u] = [t \in Tickers |-> @[t] + q[t]],
                          !.ledger  = @ \cup {TradeRow(r, u, ask[r])}]

\* A sale never takes more than is held.
Sell(r, u) ==
  LET q == ask[r].rows IN
  /\ Asks(r, "sell") /\ Once(r)
  /\ u \in book.users
  /\ \A t \in Scope(q) : book.hold[u][t] >= q[t]
  /\ book' = [book EXCEPT !.hold[u] = [t \in Tickers |-> IF t \in Scope(q)
                                                         THEN Remainder(@[t], q[t])
                                                         ELSE @[t]],
                          !.ledger  = @ \cup {TradeRow(r, u, ask[r])}]

Dividend(r, u) ==
  /\ Asks(r, "dividend") /\ Once(r)
  /\ u \in book.users
  /\ book' = [book EXCEPT !.stocks = @ \cup Scope(ask[r].rows),
                          !.ledger = @ \cup {TradeRow(r, u, ask[r])}]

Add(r, u) ==
  LET q == ask[r].rows IN
  /\ Asks(r, "add") /\ Once(r)
  /\ u \in book.users
  /\ book' = [book EXCEPT !.stocks  = @ \cup Scope(q),
                          !.hold[u] = [t \in Tickers |-> @[t] + q[t]]]

\* update and batch touch existing positions only.
Update(r, u) ==
  LET q == ask[r].rows IN
  /\ ask[r].name \in {"update", "batch"} /\ Once(r)
  /\ book' = [book EXCEPT !.hold[u] = [t \in Tickers |-> IF t \in Scope(q) /\ @[t] # 0
                                                         THEN q[t] ELSE @[t]]]

Remove(r, u) ==
  /\ Asks(r, "remove") /\ Once(r)
  /\ book' = [book EXCEPT !.hold[u] = [t \in Tickers |-> IF t \in Scope(ask[r].rows)
                                                         THEN 0 ELSE @[t]]]

\* Every row of the file, or none.  A file without a valid row asks for
\* nothing, whoever sends it.
Import(r, u) ==
  LET q == ask[r].rows IN
  /\ Asks(r, "import") /\ Once(r)
  /\ Scope(q) # {} => u \in book.users
  /\ book' = [book EXCEPT !.stocks  = @ \cup Scope(q),
                          !.hold[u] = [t \in Tickers |-> IF t \in Scope(q)
                                                         THEN q[t] ELSE @[t]]]

\* The demo positions the user does not hold yet: none when the account went
\* after the handler had found nothing to add.
Seed(r, u) ==
  LET q == ask[r].rows IN
  /\ Asks(r, "seed") /\ Once(r)
  /\ \/ /\ u \in book.users
        /\ book' = [book EXCEPT !.stocks  = @ \cup Scope(q),
                                !.hold[u] = [t \in Tickers |-> IF t \in Scope(q) /\ @[t] = 0
                                                               THEN q[t] ELSE @[t]]]
     \/ u \notin book.users /\ UNCHANGED book

\* The row leaves the ledger and the position becomes what the rows that
\* are left add up to.
Undo(r, u) ==
  LET gone == RowsOf(book, u, ask[r].tx)
      left == [book EXCEPT !.ledger = @ \ gone]
  IN  /\ Asks(r, "undo") /\ Once(r)
      /\ book' = [left EXCEPT !.hold[u] =
                    [t \in Tickers |-> IF \E w \in gone : w.rows[t] # 0
                                       THEN Recomputed(left, u, t) ELSE @[t]]]

\* The account goes with everything it owns.
Purge(r, u) ==
  /\ Asks(r, "purge") /\ Once(r)
  /\ book' = [book EXCEPT !.users   = @ \ {u},
                          !.hold[u] = Nothing,
                          !.ledger  = {w \in @ : w.user # u}]

Apply(r, u) ==
  \/ Buy(r, u) \/ Sell(r, u) \/ Dividend(r, u) \/ Add(r, u) \/ Update(r, u)
  \/ Remove(r, u) \/ Import(r, u) \/ Seed(r, u) \/ Undo(r, u) \/ Purge(r, u)

Next == \E r \in Reqs : Apply(r, who[r])

Spec == Init /\ [][Next]_vars
=============================================================================
