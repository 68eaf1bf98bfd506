------------------------- MODULE MCPortfolioLedger -------------------------
(***************************************************************************)
(* The instances of PortfolioLedger that TLC checks.  Requests and tickers *)
(* are interchangeable, accounts too.                                      *)
(***************************************************************************)
EXTENDS PortfolioLedger, TLC

On(t, q) == [x \in Tickers |-> IF x = t THEN q ELSE 0]
Ask(name, rows) == [name |-> name, rows |-> rows, tx |-> NoReq]
Single(names, quantities) ==
  {Ask(n, On(t, q)) : n \in names, t \in Tickers, q \in quantities}
Everything(names, q) == {Ask(n, [x \in Tickers |-> q]) : n \in names}
Undos == {[name |-> "undo", rows |-> Nothing, tx |-> r] : r \in Reqs}

\* The ledger: sales of 2 out of 3 leave dust.
Trades == Single({"buy"}, {3}) \cup Single({"sell"}, {2, 3}) \cup Undos

\* Every way to write a position, on one account.
Manual == Single({"buy"}, {3}) \cup Single({"sell", "add", "update"}, {2}) \cup
          Single({"remove"}, {1}) \cup Everything({"import"}, 4)

\* Accounts that share new tickers, and bulk writes over several tickers.
Shared == Single({"add", "dividend"}, {2}) \cup Single({"sell"}, {3}) \cup
          Everything({"import", "seed"}, 3)

\* The purge of an account against its own writes, on one ticker.
PurgesOf(t) ==
  {Ask("purge", Nothing)} \cup {Ask(n, On(t, 3)) : n \in {"buy", "add", "sell", "update"}} \cup
  {Ask("import", On(t, 2)), Ask("import", Nothing), Ask("seed", On(t, 2))}
Purges == UNION {PurgesOf(t) : t \in Tickers}

\* The three scenarios of MCWrites: each fixes what its requests may ask for,
\* and the first has one account; the handlers are the same.
Writes == Manual \cup Shared \cup Purges
WritesInit ==
  /\ Init
  /\ \/ ask \in [Reqs -> Manual] /\ \E u \in Users : who = [r \in Reqs |-> u]
     \/ ask \in [Reqs -> Shared]
     \/ \E t \in Tickers : ask \in [Reqs -> PurgesOf(t)]
WritesSpec == WritesInit /\ [][Next]_vars

\* Two accounts and a purge, for liveness.
Contending == Everything({"purge"}, 0) \cup Single({"add", "sell"}, {3})

\* One kind of request each, for the runs that refute a claim.
Bulk == Everything({"import", "seed"}, 2)
Buys == Single({"buy"}, {3})

Symmetry == Permutations(Reqs) \cup Permutations(Users) \cup Permutations(Tickers)
=============================================================================
