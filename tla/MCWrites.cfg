\* Every handler that writes: one account over two tickers, two accounts that
\* share new tickers, an account purged while its writes run; killed once.
CONSTANTS
  Users = {u1, u2}
  Tickers = {t1, t2}
  Reqs = {r1, r2, r3}
  NoReq = NoReq
  Listed = {}
  Ops <- Writes
  Dust = 1
  Autocommit = FALSE
  Cascade = TRUE
  MaxCrashes = 1
SYMMETRY Symmetry
SPECIFICATION WritesSpec
INVARIANTS NoDanglingRows SaleReadsStable
PROPERTIES ImplementsAtomic StocksEnterReferenced
CHECK_DEADLOCK FALSE
