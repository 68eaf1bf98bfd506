\* One account, four requests over one ticker.
CONSTANTS
  Users = {u1}
  Tickers = {t1}
  Reqs = {r1, r2, r3, r4}
  NoReq = NoReq
  Listed = {t1}
  Ops <- Trades
  Dust = 1
  Autocommit = FALSE
  Cascade = TRUE
  MaxCrashes = 1
SYMMETRY Symmetry
SPECIFICATION Spec
INVARIANTS TypeOK LedgerBacked AnswersAreTrue
PROPERTY ImplementsAtomic
CHECK_DEADLOCK FALSE
