\* The SQLCipher engine: the process is killed during a purchase.
CONSTANTS
  Users = {u1}
  Tickers = {t1}
  Reqs = {r1, r2}
  NoReq = NoReq
  Listed = {}
  Ops <- Buys
  Dust = 1
  Autocommit = TRUE
  Cascade = TRUE
  MaxCrashes = 1
SPECIFICATION FairSpec
INVARIANT LedgerBackedAtRest
CHECK_DEADLOCK FALSE
