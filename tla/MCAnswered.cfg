\* Liveness: two accounts and a purge over one new ticker, no symmetry.
CONSTANTS
  Users = {u1, u2}
  Tickers = {t1}
  Reqs = {r1, r2, r3}
  NoReq = NoReq
  Listed = {}
  Ops <- Contending
  Dust = 1
  Autocommit = FALSE
  Cascade = TRUE
  MaxCrashes = 0
SPECIFICATION FairSpec
PROPERTY Answered
CHECK_DEADLOCK FALSE
