\* The plain engine: two accounts import the same new titles.
CONSTANTS
  Users = {u1, u2}
  Tickers = {t1, t2}
  Reqs = {r1, r2}
  NoReq = NoReq
  Listed = {}
  Ops <- Bulk
  Dust = 1
  Autocommit = FALSE
  Cascade = TRUE
  MaxCrashes = 0
SPECIFICATION FairSpec
INVARIANT BulkSurvivesStockRace
CHECK_DEADLOCK FALSE
