\* The SQLCipher engine on a migrated database (no cascade).
CONSTANTS
  Users = {u1}
  Tickers = {t1}
  Reqs = {r1, r2, r3}
  NoReq = NoReq
  Listed = {}
  Ops <- Purges
  Dust = 1
  Autocommit = TRUE
  Cascade = FALSE
  MaxCrashes = 1
SYMMETRY Symmetry
SPECIFICATION Spec
INVARIANT NoDanglingRows
CHECK_DEADLOCK FALSE
