\* Each service by itself, over its small instance; a watchlist, its ids used
\* up, and desks that are all done may have nothing left to do.
CONSTANTS
  RowIds = {1, 2}
  Titles = {"a", "b"}
  TitleOf <- RowTitles
  Window <- RowWindows
  Longest = 3
  Readers = {r1, r2}
  SeriesTTL = 2
  RiskTTL = 3
  Budget = 1
  Requests = {r1, r2, r3}
  Keys = {k1, k2}
  NoKey = NoKey
  Nobody = Nobody
  Adders = {r1, r2, r3}
  MaxItems = 4
  Holdable = {"a", "b"}
  Amounts = {0, 1, 2}
  Scopes <- AllScopes
  Euro = 6
  Percents = {0, 50, 100}
  MaxTargets = 2
  Planners = {r1, r2}
  Clients = {c1, c2}
  MaxCalls = 2
  RateWindow = 3
  Accounts = {1, 2}
  Desks = {d1, d2}
  Permits = 1
  Unheld = Unheld
  People = {1, 2}
  Legacy <- LegacyDatabases
  MaxQuantity = 5
SPECIFICATION Spec
INVARIANTS ServicesTypeOK
  Throttled AlertedInTime
  StalenessBounded WritesShowUnlessRaced
  OneRowPerUser KeyCacheCoherent
  DuplicateNeedsRace
  TargetsWithinCap OverlapsKeepShares PlanReachesTargets
  RefusedExactlyWhenFull
  WaitsOutsideTransactions EarlierAdviceSafe
  PositionsKept
PROPERTY ProfilesKept
CHECK_DEADLOCK FALSE
