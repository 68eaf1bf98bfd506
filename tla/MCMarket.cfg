\* Two callers, two tickers of which a cache holds one, one worker thread.
CONSTANTS
  t1 = t1
  t2 = t2
  Callers = {c1, c2}
  Tickers = {t1, t2}
  Slots = {1, 2}
  Workers = 1
  CacheMax = 1
  FallbackTTL = 1
  FreshTTL = 2
  SlowTTL = 3
  Short = 1
  Long = 2
  Menus <- PriceMenus
SPECIFICATION FairSpec
PROPERTY CallersAnswered
INVARIANTS MarketTypeOK OneFetchPerKey SyntheticIsShortLived AnswersRecent PoolStaysClosed OthersKeepTheirFetch
CHECK_DEADLOCK FALSE
