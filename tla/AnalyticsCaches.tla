-------------------------- MODULE AnalyticsCaches --------------------------
(***************************************************************************)
(* services/analytics.py: the two caches of an account's computed figures, *)
(* the daily series and the risk metrics built from it, and the writes     *)
(* that invalidate them (routers/portfolio.py, delete_user).  Figures are  *)
(* left out: what is kept of a series is what it misses, that is how long  *)
(* ago the oldest write committed that its rows do not show.               *)
(***************************************************************************)
EXTENDS Naturals

CONSTANTS
  Readers,          \* requests that ask for a series or for the metrics
  SeriesTTL, RiskTTL,
  Budget            \* bound: how long a computation waits for Yahoo

ASSUME AnalyticsAssumption ==
  /\ {SeriesTTL, RiskTTL} \subseteq Nat \ {0} /\ Budget \in Nat
  /\ SeriesTTL <= RiskTTL

VARIABLES
  reader,      \* each request: where it is, since when, what its data miss
  stored,      \* _SERIES_CACHE and _RISK_CACHE
  writing      \* a write is committed and has yet to invalidate

analyticsVars == <<reader, stored, writing>>

(* Misses of that age are never served; the number beyond: none is missed. *)
OldestMiss == RiskTTL + SeriesTTL + Budget
NothingMissed == OldestMiss + 1
Worse(a, b) == IF b = NothingMissed \/ (a # NothingMissed /\ a > b) THEN a ELSE b
NoEntry == [age |-> NothingMissed, miss |-> NothingMissed, raced |-> FALSE]
NoReader == [at |-> "idle", risk |-> FALSE, since |-> 0, series |-> 0,
             miss |-> NothingMissed, raced |-> FALSE]
FigureTTL(name) == IF name = "series" THEN SeriesTTL ELSE RiskTTL
IsServed(name) == stored[name].age < FigureTTL(name)

AnalyticsInit ==
  /\ reader = [r \in Readers |-> NoReader]
  /\ stored = [n \in {"series", "risk"} |-> NoEntry]
  /\ writing = FALSE

ReaderGoes(r, new) == reader' = [reader EXCEPT ![r] = new]

(* The clock is read first, then the cache. *)
AskFigures(r, risk) ==
  /\ reader[r].at = "idle"
  /\ IF IsServed(IF risk THEN "risk" ELSE "series")
     THEN UNCHANGED reader
     ELSE ReaderGoes(r, [NoReader EXCEPT !.at = "reading", !.risk = risk])
  /\ UNCHANGED <<stored, writing>>

(* build_portfolio_rows: from here on the computation misses later writes.  *)
ReadRows(r) ==
  /\ reader[r].at = "reading"
  /\ ReaderGoes(r, [reader[r] EXCEPT !.at = IF reader[r].risk THEN "rows" ELSE "series"])
  /\ UNCHANGED <<stored, writing>>

(* compute_risk_metrics asks for the series of the rows it already has: the *)
(* cached one, or one computed from them under a clock read only now.       *)
AskSeries(r) ==
  /\ reader[r].at = "rows"
  /\ IF IsServed("series")
     THEN ReaderGoes(r, [reader[r] EXCEPT !.at = "risk",
                                    !.miss = Worse(@, stored["series"].miss),
                                    !.raced = @ \/ stored["series"].raced])
     ELSE ReaderGoes(r, [reader[r] EXCEPT !.at = "series", !.series = 0])
  /\ UNCHANGED <<stored, writing>>

(* Mutant: the entry is dated when it is stored. *)
StampLate(r, name) == 0

(* The date an entry carries: the clock its function read at the start. *)
Stamp(r, name) == IF name = "series" THEN reader[r].series ELSE reader[r].since

CacheEntry(r, name) == [age |-> Stamp(r, name), miss |-> reader[r].miss, raced |-> reader[r].raced]

StoreSeries(r) ==
  /\ reader[r].at = "series"
  /\ stored' = [stored EXCEPT !["series"] = CacheEntry(r, "series")]
  /\ ReaderGoes(r, IF reader[r].risk THEN [reader[r] EXCEPT !.at = "risk"] ELSE NoReader)
  /\ UNCHANGED writing

(* An account without positions has an empty series, which is not stored.   *)
NoPositions(r) ==
  /\ reader[r].at = "series"
  /\ ReaderGoes(r, IF reader[r].risk THEN [reader[r] EXCEPT !.at = "risk"] ELSE NoReader)
  /\ UNCHANGED <<stored, writing>>

(* The request is cancelled or fails: nothing is stored. *)
Dismiss(r) ==
  /\ reader[r].at # "idle" /\ ReaderGoes(r, NoReader)
  /\ UNCHANGED <<stored, writing>>

StoreRisk(r) ==
  /\ reader[r].at = "risk"
  /\ stored' = [stored EXCEPT !["risk"] = CacheEntry(r, "risk")]
  /\ ReaderGoes(r, NoReader)
  /\ UNCHANGED writing

(* A write commits: whatever was read before misses it. *)
CommitWrite ==
  /\ ~writing /\ writing' = TRUE
  /\ stored' = [n \in DOMAIN stored |->
                  IF stored[n] = NoEntry THEN NoEntry
                  ELSE [stored[n] EXCEPT !.miss = Worse(@, 0)]]
  /\ reader' = [r \in Readers |->
                  IF reader[r].at \in {"idle", "reading"} THEN reader[r]
                  ELSE [reader[r] EXCEPT !.miss = Worse(@, 0)]]

(* Mutant: only the series is dropped. *)
InvalidatedSeries == [stored EXCEPT !["series"] = NoEntry]

(* invalidate_user_caches: both caches, all windows of the account. *)
Invalidated == [n \in DOMAIN stored |-> NoEntry]

(* The write is answered after it; a computation under way stores later.    *)
InvalidateUserCaches ==
  /\ writing /\ writing' = FALSE
  /\ stored' = Invalidated
  /\ reader' = [r \in Readers |-> IF reader[r].miss = NothingMissed THEN reader[r]
                                  ELSE [reader[r] EXCEPT !.raced = TRUE]]

(* A unit of time; a computation and an answer to a write take at most     *)
(* Budget.                                                                  *)
Later(n) == IF n >= OldestMiss THEN n ELSE n + 1
OlderFigure(e) == [e EXCEPT !.age = @ + 1, !.miss = Later(@)]
OlderReader(x) == [x EXCEPT !.since = @ + 1, !.series = @ + 1, !.miss = Later(@)]
AnalyticsTick ==
  /\ ~writing /\ \A r \in Readers : reader[r].at # "idle" => reader[r].since < Budget
  /\ stored' = [n \in DOMAIN stored |->
       IF IsServed(n) THEN OlderFigure(stored[n]) ELSE NoEntry]
  /\ reader' = [r \in Readers |->
       IF reader[r].at = "idle" THEN reader[r] ELSE OlderReader(reader[r])]
  /\ UNCHANGED writing

AnalyticsNext ==
  \/ \E r \in Readers :
       \/ AskFigures(r, TRUE) \/ AskFigures(r, FALSE) \/ ReadRows(r) \/ AskSeries(r)
       \/ StoreSeries(r) \/ StoreRisk(r) \/ NoPositions(r) \/ Dismiss(r)
  \/ CommitWrite \/ InvalidateUserCaches \/ AnalyticsTick
-----------------------------------------------------------------------------
AnalyticsTypeOK ==
  /\ \A r \in Readers : /\ reader[r].at \in {"idle", "reading", "rows", "series", "risk"}
                        /\ reader[r].since \in 0..Budget /\ reader[r].series \in 0..Budget
  /\ \A n \in DOMAIN stored : stored[n].age \in 0..(RiskTTL + Budget) \union {NothingMissed}

(* However a computation and the writes interleave, a series served from    *)
(* the cache shows every write older than its 120 s and the time its rows   *)
(* waited for prices; the metrics, which may be built from a cached series, *)
(* every write older than both lifetimes and that wait.                     *)
StalenessBounded ==
  /\ IsServed("series") /\ stored["series"].miss # NothingMissed
       => stored["series"].miss < SeriesTTL + Budget
  /\ IsServed("risk") /\ stored["risk"].miss # NothingMissed
       => stored["risk"].miss < RiskTTL + SeriesTTL + Budget - 1

(* Once a write is answered, a cached figure hides it only if a computation *)
(* was under way while the write was committed and the caches invalidated.  *)
WritesShowUnlessRaced ==
  ~writing => \A n \in DOMAIN stored :
    IsServed(n) /\ stored[n].miss # NothingMissed => stored[n].raced
=============================================================================
