----------------------------- MODULE MarketData -----------------------------
(***************************************************************************)
(* services/market_data.py: what stands between the callers of Yahoo       *)
(* Finance and the network, with the shutdown of services/scheduler.py.    *)
(* Callers are coroutines of one event loop (requests and scheduler jobs). *)
(* A call reads the caches, and for what they do not answer it joins the   *)
(* task in flight under its key or starts one; the task sends one blocking *)
(* function to a pool of Workers threads and waits for it at most Budget.  *)
(* Yahoo is external: it answers each ticker or not, late or never.  A     *)
(* datum is "real" (Yahoo's) or synthetic (a fallback, `stale` in the      *)
(* code), and stays what it is wherever it is stored; values are left out. *)
(*                                                                         *)
(* Time is relative: entries and tasks carry ages, capped, and Tick ages   *)
(* them all.  Time passes only while the loop has nothing ready to run.    *)
(***************************************************************************)
EXTENDS Naturals, FiniteSets, SequencesExt

CONSTANTS
  Callers, Tickers,
  Slots,            \* bound: the tasks that exist at once
  Workers,          \* YF_EXECUTOR_MAX_WORKERS
  CacheMax,         \* CACHE_MAX_ENTRIES
  FallbackTTL,      \* _FALLBACK_TTL and DEEP_CACHE_STALE_TTL
  FreshTTL,         \* CACHE_TTL
  SlowTTL,          \* DEEP_CACHE_TTL and the candles' TTLs
  Short, Long       \* the budgets: 1.5 to 4.5 s, and 10 to 15 s

ASSUME MarketAssumption ==
  /\ {Workers, CacheMax, FallbackTTL, FreshTTL, SlowTTL, Short, Long} \subseteq Nat \ {0}
  /\ FallbackTTL <= FreshTTL /\ FreshTTL <= SlowTTL /\ Short <= Long
  /\ Slots \subseteq Nat \ {0} /\ IsFiniteSet(Tickers)

VARIABLES
  call,        \* each caller: idle, or waiting on a slot
  task,        \* the asyncio tasks
  inflight,    \* _INFLIGHT_FETCHES: the slots it holds, each under its key
  cache,       \* the five caches, as sequences in order of insertion
  history,     \* the rows of price_history the last fetch_all_prices added now
  pool,        \* _yf_executor exists
  zombies,     \* threads still busy with a call nobody waits for
  phase,       \* up, flagged, closed: request_yf_shutdown, shutdown_yf_executor
  scheduling   \* APScheduler runs

mdVars == <<call, task, inflight, cache, history, pool, zombies, phase, scheduling>>

BatchKinds == {"batch", "indices", "refresh"}
OwnKinds == {"candles", "resolve", "search", "history"}
Kinds == BatchKinds \union OwnKinds \union {"price", "deep"}
Shared(kind) == kind \notin OwnKinds
Budget(kind) == IF kind \in {"refresh", "deep", "candles", "history"} THEN Long ELSE Short

(* fetch_market_indices fetches through the user-facing batch. *)
TaskKind(kind) == IF kind = "indices" THEN "batch" ELSE kind

Idle == [on |-> 0, kind |-> "price", got |-> <<>>, clock |-> 0]
Free == [st |-> "free", kind |-> "price", ts |-> {}, ran |-> 0, res |-> <<>>]
Waiting(c) == call[c].on # 0
Live(s) == task[s].st \in {"new", "queued", "running"}
-----------------------------------------------------------------------------
(* The caches. *)

(* Mutant: nothing is evicted. *)
PutUnbounded(seq, e) == Append(SelectSeq(seq, LAMBDA f : f.t # e.t), e)

(* _cache_put: an overwritten key keeps its place, the oldest is evicted. *)
Put(seq, e) ==
  IF \E i \in DOMAIN seq : seq[i].t = e.t
  THEN [i \in DOMAIN seq |-> IF seq[i].t = e.t THEN e ELSE seq[i]]
  ELSE IF Len(seq) < CacheMax THEN Append(seq, e) ELSE Append(Tail(seq), e)

Entry(t, real, age, since) == [t |-> t, real |-> real, age |-> age, since |-> since]
Hit(name, t, ttl) == {e \in Range(cache[name]) : e.t = t /\ e.age < ttl}

(* What a fetch of this kind finds in the caches for a ticker. *)
Known(kind, t) ==
  CASE kind = "deep" ->
         {e \in Hit("deep", t, SlowTTL) : e.real \/ e.age < FallbackTTL}
    [] kind = "candles" -> Hit("candles", t, SlowTTL)
    [] kind \in {"resolve", "search", "history"} -> {}
    [] OTHER ->
         IF Hit("price", t, FreshTTL) # {} THEN Hit("price", t, FreshTTL)
         ELSE Hit("fallback", t, FallbackTTL)

PutEach(c, name, ts, res, age) ==
  [c EXCEPT ![name] = FoldLeft(LAMBDA q, t : Put(q, Entry(t, res[t], age, 0)), @, SetToSeq(ts))]

(* Stale prices go to the 10 s cache, the others to the 60 s cache. *)
PutPrices(c, res) ==
  LET stale == {t \in DOMAIN res : ~res[t]}
  IN  PutEach(PutEach(c, "price", DOMAIN res \ stale, res, 0), "fallback", stale, res, 0)

(* What _fetch_current_price_uncached and _fetch_stock_deep_dive_uncached   *)
(* store when their thread answered (res) or their budget is over.          *)
PriceStored(res) == PutPrices(cache, res)
DeepStored(res) == PutEach(cache, "deep", DOMAIN res, res, 0)
StoredByTask(kind, res) ==
  CASE kind = "price" -> PriceStored(res)
    [] kind = "deep" -> DeepStored(res)
    [] OTHER -> cache

(* Mutant: a batch stores what it read in the caches again, as if new. *)
StoredByCallerAgain(k, res) ==
  IF k.kind \in BatchKinds
  THEN [PutPrices(cache, res) EXCEPT !.price =
          FoldLeft(LAMBDA q, t : Put(q, Entry(t, TRUE, 0, k.got[t].since)), @,
                   SetToSeq({t \in DOMAIN k.got : k.got[t].real}))]
  ELSE cache

(* What each caller stores when it resumes; candles carry the call's time. *)
StoredByCaller(k, res) ==
  IF k.kind \in BatchKinds THEN PutPrices(cache, res)
  ELSE IF k.kind = "candles"
       THEN PutEach(cache, "candles", {t \in DOMAIN res : res[t]}, res, k.clock)
  ELSE cache

(* The answers are [real, since] by ticker. *)
AllReal(ans) == \A t \in DOMAIN ans : ans[t].real
Oldest(ans) == Max({ans[t].since : t \in DOMAIN ans})

(* Mutant: only indices that are all synthetic are kept out of their cache. *)
AllStale(ans) == \A t \in DOMAIN ans : ~ans[t].real

(* any(item.get("stale") for item in results) *)
AnyStale(ans) == \E t \in DOMAIN ans : ~ans[t].real

(* The prices that become rows: the stale ones are skipped. *)
Persistable(ans) == {t \in DOMAIN ans : ans[t].real}

(* The answer leaves the function: the indices are cached when none is      *)
(* stale, fetch_all_prices adds its rows, dated now.                        *)
Complete(kind, ans, clock, stored) ==
  /\ cache' = IF kind = "indices" /\ ~AnyStale(ans)
              THEN [stored EXCEPT !.indices =
                      <<Entry("indices", AllReal(ans), clock, Oldest(ans))>>]
              ELSE stored
  /\ history' = IF kind = "refresh" THEN {ans[t] : t \in Persistable(ans)} ELSE history
-----------------------------------------------------------------------------
(* Slots are recycled once their task is over and nobody waits for it. *)
Swept(tasks, calls) ==
  [s \in Slots |->
     IF tasks[s].st = "over" /\ ~\E c \in Callers : calls[c].on = s THEN Free ELSE tasks[s]]

(* Mutant: the pool is made again whatever the flag says. *)
AcceptsAlways == TRUE

(* run_blocking_yf and _get_yf_executor: the flag refuses new work. *)
Accepts == phase = "up"

(* Slots are names only: a new task takes the first one that is free. *)
NewSlots == {s \in Slots : task[s].st = "free" /\ \A r \in Slots : r < s => task[r].st # "free"}

(* Wait for the missing tickers: on the task in flight under the same key,  *)
(* on a new one that replaces a finished one, or on a call of one's own,    *)
(* which goes to the pool (or is refused) in the same step.                 *)
Wait(c, kind, missing, got) ==
  LET same == {s \in inflight : task[s].kind = TaskKind(kind) /\ task[s].ts = missing}
      live == {s \in same : Live(s)}
      new(st) == [st |-> st, kind |-> TaskKind(kind), ts |-> missing, ran |-> 0,
                  res |-> IF st = "over" THEN [t \in missing |-> FALSE] ELSE <<>>]
      wait(s) == call' = [call EXCEPT ![c] = [on |-> s, kind |-> kind, got |-> got, clock |-> 0]]
  IN  \/ /\ Shared(kind) /\ live # {}
         /\ \E s \in live : wait(s)
         /\ UNCHANGED <<task, inflight, pool>>
      \/ /\ Shared(kind) /\ live = {}
         /\ \E s \in NewSlots :
              /\ wait(s)
              /\ task' = [task EXCEPT ![s] = new("new")]
              /\ inflight' = (inflight \ same) \union {s}
         /\ UNCHANGED pool
      \/ /\ ~Shared(kind)
         /\ \E s \in NewSlots :
              /\ wait(s)
              /\ task' = [task EXCEPT ![s] = new(IF Accepts THEN "queued" ELSE "over")]
         /\ pool' = (pool \/ Accepts)
         /\ UNCHANGED inflight

(* What the fetch functions have in common.  Jobs may start while           *)
(* APScheduler runs; after its stop the loop is empty of callers.           *)
Call(c, kind, ts) ==
  LET known == {t \in ts : Known(kind, t) # {}}
      got == [t \in known |-> LET e == CHOOSE e \in Known(kind, t) : TRUE
                              IN  [real |-> e.real, since |-> e.since]]
      whole == Hit("indices", "indices", FreshTTL)
  IN  /\ ~Waiting(c) /\ scheduling
      /\ \/ /\ kind = "indices" /\ whole # {}
            /\ UNCHANGED <<call, task, inflight, pool, cache, history>>
         \/ /\ (kind # "indices" \/ whole = {}) /\ known = ts
            /\ Complete(kind, got, 0, cache)
            /\ UNCHANGED <<call, task, inflight, pool>>
         \/ /\ (kind # "indices" \/ whole = {}) /\ known # ts
            /\ Wait(c, kind, ts \ known, got)
            /\ UNCHANGED <<cache, history>>
      /\ UNCHANGED <<zombies, phase, scheduling>>

(* The functions.  Only the first six have a cache; the indices and the     *)
(* hourly job (fetch_all_prices' one caller, with the long budget) ask for  *)
(* all their titles, the dashboards for any.                                *)
FetchCurrentPrice(c, t) == Call(c, "price", {t})
FetchBatchPrices(c, ts) == Call(c, "batch", ts)
FetchMarketIndices(c) == Call(c, "indices", Tickers)
FetchAllPrices(c) == Call(c, "refresh", Tickers)
FetchStockDeepDive(c, t) == Call(c, "deep", {t})
FetchStockCandles(c, t) == Call(c, "candles", {t})
ResolveStockInfo(c, t) == Call(c, "resolve", {t})
SearchTicker(c, t) == Call(c, "search", {t})
CalculatePortfolioHistory(c, t) == Call(c, "history", {t})

(* The shared coroutine runs up to run_blocking_yf, which queues its work   *)
(* or refuses it: the answer is then all fallbacks.                         *)
Over(s, res) == [task EXCEPT ![s].st = IF Shared(task[s].kind) THEN "ended" ELSE "over",
                             ![s].res = res, ![s].ran = 0]
Fallbacks(s) == [t \in task[s].ts |-> FALSE]

Start(s) ==
  /\ task[s].st = "new"
  /\ IF Accepts
     THEN task' = [task EXCEPT ![s].st = "queued"] /\ pool' = TRUE /\ UNCHANGED cache
     ELSE /\ task' = Over(s, Fallbacks(s)) /\ UNCHANGED pool
          /\ cache' = StoredByTask(task[s].kind, Fallbacks(s))
  /\ UNCHANGED <<call, inflight, history, zombies, phase, scheduling>>

(* A worker takes any queued call (a coarsening of the pool's queue). *)
Run(s) ==
  /\ task[s].st = "queued"
  /\ Cardinality({r \in Slots : task[r].st = "running"}) + zombies < Workers
  /\ task' = [task EXCEPT ![s].st = "running"]
  /\ UNCHANGED <<call, inflight, cache, history, pool, zombies, phase, scheduling>>

(* Yahoo answers some of the tickers; what it does not answer is made up. *)
Outcomes(s) == [task[s].ts -> BOOLEAN]

(* A deep dive whose real price rounds to 0.00 is not stored. *)
Unpriced(s, res) == task[s].kind = "deep" /\ \A t \in DOMAIN res : res[t]

Finish(s, res) ==
  /\ task[s].st = "running"
  /\ task' = Over(s, res)
  /\ \/ cache' = StoredByTask(task[s].kind, res)
     \/ Unpriced(s, res) /\ UNCHANGED cache
  /\ UNCHANGED <<call, inflight, history, pool, zombies, phase, scheduling>>

(* Mutant: a call outside the single flight has no timeout. *)
DueShared(s) ==
  /\ task[s].st \in {"queued", "running"} /\ task[s].ran >= Budget(task[s].kind)
  /\ Shared(task[s].kind)

(* wait_for gives up: a queued call is dropped, a running thread goes on. *)
Due(s) == task[s].st \in {"queued", "running"} /\ task[s].ran >= Budget(task[s].kind)

Timeout(s) ==
  /\ Due(s)
  /\ zombies' = zombies + (IF task[s].st = "running" THEN 1 ELSE 0)
  /\ task' = Over(s, Fallbacks(s))
  /\ cache' = StoredByTask(task[s].kind, Fallbacks(s))
  /\ UNCHANGED <<call, inflight, history, pool, phase, scheduling>>

ZombieEnds ==
  /\ zombies > 0 /\ zombies' = zombies - 1
  /\ UNCHANGED <<call, task, inflight, cache, history, pool, phase, scheduling>>

(* Mutant: whatever is listed under the key goes. *)
UnlistedByKey(s) == {r \in Slots : task[r].kind = task[s].kind /\ task[r].ts = task[s].ts}

(* The done callback: a newer task under the key stays. *)
Unlisted(s) == {s}

Cleanup(s) ==
  /\ task[s].st = "ended"
  /\ inflight' = inflight \ Unlisted(s)
  /\ task' = Swept([task EXCEPT ![s].st = "over"], call)
  /\ UNCHANGED <<call, cache, history, pool, zombies, phase, scheduling>>

(* The callbacks run before the waiters.  A cancelled task (no result)      *)
(* cancels its waiters: CancelledError is not an Exception.                 *)
Resume(c) ==
  /\ Waiting(c) /\ task[call[c].on].st = "over"
  /\ LET k == call[c]
         res == task[k.on].res
         ans == [t \in DOMAIN k.got \union DOMAIN res |->
                   IF t \in DOMAIN k.got THEN k.got[t] ELSE [real |-> res[t], since |-> 0]]
     IN  /\ call' = [call EXCEPT ![c] = Idle]
         /\ task' = Swept(task, call')
         /\ IF res = <<>>
            THEN UNCHANGED <<cache, history>>
            ELSE Complete(k.kind, ans, k.clock, StoredByCaller(k, res))
  /\ UNCHANGED <<inflight, pool, zombies, phase, scheduling>>

(* Mutant: the caller awaits the shared task itself. *)
ShieldedNever(s) == FALSE

(* A caller is cancelled (its client left, its job is stopped): the shared  *)
(* task goes on behind the shield, a call of its own is given up.           *)
Shielded(s) == Shared(task[s].kind)

Abandoned(cs) ==
  LET own == {call[c].on : c \in cs} \ {s \in Slots : Shielded(s)}
      ended == [s \in Slots |->
                  IF s \in own /\ Live(s)
                  THEN [task[s] EXCEPT !.st = IF Shared(task[s].kind) THEN "ended" ELSE "over",
                                       !.res = <<>>, !.ran = 0]
                  ELSE task[s]]
  IN  /\ call' = [c \in Callers |-> IF c \in cs THEN Idle ELSE call[c]]
      /\ task' = Swept(ended, call')
      /\ zombies' = zombies + Cardinality({s \in own : task[s].st = "running"})

Cancel(c) ==
  /\ Waiting(c) /\ Abandoned({c})
  /\ UNCHANGED <<inflight, cache, history, pool, phase, scheduling>>
-----------------------------------------------------------------------------
(* Shutdown.  The flag is set; APScheduler's own stop is a callback of the  *)
(* loop that cancels the jobs; the executor is closed once the jobs that    *)
(* waited at the flag are over (their cancellation ends them, so the 5 s    *)
(* limit of the wait is not reached here).                                  *)
RequestShutdown ==
  /\ phase = "up" /\ phase' = "flagged"
  /\ UNCHANGED <<call, task, inflight, cache, history, pool, zombies, scheduling>>

StopScheduler ==
  /\ phase # "up" /\ scheduling /\ scheduling' = FALSE
  /\ Abandoned({c \in Callers : Waiting(c)})
  /\ UNCHANGED <<inflight, cache, history, pool, phase>>

(* executor.shutdown(wait=False, cancel_futures=True): a queued call is     *)
(* cancelled and its task with it; running threads end by themselves.       *)
CloseExecutor ==
  /\ phase = "flagged" /\ phase' = "closed"
  /\ \A c \in Callers : ~Waiting(c)
  /\ pool' = FALSE
  /\ task' = Swept([s \in Slots |->
                      IF task[s].st = "queued"
                      THEN [task[s] EXCEPT !.st = "ended", !.ran = 0] ELSE task[s]], call)
  /\ UNCHANGED <<call, inflight, cache, history, zombies, scheduling>>

(* A unit of time, when the loop is idle and no timeout is due. *)
Quiet ==
  /\ \A s \in Slots : task[s].st \notin {"new", "ended"} /\ ~Due(s)
  /\ \A c \in Callers : Waiting(c) => task[call[c].on].st # "over"
MaxAge == 2 * FreshTTL + Long + SlowTTL   \* bound: where ages stop counting
Expiry(name) == CASE name = "fallback" -> FallbackTTL
                  [] name \in {"deep", "candles"} -> SlowTTL
                  [] OTHER -> FreshTTL
Older(n, cap) == IF n < cap THEN n + 1 ELSE n
OlderDatum(d) == [d EXCEPT !.since = Older(@, MaxAge)]
(* What is past its time keeps its place in the cache; how long is forgotten. *)
AgedEntry(name, e) ==
  IF e.age + 1 < Expiry(name) THEN [e EXCEPT !.age = @ + 1, !.since = Older(@, MaxAge)]
  ELSE [e EXCEPT !.age = Expiry(name), !.since = MaxAge]
Tick ==
  /\ Quiet
  /\ cache' = [n \in DOMAIN cache |-> [i \in DOMAIN cache[n] |-> AgedEntry(n, cache[n][i])]]
  /\ task' = [s \in Slots |-> IF task[s].st \in {"queued", "running"}
                              THEN [task[s] EXCEPT !.ran = Older(@, Budget(task[s].kind))]
                              ELSE task[s]]
  /\ call' = [c \in Callers |->
       IF ~Waiting(c) THEN call[c]
       ELSE [call[c] EXCEPT
               !.clock = IF call[c].kind \in {"indices", "candles"} THEN Older(@, Long) ELSE @,
               !.got = [t \in DOMAIN @ |-> OlderDatum(@[t])]]]
  /\ history' = {}
  /\ UNCHANGED <<inflight, pool, zombies, phase, scheduling>>

MarketInit ==
  /\ call = [c \in Callers |-> Idle]
  /\ task = [s \in Slots |-> Free]
  /\ inflight = {}
  /\ cache = [n \in {"price", "fallback", "deep", "candles", "indices"} |-> <<>>]
  /\ history = {} /\ pool = FALSE /\ zombies = 0
  /\ phase = "up" /\ scheduling = TRUE

Loop ==
  \/ \E s \in Slots :
       \/ Start(s) \/ Run(s) \/ Timeout(s) \/ Cleanup(s)
       \/ \E res \in Outcomes(s) : Finish(s, res)
  \/ \E c \in Callers : Resume(c)
  \/ ZombieEnds \/ StopScheduler \/ CloseExecutor \/ Tick
-----------------------------------------------------------------------------
(* The variables have their types; the caches respect their bound. *)
MarketTypeOK ==
  /\ \A c \in Callers : call[c].on \in Slots \union {0} /\ call[c].kind \in Kinds
                        /\ call[c].clock \in 0..Long
  /\ \A s \in Slots : task[s].st \in {"free", "new", "queued", "running", "ended", "over"}
                      /\ task[s].ran \in 0..Budget(task[s].kind)
  /\ inflight \subseteq Slots /\ history \subseteq [real : BOOLEAN, since : Nat]
  /\ zombies \in 0..Workers
  /\ \A n \in DOMAIN cache : Len(cache[n]) <= CacheMax
  /\ pool \in BOOLEAN /\ scheduling \in BOOLEAN /\ phase \in {"up", "flagged", "closed"}

(* _get_or_create_inflight: at no time are two tasks of one key alive,      *)
(* whatever finished task a new one displaced before its done callback ran. *)
(* It speaks of tasks: the thread of a task that timed out may still ask    *)
(* Yahoo for what the next task of the key asks for.                        *)
OneFetchPerKey ==
  \A r, s \in Slots :
    (r # s /\ Live(r) /\ Live(s) /\ Shared(task[r].kind))
      => <<task[r].kind, task[r].ts>> # <<task[s].kind, task[s].ts>>

(* What was made up when Yahoo did not answer is out of every answer 10 s   *)
(* after it was made up: whichever caches it went through (the prices', the *)
(* deep dives', the candles', and that of the indices, which are made of    *)
(* cached and of new prices), no call would be served an older one, and a   *)
(* waiting call has none older but for its own wait; no pass of the hourly  *)
(* job wrote one, though it reads the cache of the fallbacks.               *)
SyntheticIsShortLived ==
  /\ \A kind \in Kinds, t \in Tickers : \A e \in Known(kind, t) :
       e.real \/ e.since < FallbackTTL
  /\ \A e \in Hit("indices", "indices", FreshTTL) : e.real \/ e.since < FallbackTTL
  /\ \A c \in Callers : \A t \in DOMAIN call[c].got :
       LET d == call[c].got[t]
       IN  d.real \/ d.since < FallbackTTL + Budget(call[c].kind)
  /\ \A row \in history : row.real

(* No answer is older than the time its cache promises plus the wait of the *)
(* call that read it: what the caches would serve now, what the waiting     *)
(* calls have in hand, and the rows of price_history when they are dated.   *)
(* The indices, cached over cached prices, are at most twice the 60 s old.  *)
AnswersRecent ==
  /\ \A kind \in Kinds, t \in Tickers : \A e \in Known(kind, t) :
       e.since < IF kind \in {"deep", "candles"} THEN SlowTTL ELSE FreshTTL
  /\ \A e \in Hit("indices", "indices", FreshTTL) : e.since < 2 * FreshTTL
  /\ \A c \in Callers : \A t \in DOMAIN call[c].got :
       call[c].got[t].since < FreshTTL + Budget(call[c].kind)
  /\ \A row \in history : row.since < FreshTTL + Budget("refresh")

(* Once the executor is closed no late caller or task makes a new pool. *)
PoolStaysClosed == phase = "closed" => ~pool

(* A caller that is cancelled never takes the shared fetch with it: a fetch *)
(* that somebody waits for is cancelled by the close of the executor alone. *)
OthersKeepTheirFetch ==
  \A c \in Callers : Waiting(c) =>
    LET f == task[call[c].on]
    IN  f.st \in {"ended", "over"} /\ f.res = <<>> => phase = "closed"
=============================================================================
