-------------------------- MODULE MarketDataProofs --------------------------
(***************************************************************************)
(* Theorems about MarketData, for every number of callers, titles, tasks   *)
(* and threads.                                                            *)
(***************************************************************************)
EXTENDS MarketData, SumLemmas

(* Anyone may call any function at any time. *)
AnyCall ==
  \E c \in Callers, t \in Tickers, ts \in SUBSET Tickers :
    \/ FetchCurrentPrice(c, t) \/ FetchBatchPrices(c, ts) \/ FetchMarketIndices(c)
    \/ FetchAllPrices(c) \/ FetchStockDeepDive(c, t) \/ FetchStockCandles(c, t)
    \/ ResolveStockInfo(c, t) \/ SearchTicker(c, t) \/ CalculatePortfolioHistory(c, t)
    \/ Cancel(c) \/ RequestShutdown
MarketNext == AnyCall \/ Loop
MarketSpec == MarketInit /\ [][MarketNext]_mdVars

-----------------------------------------------------------------------------
(* The tasks are records; a shared one that is not over is listed, and no   *)
(* two are listed under one key.                                            *)

Results == {<<>>} \union UNION {[S -> BOOLEAN] : S \in SUBSET Tickers}
TaskState == [st : {"free", "new", "queued", "running", "ended", "over"},
              kind : Kinds, ts : SUBSET Tickers, ran : Nat, res : Results]

FlightInv ==
  /\ task \in [Slots -> TaskState]
  /\ \A s \in Slots : Live(s) /\ Shared(task[s].kind) => s \in inflight
  /\ OneFetchPerKey

\* Answers, fallbacks and "no answer" are results.
LEMMA ResultTypes ==
  /\ <<>> \in Results
  /\ \A S \in SUBSET Tickers : /\ [t \in S |-> FALSE] \in Results
                               /\ [S -> BOOLEAN] \subseteq Results
  BY DEF Results

LEMMA FreeType == Free \in TaskState /\ Free.st = "free"
  BY ResultTypes DEF Free, TaskState, Kinds

LEMMA FlightInvInit == MarketInit => FlightInv
<1> SUFFICES ASSUME MarketInit PROVE FlightInv
  OBVIOUS
<1>1. task \in [Slots -> TaskState] /\ \A s \in Slots : task[s].st = "free"
  BY FreeType DEF MarketInit
<1> QED
  BY <1>1 DEF FlightInv, Live, OneFetchPerKey

\* Tasks that go on are those that went on.
LEMMA NoneNew ==
  ASSUME FlightInv, task' \in [Slots -> TaskState],
         \A s \in Slots : Live(s)' => Live(s) /\ task'[s].kind = task[s].kind
                                      /\ task'[s].ts = task[s].ts,
         \A s \in Slots : s \in inflight /\ Live(s)' => s \in inflight'
  PROVE  FlightInv'
<1>1. ASSUME NEW s \in Slots, Live(s)', Shared(task[s].kind)' PROVE s \in inflight'
  <2>1. Live(s) /\ Shared(task[s].kind)
    BY <1>1 DEF Shared
  <2> QED
    BY <1>1, <2>1 DEF FlightInv
<1>2. OneFetchPerKey'
  BY DEF FlightInv, OneFetchPerKey, Shared
<1> QED
  BY <1>1, <1>2 DEF FlightInv

\* One task changes, and does not go on if it did not.
LEMMA OneChanges ==
  ASSUME FlightInv, NEW s \in Slots, NEW st \in {"queued", "running", "ended", "over"},
         NEW ran \in Nat, NEW res \in Results,
         st \in {"queued", "running"} => Live(s),
         task' = [task EXCEPT ![s].st = st, ![s].res = res, ![s].ran = ran],
         inflight' = inflight
  PROVE  FlightInv'
<1>1. task' \in [Slots -> TaskState]
  BY DEF FlightInv, TaskState
<1>2. /\ task'[s].st = st /\ task'[s].kind = task[s].kind /\ task'[s].ts = task[s].ts
      /\ \A r \in Slots : r # s => task'[r] = task[r]
  BY DEF FlightInv, TaskState
<1>3. \A r \in Slots : Live(r)' => Live(r) /\ task'[r].kind = task[r].kind
                                   /\ task'[r].ts = task[r].ts
  BY <1>2 DEF Live
<1> QED
  BY <1>1, <1>3, NoneNew

\* Sweeping frees slots, and leaves the others alone.
LEMMA SweptTasks ==
  ASSUME FlightInv, NEW calls, NEW tasks \in [Slots -> TaskState],
         \A s \in Slots : tasks[s].st \in {"new", "queued", "running"} => tasks[s] = task[s],
         task' = Swept(tasks, calls),
         \A s \in Slots : s \in inflight /\ Live(s) => s \in inflight'
  PROVE  FlightInv'
<1>1. task' \in [Slots -> TaskState]
  BY FreeType DEF Swept
<1>2. \A s \in Slots : task'[s] = tasks[s] \/ task'[s] = Free
  BY DEF Swept
<1>3. \A s \in Slots : Live(s)' => task'[s] = task[s]
  BY <1>2, FreeType DEF Live
<1>4. \A s \in Slots : Live(s)' => Live(s) /\ task'[s] = task[s]
  BY <1>3 DEF Live
<1> QED
  BY <1>1, <1>4, NoneNew

-----------------------------------------------------------------------------
(* The steps.                                                               *)

\* A call joins a task under its key, or lists a new one where none goes on.
LEMMA WaitStep ==
  ASSUME FlightInv, NEW c \in Callers, NEW kind \in Kinds, NEW missing \in SUBSET Tickers,
         NEW got, Wait(c, kind, missing, got)
  PROVE  FlightInv'
<1> DEFINE same == {s \in inflight : task[s].kind = TaskKind(kind) /\ task[s].ts = missing}
           live == {s \in same : Live(s)}
           new(st) == [st |-> st, kind |-> TaskKind(kind), ts |-> missing, ran |-> 0,
                       res |-> IF st = "over" THEN [t \in missing |-> FALSE] ELSE <<>>]
<1>1. TaskKind(kind) \in Kinds /\ Shared(TaskKind(kind)) = Shared(kind)
  BY DEF TaskKind, Kinds, BatchKinds, OwnKinds, Shared
<1>2. \A st \in {"new", "queued", "over"} : new(st) \in TaskState /\ new(st).st = st
        /\ new(st).kind = TaskKind(kind) /\ new(st).ts = missing
  BY <1>1, ResultTypes DEF TaskState
<1>3. CASE UNCHANGED <<task, inflight>>
  BY <1>3 DEF FlightInv, Live, OneFetchPerKey
<1>4. ASSUME live = {}, Shared(kind), NEW s \in NewSlots,
             task' = [task EXCEPT ![s] = new("new")], inflight' = (inflight \ same) \union {s}
      PROVE  FlightInv'
  <2>1. s \in Slots
    BY DEF NewSlots
  <2>2. /\ task' \in [Slots -> TaskState] /\ task'[s] = new("new")
        /\ \A r \in Slots : r # s => task'[r] = task[r]
    BY <1>2, <1>4, <2>1 DEF FlightInv
  <2>3. \A r \in Slots : Live(r) /\ Shared(task[r].kind)
                        => /\ r \in inflight /\ r \notin same
                           /\ <<task[r].kind, task[r].ts>> # <<TaskKind(kind), missing>>
    BY <1>4 DEF FlightInv
  <2> HIDE DEF same, live, new
  <2>4. \A r \in Slots : Live(r)' /\ Shared(task[r].kind)' => r \in inflight'
    BY <1>4, <2>2, <2>3 DEF Live, Shared
  <2>5. OneFetchPerKey'
    <3> SUFFICES ASSUME NEW q \in Slots, NEW r \in Slots, q # r, Live(q)', Live(r)',
                        Shared(task[q].kind)'
                 PROVE  <<task'[q].kind, task'[q].ts>> # <<task'[r].kind, task'[r].ts>>
      BY DEF OneFetchPerKey, Shared
    <3>1. CASE q # s /\ r # s
      BY <2>2, <3>1 DEF FlightInv, OneFetchPerKey, Live, Shared
    <3>2. CASE q = s
      <4>1. Live(r) /\ task'[r] = task[r]
        BY <2>2, <3>2 DEF Live
      <4> QED
        BY <1>1, <1>2, <1>4, <2>2, <2>3, <3>2, <4>1
    <3>3. CASE r = s
      <4>1. Live(q) /\ task'[q] = task[q] /\ Shared(task[q].kind)
        BY <2>2, <3>3 DEF Live, Shared
      <4> QED
        BY <1>2, <2>2, <2>3, <3>3, <4>1
    <3> QED
      BY <3>1, <3>2, <3>3
  <2> QED
    BY <2>2, <2>4, <2>5 DEF FlightInv
<1>5. ASSUME ~Shared(kind), NEW s \in NewSlots, inflight' = inflight,
             NEW st \in {"queued", "over"}, task' = [task EXCEPT ![s] = new(st)]
      PROVE  FlightInv'
  <2>1. s \in Slots
    BY DEF NewSlots
  <2>2. /\ task' \in [Slots -> TaskState] /\ task'[s] = new(st)
        /\ \A r \in Slots : r # s => task'[r] = task[r]
    BY <1>2, <1>5, <2>1 DEF FlightInv
  <2> HIDE DEF new
  <2>3. \A r \in Slots : Live(r)' /\ Shared(task[r].kind)' => Live(r) /\ task'[r] = task[r]
    BY <1>1, <1>2, <1>5, <2>2 DEF Live, Shared
  <2>4. OneFetchPerKey'
    BY <2>3 DEF FlightInv, OneFetchPerKey, Shared
  <2> QED
    BY <1>5, <2>2, <2>3, <2>4 DEF FlightInv, Shared
<1> QED
  BY <1>3, <1>4, <1>5 DEF Wait

\* What every function does to the tasks is a Wait, or nothing.
LEMMA CallStep ==
  ASSUME FlightInv, NEW c \in Callers, NEW kind \in Kinds, NEW ts \in SUBSET Tickers,
         Call(c, kind, ts)
  PROVE  FlightInv'
<1>1. CASE UNCHANGED <<task, inflight>>
  BY <1>1 DEF FlightInv, Live, OneFetchPerKey
<1>2. ASSUME NEW missing \in SUBSET Tickers, NEW got, Wait(c, kind, missing, got)
      PROVE  FlightInv'
  BY <1>2, WaitStep
<1>3. \A known : ts \ known \in SUBSET Tickers
  OBVIOUS
<1> QED
  BY <1>1, <1>2, <1>3 DEF Call

\* Nothing but a Wait makes a task, and only a finished task is unlisted.
LEMMA FlightInvStep == FlightInv /\ [MarketNext]_mdVars => FlightInv'
<1> SUFFICES ASSUME FlightInv, [MarketNext]_mdVars PROVE FlightInv'
  OBVIOUS
<1>0. \A s \in Slots : task[s] \in TaskState
  BY DEF FlightInv
<1>1. CASE UNCHANGED mdVars
  BY <1>1 DEF mdVars, FlightInv, Live, OneFetchPerKey
<1>2. ASSUME NEW c \in Callers, NEW t \in Tickers, NEW ts \in SUBSET Tickers,
             \/ FetchCurrentPrice(c, t) \/ FetchBatchPrices(c, ts) \/ FetchMarketIndices(c)
             \/ FetchAllPrices(c) \/ FetchStockDeepDive(c, t) \/ FetchStockCandles(c, t)
             \/ ResolveStockInfo(c, t) \/ SearchTicker(c, t) \/ CalculatePortfolioHistory(c, t)
      PROVE  FlightInv'
  <2>1. {"price", "batch", "indices", "refresh", "deep", "candles", "resolve", "search",
         "history"} \subseteq Kinds
    BY DEF Kinds, BatchKinds, OwnKinds
  <2>2. {t} \in SUBSET Tickers /\ Tickers \in SUBSET Tickers
    OBVIOUS
  <2> QED
    BY <1>2, <2>1, <2>2, CallStep
    DEF FetchCurrentPrice, FetchBatchPrices, FetchMarketIndices, FetchAllPrices,
        FetchStockDeepDive, FetchStockCandles, ResolveStockInfo, SearchTicker,
        CalculatePortfolioHistory
<1>3. ASSUME NEW s \in Slots, NEW res \in Results, task' = Over(s, res), inflight' = inflight
      PROVE  FlightInv'
  <2>1. PICK st \in {"ended", "over"} :
          task' = [task EXCEPT ![s].st = st, ![s].res = res, ![s].ran = 0]
    BY <1>3 DEF Over
  <2> QED
    BY <1>3, <2>1, OneChanges
<1>4. ASSUME NEW s \in Slots PROVE Fallbacks(s) \in Results /\ Outcomes(s) \subseteq Results
  <2>1. task[s].ts \in SUBSET Tickers
    BY <1>0 DEF TaskState
  <2> QED
    BY <2>1, ResultTypes DEF Fallbacks, Outcomes
<1>5. ASSUME NEW s \in Slots, NEW st \in {"queued", "running"}, Live(s),
             task' = [task EXCEPT ![s].st = st], inflight' = inflight
      PROVE  FlightInv'
  <2>1. /\ task' \in [Slots -> TaskState]
        /\ task'[s].kind = task[s].kind /\ task'[s].ts = task[s].ts
        /\ \A r \in Slots : r # s => task'[r] = task[r]
    BY <1>5 DEF FlightInv, TaskState
  <2>2. \A r \in Slots : Live(r)' => Live(r) /\ task'[r].kind = task[r].kind
                                   /\ task'[r].ts = task[r].ts
    BY <1>5, <2>1 DEF Live
  <2> QED
    BY <1>5, <2>1, <2>2, NoneNew
<1>6. ASSUME NEW s \in Slots, Start(s) PROVE FlightInv'
  BY <1>3, <1>4, <1>5, <1>6 DEF Start, Live
<1>7. ASSUME NEW s \in Slots, Run(s) PROVE FlightInv'
  BY <1>5, <1>7 DEF Run, Live
<1>8. ASSUME NEW s \in Slots, NEW res \in Outcomes(s), Finish(s, res) PROVE FlightInv'
  BY <1>3, <1>4, <1>8 DEF Finish
<1>9. ASSUME NEW s \in Slots, Timeout(s) PROVE FlightInv'
  BY <1>3, <1>4, <1>9 DEF Timeout
<1>10. ASSUME NEW s \in Slots, Cleanup(s) PROVE FlightInv'
  <2> DEFINE over == [task EXCEPT ![s].st = "over"]
  <2>1. /\ task' = Swept(over, call) /\ inflight' = inflight \ {s}
        /\ task[s].st = "ended"
    BY <1>10 DEF Cleanup, Unlisted
  <2>2. over \in [Slots -> TaskState]
    BY DEF FlightInv, TaskState
  <2>3. over[s].st = "over" /\ \A r \in Slots : r # s => over[r] = task[r]
    BY DEF FlightInv, TaskState
  <2>4. \A r \in Slots : r \in inflight /\ Live(r) => r \in inflight'
    BY <2>1 DEF Live
  <2> HIDE DEF over
  <2>5. \A r \in Slots : over[r].st \in {"new", "queued", "running"} => over[r] = task[r]
    BY <2>3
  <2> QED
    BY <2>1, <2>2, <2>4, <2>5, SweptTasks
<1>11. ASSUME NEW c \in Callers, Resume(c) PROVE FlightInv'
  <2>1. task' = Swept(task, call') /\ inflight' = inflight
    BY <1>11 DEF Resume
  <2>2. task \in [Slots -> TaskState]
    BY DEF FlightInv
  <2> QED
    BY <2>1, <2>2, SweptTasks
<1>12. ASSUME NEW left \in [Slots -> TaskState], NEW calls, inflight' = inflight,
              task' = Swept(left, calls),
              \A s \in Slots : left[s] = task[s] \/ left[s].st \in {"ended", "over"}
       PROVE  FlightInv'
  <2>1. \A s \in Slots : left[s].st \in {"new", "queued", "running"} => left[s] = task[s]
    BY <1>12
  <2> QED
    BY <1>12, <2>1, SweptTasks
<1>13. ASSUME NEW s \in Slots, NEW st \in {"ended", "over"}, NEW res \in Results
       PROVE  /\ [task[s] EXCEPT !.st = st, !.res = res, !.ran = 0] \in TaskState
              /\ [task[s] EXCEPT !.st = st, !.res = res, !.ran = 0].st = st
              /\ [task[s] EXCEPT !.st = st, !.ran = 0] \in TaskState
              /\ [task[s] EXCEPT !.st = st, !.ran = 0].st = st
  BY <1>0 DEF TaskState
<1>14. ASSUME NEW cs, Abandoned(cs), inflight' = inflight PROVE FlightInv'
  <2> DEFINE own == {call[c].on : c \in cs} \ {s \in Slots : Shielded(s)}
             gone(s) == [task[s] EXCEPT !.st = IF Shared(task[s].kind) THEN "ended" ELSE "over",
                                        !.res = <<>>, !.ran = 0]
             left == [s \in Slots |-> IF s \in own /\ Live(s) THEN gone(s) ELSE task[s]]
  <2>1. task' = Swept(left, call')
    BY <1>14 DEF Abandoned
  <2>2. \A s \in Slots : gone(s) \in TaskState /\ gone(s).st \in {"ended", "over"}
    <3> SUFFICES ASSUME NEW s \in Slots
                 PROVE  gone(s) \in TaskState /\ gone(s).st \in {"ended", "over"}
      OBVIOUS
    <3>1. ASSUME NEW st \in {"ended", "over"}
          PROVE  /\ [task[s] EXCEPT !.st = st, !.res = <<>>, !.ran = 0] \in TaskState
                 /\ [task[s] EXCEPT !.st = st, !.res = <<>>, !.ran = 0].st = st
      <4> DEFINE none == <<>>
      <4>1. none \in Results
        BY ResultTypes
      <4> HIDE DEF none, own, left, gone
      <4>2. /\ [task[s] EXCEPT !.st = st, !.res = none, !.ran = 0] \in TaskState
            /\ [task[s] EXCEPT !.st = st, !.res = none, !.ran = 0].st = st
        BY <1>0, <4>1 DEF TaskState
      <4> QED
        BY <4>2 DEF none
    <3>2. (IF Shared(task[s].kind) THEN "ended" ELSE "over") \in {"ended", "over"}
      OBVIOUS
    <3> QED
      BY <3>1, <3>2, Zenon
  <2> HIDE DEF gone, own
  <2>3. /\ left \in [Slots -> TaskState]
        /\ \A s \in Slots : left[s] = task[s] \/ left[s].st \in {"ended", "over"}
    BY <1>0, <2>2
  <2> HIDE DEF left
  <2> QED
    BY <1>12, <1>14, <2>1, <2>3
<1>15. CASE CloseExecutor
  <2> DEFINE gone(s) == [task[s] EXCEPT !.st = "ended", !.ran = 0]
             left == [s \in Slots |-> IF task[s].st = "queued" THEN gone(s) ELSE task[s]]
  <2>1. task' = Swept(left, call) /\ inflight' = inflight
    BY <1>15 DEF CloseExecutor
  <2>2. \A s \in Slots : gone(s) \in TaskState /\ gone(s).st = "ended"
    BY <1>13, ResultTypes
  <2> HIDE DEF gone
  <2>3. /\ left \in [Slots -> TaskState]
        /\ \A s \in Slots : left[s] = task[s] \/ left[s].st \in {"ended", "over"}
    BY <1>0, <2>2
  <2> HIDE DEF left
  <2> QED
    BY <1>12, <2>1, <2>3
<1>16. CASE ZombieEnds \/ RequestShutdown
  BY <1>16 DEF ZombieEnds, RequestShutdown, FlightInv, Live, OneFetchPerKey
<1>17. CASE Tick
  <2> DEFINE aged(s) == [task[s] EXCEPT !.ran = Older(@, Budget(task[s].kind))]
  <2>1. /\ task' = [s \in Slots |-> IF task[s].st \in {"queued", "running"} THEN aged(s)
                                    ELSE task[s]]
        /\ inflight' = inflight
    BY <1>17 DEF Tick
  <2>2. ASSUME NEW s \in Slots
        PROVE  /\ aged(s) \in TaskState /\ aged(s).st = task[s].st
               /\ aged(s).kind = task[s].kind /\ aged(s).ts = task[s].ts
    <3>1. \A n \in Nat : /\ [task[s] EXCEPT !.ran = n] \in TaskState
                        /\ [task[s] EXCEPT !.ran = n].st = task[s].st
                        /\ [task[s] EXCEPT !.ran = n].kind = task[s].kind
                        /\ [task[s] EXCEPT !.ran = n].ts = task[s].ts
      BY <1>0 DEF TaskState
    <3>2. task[s].ran \in Nat
      BY <1>0 DEF TaskState
    <3>3. Older(task[s].ran, Budget(task[s].kind)) \in Nat
      BY <3>2 DEF Older
    <3> QED
      BY <3>1, <3>3
  <2> HIDE DEF aged
  <2>3. /\ task' \in [Slots -> TaskState]
        /\ \A s \in Slots : /\ task'[s].st = task[s].st /\ task'[s].kind = task[s].kind
                            /\ task'[s].ts = task[s].ts
    BY <1>0, <2>1, <2>2
  <2> QED
    BY <2>1, <2>3, NoneNew DEF Live
<1>18. ASSUME NEW c \in Callers, Cancel(c) PROVE FlightInv'
  BY <1>14, <1>18 DEF Cancel
<1>19. CASE StopScheduler
  BY <1>14, <1>19 DEF StopScheduler
<1> QED
  BY <1>1, <1>2, <1>6, <1>7, <1>8, <1>9, <1>10, <1>11, <1>15, <1>16, <1>17, <1>18, <1>19
  DEF MarketNext, AnyCall, Loop

(* One fetch per key is under way at a time, whoever calls, is cancelled or *)
(* times out (_get_or_create_inflight and its done callback).               *)
THEOREM SingleFlight == MarketSpec => []OneFetchPerKey
<1>1. FlightInv => OneFetchPerKey
  BY DEF FlightInv
<1> QED
  BY FlightInvInit, FlightInvStep, <1>1, PTL DEF MarketSpec
-----------------------------------------------------------------------------
(* Who makes the pool has read the flag in the same step. *)
LEMMA PoolNeedsFlag ==
  ASSUME MarketNext
  PROVE  \/ phase' = phase /\ (phase = "up" \/ pool' = pool)
         \/ phase' = "flagged" /\ phase = "up"
         \/ pool' = FALSE
<1>1. ASSUME NEW c, NEW kind, NEW missing, NEW got, Wait(c, kind, missing, got), phase # "up"
      PROVE  pool' = pool \/ pool' = FALSE
  BY <1>1 DEF Wait, Accepts
<1>2. ASSUME NEW c, NEW kind, NEW ts, Call(c, kind, ts)
      PROVE  phase' = phase /\ (phase = "up" \/ pool' = pool \/ pool' = FALSE)
  <2>1. phase' = phase
    BY <1>2 DEF Call
  <2>2. \/ pool' = pool
        \/ \E missing, got : Wait(c, kind, missing, got)
    BY <1>2 DEF Call
  <2> QED
    BY <1>1, <2>1, <2>2
<1>3. ASSUME NEW c, Cancel(c) PROVE phase' = phase /\ pool' = pool
  BY <1>3 DEF Cancel, Abandoned
<1>4. ASSUME AnyCall
      PROVE  \/ phase' = phase /\ (phase = "up" \/ pool' = pool \/ pool' = FALSE)
             \/ phase' = "flagged" /\ phase = "up"
  BY <1>2, <1>3, <1>4
  DEF AnyCall, FetchCurrentPrice, FetchBatchPrices, FetchMarketIndices, FetchAllPrices,
      FetchStockDeepDive, FetchStockCandles, ResolveStockInfo, SearchTicker,
      CalculatePortfolioHistory, RequestShutdown
<1>5. ASSUME NEW s \in Slots, Start(s)
      PROVE  phase' = phase /\ (phase = "up" \/ pool' = pool)
  BY <1>5 DEF Start, Accepts
<1>6. ASSUME NEW s \in Slots, Run(s) \/ Timeout(s) \/ Cleanup(s)
      PROVE  phase' = phase /\ pool' = pool
  BY <1>6 DEF Run, Timeout, Cleanup
<1>7. ASSUME NEW s \in Slots, NEW res, Finish(s, res) PROVE phase' = phase /\ pool' = pool
  BY <1>7 DEF Finish
<1>8. ASSUME NEW c \in Callers, Resume(c) PROVE phase' = phase /\ pool' = pool
  BY <1>8 DEF Resume
<1>9. CASE ZombieEnds \/ StopScheduler \/ Tick
  BY <1>9 DEF ZombieEnds, StopScheduler, Tick
<1>10. CASE CloseExecutor
  BY <1>10 DEF CloseExecutor
<1> QED
  BY <1>4, <1>5, <1>6, <1>7, <1>8, <1>9, <1>10 DEF MarketNext, Loop

(* A caller or a task that comes after the close finds the flag and never   *)
(* makes another pool (run_blocking_yf, _get_yf_executor).                  *)
THEOREM ClosedForGood == MarketSpec => []PoolStaysClosed
<1>1. MarketInit => PoolStaysClosed
  BY DEF MarketInit, PoolStaysClosed
<1>2. PoolStaysClosed /\ [MarketNext]_mdVars => PoolStaysClosed'
  <2>1. CASE MarketNext
    BY <2>1, PoolNeedsFlag DEF PoolStaysClosed
  <2>2. CASE UNCHANGED mdVars
    BY <2>2 DEF mdVars, PoolStaysClosed
  <2> QED
    BY <2>1, <2>2
<1> QED
  BY <1>1, <1>2, PTL DEF MarketSpec
-----------------------------------------------------------------------------
(* What the caches hold.                                                   *)

CacheNames == {"price", "fallback", "deep", "candles", "indices"}

(* The entries a cache may hold: the 60 s caches and the candles only what  *)
(* Yahoo said; until the entry expires its datum is no older than it, or    *)
(* for the indices, that are made of cached prices, no older than a price's *)
(* lifetime before it.                                                      *)
Fit(name) ==
  {e \in [t : Tickers \cup {"indices"}, real : BOOLEAN, age : Nat, since : Nat] :
     /\ name \in {"price", "candles", "indices"} => e.real
     /\ name # "indices" => e.since <= e.age \/ Expiry(name) <= e.age
     /\ name = "indices" => e.since < FreshTTL + e.age \/ Expiry(name) <= e.age}
Shelf(name) == {q \in Seq(Fit(name)) : Len(q) <= CacheMax}

CacheOK(c) == DOMAIN c = CacheNames /\ \A n \in CacheNames : c[n] \in Shelf(n)
CacheInv == CacheOK(cache)

\* An entry put on a shelf leaves it a shelf.
LEMMA PutFits ==
  ASSUME NEW n, NEW q \in Shelf(n), NEW e \in Fit(n)
  PROVE  Put(q, e) \in Shelf(n)
<1> DEFINE F == Fit(n)
<1>1. q \in Seq(F) /\ e \in F /\ Len(q) \in Nat /\ Len(q) <= CacheMax /\ DOMAIN q = 1..Len(q)
      /\ \A i \in 1..Len(q) : q[i] \in F
  BY DEF Shelf
<1>2. CacheMax \in Nat \ {0}
  BY MarketAssumption
<1> HIDE DEF F
<1>3. ASSUME NEW s \in Seq(F), Len(s) <= CacheMax PROVE s \in Shelf(n)
  BY <1>3 DEF Shelf, F
<1>4. CASE \E i \in DOMAIN q : q[i].t = e.t
  <2> DEFINE s == [i \in DOMAIN q |-> IF q[i].t = e.t THEN e ELSE q[i]]
  <2>1. \A i \in 1..Len(q) : s[i] \in F
    BY <1>1
  <2>2. s \in [1..Len(q) -> F]
    BY <1>1, <2>1
  <2>3. s \in Seq(F) /\ Len(s) = Len(q)
    BY <1>1, <2>2
  <2> HIDE DEF s
  <2>4. s \in Shelf(n)
    BY <1>1, <1>3, <2>3
  <2> QED
    BY <1>4, <2>4 DEF Put, s
<1>5. CASE ~\E i \in DOMAIN q : q[i].t = e.t
  <2>1. CASE Len(q) < CacheMax
    <3>1. Append(q, e) \in Seq(F) /\ Len(Append(q, e)) = Len(q) + 1
      BY <1>1
    <3>2. Len(Append(q, e)) <= CacheMax
      BY <1>1, <1>2, <2>1, <3>1
    <3>3. Append(q, e) \in Shelf(n)
      BY <1>3, <3>1, <3>2
    <3> QED
      BY <1>5, <2>1, <3>3 DEF Put
  <2>2. CASE ~(Len(q) < CacheMax)
    <3>1. q # <<>>
      BY <1>1, <1>2, <2>2
    <3>2. Tail(q) \in Seq(F) /\ Len(Tail(q)) = Len(q) - 1
      BY <1>1, <3>1
    <3>3. Append(Tail(q), e) \in Seq(F) /\ Len(Append(Tail(q), e)) = Len(q)
      BY <1>1, <3>2
    <3>4. Append(Tail(q), e) \in Shelf(n)
      BY <1>1, <1>3, <3>3
    <3> QED
      BY <1>5, <2>2, <3>4 DEF Put
  <2> QED
    BY <2>1, <2>2
<1> QED
  BY <1>4, <1>5

(* The recursion of PutEach: entries are put in the order of the sequence.  *)
PutFold(base, s, res, age, D, g) ==
  g = [u \in D |-> IF u = {} THEN base
                   ELSE Put(g[u \ {Max(u)}], Entry(s[Max(u)], res[s[Max(u)]], age, 0))]
PutAll(base, s, res, age) == CHOOSE g : PutFold(base, s, res, age, SUBSET DOMAIN s, g)

LEMMA PutEachIs ==
  ASSUME NEW c, NEW name, NEW ts, NEW res, NEW age
  PROVE  PutEach(c, name, ts, res, age)
           = [c EXCEPT ![name] = PutAll(c[name], SetToSeq(ts), res, age)[DOMAIN SetToSeq(ts)]]
  BY DEF PutEach, FoldLeft, MapThenFoldSet, PutAll, PutFold

\* The greatest of some numbers is one of them.
LEMMA MaxIs ==
  ASSUME NEW T \in SUBSET Nat, IsFiniteSet(T), T # {}
  PROVE  Max(T) \in T /\ \A x \in T : x <= Max(T)
<1>1. PICK n \in T : \A m \in T : m <= n
  BY GreatestNatural
<1>2. \E x \in T : \A y \in T : x >= y
  BY <1>1
<1> QED
  BY <1>2 DEF Max

LEMMA LessMax ==
  ASSUME NEW S \in SUBSET Nat, IsFiniteSet(S), NEW u \in SUBSET S, u # {}
  PROVE  /\ Max(u) \in u /\ u \ {Max(u)} \in SUBSET S
         /\ IsFiniteSet(u) /\ IsFiniteSet(u \ {Max(u)})
         /\ Cardinality(u) \in Nat /\ Cardinality(u \ {Max(u)}) \in Nat
         /\ Cardinality(u \ {Max(u)}) = Cardinality(u) - 1
<1>1. IsFiniteSet(u)
  BY FS_Subset
<1>2. Max(u) \in u
  BY <1>1, MaxIs
<1> QED
  BY <1>1, <1>2, FS_RemoveElement, FS_CardinalityType

LEMMA SubsetSize ==
  ASSUME NEW S, IsFiniteSet(S), NEW u \in SUBSET S
  PROVE  IsFiniteSet(u) /\ Cardinality(u) \in Nat /\ (Cardinality(u) = 0 <=> u = {})
  BY FS_Subset, FS_CardinalityType, FS_EmptySet

\* That recursion has a solution.
LEMMA PutFoldExists ==
  ASSUME NEW base, NEW s, NEW res, NEW age, DOMAIN s \in SUBSET Nat, IsFiniteSet(DOMAIN s)
  PROVE  \E g : PutFold(base, s, res, age, SUBSET DOMAIN s, g)
<1> DEFINE S == DOMAIN s
           e(u) == Entry(s[Max(u)], res[s[Max(u)]], age, 0)
           Bad == {n \in Nat : ~\E g : PutFold(base, s, res, age, SubsetsUpTo(S, n), g)}
<1> HIDE DEF S
<1>0. S \in SUBSET Nat /\ IsFiniteSet(S)
  BY DEF S
<1>1. 0 \notin Bad
  <2>1. \A u \in SubsetsUpTo(S, 0) : u = {}
    <3> SUFFICES ASSUME NEW u \in SUBSET S, Cardinality(u) <= 0 PROVE u = {}
      BY DEF SubsetsUpTo
    <3> HIDE DEF Bad
    <3>1. Cardinality(u) \in Nat /\ (Cardinality(u) = 0 => u = {})
      BY <1>0, SubsetSize
    <3> QED
      BY <3>1
  <2>2. PutFold(base, s, res, age, SubsetsUpTo(S, 0), [u \in SubsetsUpTo(S, 0) |-> base])
    BY <2>1 DEF PutFold
  <2> QED
    BY <2>2
<1>2. ASSUME NEW n \in Nat \ {0}, n - 1 \notin Bad PROVE n \notin Bad
  <2>1. PICK g : PutFold(base, s, res, age, SubsetsUpTo(S, n - 1), g)
    BY <1>2
  <2> DEFINE h == [u \in SubsetsUpTo(S, n) |-> IF u = {} THEN base ELSE Put(g[u \ {Max(u)}], e(u))]
  <2> HIDE DEF e
  <2>2. SubsetsUpTo(S, n - 1) \subseteq SubsetsUpTo(S, n)
    <3> SUFFICES ASSUME NEW u \in SUBSET S, Cardinality(u) <= n - 1 PROVE Cardinality(u) <= n
      BY DEF SubsetsUpTo
    <3> HIDE DEF Bad, h
    <3>1. Cardinality(u) \in Nat
      BY <1>0, SubsetSize
    <3> QED
      BY <3>1
  <2>3. ASSUME NEW u \in SubsetsUpTo(S, n), u # {} PROVE h[u \ {Max(u)}] = g[u \ {Max(u)}]
    <3> DEFINE v == u \ {Max(u)}
    <3>1. v \in SubsetsUpTo(S, n - 1)
      BY <1>0, <2>3, LessMax DEF SubsetsUpTo
    <3> HIDE DEF v
    <3>2. h[v] = IF v = {} THEN base ELSE Put(g[v \ {Max(v)}], e(v))
      BY <2>2, <3>1
    <3>3. g[v] = IF v = {} THEN base ELSE Put(g[v \ {Max(v)}], e(v))
      <4> HIDE DEF h
      <4>1. g = [w \in SubsetsUpTo(S, n - 1) |-> IF w = {} THEN base ELSE Put(g[w \ {Max(w)}], e(w))]
        BY <2>1 DEF PutFold, e
      <4> QED
        BY <3>1, <4>1, Zenon
    <3> HIDE DEF h
    <3> QED
      BY <3>2, <3>3 DEF v
  <2>4. PutFold(base, s, res, age, SubsetsUpTo(S, n), h)
    <3>1. \A u \in SubsetsUpTo(S, n) :
            (IF u = {} THEN base ELSE Put(g[u \ {Max(u)}], e(u)))
              = (IF u = {} THEN base ELSE Put(h[u \ {Max(u)}], e(u)))
      BY <2>3
    <3>2. h = [u \in SubsetsUpTo(S, n) |-> IF u = {} THEN base ELSE Put(g[u \ {Max(u)}], e(u))]
      OBVIOUS
    <3> HIDE DEF h
    <3>3. h = [u \in SubsetsUpTo(S, n) |-> IF u = {} THEN base ELSE Put(h[u \ {Max(u)}], e(u))]
      BY <3>1, <3>2
    <3> QED
      BY <3>3 DEF PutFold, e
  <2> QED
    BY <2>4
<1>3. Bad = {}
  <2> SUFFICES ASSUME Bad # {} PROVE FALSE
    OBVIOUS
  <2>1. Bad \in SUBSET Nat
    OBVIOUS
  <2> HIDE DEF Bad
  <2>2. PICK n \in Bad : \A m \in Bad : n <= m
    BY <2>1, LeastNatural
  <2>3. n \in Nat \ {0}
    BY <1>1, <2>1
  <2>4. n - 1 \in Nat /\ ~(n <= n - 1)
    BY <2>3
  <2>5. n - 1 \notin Bad
    BY <2>2, <2>4
  <2> QED
    BY <1>2, <2>2, <2>3, <2>5
<1>4. Cardinality(S) \in Nat
  BY <1>0, FS_CardinalityType
<1>5. SubsetsUpTo(S, Cardinality(S)) = SUBSET S
  BY <1>0, FS_Subset DEF SubsetsUpTo
<1>6. \E g : PutFold(base, s, res, age, SubsetsUpTo(S, Cardinality(S)), g)
  BY <1>3, <1>4
<1> QED
  BY <1>5, <1>6 DEF S

\* The sequence of a finite set holds its elements.
LEMMA SequenceOf ==
  ASSUME NEW ts, IsFiniteSet(ts)
  PROVE  /\ DOMAIN SetToSeq(ts) = 1..Cardinality(ts) /\ Cardinality(ts) \in Nat
         /\ \A i \in DOMAIN SetToSeq(ts) : SetToSeq(ts)[i] \in ts
<1>1. \E f \in [1..Cardinality(ts) -> ts] : IsInjective(f)
  <2>1. PICK f : f \in Bijection(1..Cardinality(ts), ts)
    BY FS_CardinalityType DEF ExistsBijection
  <2>2. f \in [1..Cardinality(ts) -> ts] /\ IsInjective(f)
    BY <2>1 DEF Bijection, Injection
  <2> QED
    BY <2>2
<1>2. SetToSeq(ts) \in [1..Cardinality(ts) -> ts]
  BY <1>1 DEF SetToSeq
<1> QED
  BY <1>2, FS_CardinalityType

\* Entries put one after the other leave the shelf a shelf, and the other
\* caches alone.
LEMMA PutEachFits ==
  ASSUME NEW c, NEW n, NEW ts, IsFiniteSet(ts), NEW res, NEW age, c[n] \in Shelf(n),
         \A t \in ts : Entry(t, res[t], age, 0) \in Fit(n)
  PROVE  /\ DOMAIN PutEach(c, n, ts, res, age) = DOMAIN c
         /\ n \in DOMAIN c => PutEach(c, n, ts, res, age)[n] \in Shelf(n)
         /\ \A m \in DOMAIN c \ {n} : PutEach(c, n, ts, res, age)[m] = c[m]
<1> DEFINE s == SetToSeq(ts)
           D == DOMAIN s
           g == PutAll(c[n], s, res, age)
           P == {u \in SUBSET D : g[u] \in Shelf(n)}
<1>1. /\ D \in SUBSET Nat /\ IsFiniteSet(D)
      /\ \A i \in D : Entry(s[i], res[s[i]], age, 0) \in Fit(n)
  <2>1. D = 1..Cardinality(ts) /\ \A i \in D : s[i] \in ts
    BY SequenceOf
  <2>2. IsFiniteSet(1..Cardinality(ts)) /\ 1..Cardinality(ts) \in SUBSET Nat
    BY SequenceOf, FS_Interval
  <2> HIDE DEF s
  <2> QED
    BY <2>1, <2>2
<1> HIDE DEF s
<1>2. PutFold(c[n], s, res, age, SUBSET D, g)
  BY <1>1, PutFoldExists DEF PutAll
<1> HIDE DEF D, g
<1>3. \A u \in SUBSET D :
        g[u] = IF u = {} THEN c[n] ELSE Put(g[u \ {Max(u)}], Entry(s[Max(u)], res[s[Max(u)]], age, 0))
  BY <1>2 DEF PutFold
<1>4. ASSUME NEW u \in SUBSET D, \A x \in u : u \ {x} \in P PROVE u \in P
  <2>1. CASE u = {}
    BY <1>3, <2>1
  <2>2. CASE u # {}
    <3>1. Max(u) \in u
      BY <1>1, <2>2, LessMax
    <3>2. u \ {Max(u)} \in P /\ Entry(s[Max(u)], res[s[Max(u)]], age, 0) \in Fit(n)
      BY <1>1, <1>4, <3>1
    <3>3. g[u \ {Max(u)}] \in Shelf(n)
      BY <3>2
    <3>4. Put(g[u \ {Max(u)}], Entry(s[Max(u)], res[s[Max(u)]], age, 0)) \in Shelf(n)
      BY <3>2, <3>3, PutFits
    <3> QED
      BY <1>3, <2>2, <3>4
  <2> QED
    BY <2>1, <2>2
<1>5. g[D] \in Shelf(n)
  <2> HIDE DEF P
  <2>1. \A u \in SUBSET D : (\A x \in u : u \ {x} \in P) => u \in P
    BY <1>4
  <2>2. D \in P
    BY <1>1, <2>1, SubsetInduction
  <2> QED
    BY <2>2 DEF P
<1>6. PutEach(c, n, ts, res, age) = [c EXCEPT ![n] = g[D]]
  BY PutEachIs DEF g, D, s
<1> QED
  BY <1>5, <1>6

-----------------------------------------------------------------------------
(* Who waits for what.                                                     *)

Data == [real : BOOLEAN, since : Nat]
Answers == UNION {[S -> Data] : S \in SUBSET Tickers}
CallState == [on : Slots \cup {0}, kind : Kinds, got : Answers, clock : Nat]

(* The rows just added: real, and no older than a cached price and a wait.  *)
RowsOK == history \subseteq {d \in Data : d.real /\ d.since < FreshTTL + Long}

Lifetime(d) == IF d.real THEN FreshTTL ELSE FallbackTTL
(* How long a task has been waited for, at most.                           *)
Elapsed(s) == IF Live(s) THEN task[s].ran ELSE Budget(task[s].kind)
Unanswered(s) == task[s].st \in {"ended", "over"} /\ task[s].res = <<>>

(* A caller waits on a task of its kind that is not swept and was not       *)
(* cancelled under it; what it has in hand is as old as a cache may serve   *)
(* plus the wait.                                                           *)
WaitOK(c) ==
  /\ task[call[c].on].st # "free" /\ task[call[c].on].kind = TaskKind(call[c].kind)
  /\ Unanswered(call[c].on) => phase = "closed"
  /\ call[c].clock <= Elapsed(call[c].on)
  /\ \A t \in DOMAIN call[c].got :
       /\ call[c].got[t].since < Lifetime(call[c].got[t]) + Elapsed(call[c].on)
       /\ call[c].kind = "indices" => call[c].got[t].since < FreshTTL + call[c].clock
WaitInv ==
  /\ call \in [Callers -> CallState] /\ inflight \subseteq Slots
  /\ \A s \in Slots : /\ task[s].st # "free" => task[s].ts # {}
                      /\ task[s].ran <= Budget(task[s].kind)
  /\ \A c \in Callers : IF Waiting(c) THEN WaitOK(c) ELSE call[c] = Idle
  /\ \A c, d \in Callers :
       Waiting(c) /\ call[c].on = call[d].on /\ ~Shared(task[call[c].on].kind) => c = d

LEMMA Budgets ==
  /\ \A kind \in Kinds : Budget(kind) \in Nat /\ Budget(kind) <= Long /\ 0 < Budget(kind)
  /\ \A kind \in Kinds : /\ TaskKind(kind) \in Kinds /\ Budget(TaskKind(kind)) = Budget(kind)
                         /\ Shared(TaskKind(kind)) = Shared(kind)
<1>1. /\ Short \in Nat \ {0} /\ Long \in Nat \ {0} /\ Short <= Long
  BY MarketAssumption
<1> QED
  BY <1>1 DEF Budget, TaskKind, Kinds, BatchKinds, OwnKinds, Shared

LEMMA Idles == Idle \in CallState /\ Idle.on = 0 /\ DOMAIN Idle.got = {} /\ Idle.got = <<>>
               /\ Idle.clock = 0
<1> DEFINE none == <<>>
<1>1. none \in Answers /\ DOMAIN none = {}
  BY DEF Answers
<1>2. Idle = [on |-> 0, kind |-> "price", got |-> none, clock |-> 0]
  BY DEF Idle
<1> HIDE DEF none
<1>3. Idle \in CallState /\ Idle.on = 0 /\ Idle.got = none /\ Idle.clock = 0
  BY <1>2, <1>1 DEF CallState, Kinds
<1> QED
  BY <1>1, <1>3 DEF none

\* Everybody stays where he is or leaves, and the tasks waited for go on.
LEMMA Moving ==
  ASSUME FlightInv, FlightInv', WaitInv, phase = "closed" => phase' = "closed",
         call' \in [Callers -> CallState], inflight' \subseteq Slots,
         \A c \in Callers : call'[c] = call[c] \/ call'[c] = Idle,
         \A s \in Slots : /\ task'[s].st # "free" => task'[s].ts # {}
                          /\ task'[s].ran <= Budget(task'[s].kind),
         \A c \in Callers : call'[c].on # 0 =>
           /\ task'[call[c].on].st # "free"
           /\ task'[call[c].on].kind = task[call[c].on].kind
           /\ Elapsed(call[c].on) <= (IF task'[call[c].on].st \in {"new", "queued", "running"}
                                      THEN task'[call[c].on].ran
                                      ELSE Budget(task'[call[c].on].kind))
           /\ (task'[call[c].on].st \in {"ended", "over"} /\ task'[call[c].on].res = <<>>)
                => Unanswered(call[c].on) \/ phase' = "closed"
  PROVE  WaitInv'
<1>1. \A c \in Callers : call'[c].on # 0 => call'[c] = call[c] /\ Waiting(c) /\ call[c].on \in Slots
  BY Idles DEF WaitInv, Waiting, CallState
<1>2. \A s \in Slots : task[s] \in TaskState /\ task'[s] \in TaskState
  BY DEF FlightInv
<1>3. ASSUME NEW c \in Callers, call'[c].on # 0 PROVE WaitOK(c)'
  <2> DEFINE s == call[c].on
             e == Elapsed(s)
             e2 == IF task'[s].st \in {"new", "queued", "running"} THEN task'[s].ran
                   ELSE Budget(task'[s].kind)
  <2>1. /\ call'[c] = call[c] /\ WaitOK(c) /\ s \in Slots /\ call[c] \in CallState
    BY <1>1, <1>3 DEF WaitInv
  <2>2. e \in Nat /\ e2 \in Nat /\ e <= e2
    BY <1>2, <1>3, <2>1, Budgets DEF Elapsed, TaskState
  <2>3. Elapsed(call[c].on)' = e2
    BY <2>1 DEF Elapsed, Live
  <2>4. /\ task'[s].st # "free" /\ task'[s].kind = TaskKind(call[c].kind)
        /\ Unanswered(call[c].on)' => phase' = "closed"
    BY <1>3, <2>1 DEF WaitOK, Unanswered
  <2>5. call[c].clock \in Nat /\ call[c].clock <= e2
    <3> HIDE DEF e2
    <3> QED
      BY <2>1, <2>2 DEF WaitOK, CallState
  <2>6. ASSUME NEW t \in DOMAIN call[c].got
        PROVE  call[c].got[t].since < Lifetime(call[c].got[t]) + e2
    <3>1. call[c].got[t].since \in Nat
      BY <2>1 DEF CallState, Answers, Data
    <3>2. Lifetime(call[c].got[t]) \in Nat
      BY MarketAssumption DEF Lifetime
    <3>3. call[c].got[t].since < Lifetime(call[c].got[t]) + e
      BY <2>1 DEF WaitOK
    <3> HIDE DEF e, e2
    <3> QED
      BY <2>2, <3>1, <3>2, <3>3
  <2> HIDE DEF e, e2
  <2> QED
    BY <2>1, <2>3, <2>4, <2>5, <2>6 DEF WaitOK, Lifetime
<1>4. ASSUME NEW c \in Callers, ~(call'[c].on # 0) PROVE call'[c] = Idle
  BY <1>4 DEF WaitInv, Waiting
<1>5. \A c, d \in Callers : call'[c].on # 0 /\ call'[c].on = call'[d].on
        /\ ~Shared(task'[call'[c].on].kind) => c = d
  <2> SUFFICES ASSUME NEW c \in Callers, NEW d \in Callers, call'[c].on # 0,
                      call'[c].on = call'[d].on, ~Shared(task'[call'[c].on].kind)
               PROVE  c = d
    OBVIOUS
  <2>1. call'[c] = call[c] /\ call'[d] = call[d] /\ Waiting(c)
    BY <1>1
  <2>2. ~Shared(task[call[c].on].kind)
    BY <2>1
  <2> QED
    BY <2>1, <2>2 DEF WaitInv
<1> QED
  BY <1>3, <1>4, <1>5 DEF WaitInv, Waiting, Shared

\* What a cache can serve is known to be recent, and what it may be.
KnownOK(kind, got) ==
  /\ got \in Answers
  /\ \A t \in DOMAIN got : got[t].since < Lifetime(got[t])

\* A new wait.
LEMMA WaitWaits ==
  ASSUME FlightInv, FlightInv', WaitInv, phase' = phase,
         NEW c \in Callers, ~Waiting(c), NEW kind \in Kinds, NEW missing \in SUBSET Tickers,
         missing # {}, NEW got, KnownOK(kind, got), Wait(c, kind, missing, got)
  PROVE  WaitInv'
<1> DEFINE same == {s \in inflight : task[s].kind = TaskKind(kind) /\ task[s].ts = missing}
           live == {s \in same : Live(s)}
           new(st) == [st |-> st, kind |-> TaskKind(kind), ts |-> missing, ran |-> 0,
                       res |-> IF st = "over" THEN [t \in missing |-> FALSE] ELSE <<>>]
           k(s) == [on |-> s, kind |-> kind, got |-> got, clock |-> 0]
<1>1. \/ \E s \in Slots : /\ Live(s) /\ task[s].kind = TaskKind(kind) /\ Shared(kind)
                          /\ call' = [call EXCEPT ![c] = k(s)] /\ UNCHANGED <<task, inflight>>
      \/ \E s \in Slots, st \in {"new", "queued", "over"} :
           /\ task[s].st = "free" /\ task' = [task EXCEPT ![s] = new(st)]
           /\ call' = [call EXCEPT ![c] = k(s)]
           /\ inflight' \subseteq Slots
  <2>1. inflight \subseteq Slots
    BY DEF WaitInv
  <2>2. \A s \in NewSlots : s \in Slots /\ task[s].st = "free"
    BY DEF NewSlots
  <2>3. \A s \in live : s \in Slots /\ Live(s) /\ task[s].kind = TaskKind(kind)
    BY <2>1
  <2>4. /\ Shared(kind)
        /\ \E s \in live : call' = [call EXCEPT ![c] = k(s)]
        /\ UNCHANGED <<task, inflight>>
        \/ /\ \E s \in NewSlots : /\ call' = [call EXCEPT ![c] = k(s)]
                                  /\ task' = [task EXCEPT ![s] = new("new")]
                                  /\ inflight' = (inflight \ same) \cup {s}
        \/ /\ \E s \in NewSlots :
                /\ call' = [call EXCEPT ![c] = k(s)]
                /\ task' = [task EXCEPT ![s] = new(IF Accepts THEN "queued" ELSE "over")]
           /\ inflight' = inflight
    BY DEF Wait
  <2> HIDE DEF same, live, new, k
  <2> QED
    BY <2>1, <2>2, <2>3, <2>4
<1>2. k(0) \in CallState /\ \A s \in Slots : /\ k(s) \in CallState /\ k(s).on = s /\ k(s).kind = kind
                                             /\ k(s).got = got /\ k(s).clock = 0 /\ s # 0
  BY MarketAssumption DEF KnownOK, CallState
<1>3. \A t \in DOMAIN got : /\ got[t].since \in Nat /\ got[t].since < Lifetime(got[t])
                            /\ Lifetime(got[t]) \in Nat /\ Lifetime(got[t]) <= FreshTTL
                            /\ FreshTTL \in Nat
  BY MarketAssumption DEF KnownOK, Answers, Data, Lifetime
<1>4. /\ TaskKind(kind) \in Kinds /\ Budget(TaskKind(kind)) \in Nat
      /\ Shared(TaskKind(kind)) = Shared(kind)
  BY Budgets
<1>5. \A s \in Slots : task[s] \in TaskState /\ task[s].ran \in Nat /\ task'[s] \in TaskState
  BY DEF FlightInv, TaskState
<1>6. ASSUME NEW s \in Slots, call' = [call EXCEPT ![c] = k(s)]
      PROVE  /\ call' \in [Callers -> CallState] /\ call'[c] = k(s)
             /\ \A d \in Callers \ {c} : call'[d] = call[d]
  BY <1>2, <1>6 DEF WaitInv
<1>7. ASSUME NEW s \in Slots, call'[c] = k(s), Elapsed(s)' \in Nat,
             task'[s].st # "free", task'[s].kind = TaskKind(kind),
             ~(task'[s].st \in {"ended", "over"} /\ task'[s].res = <<>>)
      PROVE  WaitOK(c)'
  <2> DEFINE e == Elapsed(s)'
  <2>1. Elapsed(call[c].on)' = e
    BY <1>2, <1>7 DEF Elapsed, Live
  <2>2. \A t \in DOMAIN got : got[t].since < Lifetime(got[t]) + e /\ got[t].since < FreshTTL + 0
    <3> SUFFICES ASSUME NEW t \in DOMAIN got
                 PROVE  got[t].since < Lifetime(got[t]) + e /\ got[t].since < FreshTTL + 0
      OBVIOUS
    <3>1. e \in Nat
      BY <1>7
    <3> HIDE DEF e
    <3> QED
      BY <1>3, <3>1
  <2>3. ~Unanswered(call[c].on)'
    BY <1>2, <1>7 DEF Unanswered
  <2>4. 0 <= e
    BY <1>7
  <2> HIDE DEF e, k
  <2> QED
    BY <1>2, <1>7, <2>1, <2>2, <2>3, <2>4 DEF WaitOK, Lifetime
<1>8. ASSUME NEW s \in Slots, Live(s), task[s].kind = TaskKind(kind), Shared(kind),
             call' = [call EXCEPT ![c] = k(s)], UNCHANGED <<task, inflight>>
      PROVE  WaitInv'
  <2>1. WaitOK(c)'
    <3>1. Elapsed(s)' \in Nat
      BY <1>5, <1>8 DEF Elapsed, Live
    <3> QED
      BY <1>6, <1>7, <1>8, <3>1 DEF Live
  <2>2. \A d \in Callers \ {c} : IF (call'[d].on # 0) THEN WaitOK(d)' ELSE call'[d] = Idle
    BY <1>6, <1>8 DEF WaitInv, WaitOK, Waiting, Elapsed, Live, Unanswered
  <2>3. Shared(task[s].kind)
    BY <1>4, <1>8
  <2>4. \A d, f \in Callers :
          call'[d].on # 0 /\ call'[d].on = call'[f].on /\ ~Shared(task[call'[d].on].kind) => d = f
    BY <1>2, <1>6, <1>8, <2>3 DEF WaitInv, Waiting
  <2> HIDE DEF k
  <2> QED
    BY <1>2, <1>6, <1>8, <2>1, <2>2, <2>4 DEF WaitInv, Waiting, Shared
<1>9. ASSUME NEW s \in Slots, NEW st \in {"new", "queued", "over"}, task[s].st = "free",
             task' = [task EXCEPT ![s] = new(st)], call' = [call EXCEPT ![c] = k(s)],
             inflight' \subseteq Slots
      PROVE  WaitInv'
  <2>1. /\ task'[s].st = st /\ task'[s].kind = TaskKind(kind) /\ task'[s].ts = missing
        /\ task'[s].ran = 0
        /\ \A r \in Slots \ {s} : task'[r] = task[r]
        /\ st = "over" => task'[s].res = [t \in missing |-> FALSE]
    BY <1>9 DEF FlightInv
  <2>2. st = "over" => task'[s].res # <<>>
    <3> SUFFICES ASSUME [t \in missing |-> FALSE] = <<>> PROVE FALSE
      BY <2>1
    <3>1. DOMAIN [t \in missing |-> FALSE] = {}
      OBVIOUS
    <3> QED
      BY <3>1
  <2>3. WaitOK(c)'
    <3>1. Elapsed(s)' \in Nat
      BY <1>4, <2>1 DEF Elapsed, Live
    <3> QED
      BY <1>6, <1>7, <1>9, <2>1, <2>2, <3>1
  <2>4. \A d \in Callers \ {c} : call[d].on # 0 => call[d].on \in Slots \ {s}
    BY <1>9 DEF WaitInv, WaitOK, Waiting, CallState
  <2>5. \A d \in Callers \ {c} : IF (call'[d].on # 0) THEN WaitOK(d)' ELSE call'[d] = Idle
    <3> SUFFICES ASSUME NEW d \in Callers \ {c}
                 PROVE  IF (call'[d].on # 0) THEN WaitOK(d)' ELSE call'[d] = Idle
      OBVIOUS
    <3>1. call'[d] = call[d]
      BY <1>6, <1>9
    <3>2. CASE call[d].on # 0
      <4>1. task'[call[d].on] = task[call[d].on]
        BY <2>1, <2>4, <3>2
      <4> QED
        BY <3>1, <3>2, <4>1 DEF WaitInv, WaitOK, Waiting, Elapsed, Live, Unanswered
    <3>3. CASE ~(call[d].on # 0)
      BY <3>1, <3>3 DEF WaitInv, Waiting
    <3> QED
      BY <3>2, <3>3
  <2>6. \A d, f \in Callers :
          call'[d].on # 0 /\ call'[d].on = call'[f].on /\ ~Shared(task'[call'[d].on].kind) => d = f
    <3>1. call'[c].on = s /\ \A d \in Callers \ {c} : call'[d] = call[d]
      BY <1>2, <1>6, <1>9
    <3>2. \A d \in Callers \ {c} : call[d].on # 0 => task'[call[d].on] = task[call[d].on]
      BY <2>1, <2>4
    <3> HIDE DEF k, new
    <3> QED
      BY <2>4, <3>1, <3>2 DEF WaitInv, Waiting
  <2>7. \A r \in Slots : /\ task'[r].st # "free" => task'[r].ts # {}
                         /\ task'[r].ran <= Budget(task'[r].kind)
    <3>1. 0 <= Budget(TaskKind(kind))
      BY <1>4
    <3> HIDE DEF k, new
    <3> QED
      BY <2>1, <3>1 DEF WaitInv
  <2> HIDE DEF k, new
  <2> QED
    BY <1>2, <1>6, <1>9, <2>3, <2>5, <2>6, <2>7 DEF WaitInv, Waiting, Shared
<1> QED
  BY <1>1, <1>8, <1>9

-----------------------------------------------------------------------------
(* What is stored, and what can be served.                                 *)

\* An entry that a cache may serve is one that it may hold.
LEMMA Expiries ==
  /\ \A n : Expiry(n) \in Nat /\ FallbackTTL <= Expiry(n)
  /\ Expiry("price") = FreshTTL /\ Expiry("fallback") = FallbackTTL /\ Expiry("deep") = SlowTTL
  /\ Expiry("candles") = SlowTTL /\ Expiry("indices") = FreshTTL
  BY MarketAssumption DEF Expiry

LEMMA Hits ==
  ASSUME CacheInv, NEW n \in CacheNames, NEW t, NEW ttl \in Nat, ttl <= Expiry(n),
         NEW e \in Hit(n, t, ttl)
  PROVE  /\ e.real \in BOOLEAN /\ e.age \in Nat /\ e.since \in Nat /\ e.age < ttl
         /\ n \in {"price", "candles", "indices"} => e.real
         /\ n # "indices" => e.since <= e.age
         /\ n = "indices" => e.since < FreshTTL + e.age
<1>1. cache[n] \in Seq(Fit(n)) /\ e \in Range(cache[n]) /\ e.age < ttl
  BY DEF CacheInv, CacheOK, Shelf, Hit
<1>2. e \in Fit(n)
  BY <1>1 DEF Range
<1>3. /\ e.real \in BOOLEAN /\ e.age \in Nat /\ e.since \in Nat
      /\ n \in {"price", "candles", "indices"} => e.real
      /\ n # "indices" => e.since <= e.age \/ Expiry(n) <= e.age
      /\ n = "indices" => e.since < FreshTTL + e.age \/ Expiry(n) <= e.age
  BY <1>2 DEF Fit
<1>4. Expiry(n) \in Nat
  BY Expiries
<1>5. ~(Expiry(n) <= e.age)
  BY <1>1, <1>3, <1>4
<1> QED
  BY <1>1, <1>3, <1>5

LEMMA KnownRecent ==
  ASSUME CacheInv, NEW kind \in Kinds, NEW t \in Tickers, NEW e \in Known(kind, t)
  PROVE  /\ e.real \in BOOLEAN /\ e.since \in Nat
         /\ e.since < IF ~e.real THEN FallbackTTL
                      ELSE IF kind \in {"deep", "candles"} THEN SlowTTL ELSE FreshTTL
<1>1. /\ FallbackTTL \in Nat /\ FreshTTL \in Nat /\ SlowTTL \in Nat
      /\ FallbackTTL <= FreshTTL /\ FreshTTL <= SlowTTL
  BY MarketAssumption
<1>2. CASE kind = "deep"
  <2>1. e \in Hit("deep", t, SlowTTL) /\ (e.real \/ e.age < FallbackTTL)
    BY <1>2 DEF Known
  <2>2. /\ e.real \in BOOLEAN /\ e.age \in Nat /\ e.since \in Nat /\ e.age < SlowTTL
        /\ e.since <= e.age
    BY <1>1, <2>1, Hits, Expiries DEF CacheNames
  <2> QED
    BY <1>1, <1>2, <2>1, <2>2
<1>3. CASE kind = "candles"
  <2>1. e \in Hit("candles", t, SlowTTL)
    BY <1>3 DEF Known
  <2>2. /\ e.real /\ e.real \in BOOLEAN /\ e.age \in Nat /\ e.since \in Nat /\ e.age < SlowTTL
        /\ e.since <= e.age
    BY <1>1, <2>1, Hits, Expiries DEF CacheNames
  <2> QED
    BY <1>1, <1>3, <2>2
<1>4. CASE kind \notin {"deep", "candles"}
  <2>1. e \in Hit("price", t, FreshTTL) \/ e \in Hit("fallback", t, FallbackTTL)
    BY <1>4 DEF Known
  <2>2. CASE e \in Hit("price", t, FreshTTL)
    <3>1. /\ e.real /\ e.real \in BOOLEAN /\ e.age \in Nat /\ e.since \in Nat /\ e.age < FreshTTL
          /\ e.since <= e.age
      BY <1>1, <2>2, Hits, Expiries DEF CacheNames
    <3> QED
      BY <1>1, <1>4, <3>1
  <2>3. CASE e \in Hit("fallback", t, FallbackTTL)
    <3>1. /\ e.real \in BOOLEAN /\ e.age \in Nat /\ e.since \in Nat /\ e.age < FallbackTTL
          /\ e.since <= e.age
      BY <1>1, <2>3, Hits, Expiries DEF CacheNames
    <3> QED
      BY <1>1, <1>4, <3>1
  <2> QED
    BY <2>1, <2>2, <2>3
<1> QED
  BY <1>2, <1>3, <1>4

\* A fresh entry fits where its datum may go.
LEMMA EntryFits ==
  ASSUME NEW t \in Tickers, NEW real \in BOOLEAN, NEW n \in {"price", "fallback", "deep", "candles"},
         n \in {"price", "candles"} => real, NEW age \in Nat
  PROVE  Entry(t, real, age, 0) \in Fit(n)
<1>1. Entry(t, real, age, 0) = [t |-> t, real |-> real, age |-> age, since |-> 0]
  BY DEF Entry
<1>2. 0 <= age
  OBVIOUS
<1> QED
  BY <1>1, <1>2 DEF Fit

\* Storing answers leaves the caches as they may be.
LEMMA PutFitsAll ==
  ASSUME NEW c, CacheOK(c), NEW ts \in SUBSET Tickers, NEW res, NEW age \in Nat,
         NEW n \in {"price", "fallback", "deep", "candles"},
         \A t \in ts : res[t] \in BOOLEAN /\ (n \in {"price", "candles"} => res[t])
  PROVE  CacheOK(PutEach(c, n, ts, res, age))
<1>1. IsFiniteSet(ts)
  BY MarketAssumption, FS_Subset
<1>2. \A t \in ts : Entry(t, res[t], age, 0) \in Fit(n)
  BY EntryFits
<1>3. n \in CacheNames /\ c[n] \in Shelf(n) /\ n \in DOMAIN c /\ DOMAIN c = CacheNames
  BY DEF CacheOK, CacheNames
<1>4. /\ DOMAIN PutEach(c, n, ts, res, age) = DOMAIN c
      /\ PutEach(c, n, ts, res, age)[n] \in Shelf(n)
      /\ \A m \in DOMAIN c \ {n} : PutEach(c, n, ts, res, age)[m] = c[m]
  BY <1>1, <1>2, <1>3, PutEachFits
<1> QED
  BY <1>3, <1>4 DEF CacheOK

LEMMA ResultDomain ==
  ASSUME NEW res \in Results
  PROVE  /\ DOMAIN res \in SUBSET Tickers /\ \A t \in DOMAIN res : res[t] \in BOOLEAN
         /\ res # <<>> => DOMAIN res # {}
<1>1. PICK S \in SUBSET Tickers : res \in [S -> BOOLEAN]
  <2>1. CASE res = <<>>
    <3>1. res \in [{} -> BOOLEAN] /\ {} \in SUBSET Tickers
      BY <2>1
    <3> QED
      BY <3>1
  <2>2. CASE res # <<>>
    BY <2>2 DEF Results
  <2> QED
    BY <2>1, <2>2
<1>2. S = {} => res = <<>>
  BY <1>1
<1> QED
  BY <1>1, <1>2

LEMMA PricesFit ==
  ASSUME NEW c, CacheOK(c), NEW res \in Results
  PROVE  CacheOK(PutPrices(c, res))
<1> DEFINE stale == {t \in DOMAIN res : ~res[t]}
           c1 == PutEach(c, "price", DOMAIN res \ stale, res, 0)
<1>1. /\ stale \in SUBSET Tickers /\ DOMAIN res \ stale \in SUBSET Tickers
      /\ \A t \in stale : res[t] \in BOOLEAN
      /\ \A t \in DOMAIN res \ stale : res[t] \in BOOLEAN /\ res[t]
  BY ResultDomain
<1>2. CacheOK(c1)
  <2> HIDE DEF stale
  <2> QED
    BY <1>1, PutFitsAll
<1>3. CacheOK(PutEach(c1, "fallback", stale, res, 0))
  <2> HIDE DEF stale, c1
  <2> QED
    BY <1>1, <1>2, PutFitsAll
<1> QED
  BY <1>3 DEF PutPrices

LEMMA DeepFits ==
  ASSUME CacheInv, NEW res \in Results
  PROVE  CacheOK(DeepStored(res))
<1>1. DOMAIN res \in SUBSET Tickers /\ \A t \in DOMAIN res : res[t] \in BOOLEAN
  BY ResultDomain
<1> QED
  BY <1>1, PutFitsAll DEF DeepStored, CacheInv

LEMMA TaskStores ==
  ASSUME CacheInv, NEW kind, NEW res \in Results
  PROVE  CacheOK(StoredByTask(kind, res))
<1>1. CacheOK(PutPrices(cache, res)) /\ CacheOK(DeepStored(res)) /\ CacheOK(cache)
  BY PricesFit, DeepFits DEF CacheInv
<1> QED
  BY <1>1 DEF StoredByTask, PriceStored

LEMMA CallerStores ==
  ASSUME CacheInv, NEW k \in CallState, NEW res \in Results
  PROVE  CacheOK(StoredByCaller(k, res))
<1>1. CacheOK(PutPrices(cache, res)) /\ CacheOK(cache)
  BY PricesFit DEF CacheInv
<1>2. CacheOK(PutEach(cache, "candles", {t \in DOMAIN res : res[t]}, res, k.clock))
  <2> DEFINE real == {t \in DOMAIN res : res[t]}
  <2>1. /\ real \in SUBSET Tickers /\ k.clock \in Nat
        /\ \A t \in real : res[t] \in BOOLEAN /\ res[t]
    BY ResultDomain DEF CallState
  <2> HIDE DEF real
  <2>2. CacheOK(PutEach(cache, "candles", real, res, k.clock))
    BY <1>1, <2>1, PutFitsAll
  <2> QED
    BY <2>2 DEF real
<1> QED
  BY <1>1, <1>2 DEF StoredByCaller

\* An answer that leaves: the indices it caches are as old as they may be, and
\* what it persists is real.
LEMMA Completing ==
  ASSUME NEW kind, NEW ans, NEW clock \in Nat, NEW stored, CacheOK(stored),
         Complete(kind, ans, clock, stored), RowsOK,
         \A t \in DOMAIN ans : ans[t].real \in BOOLEAN,
         kind = "refresh" =>
           \A t \in DOMAIN ans : ans[t] \in Data /\ ans[t].since < FreshTTL + Long,
         kind = "indices" =>
           /\ DOMAIN ans \in SUBSET Tickers /\ DOMAIN ans # {}
           /\ \A t \in DOMAIN ans : ans[t].since \in Nat /\ ans[t].since < FreshTTL + clock
  PROVE  CacheInv' /\ RowsOK'
<1>1. RowsOK'
  <2>1. CASE kind = "refresh"
    <3>1. history' = {ans[t] : t \in Persistable(ans)}
      BY <2>1 DEF Complete
    <3>2. ASSUME NEW t \in Persistable(ans)
          PROVE  ans[t] \in Data /\ ans[t].real /\ ans[t].since < FreshTTL + Long
      BY <2>1 DEF Persistable
    <3> QED
      BY <3>1, <3>2 DEF RowsOK
  <2>2. CASE kind # "refresh"
    BY <2>2 DEF Complete, RowsOK
  <2> QED
    BY <2>1, <2>2
<1>2. CASE ~(kind = "indices" /\ ~AnyStale(ans))
  BY <1>1, <1>2 DEF Complete, CacheInv
<1>3. CASE kind = "indices" /\ ~AnyStale(ans)
  <2> DEFINE T == {ans[t].since : t \in DOMAIN ans}
             b == [t \in DOMAIN ans |-> ans[t].since]
             e == Entry("indices", AllReal(ans), clock, Oldest(ans))
  <2>0. AllReal(ans) = TRUE
    BY <1>3 DEF AllReal, AnyStale
  <2>1. T \in SUBSET Nat /\ T # {} /\ b \in Surjection(DOMAIN ans, T)
    BY <1>3 DEF Surjection
  <2>2. IsFiniteSet(T)
    <3>1. IsFiniteSet(DOMAIN ans)
      BY <1>3, MarketAssumption, FS_Subset
    <3> HIDE DEF T, b
    <3> QED
      BY <2>1, <3>1, FS_Surjection
  <2>3. Max(T) \in T
    <3> HIDE DEF T
    <3> QED
      BY <2>1, <2>2, MaxIs
  <2>4. Oldest(ans) \in Nat /\ Oldest(ans) < FreshTTL + clock
    BY <1>3, <2>3 DEF Oldest
  <2>5. e \in Fit("indices")
    <3>1. e = [t |-> "indices", real |-> TRUE, age |-> clock, since |-> Oldest(ans)]
      BY <2>0 DEF Entry
    <3> HIDE DEF T, b, e
    <3>2. PICK n \in Nat : n = Oldest(ans) /\ n < FreshTTL + clock
      BY <2>4
    <3>3. e.real = TRUE /\ e.age = clock /\ e.since = n
          /\ e \in [t : Tickers \cup {"indices"}, real : BOOLEAN, age : Nat, since : Nat]
      BY <3>1, <3>2
    <3> QED
      BY <3>2, <3>3 DEF Fit
  <2>6. cache' = [stored EXCEPT !["indices"] = <<e>>]
    BY <1>3 DEF Complete
  <2> HIDE DEF e
  <2>7. <<e>> \in Shelf("indices")
    <3>1. <<e>> \in Seq(Fit("indices")) /\ Len(<<e>>) = 1
      BY <2>5
    <3>2. 1 <= CacheMax
      BY MarketAssumption
    <3> QED
      BY <3>1, <3>2 DEF Shelf
  <2>8. CacheOK(cache')
    BY <2>6, <2>7 DEF CacheOK
  <2> QED
    BY <1>1, <2>8 DEF CacheInv
<1> QED
  BY <1>2, <1>3

\* The ages of the entries go on to their end.
LEMMA AgeingFits ==
  ASSUME CacheInv,
         cache' = [n \in DOMAIN cache |-> [i \in DOMAIN cache[n] |-> AgedEntry(n, cache[n][i])]]
  PROVE  CacheInv'
<1>1. ASSUME NEW n \in CacheNames, NEW e \in Fit(n) PROVE AgedEntry(n, e) \in Fit(n)
  <2>1. /\ e \in [t : Tickers \cup {"indices"}, real : BOOLEAN, age : Nat, since : Nat]
        /\ n \in {"price", "candles", "indices"} => e.real
        /\ n # "indices" => e.since <= e.age \/ Expiry(n) <= e.age
        /\ n = "indices" => e.since < FreshTTL + e.age \/ Expiry(n) <= e.age
    BY DEF Fit
  <2>2. FreshTTL \in Nat \ {0} /\ Expiry(n) \in Nat /\ MaxAge \in Nat
    BY MarketAssumption, Expiries DEF MaxAge
  <2>3. Older(e.since, MaxAge) \in {e.since, e.since + 1}
    BY DEF Older
  <2>4. PICK since \in Nat : since = Older(e.since, MaxAge) /\ since <= e.since + 1
    BY <2>1, <2>3
  <2>5. /\ [e EXCEPT !.age = e.age + 1, !.since = since] \in Fit(n)
        /\ [e EXCEPT !.age = Expiry(n), !.since = MaxAge] \in Fit(n)
    <3>0. PICK a \in Nat : a = e.age + 1
      BY <2>1
    <3> DEFINE r == [e EXCEPT !.age = a, !.since = since]
               z == [e EXCEPT !.age = Expiry(n), !.since = MaxAge]
               R == [t : Tickers \cup {"indices"}, real : BOOLEAN, age : Nat, since : Nat]
    <3>1. /\ r \in R /\ r.real = e.real /\ r.age = a /\ r.since = since
          /\ e.age \in Nat /\ e.since \in Nat
      BY <2>1
    <3>2. z \in R /\ z.real = e.real /\ z.age = Expiry(n) /\ z.since = MaxAge
      BY <2>1, <2>2
    <3> HIDE DEF r, z
    <3>3. /\ n # "indices" => r.since <= r.age \/ Expiry(n) <= r.age
          /\ n = "indices" => r.since < FreshTTL + r.age \/ Expiry(n) <= r.age
          /\ Expiry(n) <= z.age
      BY <2>1, <2>2, <2>4, <3>0, <3>1, <3>2
    <3>4. r \in Fit(n) /\ z \in Fit(n)
      BY <2>1, <3>1, <3>2, <3>3 DEF Fit
    <3> QED
      BY <3>0, <3>4 DEF r, z
  <2> QED
    BY <2>4, <2>5 DEF AgedEntry
<1>2. ASSUME NEW n \in CacheNames, NEW q \in Shelf(n)
      PROVE  [i \in DOMAIN q |-> AgedEntry(n, q[i])] \in Shelf(n)
  <2> DEFINE s == [i \in DOMAIN q |-> AgedEntry(n, q[i])]
             F == Fit(n)
  <2>1. q \in Seq(F) /\ Len(q) <= CacheMax
    BY DEF Shelf
  <2>2. \A e \in F : AgedEntry(n, e) \in F
    BY <1>1
  <2> HIDE DEF F
  <2>3. /\ DOMAIN q = 1..Len(q) /\ Len(q) \in Nat /\ \A i \in 1..Len(q) : q[i] \in F
    BY <2>1
  <2>4. s \in [1..Len(q) -> F]
    BY <2>2, <2>3
  <2>5. s \in Seq(F) /\ Len(s) = Len(q)
    BY <2>3, <2>4
  <2> HIDE DEF s
  <2>6. s \in Shelf(n)
    BY <2>1, <2>5 DEF Shelf, F
  <2> QED
    BY <2>6 DEF s
<1>3. DOMAIN cache = CacheNames /\ \A n \in CacheNames : cache[n] \in Shelf(n)
  BY DEF CacheInv, CacheOK
<1>4. DOMAIN cache' = CacheNames /\ \A n \in CacheNames : cache'[n] \in Shelf(n)
  BY <1>2, <1>3
<1> QED
  BY <1>4 DEF CacheInv, CacheOK

-----------------------------------------------------------------------------
(* The steps.                                                              *)

MarketInv == FlightInv /\ WaitInv /\ CacheInv /\ RowsOK

LEMMA MarketInvInit == MarketInit => MarketInv
<1> SUFFICES ASSUME MarketInit PROVE MarketInv
  OBVIOUS
<1>1. FlightInv
  BY FlightInvInit
<1>2. WaitInv
  <2>1. /\ call \in [Callers -> CallState] /\ \A c \in Callers : call[c] = Idle
    BY Idles DEF MarketInit
  <2>2. /\ \A s \in Slots : task[s] = Free
        /\ inflight \subseteq Slots
    BY DEF MarketInit
  <2>3. Free.st = "free" /\ Free.ran = 0 /\ Free.kind = "price" /\ 0 <= Budget("price")
    BY Budgets DEF Free, Kinds
  <2> QED
    BY <2>1, <2>2, <2>3, Idles DEF WaitInv, Waiting
<1>3. CacheInv
  <2>1. \A n \in CacheNames : <<>> \in Shelf(n)
    <3>1. \A F : <<>> \in Seq(F) /\ Len(<<>>) = 0
      OBVIOUS
    <3>2. 0 <= CacheMax
      BY MarketAssumption
    <3> QED
      BY <3>1, <3>2 DEF Shelf
  <2> QED
    BY <2>1 DEF MarketInit, CacheInv, CacheOK, CacheNames
<1>4. RowsOK
  BY DEF MarketInit, RowsOK
<1> QED
  BY <1>1, <1>2, <1>3, <1>4 DEF MarketInv

\* What a task may become while somebody waits for it.
GoesOn(f, g, stop) ==
  /\ g.st # "free" /\ g.kind = f.kind
  /\ g.st \in {"new", "queued", "running"} => f.st \in {"new", "queued", "running"} /\ f.ran <= g.ran
  /\ (g.st \in {"ended", "over"} /\ g.res = <<>>) =>
       (f.st \in {"ended", "over"} /\ f.res = <<>>) \/ stop

\* Callers stay or leave, the tasks waited for go on, the others as they may.
LEMMA GoingOn ==
  ASSUME FlightInv, FlightInv', WaitInv, phase = "closed" => phase' = "closed",
         call' \in [Callers -> CallState], inflight' \subseteq Slots,
         \A c \in Callers : call'[c] = call[c] \/ call'[c] = Idle,
         \A s \in Slots : /\ task'[s].st # "free" => task'[s].ts # {}
                          /\ task'[s].ran <= Budget(task'[s].kind),
         \A c \in Callers : call'[c].on # 0 =>
           GoesOn(task[call[c].on], task'[call[c].on], phase' = "closed")
  PROVE  WaitInv'
<1>1. ASSUME NEW c \in Callers, call'[c].on # 0
      PROVE  /\ task'[call[c].on].st # "free"
             /\ task'[call[c].on].kind = task[call[c].on].kind
             /\ Elapsed(call[c].on) <= (IF task'[call[c].on].st \in {"new", "queued", "running"}
                                        THEN task'[call[c].on].ran
                                        ELSE Budget(task'[call[c].on].kind))
             /\ (task'[call[c].on].st \in {"ended", "over"} /\ task'[call[c].on].res = <<>>)
                  => Unanswered(call[c].on) \/ phase' = "closed"
  <2>1. call[c].on \in Slots /\ GoesOn(task[call[c].on], task'[call[c].on], phase' = "closed")
    BY <1>1, Idles DEF WaitInv, CallState
  <2>2. PICK s \in Slots : s = call[c].on
    BY <2>1
  <2>3. /\ task[s] \in TaskState /\ task[s].ran <= Budget(task[s].kind)
        /\ Budget(task[s].kind) \in Nat /\ task[s].ran \in Nat
    BY Budgets DEF FlightInv, WaitInv, TaskState
  <2>4. Elapsed(s) <= (IF task'[s].st \in {"new", "queued", "running"} THEN task'[s].ran
                       ELSE Budget(task'[s].kind))
    BY <2>1, <2>2, <2>3 DEF GoesOn, Elapsed, Live
  <2> QED
    BY <2>1, <2>2, <2>4 DEF GoesOn, Unanswered
<1> QED
  BY <1>1, Moving

\* One task changes; nobody comes or goes.
LEMMA OneTaskMoves ==
  ASSUME FlightInv, FlightInv', WaitInv, phase' = phase, call' = call, inflight' = inflight,
         NEW s \in Slots, \A r \in Slots \ {s} : task'[r] = task[r],
         task'[s].ts = task[s].ts, task[s].st # "free",
         task'[s].ran <= Budget(task'[s].kind), GoesOn(task[s], task'[s], FALSE)
  PROVE  WaitInv'
<1>1. /\ call' \in [Callers -> CallState] /\ inflight' \subseteq Slots
      /\ \A r \in Slots : /\ task'[r].st # "free" => task'[r].ts # {}
                          /\ task'[r].ran <= Budget(task'[r].kind)
  BY DEF WaitInv
<1>2. ASSUME NEW c \in Callers, call'[c].on # 0
      PROVE  GoesOn(task[call[c].on], task'[call[c].on], phase' = "closed")
  <2>1. call[c].on \in Slots /\ task[call[c].on].st # "free"
    BY <1>2 DEF WaitInv, CallState, Waiting, WaitOK
  <2>2. task[call[c].on].ran \in Nat
    BY <2>1 DEF FlightInv, TaskState
  <2> QED
    BY <2>1, <2>2 DEF GoesOn
<1> QED
  BY <1>1, <1>2, GoingOn

\* Callers stay or leave, and what is over and waited for by nobody is swept.
LEMMA Sweeping ==
  ASSUME FlightInv, FlightInv', WaitInv, phase = "closed" => phase' = "closed",
         call' \in [Callers -> CallState], inflight' \subseteq Slots,
         \A c \in Callers : call'[c] = call[c] \/ call'[c] = Idle,
         NEW left \in [Slots -> TaskState], task' = Swept(left, call'),
         \A s \in Slots : /\ left[s].st # "free" => left[s].ts # {}
                          /\ left[s].ran <= Budget(left[s].kind),
         \A c \in Callers : call'[c].on # 0 =>
           GoesOn(task[call[c].on], left[call[c].on], phase' = "closed")
  PROVE  WaitInv'
<1>1. \A s \in Slots : task'[s] = left[s] \/ task'[s] = Free
  BY DEF Swept
<1>2. Free.st = "free" /\ Free.ran = 0 /\ Free.kind = "price" /\ 0 <= Budget("price")
  BY Budgets DEF Free, Kinds
<1>3. \A s \in Slots : /\ task'[s].st # "free" => task'[s].ts # {}
                       /\ task'[s].ran <= Budget(task'[s].kind)
  BY <1>1, <1>2
<1>4. ASSUME NEW c \in Callers, call'[c].on # 0
      PROVE  GoesOn(task[call[c].on], task'[call[c].on], phase' = "closed")
  <2>1. call'[c] = call[c] /\ call[c].on \in Slots
    BY <1>4, Idles DEF WaitInv, CallState
  <2>2. task'[call[c].on] = left[call[c].on]
    BY <2>1 DEF Swept
  <2> QED
    BY <1>4, <2>2
<1> QED
  BY <1>3, <1>4, GoingOn

\* A task that ends with an answer.
LEMMA Ending ==
  ASSUME FlightInv, FlightInv', WaitInv, phase' = phase, call' = call, inflight' = inflight,
         NEW s \in Slots, Live(s), NEW res, res # <<>>, task' = Over(s, res)
  PROVE  WaitInv'
<1>1. task \in [Slots -> TaskState] /\ task[s] \in TaskState
  BY DEF FlightInv
<1>2. PICK st \in {"ended", "over"} :
        task' = [task EXCEPT ![s].st = st, ![s].res = res, ![s].ran = 0]
  BY DEF Over
<1>3. /\ \A r \in Slots \ {s} : task'[r] = task[r]
      /\ task'[s].st = st /\ task'[s].res = res /\ task'[s].ran = 0
      /\ task'[s].kind = task[s].kind /\ task'[s].ts = task[s].ts
  BY <1>1, <1>2 DEF TaskState
<1>4. 0 <= Budget(task'[s].kind)
  BY <1>1, <1>3, Budgets DEF TaskState
<1>5. task'[s].ran <= Budget(task'[s].kind) /\ GoesOn(task[s], task'[s], FALSE)
  BY <1>3, <1>4 DEF GoesOn
<1>6. task[s].st # "free"
  BY DEF Live
<1> QED
  BY <1>3, <1>5, <1>6, OneTaskMoves

\* A task that is handed on.
LEMMA HandingOn ==
  ASSUME FlightInv, FlightInv', WaitInv, phase' = phase, call' = call, inflight' = inflight,
         NEW s \in Slots, Live(s), NEW st \in {"queued", "running"},
         task' = [task EXCEPT ![s].st = st]
  PROVE  WaitInv'
<1>1. task \in [Slots -> TaskState] /\ task[s] \in TaskState
  BY DEF FlightInv
<1>2. /\ \A r \in Slots \ {s} : task'[r] = task[r]
      /\ task'[s].st = st /\ task'[s].res = task[s].res /\ task'[s].ran = task[s].ran
      /\ task'[s].kind = task[s].kind /\ task'[s].ts = task[s].ts
  BY <1>1 DEF TaskState
<1>3. task[s].ran \in Nat /\ task[s].ran <= Budget(task[s].kind)
  BY <1>1 DEF TaskState, WaitInv
<1>4. task'[s].ran <= Budget(task'[s].kind) /\ GoesOn(task[s], task'[s], FALSE)
  BY <1>2, <1>3 DEF GoesOn, Live
<1>5. task[s].st # "free"
  BY DEF Live
<1> QED
  BY <1>2, <1>4, <1>5, OneTaskMoves

\* Answers and fallbacks name a title.
LEMMA AnswersNameTitles ==
  ASSUME FlightInv, WaitInv, NEW s \in Slots, Live(s)
  PROVE  /\ Fallbacks(s) \in Results /\ Fallbacks(s) # <<>>
         /\ \A res \in Outcomes(s) : res \in Results /\ res # <<>>
<1>1. task[s].ts \in SUBSET Tickers /\ task[s].ts # {}
  BY DEF FlightInv, TaskState, WaitInv, Live
<1>2. DOMAIN Fallbacks(s) = task[s].ts /\ \A res \in Outcomes(s) : DOMAIN res = task[s].ts
  BY DEF Fallbacks, Outcomes
<1>3. DOMAIN <<>> = {}
  OBVIOUS
<1>4. Fallbacks(s) \in Results /\ Outcomes(s) \subseteq Results
  BY <1>1, ResultTypes DEF Fallbacks, Outcomes
<1> QED
  BY <1>1, <1>2, <1>3, <1>4

\* A call: what it has in hand is recent, and it waits for the rest.
LEMMA CallKeeps ==
  ASSUME MarketInv, FlightInv', NEW c \in Callers, NEW kind \in Kinds, NEW ts \in SUBSET Tickers,
         kind \notin BatchKinds => \A t, u \in ts : t = u, kind = "indices" => ts # {},
         Call(c, kind, ts)
  PROVE  MarketInv'
<1> DEFINE known == {t \in ts : Known(kind, t) # {}}
           got == [t \in known |-> LET e == CHOOSE e \in Known(kind, t) : TRUE
                                   IN  [real |-> e.real, since |-> e.since]]
           whole == Hit("indices", "indices", FreshTTL)
<1>1. FlightInv /\ WaitInv /\ CacheInv /\ RowsOK /\ ~Waiting(c) /\ phase' = phase
  BY DEF Call, MarketInv
<1>2. \/ UNCHANGED <<call, task, inflight, cache, history>>
      \/ /\ known = ts /\ Complete(kind, got, 0, cache)
         /\ UNCHANGED <<call, task, inflight>>
      \/ /\ known # ts /\ Wait(c, kind, ts \ known, got)
         /\ UNCHANGED <<cache, history>>
  BY DEF Call
<1>3. known \in SUBSET Tickers /\ DOMAIN got = known /\ known \subseteq ts
  OBVIOUS
<1>4. ASSUME NEW t \in known
      PROVE  /\ got[t] \in Data
             /\ got[t].since < IF ~got[t].real THEN FallbackTTL
                               ELSE IF kind \in {"deep", "candles"} THEN SlowTTL ELSE FreshTTL
  <2> DEFINE e == CHOOSE e \in Known(kind, t) : TRUE
  <2>1. e \in Known(kind, t) /\ t \in Tickers
    OBVIOUS
  <2>2. got[t] = [real |-> e.real, since |-> e.since]
    OBVIOUS
  <2> HIDE DEF e, got, known
  <2>3. /\ e.real \in BOOLEAN /\ e.since \in Nat
        /\ e.since < IF ~e.real THEN FallbackTTL
                     ELSE IF kind \in {"deep", "candles"} THEN SlowTTL ELSE FreshTTL
    BY <1>1, <2>1, KnownRecent
  <2> QED
    BY <2>2, <2>3 DEF Data
<1> HIDE DEF known, got
<1>5. got \in Answers
  <2>1. got = [t \in known |-> got[t]]
    BY DEF got
  <2>2. got \in [known -> Data]
    BY <1>3, <1>4, <2>1
  <2> QED
    BY <1>3, <2>2 DEF Answers
<1>6. CASE UNCHANGED <<call, task, inflight, cache, history>>
  <2>1. WaitInv'
    BY <1>1, <1>6 DEF WaitInv, WaitOK, Waiting, Elapsed, Live, Unanswered
  <2> QED
    BY <1>1, <1>6, <2>1 DEF MarketInv, CacheInv, RowsOK
<1>7. CASE known = ts /\ Complete(kind, got, 0, cache) /\ UNCHANGED <<call, task, inflight>>
  <2>1. WaitInv'
    BY <1>1, <1>7 DEF WaitInv, WaitOK, Waiting, Elapsed, Live, Unanswered
  <2>2. ASSUME kind = "indices"
        PROVE  /\ DOMAIN got \in SUBSET Tickers /\ DOMAIN got # {}
               /\ \A t \in DOMAIN got : got[t].since \in Nat /\ got[t].since < FreshTTL + 0
    <3>1. FallbackTTL \in Nat /\ FreshTTL \in Nat /\ FallbackTTL <= FreshTTL
      BY MarketAssumption
    <3> QED
      BY <1>3, <1>4, <1>7, <2>2, <3>1 DEF Data
  <2>3. CacheInv' /\ RowsOK'
    <3>1. CacheOK(cache) /\ 0 \in Nat /\ \A t \in DOMAIN got : got[t].real \in BOOLEAN
      BY <1>1, <1>3, <1>4 DEF CacheInv, Data
    <3>2. ASSUME kind = "refresh", NEW t \in DOMAIN got
          PROVE  got[t] \in Data /\ got[t].since < FreshTTL + Long
      <4>1. /\ FallbackTTL \in Nat /\ FreshTTL \in Nat /\ Long \in Nat
            /\ FallbackTTL <= FreshTTL
        BY MarketAssumption
      <4>2. got[t] \in Data /\ got[t].since \in Nat /\ got[t].since < FreshTTL
        BY <1>3, <1>4, <3>2, <4>1 DEF Data
      <4> QED
        BY <4>1, <4>2
    <3> QED
      BY <1>1, <1>7, <2>2, <3>1, <3>2, Completing
  <2> QED
    BY <2>1, <2>3 DEF MarketInv
<1>8. CASE known # ts /\ Wait(c, kind, ts \ known, got) /\ UNCHANGED <<cache, history>>
  <2>1. ts \ known # {} /\ ts \ known \in SUBSET Tickers
    BY <1>3, <1>8
  <2>2. KnownOK(kind, got)
    <3>1. ASSUME NEW t \in known, kind \in {"deep", "candles"} PROVE FALSE
      BY <1>3, <1>8, <3>1 DEF BatchKinds
    <3>2. \A t \in known : got[t].real \in BOOLEAN
      BY <1>4 DEF Data
    <3> QED
      BY <1>3, <1>4, <1>5, <3>1, <3>2 DEF KnownOK, Lifetime
  <2>3. WaitInv'
    BY <1>1, <1>8, <2>1, <2>2, WaitWaits
  <2> QED
    BY <1>1, <1>8, <2>3 DEF MarketInv, CacheInv, RowsOK
<1> QED
  BY <1>2, <1>6, <1>7, <1>8

LEMMA EndKeeps ==
  ASSUME MarketInv, FlightInv', phase' = phase, call' = call, inflight' = inflight,
         history' = history, NEW s \in Slots, Live(s), NEW res \in Results, res # <<>>,
         task' = Over(s, res), cache' = StoredByTask(task[s].kind, res)
  PROVE  MarketInv'
<1>1. WaitInv'
  BY Ending DEF MarketInv
<1>2. CacheOK(cache')
  BY TaskStores DEF MarketInv
<1> QED
  BY <1>1, <1>2 DEF MarketInv, CacheInv, RowsOK

LEMMA StartKeeps ==
  ASSUME MarketInv, FlightInv', NEW s \in Slots, Start(s)
  PROVE  MarketInv'
<1>1. Live(s) /\ phase' = phase /\ call' = call /\ inflight' = inflight /\ history' = history
  BY DEF Start, Live
<1>2. CASE Accepts
  <2>1. task' = [task EXCEPT ![s].st = "queued"] /\ cache' = cache
    BY <1>2 DEF Start
  <2>2. WaitInv'
    BY <1>1, <2>1, HandingOn DEF MarketInv
  <2> QED
    BY <1>1, <2>1, <2>2 DEF MarketInv, CacheInv, RowsOK
<1>3. CASE ~Accepts
  <2>1. task' = Over(s, Fallbacks(s)) /\ cache' = StoredByTask(task[s].kind, Fallbacks(s))
    BY <1>3 DEF Start
  <2>2. Fallbacks(s) \in Results /\ Fallbacks(s) # <<>>
    BY <1>1, AnswersNameTitles DEF MarketInv
  <2> QED
    BY <1>1, <2>1, <2>2, EndKeeps
<1> QED
  BY <1>2, <1>3

LEMMA RunKeeps ==
  ASSUME MarketInv, FlightInv', NEW s \in Slots, Run(s)
  PROVE  MarketInv'
<1>1. Live(s) /\ UNCHANGED <<phase, call, inflight, history, cache>>
      /\ task' = [task EXCEPT ![s].st = "running"]
  BY DEF Run, Live
<1>2. WaitInv'
  BY <1>1, HandingOn DEF MarketInv
<1> QED
  BY <1>1, <1>2 DEF MarketInv, CacheInv, RowsOK

LEMMA FinishKeeps ==
  ASSUME MarketInv, FlightInv', NEW s \in Slots, NEW res \in Outcomes(s), Finish(s, res)
  PROVE  MarketInv'
<1>1. /\ Live(s) /\ UNCHANGED <<phase, call, inflight, history>> /\ task' = Over(s, res)
      /\ cache' = StoredByTask(task[s].kind, res) \/ cache' = cache
  BY DEF Finish, Live
<1>2. res \in Results /\ res # <<>>
  BY <1>1, AnswersNameTitles DEF MarketInv
<1>3. CASE cache' = StoredByTask(task[s].kind, res)
  BY <1>1, <1>2, <1>3, EndKeeps
<1>4. CASE cache' = cache
  <2>1. WaitInv'
    BY <1>1, <1>2, Ending DEF MarketInv
  <2> QED
    BY <1>1, <1>4, <2>1 DEF MarketInv, CacheInv, RowsOK
<1> QED
  BY <1>1, <1>3, <1>4

LEMMA TimeoutKeeps ==
  ASSUME MarketInv, FlightInv', NEW s \in Slots, Timeout(s)
  PROVE  MarketInv'
<1>1. Live(s) /\ UNCHANGED <<phase, call, inflight, history>>
      /\ task' = Over(s, Fallbacks(s)) /\ cache' = StoredByTask(task[s].kind, Fallbacks(s))
  BY DEF Timeout, Due, Live
<1>2. Fallbacks(s) \in Results /\ Fallbacks(s) # <<>>
  BY <1>1, AnswersNameTitles DEF MarketInv
<1> QED
  BY <1>1, <1>2, EndKeeps

\* A task that is as it was goes on.
LEMMA SameGoesOn ==
  ASSUME FlightInv, WaitInv, NEW c \in Callers, call[c].on # 0, NEW stop
  PROVE  GoesOn(task[call[c].on], task[call[c].on], stop)
<1>1. call[c].on \in Slots /\ task[call[c].on].st # "free"
  BY DEF WaitInv, CallState, Waiting, WaitOK
<1>2. task[call[c].on].ran \in Nat
  BY <1>1 DEF FlightInv, TaskState
<1> QED
  BY <1>1, <1>2 DEF GoesOn

LEMMA CleanupKeeps ==
  ASSUME MarketInv, FlightInv', NEW s \in Slots, Cleanup(s)
  PROVE  MarketInv'
<1> DEFINE left == [task EXCEPT ![s].st = "over"]
<1>1. /\ task[s].st = "ended" /\ inflight' = inflight \ {s} /\ task' = Swept(left, call')
      /\ UNCHANGED <<call, cache, history, phase>>
  BY DEF Cleanup, Unlisted
<1>2. task \in [Slots -> TaskState] /\ task[s] \in TaskState
  BY DEF MarketInv, FlightInv
<1>3. /\ left \in [Slots -> TaskState] /\ \A r \in Slots \ {s} : left[r] = task[r]
      /\ left[s].st = "over" /\ left[s].res = task[s].res /\ left[s].ran = task[s].ran
      /\ left[s].kind = task[s].kind /\ left[s].ts = task[s].ts
  BY <1>2 DEF TaskState
<1> HIDE DEF left
<1>4. \A r \in Slots : /\ left[r].st # "free" => left[r].ts # {}
                       /\ left[r].ran <= Budget(left[r].kind)
  BY <1>1, <1>3 DEF MarketInv, WaitInv
<1>5. ASSUME NEW c \in Callers, call'[c].on # 0
      PROVE  GoesOn(task[call[c].on], left[call[c].on], phase' = "closed")
  <2>1. call[c].on \in Slots
    BY <1>1, <1>5 DEF MarketInv, WaitInv, CallState
  <2>2. CASE call[c].on # s
    BY <1>1, <1>3, <1>5, <2>1, <2>2, SameGoesOn DEF MarketInv
  <2>3. CASE call[c].on = s
    BY <1>1, <1>3, <2>3 DEF GoesOn
  <2> QED
    BY <2>2, <2>3
<1>6. WaitInv'
  <2>1. call' \in [Callers -> CallState] /\ inflight' \subseteq Slots
    BY <1>1 DEF MarketInv, WaitInv
  <2> QED
    BY <1>1, <1>3, <1>4, <1>5, <2>1, Sweeping DEF MarketInv
<1> QED
  BY <1>1, <1>6 DEF MarketInv, CacheInv, RowsOK

LEMMA ResumeKeeps ==
  ASSUME MarketInv, FlightInv', NEW c \in Callers, Resume(c)
  PROVE  MarketInv'
<1> DEFINE k == call[c]
           res == task[k.on].res
           ans == [t \in DOMAIN k.got \union DOMAIN res |->
                     IF t \in DOMAIN k.got THEN k.got[t] ELSE [real |-> res[t], since |-> 0]]
<1>1. /\ call' = [call EXCEPT ![c] = Idle] /\ task' = Swept(task, call')
      /\ UNCHANGED <<inflight, phase>> /\ Waiting(c)
      /\ IF res = <<>> THEN UNCHANGED <<cache, history>>
         ELSE Complete(k.kind, ans, k.clock, StoredByCaller(k, res))
  BY DEF Resume
<1>2. /\ k \in CallState /\ k.on \in Slots /\ WaitOK(c) /\ task[k.on] \in TaskState
      /\ CacheInv /\ RowsOK
  BY <1>1 DEF MarketInv, WaitInv, CallState, Waiting, FlightInv
<1>3. WaitInv'
  <2>1. call' \in [Callers -> CallState] /\ inflight' \subseteq Slots
        /\ \A d \in Callers : call'[d] = call[d] \/ call'[d] = Idle
    BY <1>1, Idles DEF MarketInv, WaitInv
  <2>2. ASSUME NEW d \in Callers, call'[d].on # 0
        PROVE  GoesOn(task[call[d].on], task[call[d].on], phase' = "closed")
    <3>1. call[d].on # 0
      BY <2>1, <2>2, Idles
    <3> QED
      BY <3>1, SameGoesOn DEF MarketInv
  <2>3. task \in [Slots -> TaskState] /\ \A r \in Slots :
          /\ task[r].st # "free" => task[r].ts # {} /\ task[r].ran <= Budget(task[r].kind)
    BY DEF MarketInv, WaitInv, FlightInv
  <2>4. \A r \in Slots : /\ task[r].st # "free" => task[r].ts # {}
                         /\ task[r].ran <= Budget(task[r].kind)
    BY DEF MarketInv, WaitInv
  <2> QED
    BY <1>1, <2>1, <2>2, <2>3, <2>4, Sweeping DEF MarketInv
<1>4. CASE res = <<>>
  BY <1>1, <1>2, <1>3, <1>4 DEF MarketInv, CacheInv, RowsOK
<1>5. CASE res # <<>>
  <2>1. res \in Results /\ k.clock \in Nat /\ k.got \in Answers
    BY <1>2 DEF TaskState, CallState
  <2>2. CacheOK(StoredByCaller(k, res))
    BY <1>2, <2>1, CallerStores
  <2>3. DOMAIN res \in SUBSET Tickers /\ DOMAIN res # {} /\ DOMAIN k.got \in SUBSET Tickers
    BY <1>5, <2>1, ResultDomain DEF Answers
  <2>4. ASSUME k.kind = "indices"
        PROVE  /\ DOMAIN ans \in SUBSET Tickers /\ DOMAIN ans # {}
               /\ \A t \in DOMAIN ans : ans[t].since \in Nat /\ ans[t].since < FreshTTL + k.clock
    <3>1. \A t \in DOMAIN k.got : k.got[t].since \in Nat /\ k.got[t].since < FreshTTL + k.clock
      BY <1>2, <2>1, <2>4 DEF WaitOK, Answers, Data
    <3>2. 0 < FreshTTL + k.clock
      BY <2>1, MarketAssumption
    <3>3. FreshTTL \in Nat
      BY MarketAssumption
    <3> HIDE DEF k, res
    <3>4. DOMAIN ans = DOMAIN k.got \cup DOMAIN res
      OBVIOUS
    <3>5. ASSUME NEW t \in DOMAIN ans
          PROVE  ans[t].since \in Nat /\ ans[t].since < FreshTTL + k.clock
      <4>1. CASE t \in DOMAIN k.got
        <5>1. ans[t] = k.got[t]
          BY <4>1
        <5> HIDE DEF ans
        <5> QED
          BY <3>1, <4>1, <5>1
      <4>2. CASE t \notin DOMAIN k.got
        <5>1. ans[t] = [real |-> res[t], since |-> 0]
          BY <4>2
        <5>2. ans[t].since = 0
          BY <5>1
        <5> HIDE DEF ans
        <5> QED
          BY <3>2, <5>2
      <4> QED
        BY <4>1, <4>2
    <3> HIDE DEF ans
    <3> QED
      BY <2>3, <3>4, <3>5
  <2>7. ASSUME k.kind = "refresh"
        PROVE  \A t \in DOMAIN ans : ans[t] \in Data /\ ans[t].since < FreshTTL + Long
    <3>1. /\ FreshTTL \in Nat \ {0} /\ FallbackTTL \in Nat /\ FallbackTTL <= FreshTTL
          /\ Long \in Nat
      BY MarketAssumption
    <3>2. Elapsed(k.on) \in Nat /\ Elapsed(k.on) <= Long
      <4>1. /\ task[k.on].kind \in Kinds /\ task[k.on].ran \in Nat
            /\ task[k.on].ran <= Budget(task[k.on].kind)
        BY <1>2 DEF TaskState, MarketInv, WaitInv
      <4> QED
        BY <3>1, <4>1, Budgets DEF Elapsed
    <3>3. ASSUME NEW t \in DOMAIN k.got
          PROVE  k.got[t] \in Data /\ k.got[t].since < FreshTTL + Long
      <4>1. k.got[t] \in Data /\ k.got[t].since \in Nat
        BY <2>1 DEF Answers, Data
      <4>2. k.got[t].since < Lifetime(k.got[t]) + Elapsed(k.on)
        BY <1>2 DEF WaitOK
      <4>3. Lifetime(k.got[t]) \in Nat /\ Lifetime(k.got[t]) <= FreshTTL
        BY <3>1 DEF Lifetime
      <4> QED
        BY <3>1, <3>2, <4>1, <4>2, <4>3
    <3>4. \A t \in DOMAIN res : res[t] \in BOOLEAN
      BY <2>1, ResultDomain
    <3> HIDE DEF k, res
    <3>5. ASSUME NEW t \in DOMAIN ans
          PROVE  ans[t] \in Data /\ ans[t].since < FreshTTL + Long
      <4>1. CASE t \in DOMAIN k.got
        <5>1. ans[t] = k.got[t]
          BY <4>1
        <5> HIDE DEF ans
        <5> QED
          BY <3>3, <4>1, <5>1
      <4>2. CASE t \notin DOMAIN k.got
        <5>1. ans[t] = [real |-> res[t], since |-> 0] /\ t \in DOMAIN res
          BY <4>2
        <5> HIDE DEF ans
        <5>2. ans[t] \in Data /\ ans[t].since = 0
          BY <3>4, <5>1 DEF Data
        <5> QED
          BY <3>1, <5>2
      <4> QED
        BY <4>1, <4>2
    <3> HIDE DEF ans
    <3> QED
      BY <3>5
  <2>9. \A t \in DOMAIN ans : ans[t].real \in BOOLEAN
    <3>1. /\ \A t \in DOMAIN k.got : k.got[t].real \in BOOLEAN
          /\ \A t \in DOMAIN res : res[t] \in BOOLEAN
      BY <2>1, ResultDomain DEF Answers, Data
    <3> HIDE DEF k, res
    <3> QED
      BY <3>1
  <2>5. Complete(k.kind, ans, k.clock, StoredByCaller(k, res))
    BY <1>1, <1>5
  <2> HIDE DEF k, ans, res
  <2>6. CacheInv' /\ RowsOK'
    BY <1>2, <2>1, <2>2, <2>4, <2>5, <2>7, <2>9, Completing
  <2> QED
    BY <1>3, <2>6 DEF MarketInv
<1> QED
  BY <1>4, <1>5

\* Those who are cancelled take none but the calls of their own with them.
LEMMA AbandonKeeps ==
  ASSUME MarketInv, FlightInv', NEW cs \in SUBSET Callers, Abandoned(cs),
         UNCHANGED <<inflight, cache, history, phase>>, \A c \in cs : Waiting(c)
  PROVE  MarketInv'
<1> DEFINE own == {call[c].on : c \in cs} \ {s \in Slots : Shielded(s)}
           gone(s) == [task[s] EXCEPT !.st = IF Shared(task[s].kind) THEN "ended" ELSE "over",
                                      !.res = <<>>, !.ran = 0]
           left == [s \in Slots |-> IF s \in own /\ Live(s) THEN gone(s) ELSE task[s]]
<1>1. /\ call' = [c \in Callers |-> IF c \in cs THEN Idle ELSE call[c]]
      /\ task' = Swept(left, call')
  BY DEF Abandoned
<1>2. task \in [Slots -> TaskState] /\ \A s \in Slots : task[s] \in TaskState
  BY DEF MarketInv, FlightInv
<1>3. ASSUME NEW s \in Slots
      PROVE  /\ gone(s) \in TaskState /\ gone(s).st \in {"ended", "over"}
             /\ gone(s).ts = task[s].ts /\ gone(s).kind = task[s].kind /\ gone(s).ran = 0
  <2>1. ASSUME NEW st \in {"ended", "over"}, NEW none \in Results
        PROVE  LET g == [task[s] EXCEPT !.st = st, !.res = none, !.ran = 0]
               IN  /\ g \in TaskState /\ g.st = st /\ g.ran = 0
                   /\ g.ts = task[s].ts /\ g.kind = task[s].kind
    BY <1>2 DEF TaskState
  <2>2. (IF Shared(task[s].kind) THEN "ended" ELSE "over") \in {"ended", "over"}
    OBVIOUS
  <2>3. <<>> \in Results
    BY ResultTypes
  <2>4. LET g == [task[s] EXCEPT !.st = IF Shared(task[s].kind) THEN "ended" ELSE "over",
                                 !.res = <<>>, !.ran = 0]
        IN  /\ g \in TaskState
            /\ g.st = (IF Shared(task[s].kind) THEN "ended" ELSE "over") /\ g.ran = 0
            /\ g.ts = task[s].ts /\ g.kind = task[s].kind
    BY <2>1, <2>2, <2>3, Zenon
  <2> QED
    BY <2>2, <2>4, Zenon
<1> HIDE DEF gone
<1>4. left \in [Slots -> TaskState]
  BY <1>2, <1>3
<1>5. \A s \in Slots : /\ left[s].st # "free" => left[s].ts # {}
                       /\ left[s].ran <= Budget(left[s].kind)
  <2> SUFFICES ASSUME NEW s \in Slots
               PROVE  /\ left[s].st # "free" => left[s].ts # {}
                      /\ left[s].ran <= Budget(left[s].kind)
    OBVIOUS
  <2>1. /\ task[s].st # "free" => task[s].ts # {}
        /\ task[s].ran <= Budget(task[s].kind)
    BY DEF MarketInv, WaitInv
  <2>2. 0 <= Budget(task[s].kind)
    BY <1>2, Budgets DEF TaskState
  <2> HIDE DEF own
  <2> QED
    BY <1>3, <2>1, <2>2 DEF Live
<1>6. /\ call' \in [Callers -> CallState]
      /\ \A c \in Callers : call'[c] = call[c] \/ call'[c] = Idle
      /\ \A c \in cs : call'[c].on = 0
  BY <1>1, Idles DEF MarketInv, WaitInv
<1>7. ASSUME NEW c \in Callers, call'[c].on # 0
      PROVE  GoesOn(task[call[c].on], left[call[c].on], phase' = "closed")
  <2>1. c \notin cs /\ call[c].on # 0 /\ call[c].on \in Slots
    BY <1>1, <1>6, <1>7, Idles DEF MarketInv, WaitInv, CallState
  <2>2. call[c].on \notin own
    <3> SUFFICES ASSUME NEW d \in cs, call[d].on = call[c].on, ~Shared(task[call[c].on].kind)
                 PROVE  FALSE
      BY <2>1 DEF Shielded
    <3>1. d \in Callers /\ call[d].on # 0 /\ d # c
      BY <2>1
    <3> QED
      BY <2>1, <3>1 DEF MarketInv, WaitInv, Waiting
  <2>3. left[call[c].on] = task[call[c].on]
    BY <2>1, <2>2
  <2> HIDE DEF left
  <2> QED
    BY <2>1, <2>3, SameGoesOn DEF MarketInv
<1>8. inflight' \subseteq Slots /\ (phase = "closed" => phase' = "closed")
  BY DEF MarketInv, WaitInv
<1> HIDE DEF left
<1>9. WaitInv'
  BY <1>1, <1>4, <1>5, <1>6, <1>7, <1>8, Sweeping DEF MarketInv
<1> QED
  BY <1>9 DEF MarketInv, CacheInv, RowsOK

LEMMA CloseKeeps ==
  ASSUME MarketInv, FlightInv', CloseExecutor
  PROVE  MarketInv'
<1> DEFINE gone(s) == [task[s] EXCEPT !.st = "ended", !.ran = 0]
           left == [s \in Slots |-> IF task[s].st = "queued" THEN gone(s) ELSE task[s]]
<1>1. /\ task' = Swept(left, call') /\ phase' = "closed" /\ \A c \in Callers : ~Waiting(c)
      /\ UNCHANGED <<call, inflight, cache, history>>
  BY DEF CloseExecutor
<1>2. task \in [Slots -> TaskState] /\ \A s \in Slots : task[s] \in TaskState
  BY DEF MarketInv, FlightInv
<1>3. \A s \in Slots : /\ gone(s) \in TaskState /\ gone(s).st = "ended" /\ gone(s).ran = 0
                       /\ gone(s).ts = task[s].ts /\ gone(s).kind = task[s].kind
  BY <1>2 DEF TaskState
<1> HIDE DEF gone
<1>4. left \in [Slots -> TaskState]
  BY <1>2, <1>3
<1>5. \A s \in Slots : /\ left[s].st # "free" => left[s].ts # {}
                       /\ left[s].ran <= Budget(left[s].kind)
  <2> SUFFICES ASSUME NEW s \in Slots
               PROVE  /\ left[s].st # "free" => left[s].ts # {}
                      /\ left[s].ran <= Budget(left[s].kind)
    OBVIOUS
  <2>1. /\ task[s].st # "free" => task[s].ts # {}
        /\ task[s].ran <= Budget(task[s].kind)
    BY DEF MarketInv, WaitInv
  <2>2. 0 <= Budget(task[s].kind)
    BY <1>2, Budgets DEF TaskState
  <2> QED
    BY <1>3, <2>1, <2>2
<1>6. call' \in [Callers -> CallState] /\ \A c \in Callers : call'[c].on = 0
  BY <1>1 DEF MarketInv, WaitInv, Waiting
<1> HIDE DEF left
<1>7. WaitInv'
  <2>1. inflight' \subseteq Slots
    BY <1>1 DEF MarketInv, WaitInv
  <2> QED
    BY <1>1, <1>4, <1>5, <1>6, <2>1, Sweeping DEF MarketInv
<1> QED
  BY <1>1, <1>7 DEF MarketInv, CacheInv, RowsOK

\* Time: who waits waits on a task that goes on and is not due yet.
LEMMA TickKeeps ==
  ASSUME MarketInv, FlightInv', Tick
  PROVE  MarketInv'
<1> DEFINE aged(s) == [task[s] EXCEPT !.ran = Older(@, Budget(task[s].kind))]
           clock(c) == IF call[c].kind \in {"indices", "candles"} THEN Older(call[c].clock, Long)
                       ELSE call[c].clock
           got(c) == [t \in DOMAIN call[c].got |-> OlderDatum(call[c].got[t])]
<1>1. /\ Quiet /\ UNCHANGED <<inflight, phase>> /\ history' = {}
      /\ cache' = [n \in DOMAIN cache |-> [i \in DOMAIN cache[n] |-> AgedEntry(n, cache[n][i])]]
      /\ task' = [s \in Slots |-> IF task[s].st \in {"queued", "running"} THEN aged(s) ELSE task[s]]
      /\ call' = [c \in Callers |->
           IF ~Waiting(c) THEN call[c] ELSE [call[c] EXCEPT !.clock = clock(c), !.got = got(c)]]
  BY DEF Tick
<1>2. CacheInv'
  BY <1>1, AgeingFits DEF MarketInv
<1>q. \A s \in Slots : task[s].st \notin {"new", "ended"} /\ ~Due(s)
  BY <1>1 DEF Quiet
<1>3. /\ task \in [Slots -> TaskState] /\ \A s \in Slots : task[s] \in TaskState
      /\ call \in [Callers -> CallState] /\ inflight \subseteq Slots
      /\ \A s \in Slots : /\ task[s].st # "free" => task[s].ts # {}
                          /\ task[s].ran <= Budget(task[s].kind)
      /\ \A c \in Callers : IF Waiting(c) THEN WaitOK(c) ELSE call[c] = Idle
  BY DEF MarketInv, FlightInv, WaitInv
<1>4. ASSUME NEW s \in Slots
      PROVE  /\ task'[s].st = task[s].st /\ task'[s].kind = task[s].kind
             /\ task'[s].ts = task[s].ts /\ task'[s].res = task[s].res
             /\ task'[s].ran <= Budget(task[s].kind)
             /\ Live(s) => task[s].st \in {"queued", "running"} /\ task'[s].ran = task[s].ran + 1
  <2>1. task[s].ran \in Nat /\ Budget(task[s].kind) \in Nat /\ task[s].ran <= Budget(task[s].kind)
    BY <1>3, Budgets DEF TaskState
  <2>2. PICK n \in Nat : /\ n = Older(task[s].ran, Budget(task[s].kind))
                         /\ n <= Budget(task[s].kind)
                         /\ task[s].ran < Budget(task[s].kind) => n = task[s].ran + 1
    BY <2>1 DEF Older
  <2>3. aged(s) = [task[s] EXCEPT !.ran = n]
    BY <2>2
  <2> HIDE DEF aged
  <2>4. /\ aged(s).st = task[s].st /\ aged(s).kind = task[s].kind /\ aged(s).ts = task[s].ts
        /\ aged(s).res = task[s].res /\ aged(s).ran = n
    BY <1>3, <2>3 DEF TaskState
  <2>5. task'[s] = IF task[s].st \in {"queued", "running"} THEN aged(s) ELSE task[s]
    BY <1>1
  <2>6. CASE task[s].st \in {"queued", "running"}
    <3>1. task[s].ran < Budget(task[s].kind)
      BY <1>q, <2>1, <2>6 DEF Due
    <3> QED
      BY <2>2, <2>4, <2>5, <2>6, <3>1
  <2>7. CASE task[s].st \notin {"queued", "running"}
    BY <1>q, <2>1, <2>5, <2>7 DEF Live
  <2> QED
    BY <2>6, <2>7
<1> HIDE DEF aged
<1>5. ASSUME NEW d \in Data
      PROVE  /\ OlderDatum(d) \in Data /\ OlderDatum(d).since <= d.since + 1
             /\ Lifetime(OlderDatum(d)) = Lifetime(d)
  <2>1. PICK n \in Nat : n = Older(d.since, MaxAge) /\ n <= d.since + 1
    BY DEF Data, Older
  <2>2. OlderDatum(d) = [d EXCEPT !.since = n]
    BY <2>1 DEF OlderDatum
  <2> QED
    BY <2>1, <2>2 DEF Data, Lifetime
<1>6. ASSUME NEW c \in Callers, Waiting(c)
      PROVE  /\ call[c] \in CallState /\ call[c].on \in Slots /\ WaitOK(c)
             /\ Live(call[c].on) /\ task[call[c].on].ran \in Nat
             /\ task'[call[c].on].ran = task[call[c].on].ran + 1
  <2>1. call[c] \in CallState /\ call[c].on \in Slots /\ WaitOK(c)
    BY <1>3, <1>6 DEF Waiting, CallState
  <2>2. task[call[c].on] \in TaskState /\ task[call[c].on].st # "free"
    BY <1>3, <2>1 DEF WaitOK
  <2>3. task[call[c].on].st \notin {"new", "ended", "over"}
    BY <1>1, <1>6, <2>1 DEF Quiet
  <2>4. Live(call[c].on) /\ task[call[c].on].ran \in Nat
    BY <2>2, <2>3 DEF TaskState, Live
  <2> QED
    BY <1>4, <2>1, <2>4
<1>7. ASSUME NEW c \in Callers, Waiting(c)
      PROVE  /\ got(c) \in Answers /\ DOMAIN got(c) = DOMAIN call[c].got
             /\ clock(c) \in Nat /\ clock(c) <= call[c].clock + 1
             /\ call[c].clock \in Nat /\ call[c].clock <= clock(c)
             /\ call[c].kind = "indices" => clock(c) = call[c].clock + 1
             /\ \A t \in DOMAIN call[c].got : call[c].got[t] \in Data
  <2>1. PICK S \in SUBSET Tickers : call[c].got \in [S -> Data]
    BY <1>6, <1>7 DEF CallState, Answers
  <2>2. got(c) \in [S -> Data] /\ DOMAIN call[c].got = S /\ DOMAIN got(c) = S
    BY <1>5, <2>1
  <2>3. call[c].clock \in Nat /\ call[c].clock < Long
    <3>1. call[c].clock \in Nat /\ call[c].kind \in Kinds
      BY <1>6, <1>7 DEF CallState
    <3>2. call[c].clock <= task[call[c].on].ran
      BY <1>6, <1>7 DEF WaitOK, Elapsed
    <3>3. task[call[c].on].kind = TaskKind(call[c].kind)
      BY <1>6, <1>7 DEF WaitOK
    <3>4. /\ Budget(task[call[c].on].kind) \in Nat /\ Budget(task[call[c].on].kind) <= Long
      BY <3>1, <3>3, Budgets
    <3>5. task'[call[c].on].ran <= Budget(task[call[c].on].kind)
      BY <1>4, <1>6, <1>7
    <3>6. task'[call[c].on].ran = task[call[c].on].ran + 1 /\ task[call[c].on].ran \in Nat
      BY <1>6, <1>7
    <3>7. Long \in Nat
      BY MarketAssumption
    <3> QED
      BY <3>1, <3>2, <3>4, <3>5, <3>6, <3>7
  <2>4. Long \in Nat
    BY MarketAssumption
  <2> HIDE DEF got
  <2> QED
    BY <2>1, <2>2, <2>3, <2>4 DEF Answers, Older
<1>8. ASSUME NEW c \in Callers, Waiting(c)
      PROVE  /\ call'[c] \in CallState /\ call'[c].on = call[c].on
             /\ call'[c].kind = call[c].kind
             /\ call'[c].clock = clock(c) /\ call'[c].got = got(c)
  <2>1. call'[c] = [call[c] EXCEPT !.clock = clock(c), !.got = got(c)]
    BY <1>1, <1>8
  <2>2. got(c) \in Answers /\ clock(c) \in Nat /\ call[c] \in CallState
    BY <1>6, <1>7, <1>8
  <2> HIDE DEF got, clock
  <2> QED
    BY <2>1, <2>2 DEF CallState
<1>9. ASSUME NEW c \in Callers, ~Waiting(c) PROVE call'[c] = call[c] /\ call[c] \in CallState
  BY <1>1, <1>3, <1>9
<1>10. ASSUME NEW c \in Callers, Waiting(c) PROVE WaitOK(c)'
  <2> DEFINE s == call[c].on
             e == task[s].ran
  <2>1. s \in Slots /\ Live(s) /\ e \in Nat /\ task'[s].ran = e + 1 /\ WaitOK(c)
    BY <1>6, <1>10
  <2>2. Elapsed(s) = e /\ Elapsed(call[c].on)' = e + 1
    BY <1>4, <1>8, <1>10, <2>1 DEF Elapsed, Live
  <2>3. /\ task'[s].st # "free" /\ task'[s].kind = TaskKind(call[c].kind)
        /\ ~Unanswered(call[c].on)'
    BY <1>4, <1>8, <1>10, <2>1 DEF WaitOK, Live, Unanswered
  <2>4. clock(c) <= e + 1
    <3>1. call[c].clock <= e
      BY <2>1, <2>2 DEF WaitOK
    <3>2. clock(c) \in Nat /\ call[c].clock \in Nat /\ clock(c) <= call[c].clock + 1
      BY <1>7, <1>10
    <3> HIDE DEF clock, e
    <3> QED
      BY <2>1, <3>1, <3>2
  <2>5. ASSUME NEW t \in DOMAIN call[c].got
        PROVE  /\ got(c)[t].since < Lifetime(got(c)[t]) + (e + 1)
               /\ call[c].kind = "indices" => got(c)[t].since < FreshTTL + clock(c)
    <3>1. call[c].got[t] \in Data /\ got(c)[t] = OlderDatum(call[c].got[t])
      BY <1>7, <1>10
    <3>2. /\ got(c)[t].since \in Nat /\ call[c].got[t].since \in Nat
          /\ got(c)[t].since <= call[c].got[t].since + 1
          /\ Lifetime(got(c)[t]) = Lifetime(call[c].got[t])
      <4> HIDE DEF got
      <4> QED
        BY <1>5, <3>1 DEF Data
    <3>3. call[c].got[t].since < Lifetime(call[c].got[t]) + e
      BY <2>1, <2>2 DEF WaitOK
    <3>4. call[c].kind = "indices" =>
            /\ call[c].got[t].since < FreshTTL + call[c].clock /\ clock(c) = call[c].clock + 1
      BY <1>7, <1>10, <2>1 DEF WaitOK
    <3>5. Lifetime(call[c].got[t]) \in Nat /\ FreshTTL \in Nat /\ call[c].clock \in Nat
      BY <1>7, <1>10, MarketAssumption DEF Lifetime
    <3> HIDE DEF got, clock, e
    <3> QED
      BY <2>1, <3>2, <3>3, <3>4, <3>5
  <2>6. DOMAIN got(c) = DOMAIN call[c].got
    BY <1>7, <1>10
  <2> HIDE DEF got, clock, e
  <2> QED
    BY <1>8, <1>10, <2>2, <2>3, <2>4, <2>5, <2>6 DEF WaitOK, Lifetime
<1> HIDE DEF got, clock
<1>11. WaitInv'
  <2>1. call' \in [Callers -> CallState]
    BY <1>1, <1>8, <1>9
  <2>2. \A c \in Callers : call'[c].on = call[c].on
    BY <1>8, <1>9
  <2>3. \A c \in Callers : IF call'[c].on # 0 THEN WaitOK(c)' ELSE call'[c] = Idle
    BY <1>3, <1>9, <1>10, <2>2 DEF Waiting
  <2>4. \A r \in Slots : /\ task'[r].st # "free" => task'[r].ts # {}
                         /\ task'[r].ran <= Budget(task'[r].kind)
    BY <1>3, <1>4
  <2>5. \A c, d \in Callers :
          call'[c].on # 0 /\ call'[c].on = call'[d].on /\ ~Shared(task'[call'[c].on].kind) => c = d
    <3> SUFFICES ASSUME NEW c \in Callers, NEW d \in Callers, call[c].on # 0,
                        call[c].on = call[d].on, ~Shared(task'[call[c].on].kind)
                 PROVE  c = d
      BY <2>2
    <3>1. call[c].on \in Slots
      BY <1>6 DEF Waiting
    <3>2. task'[call[c].on].kind = task[call[c].on].kind
      BY <1>4, <3>1
    <3> QED
      BY <3>2 DEF MarketInv, WaitInv, Waiting
  <2>6. inflight' \subseteq Slots
    BY <1>1, <1>3
  <2> QED
    BY <2>1, <2>3, <2>4, <2>5, <2>6 DEF WaitInv, Waiting, Shared
<1>12. RowsOK'
  BY DEF Tick, RowsOK
<1> QED
  BY <1>1, <1>2, <1>11, <1>12 DEF MarketInv

\* Nothing but the threads, the pool and the flags changes.
LEMMA SameKeeps ==
  ASSUME MarketInv, FlightInv', UNCHANGED <<call, task, inflight, cache, history>>,
         phase = "closed" => phase' = "closed"
  PROVE  MarketInv'
<1>1. WaitInv'
  BY DEF MarketInv, WaitInv, WaitOK, Waiting, Elapsed, Live, Unanswered
<1> QED
  BY <1>1 DEF MarketInv, CacheInv, RowsOK

LEMMA MarketInvStep == MarketInv /\ [MarketNext]_mdVars => MarketInv'
<1> SUFFICES ASSUME MarketInv, [MarketNext]_mdVars PROVE MarketInv'
  OBVIOUS
<1>0. FlightInv'
  BY FlightInvStep DEF MarketInv
<1>1. CASE UNCHANGED mdVars
  BY <1>0, <1>1, SameKeeps DEF mdVars
<1>2. ASSUME NEW c \in Callers, NEW t \in Tickers, NEW ts \in SUBSET Tickers,
             \/ FetchCurrentPrice(c, t) \/ FetchBatchPrices(c, ts) \/ FetchMarketIndices(c)
             \/ FetchAllPrices(c) \/ FetchStockDeepDive(c, t) \/ FetchStockCandles(c, t)
             \/ ResolveStockInfo(c, t) \/ SearchTicker(c, t) \/ CalculatePortfolioHistory(c, t)
      PROVE  MarketInv'
  <2>1. ASSUME NEW kind \in {"price", "deep", "candles", "resolve", "search", "history"},
               Call(c, kind, {t})
        PROVE  MarketInv'
    <3>1. /\ {t} \in SUBSET Tickers /\ kind \in Kinds /\ kind # "indices"
          /\ \A u, v \in {t} : u = v
      BY DEF Kinds, OwnKinds
    <3> QED
      BY <1>0, <2>1, <3>1, CallKeeps
  <2>2. ASSUME NEW kind \in BatchKinds, NEW us \in SUBSET Tickers, Call(c, kind, us),
               kind = "indices" => us = Tickers
        PROVE  MarketInv'
    <3>1. kind \in Kinds /\ Tickers # {}
      BY DEF Kinds
    <3> QED
      BY <1>0, <2>2, <3>1, CallKeeps
  <2>3. Tickers \in SUBSET Tickers /\ {"batch", "indices", "refresh"} \subseteq BatchKinds
    BY DEF BatchKinds
  <2> QED
    BY <1>2, <2>1, <2>2, <2>3
    DEF FetchCurrentPrice, FetchBatchPrices, FetchMarketIndices, FetchAllPrices,
        FetchStockDeepDive, FetchStockCandles, ResolveStockInfo, SearchTicker,
        CalculatePortfolioHistory
<1>3. ASSUME NEW c \in Callers, Cancel(c) PROVE MarketInv'
  <2>1. {c} \in SUBSET Callers /\ \A d \in {c} : Waiting(d)
    BY <1>3 DEF Cancel
  <2> QED
    BY <1>0, <1>3, <2>1, AbandonKeeps DEF Cancel
<1>4. CASE StopScheduler
  <2>1. {c \in Callers : Waiting(c)} \in SUBSET Callers
    OBVIOUS
  <2> QED
    BY <1>0, <1>4, <2>1, AbandonKeeps DEF StopScheduler
<1>5. CASE RequestShutdown \/ ZombieEnds
  BY <1>0, <1>5, SameKeeps DEF RequestShutdown, ZombieEnds
<1>6. ASSUME NEW s \in Slots, Start(s) \/ Run(s) \/ Timeout(s) \/ Cleanup(s) PROVE MarketInv'
  BY <1>0, <1>6, StartKeeps, RunKeeps, TimeoutKeeps, CleanupKeeps
<1>7. ASSUME NEW s \in Slots, NEW res \in Outcomes(s), Finish(s, res) PROVE MarketInv'
  BY <1>0, <1>7, FinishKeeps
<1>8. ASSUME NEW c \in Callers, Resume(c) PROVE MarketInv'
  BY <1>0, <1>8, ResumeKeeps
<1>9. CASE CloseExecutor \/ Tick
  BY <1>0, <1>9, CloseKeeps, TickKeeps
<1> QED
  BY <1>1, <1>2, <1>3, <1>4, <1>5, <1>6, <1>7, <1>8, <1>9 DEF MarketNext, AnyCall, Loop

(* A caller that is cancelled, alone or with the whole scheduler, leaves    *)
(* the others the fetch they wait for: the shield of                        *)
(* _get_or_create_inflight, and a call of one's own has no other waiter.    *)
THEOREM SharedFetchSurvives == MarketSpec => []OthersKeepTheirFetch
<1>1. MarketInv => OthersKeepTheirFetch
  BY DEF MarketInv, WaitInv, WaitOK, OthersKeepTheirFetch, Unanswered
<1> QED
  BY MarketInvInit, MarketInvStep, <1>1, PTL DEF MarketSpec

\* What is in hand of a call that waits: no older than the lifetime of the
\* cache it is from, which is its own lifetime, and the budget of the call.
LEMMA InHand ==
  ASSUME MarketInv, NEW c \in Callers, NEW t \in DOMAIN call[c].got
  PROVE  /\ call[c].got[t].real \in BOOLEAN /\ call[c].got[t].since \in Nat
         /\ Budget(call[c].kind) \in Nat
         /\ call[c].got[t].since < Lifetime(call[c].got[t]) + Budget(call[c].kind)
<1>1. Waiting(c)
  BY Idles DEF MarketInv, WaitInv
<1>2. /\ call[c] \in CallState /\ call[c].on \in Slots /\ WaitOK(c)
      /\ task[call[c].on] \in TaskState
      /\ task[call[c].on].ran <= Budget(task[call[c].on].kind)
  BY <1>1 DEF MarketInv, WaitInv, FlightInv, Waiting, CallState
<1>3. /\ Budget(task[call[c].on].kind) = Budget(call[c].kind)
      /\ Budget(call[c].kind) \in Nat
  BY <1>2, Budgets DEF WaitOK, CallState
<1>4. Elapsed(call[c].on) \in Nat /\ Elapsed(call[c].on) <= Budget(call[c].kind)
  BY <1>2, <1>3 DEF Elapsed, TaskState
<1>5. /\ call[c].got[t].real \in BOOLEAN /\ call[c].got[t].since \in Nat
      /\ call[c].got[t].since < Lifetime(call[c].got[t]) + Elapsed(call[c].on)
  BY <1>2 DEF WaitOK, CallState, Answers, Data
<1>6. Lifetime(call[c].got[t]) \in Nat
  BY MarketAssumption DEF Lifetime
<1> QED
  BY <1>3, <1>4, <1>5, <1>6

(* However answers, timeouts and late waiters fall, what was made up when   *)
(* Yahoo did not answer is out of every cache 10 s (_FALLBACK_TTL) after it *)
(* was made up, out of the indices cached over prices that may be made up   *)
(* too, and never a row of price_history.                                   *)
THEOREM SyntheticExpires == MarketSpec => []SyntheticIsShortLived
<1>1. MarketInv => SyntheticIsShortLived
  <2> SUFFICES ASSUME MarketInv PROVE SyntheticIsShortLived
    OBVIOUS
  <2>1. ASSUME NEW kind \in Kinds, NEW t \in Tickers, NEW e \in Known(kind, t)
        PROVE  e.real \/ e.since < FallbackTTL
    BY KnownRecent DEF MarketInv
  <2>2. ASSUME NEW e \in Hit("indices", "indices", FreshTTL) PROVE e.real
    BY Hits, Expiries, MarketAssumption DEF MarketInv, CacheNames
  <2>3. ASSUME NEW c \in Callers, NEW t \in DOMAIN call[c].got
        PROVE  call[c].got[t].real
                 \/ call[c].got[t].since < FallbackTTL + Budget(call[c].kind)
    BY InHand DEF Lifetime
  <2>4. \A row \in history : row.real
    BY DEF MarketInv, RowsOK
  <2> QED
    BY <2>1, <2>2, <2>3, <2>4 DEF SyntheticIsShortLived
<1> QED
  BY MarketInvInit, MarketInvStep, <1>1, PTL DEF MarketSpec

(* No cache serves, and no call has in hand, a price older than its cache's *)
(* lifetime and the wait of that call; the indices, that cache cached       *)
(* prices, are younger than two lifetimes (CACHE_TTL), and a row of         *)
(* price_history is dated no later than a lifetime and a wait after its     *)
(* price.                                                                   *)
THEOREM AnswersStayRecent == MarketSpec => []AnswersRecent
<1>1. MarketInv => AnswersRecent
  <2> SUFFICES ASSUME MarketInv PROVE AnswersRecent
    OBVIOUS
  <2>0. /\ FallbackTTL \in Nat /\ FreshTTL \in Nat /\ SlowTTL \in Nat
        /\ FallbackTTL <= FreshTTL /\ FreshTTL <= SlowTTL
    BY MarketAssumption
  <2>1. ASSUME NEW kind \in Kinds, NEW t \in Tickers, NEW e \in Known(kind, t)
        PROVE  e.since < IF kind \in {"deep", "candles"} THEN SlowTTL ELSE FreshTTL
    <3>1. /\ e.real \in BOOLEAN /\ e.since \in Nat
          /\ e.since < IF ~e.real THEN FallbackTTL
                       ELSE IF kind \in {"deep", "candles"} THEN SlowTTL ELSE FreshTTL
      BY KnownRecent DEF MarketInv
    <3> QED
      BY <2>0, <3>1
  <2>2. ASSUME NEW e \in Hit("indices", "indices", FreshTTL) PROVE e.since < 2 * FreshTTL
    <3>1. /\ e.age \in Nat /\ e.since \in Nat /\ e.age < FreshTTL
          /\ e.since < FreshTTL + e.age
      BY <2>0, Hits, Expiries DEF MarketInv, CacheNames
    <3> QED
      BY <2>0, <3>1
  <2>3. ASSUME NEW c \in Callers, NEW t \in DOMAIN call[c].got
        PROVE  call[c].got[t].since < FreshTTL + Budget(call[c].kind)
    <3>1. /\ call[c].got[t].since \in Nat /\ Budget(call[c].kind) \in Nat
          /\ call[c].got[t].since < Lifetime(call[c].got[t]) + Budget(call[c].kind)
      BY InHand
    <3>2. Lifetime(call[c].got[t]) \in Nat /\ Lifetime(call[c].got[t]) <= FreshTTL
      BY <2>0 DEF Lifetime
    <3> QED
      BY <2>0, <3>1, <3>2
  <2>4. ASSUME NEW row \in history PROVE row.since < FreshTTL + Budget("refresh")
    BY DEF MarketInv, RowsOK, Budget
  <2> QED
    BY <2>1, <2>2, <2>3, <2>4 DEF AnswersRecent
<1> QED
  BY MarketInvInit, MarketInvStep, <1>1, PTL DEF MarketSpec

-----------------------------------------------------------------------------
(* The threads: those that work for a task and those nobody waits for any  *)
(* more are no more than the pool has.                                     *)

Running == {s \in Slots : task[s].st = "running"}
ThreadInv ==
  /\ IsFiniteSet(Running) /\ zombies \in Nat /\ Cardinality(Running) + zombies <= Workers
  /\ pool \in BOOLEAN /\ scheduling \in BOOLEAN /\ phase \in {"up", "flagged", "closed"}

\* Threads are left behind by tasks that ran, and end.
LEMMA ThreadsLeft ==
  ASSUME IsFiniteSet(Running), zombies \in Nat, Cardinality(Running) + zombies <= Workers,
         NEW gone \in SUBSET Running, Running' = Running \ gone,
         zombies' \in Nat, zombies' <= zombies + Cardinality(gone)
  PROVE  IsFiniteSet(Running)' /\ Cardinality(Running)' + zombies' <= Workers
<1>1. /\ IsFiniteSet(gone) /\ IsFiniteSet(Running \ gone)
      /\ Cardinality(Running \ gone) = Cardinality(Running) - Cardinality(Running \cap gone)
      /\ Running \cap gone = gone
  BY FS_Subset, FS_Difference
<1>2. Cardinality(Running) \in Nat /\ Cardinality(gone) \in Nat /\ Workers \in Nat
  BY <1>1, FS_CardinalityType, MarketAssumption
<1>3. Cardinality(Running') = Cardinality(Running) - Cardinality(gone)
  BY <1>1
<1>4. PICK n \in Nat : n = Cardinality(Running')
  BY <1>1, FS_CardinalityType
<1> QED
  BY <1>1, <1>2, <1>3, <1>4

LEMMA SameThreads ==
  ASSUME ThreadInv, Running' = Running, zombies' = zombies,
         UNCHANGED <<pool, scheduling, phase>>
  PROVE  ThreadInv'
  BY DEF ThreadInv

\* Those who leave take the calls of their own with them, not their threads.
LEMMA AbandonedThreads ==
  ASSUME FlightInv, WaitInv, ThreadInv, NEW cs \in SUBSET Callers, Abandoned(cs),
         \A c \in cs : Waiting(c)
  PROVE  IsFiniteSet(Running)' /\ zombies' \in Nat /\ Cardinality(Running)' + zombies' <= Workers
<1> DEFINE own == {call[c].on : c \in cs} \ {s \in Slots : Shielded(s)}
           st(s) == IF Shared(task[s].kind) THEN "ended" ELSE "over"
           none == <<>>
           gone(s) == [task[s] EXCEPT !.st = st(s), !.res = none, !.ran = 0]
           left == [s \in Slots |-> IF s \in own /\ Live(s) THEN gone(s) ELSE task[s]]
           ran == {s \in own : task[s].st = "running"}
<1>1. task' = Swept(left, call') /\ zombies' = zombies + Cardinality(ran)
  BY DEF Abandoned
<1>2. own \subseteq Slots
  BY DEF WaitInv, CallState, Waiting
<1>3. ran \in SUBSET Running /\ Running \ ran = {s \in Slots : task[s].st = "running" /\ s \notin own}
  BY <1>2 DEF Running
<1>4. \A s \in Slots : gone(s).st # "running"
  <2> SUFFICES ASSUME NEW s \in Slots PROVE gone(s).st # "running"
    OBVIOUS
  <2>1. task[s] \in TaskState /\ st(s) \in {"ended", "over"}
    BY DEF FlightInv
  <2> HIDE DEF st, none, own, left, ran
  <2>2. gone(s).st = st(s)
    BY <2>1 DEF TaskState
  <2> HIDE DEF gone
  <2> QED
    BY <2>1, <2>2
<1> HIDE DEF gone
<1>5. \A s \in Slots : left[s].st = "running" <=> (task[s].st = "running" /\ s \notin own)
  BY <1>4 DEF Live
<1> HIDE DEF own, left
<1>6. Running' = Running \ ran
  BY <1>1, <1>3, <1>5, FreeType DEF Swept, Running
<1>7. IsFiniteSet(ran) /\ Cardinality(ran) \in Nat /\ zombies' \in Nat
      /\ zombies' <= zombies + Cardinality(ran)
  <2>1. Cardinality(ran) \in Nat /\ IsFiniteSet(ran)
    BY <1>3, FS_Subset, FS_CardinalityType DEF ThreadInv
  <2> QED
    BY <1>1, <2>1 DEF ThreadInv
<1> HIDE DEF ran
<1> QED
  BY <1>3, <1>6, <1>7, ThreadsLeft DEF ThreadInv

\* A call makes no thread run: it queues its work.
LEMMA CallThreads ==
  ASSUME FlightInv, ThreadInv, NEW c \in Callers, NEW kind \in Kinds, NEW ts, Call(c, kind, ts)
  PROVE  ThreadInv'
<1>1. UNCHANGED <<zombies, phase, scheduling>>
  BY DEF Call
<1>2. Running' = Running /\ pool' \in BOOLEAN
  <2>1. CASE UNCHANGED <<task, pool>>
    BY <2>1 DEF Running, ThreadInv
  <2>2. ASSUME NEW missing, NEW got, Wait(c, kind, missing, got)
        PROVE  Running' = Running /\ pool' \in BOOLEAN
    <3> DEFINE new(st) == [st |-> st, kind |-> TaskKind(kind), ts |-> missing, ran |-> 0,
                           res |-> IF st = "over" THEN [t \in missing |-> FALSE] ELSE <<>>]
    <3>1. \/ task' = task
          \/ \E s \in Slots, st \in {"new", "queued", "over"} :
               task[s].st = "free" /\ task' = [task EXCEPT ![s] = new(st)]
      <4> DEFINE same == {s \in inflight : task[s].kind = TaskKind(kind) /\ task[s].ts = missing}
                 live == {s \in same : Live(s)}
                 k(s) == [on |-> s, kind |-> kind, got |-> got, clock |-> 0]
      <4>1. \/ /\ \E s \in live : call' = [call EXCEPT ![c] = k(s)]
               /\ UNCHANGED <<task, inflight>>
            \/ \E s \in NewSlots : /\ call' = [call EXCEPT ![c] = k(s)]
                                  /\ task' = [task EXCEPT ![s] = new("new")]
                                  /\ inflight' = (inflight \ same) \cup {s}
            \/ /\ \E s \in NewSlots :
                    /\ call' = [call EXCEPT ![c] = k(s)]
                    /\ task' = [task EXCEPT ![s] = new(IF Accepts THEN "queued" ELSE "over")]
               /\ inflight' = inflight
        BY <2>2 DEF Wait
      <4>2. \A s \in NewSlots : s \in Slots /\ task[s].st = "free"
        BY DEF NewSlots
      <4> HIDE DEF new, same, live, k
      <4> QED
        BY <4>1, <4>2
    <3>2. \A st : new(st).st = st
      OBVIOUS
    <3> HIDE DEF new
    <3>4. pool' \in BOOLEAN
      BY <2>2 DEF Wait, ThreadInv, Accepts
    <3>5. ASSUME NEW s \in Slots, NEW st \in {"new", "queued", "over"}, task[s].st = "free",
                 task' = [task EXCEPT ![s] = new(st)]
          PROVE  Running' = Running
      BY <3>2, <3>5 DEF Running, FlightInv
    <3>6. task' = task => Running' = Running
      BY DEF Running
    <3> QED
      BY <3>1, <3>4, <3>5, <3>6
  <2> QED
    BY <2>1, <2>2 DEF Call
<1> QED
  BY <1>1, <1>2 DEF ThreadInv

\* A task that ends frees its thread, or leaves it behind.
LEMMA OverThreads ==
  ASSUME FlightInv, ThreadInv, NEW s \in Slots, NEW res, task' = Over(s, res),
         UNCHANGED <<scheduling, phase>>, pool' \in BOOLEAN,
         zombies' = zombies \/ zombies' = zombies + (IF task[s].st = "running" THEN 1 ELSE 0)
  PROVE  ThreadInv'
<1>1. PICK st \in {"ended", "over"} :
        task' = [task EXCEPT ![s].st = st, ![s].res = res, ![s].ran = 0]
  BY DEF Over
<1>2. task \in [Slots -> TaskState] /\ task[s] \in TaskState
  BY DEF FlightInv
<1>3. task'[s].st = st /\ \A r \in Slots \ {s} : task'[r] = task[r]
  BY <1>1, <1>2 DEF TaskState
<1>4. Running' = Running \ {s}
  BY <1>3 DEF Running
<1>5. IsFiniteSet(Running) /\ zombies \in Nat /\ Cardinality(Running) + zombies <= Workers
  BY DEF ThreadInv
<1>6. CASE task[s].st = "running"
  <2>1. {s} \in SUBSET Running /\ Cardinality({s}) = 1
    BY <1>6, FS_Singleton DEF Running
  <2>2. zombies' \in Nat /\ zombies' <= zombies + Cardinality({s})
    BY <1>5, <1>6, <2>1
  <2> QED
    BY <1>4, <1>5, <2>1, <2>2, ThreadsLeft DEF ThreadInv
<1>7. CASE task[s].st # "running"
  <2>1. Running' = Running /\ zombies' = zombies
    BY <1>4, <1>5, <1>7 DEF Running
  <2> QED
    BY <2>1 DEF ThreadInv
<1> QED
  BY <1>6, <1>7

LEMMA ThreadInvStep == MarketInv /\ ThreadInv /\ [MarketNext]_mdVars => ThreadInv'
<1> SUFFICES ASSUME MarketInv, ThreadInv, [MarketNext]_mdVars PROVE ThreadInv'
  OBVIOUS
<1>0. FlightInv /\ WaitInv /\ \A s \in Slots : task[s] \in TaskState
  BY DEF MarketInv, FlightInv
<1>1. CASE UNCHANGED mdVars
  BY <1>1, SameThreads DEF mdVars, Running
<1>2. ASSUME NEW c \in Callers, NEW t \in Tickers, NEW ts \in SUBSET Tickers,
             \/ FetchCurrentPrice(c, t) \/ FetchBatchPrices(c, ts) \/ FetchMarketIndices(c)
             \/ FetchAllPrices(c) \/ FetchStockDeepDive(c, t) \/ FetchStockCandles(c, t)
             \/ ResolveStockInfo(c, t) \/ SearchTicker(c, t) \/ CalculatePortfolioHistory(c, t)
      PROVE  ThreadInv'
  <2>1. {"price", "batch", "indices", "refresh", "deep", "candles", "resolve", "search",
         "history"} \subseteq Kinds
    BY DEF Kinds, BatchKinds, OwnKinds
  <2> QED
    BY <1>0, <1>2, <2>1, CallThreads
    DEF FetchCurrentPrice, FetchBatchPrices, FetchMarketIndices, FetchAllPrices,
        FetchStockDeepDive, FetchStockCandles, ResolveStockInfo, SearchTicker,
        CalculatePortfolioHistory
<1>3. ASSUME NEW cs \in SUBSET Callers, Abandoned(cs), \A c \in cs : Waiting(c),
             UNCHANGED <<pool, phase>>, scheduling' \in BOOLEAN
      PROVE  ThreadInv'
  BY <1>0, <1>3, AbandonedThreads DEF ThreadInv
<1>4. ASSUME NEW c \in Callers, Cancel(c) PROVE ThreadInv'
  <2>1. /\ {c} \in SUBSET Callers /\ Abandoned({c}) /\ \A d \in {c} : Waiting(d)
        /\ UNCHANGED <<pool, phase, scheduling>>
    BY <1>4 DEF Cancel
  <2>2. scheduling' \in BOOLEAN
    BY <2>1 DEF ThreadInv
  <2> QED
    BY <1>3, <2>1, <2>2
<1>5. CASE StopScheduler
  <2> DEFINE cs == {c \in Callers : Waiting(c)}
  <2>1. /\ cs \in SUBSET Callers /\ Abandoned(cs) /\ \A c \in cs : Waiting(c)
        /\ UNCHANGED <<pool, phase>> /\ scheduling' \in BOOLEAN
    BY <1>5 DEF StopScheduler
  <2> HIDE DEF cs
  <2> QED
    BY <1>3, <2>1
<1>6. CASE RequestShutdown
  BY <1>6 DEF RequestShutdown, ThreadInv, Running
<1>7. CASE ZombieEnds
  <2>1. zombies \in Nat /\ zombies > 0 /\ zombies' = zombies - 1 /\ Running' = Running
        /\ UNCHANGED <<pool, phase, scheduling>>
    BY <1>7 DEF ZombieEnds, ThreadInv, Running
  <2>2. Cardinality(Running) \in Nat /\ Workers \in Nat
    BY FS_CardinalityType, MarketAssumption DEF ThreadInv
  <2>3. zombies' \in Nat /\ Cardinality(Running) + zombies' <= Workers
    BY <2>1, <2>2 DEF ThreadInv
  <2> QED
    BY <2>1, <2>3 DEF ThreadInv
<1>8. ASSUME NEW s \in Slots, Start(s) PROVE ThreadInv'
  <2>1. CASE Accepts
    <3>1. /\ task[s].st = "new" /\ task' = [task EXCEPT ![s].st = "queued"] /\ pool' = TRUE
          /\ UNCHANGED <<zombies, phase, scheduling>>
      BY <1>8, <2>1 DEF Start
    <3>2. Running' = Running
      BY <1>0, <3>1 DEF Running, FlightInv, TaskState
    <3> QED
      BY <3>1, <3>2 DEF ThreadInv
  <2>2. CASE ~Accepts
    <3>1. /\ task' = Over(s, Fallbacks(s)) /\ UNCHANGED <<zombies, phase, scheduling, pool>>
      BY <1>8, <2>2 DEF Start
    <3>2. pool' \in BOOLEAN
      BY <3>1 DEF ThreadInv
    <3> QED
      BY <1>0, <3>1, <3>2, OverThreads
  <2> QED
    BY <2>1, <2>2
<1>9. ASSUME NEW s \in Slots, Run(s) PROVE ThreadInv'
  <2>1. /\ task[s].st = "queued" /\ task' = [task EXCEPT ![s].st = "running"]
        /\ Cardinality(Running) + zombies < Workers
        /\ UNCHANGED <<pool, zombies, phase, scheduling>>
    BY <1>9 DEF Run, Running
  <2>2. Running' = Running \cup {s} /\ s \notin Running
    BY <1>0, <2>1 DEF Running, FlightInv, TaskState
  <2>3. IsFiniteSet(Running \cup {s}) /\ Cardinality(Running \cup {s}) = Cardinality(Running) + 1
    BY <2>2, FS_AddElement DEF ThreadInv
  <2>4. Cardinality(Running) \in Nat /\ Workers \in Nat /\ zombies \in Nat
    BY FS_CardinalityType, MarketAssumption DEF ThreadInv
  <2>5. Cardinality(Running \cup {s}) + zombies <= Workers
    BY <2>1, <2>3, <2>4
  <2> QED
    BY <2>1, <2>2, <2>3, <2>5 DEF ThreadInv
<1>10. ASSUME NEW s \in Slots, NEW res, Finish(s, res) PROVE ThreadInv'
  BY <1>0, <1>10, OverThreads DEF Finish, ThreadInv
<1>11. ASSUME NEW s \in Slots, Timeout(s) PROVE ThreadInv'
  BY <1>0, <1>11, OverThreads DEF Timeout, ThreadInv
<1>12. ASSUME NEW s \in Slots, Cleanup(s) PROVE ThreadInv'
  <2> DEFINE over == [task EXCEPT ![s].st = "over"]
  <2>1. /\ task[s].st = "ended" /\ task' = Swept(over, call)
        /\ UNCHANGED <<pool, zombies, phase, scheduling>>
    BY <1>12 DEF Cleanup
  <2>2. over[s].st = "over" /\ \A r \in Slots \ {s} : over[r] = task[r]
    BY <1>0 DEF FlightInv, TaskState
  <2> HIDE DEF over
  <2>3. Running' = Running
    BY <2>1, <2>2, FreeType DEF Running, Swept
  <2> QED
    BY <2>1, <2>3, SameThreads
<1>13. ASSUME NEW c \in Callers, Resume(c) PROVE ThreadInv'
  <2>1. task' = Swept(task, call') /\ UNCHANGED <<pool, zombies, phase, scheduling>>
    BY <1>13 DEF Resume
  <2>2. Running' = Running
    BY <2>1, FreeType DEF Running, Swept
  <2> QED
    BY <2>1, <2>2, SameThreads
<1>14. CASE CloseExecutor
  <2> DEFINE gone(s) == [task[s] EXCEPT !.st = "ended", !.ran = 0]
             left == [s \in Slots |-> IF task[s].st = "queued" THEN gone(s) ELSE task[s]]
  <2>1. /\ task' = Swept(left, call) /\ phase' = "closed" /\ pool' = FALSE
        /\ UNCHANGED <<zombies, scheduling>>
    BY <1>14 DEF CloseExecutor
  <2>2. \A s \in Slots : gone(s).st = "ended"
    BY <1>0 DEF TaskState
  <2> HIDE DEF gone
  <2>3. \A s \in Slots : left[s].st = "running" <=> task[s].st = "running"
    BY <2>2
  <2> HIDE DEF left
  <2>4. Running' = Running
    BY <2>1, <2>3, FreeType DEF Running, Swept
  <2> QED
    BY <2>1, <2>4 DEF ThreadInv
<1>15. CASE Tick
  <2> DEFINE aged(s) == [task[s] EXCEPT !.ran = Older(@, Budget(task[s].kind))]
  <2>1. /\ task' = [s \in Slots |-> IF task[s].st \in {"queued", "running"} THEN aged(s)
                                    ELSE task[s]]
        /\ UNCHANGED <<pool, zombies, phase, scheduling>>
    BY <1>15 DEF Tick
  <2>2. \A s \in Slots : aged(s).st = task[s].st
    BY <1>0 DEF TaskState
  <2> HIDE DEF aged
  <2>3. Running' = Running
    BY <2>1, <2>2 DEF Running
  <2> QED
    BY <2>1, <2>3, SameThreads
<1> QED
  BY <1>1, <1>2, <1>4, <1>5, <1>6, <1>7, <1>8, <1>9, <1>10, <1>11, <1>12, <1>13, <1>14, <1>15
  DEF MarketNext, AnyCall, Loop

(* The types, with the two bounds that are not by type: no more threads     *)
(* than the pool has, those nobody waits for any more among them            *)
(* (YF_EXECUTOR_MAX_WORKERS), and no cache over CACHE_MAX_ENTRIES.          *)
THEOREM MarketBounds == MarketSpec => []MarketTypeOK
<1>1. MarketInit => ThreadInv
  <2> SUFFICES ASSUME MarketInit PROVE ThreadInv
    OBVIOUS
  <2>1. Running = {}
    BY FreeType DEF MarketInit, Running
  <2>2. Workers \in Nat /\ zombies = 0
    BY MarketAssumption DEF MarketInit
  <2>3. IsFiniteSet(Running) /\ Cardinality(Running) = 0
    BY <2>1, FS_EmptySet
  <2>4. Cardinality(Running) + zombies <= Workers /\ zombies \in Nat
    BY <2>2, <2>3
  <2>5. pool \in BOOLEAN /\ scheduling \in BOOLEAN /\ phase \in {"up", "flagged", "closed"}
    BY DEF MarketInit
  <2> QED
    BY <2>3, <2>4, <2>5 DEF ThreadInv
<1>2. MarketInv /\ ThreadInv => MarketTypeOK
  <2> SUFFICES ASSUME MarketInv, ThreadInv PROVE MarketTypeOK
    OBVIOUS
  <2>1. ASSUME NEW s \in Slots
        PROVE  /\ task[s].st \in {"free", "new", "queued", "running", "ended", "over"}
               /\ task[s].ran \in 0..Budget(task[s].kind)
    <3>1. task[s] \in TaskState /\ task[s].ran <= Budget(task[s].kind)
      BY DEF MarketInv, FlightInv, WaitInv
    <3> QED
      BY <3>1, Budgets DEF TaskState
  <2>2. ASSUME NEW c \in Callers
        PROVE  /\ call[c].on \in Slots \union {0} /\ call[c].kind \in Kinds
               /\ call[c].clock \in 0..Long
    <3>1. call[c] \in CallState
      BY DEF MarketInv, WaitInv
    <3>2. CASE ~Waiting(c)
      <4>1. call[c].clock = 0 /\ Long \in Nat
        BY <3>2, Idles, MarketAssumption DEF MarketInv, WaitInv
      <4> QED
        BY <3>1, <4>1 DEF CallState
    <3>3. CASE Waiting(c)
      <4>1. call[c].on \in Slots /\ WaitOK(c)
        BY <3>1, <3>3 DEF MarketInv, WaitInv, Waiting, CallState
      <4>2. /\ task[call[c].on].ran \in 0..Budget(task[call[c].on].kind)
            /\ task[call[c].on].kind = TaskKind(call[c].kind)
            /\ call[c].clock <= Elapsed(call[c].on)
        BY <2>1, <4>1 DEF WaitOK
      <4>3. call[c].kind \in Kinds /\ call[c].clock \in Nat
        BY <3>1 DEF CallState
      <4>4. Budget(task[call[c].on].kind) \in Nat /\ Budget(task[call[c].on].kind) <= Long
        BY <4>2, <4>3, Budgets
      <4>5. Elapsed(call[c].on) \in Nat /\ Elapsed(call[c].on) <= Long /\ Long \in Nat
        BY <4>2, <4>4, MarketAssumption DEF Elapsed
      <4> QED
        BY <3>1, <4>2, <4>5 DEF CallState
    <3> QED
      BY <3>2, <3>3
  <2>3. \A n \in DOMAIN cache : Len(cache[n]) <= CacheMax
    BY DEF MarketInv, CacheInv, CacheOK, Shelf
  <2>4. zombies \in 0..Workers
    <3>1. Cardinality(Running) \in Nat /\ Workers \in Nat
      BY FS_CardinalityType, MarketAssumption DEF ThreadInv
    <3> QED
      BY <3>1 DEF ThreadInv
  <2>5. history \subseteq [real : BOOLEAN, since : Nat]
    BY DEF MarketInv, RowsOK, Data
  <2> QED
    BY <2>1, <2>2, <2>3, <2>4, <2>5 DEF MarketTypeOK, MarketInv, WaitInv, ThreadInv
<1> QED
  BY <1>1, <1>2, MarketInvInit, MarketInvStep, ThreadInvStep, PTL DEF MarketSpec
=============================================================================
