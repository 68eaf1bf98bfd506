------------------------------ MODULE MCMarket ------------------------------
(* MarketData on small instances: `menu` is what the callers of a behaviour *)
(* ask for, chosen at the start.                                            *)
EXTENDS MarketData

CONSTANTS Menus, t1, t2

VARIABLE menu

vars == <<mdVars, menu>>

(* "cancel" and "stop" allow cancellations and the shutdown. *)
PriceMenus ==
  {{"price", "batch"}, {"price", "stop"}, {"indices"}, {"refresh", "price"},
   {"deep", "cancel", "stop"}, {"candles", "resolve", "cancel", "stop"},
   {"search", "history"}}

Init == MarketInit /\ menu \in Menus

Ask ==
  \E c \in Callers :
    \/ "price" \in menu /\ FetchCurrentPrice(c, t1)
    \/ "batch" \in menu /\ FetchBatchPrices(c, {t1, t2})
    \/ "indices" \in menu /\ FetchMarketIndices(c)
    \/ "refresh" \in menu /\ FetchAllPrices(c)
    \/ "deep" \in menu /\ \E t \in Tickers : FetchStockDeepDive(c, t)
    \/ "candles" \in menu /\ FetchStockCandles(c, t1)
    \/ "resolve" \in menu /\ ResolveStockInfo(c, t2)
    \/ "search" \in menu /\ SearchTicker(c, t1)
    \/ "history" \in menu /\ CalculatePortfolioHistory(c, t1)
    \/ "cancel" \in menu /\ Cancel(c)
    \/ "stop" \in menu /\ RequestShutdown

Next == (Ask \/ Loop) /\ UNCHANGED menu

Spec == Init /\ [][Next]_vars

(* The loop runs every callback that is ready and every timeout that is due *)
(* in its turn, and time passes.                                            *)
FairSpec ==
  /\ Spec
  /\ \A s \in Slots : WF_vars(UNCHANGED menu /\ (Start(s) \/ Timeout(s) \/ Cleanup(s)))
  /\ \A c \in Callers : WF_vars(UNCHANGED menu /\ Resume(c))
  /\ SF_vars(UNCHANGED menu /\ Tick)

(* However slow Yahoo and however full the pool, a call is answered (or its *)
(* caller cancelled).                                                       *)
CallersAnswered == \A c \in Callers : Waiting(c) ~> ~Waiting(c)
=============================================================================
