---------------------------- MODULE AlertEngine ----------------------------
(***************************************************************************)
(* services/alerting.py: the job that compares the administrator's alert   *)
(* rules, watchlist items and holdings (one "row" each) with the prices    *)
(* and sends Telegram messages, throttled in memory by the row's id.  Rows *)
(* come and go while a pass runs, SQLite gives a freed id to the next row, *)
(* titles are deactivated, the process restarts.                           *)
(*                                                                         *)
(* A tick is one interval of the job: a pass lasts seconds, so time stands *)
(* still in it.  Thresholds and prices are reduced to the rows that are    *)
(* "hot" in a pass; messages to the fact that they were sent.              *)
(***************************************************************************)
EXTENDS Naturals, FiniteSets

CONSTANTS
  RowIds,       \* keys rule_<id>, wl_<id>, sl_tp_h_<id>
  Titles,
  TitleOf,      \* the title a row watches
  Window,       \* the throttle of a row: 1 h, 2 h or 4 h, in ticks
  Longest       \* the 4 h: beyond it ages are all the same

ASSUME AlertAssumption ==
  Longest \in Nat /\ TitleOf \in [RowIds -> Titles] /\ Window \in [RowIds -> 1..Longest]

VARIABLES
  rows,         \* the rows of the administrator that exist
  monitored,    \* the titles with stocks.is_active
  throttle,     \* _last_alert_times: how long ago each key was marked, or Never
  pass,         \* the running pass: the rows it has yet to look at, the hot ones
  quietFor,     \* history: ticks since the row, unforgotten, was last alerted
  hotFor        \* history: passes in a row that found this row hot, unanswered

alertVars == <<rows, monitored, throttle, pass, quietFor, hotFor>>

Never == Longest + 1
TooSoon == Longest + 2
NoPass == [at |-> "none", todo |-> {}, hot |-> {}]

(* The rows a pass reads: only those of titles that are monitored. *)
Watched == {i \in rows : TitleOf[i] \in monitored}

AlertInit ==
  /\ rows = {} /\ monitored = Titles /\ pass = NoPass
  /\ throttle = [i \in RowIds |-> Never]
  /\ quietFor = [i \in RowIds |-> Never]
  /\ hotFor = [i \in RowIds |-> 0]

(* create_alert, add_watchlist_item, a purchase: the id may be a reused one. *)
CreateRow(i) ==
  /\ i \notin rows /\ rows' = rows \union {i}
  /\ quietFor' = [quietFor EXCEPT ![i] = Never]
  /\ hotFor' = [hotFor EXCEPT ![i] = 0]
  /\ UNCHANGED <<monitored, throttle, pass>>

(* delete_alert, remove_from_watchlist, a complete sale. *)
DeleteRow(i) ==
  /\ i \in rows /\ rows' = rows \ {i}
  /\ UNCHANGED <<monitored, throttle, pass, quietFor, hotFor>>

(* remove_stock and add_stock: a row that no pass sees loses its throttle. *)
SetMonitored(t) ==
  /\ monitored' = IF t \in monitored THEN monitored \ {t} ELSE monitored \union {t}
  /\ quietFor' = [i \in RowIds |-> IF TitleOf[i] = t THEN Never ELSE quietFor[i]]
  /\ hotFor' = [i \in RowIds |-> IF TitleOf[i] = t THEN 0 ELSE hotFor[i]]
  /\ UNCHANGED <<rows, throttle, pass>>

(* Mutant: only the keys of rules with a long window are kept. *)
EvictedShort(seen) ==
  [i \in RowIds |-> IF i \in seen /\ Window[i] = Longest THEN throttle[i] ELSE Never]

(* Keys of rows that this pass does not see are forgotten. *)
Evicted(seen) == [i \in RowIds |-> IF i \in seen THEN throttle[i] ELSE Never]

(* The markets are open: read the rows, evict, ask for the prices. *)
BeginPass ==
  /\ pass.at = "due"
  /\ throttle' = Evicted(Watched)
  /\ pass' = IF Watched = {} THEN NoPass ELSE [at |-> "prices", todo |-> Watched, hot |-> {}]
  /\ UNCHANGED <<rows, monitored, quietFor, hotFor>>

(* The markets are closed: nothing is read. *)
SkipPass ==
  /\ pass.at = "due" /\ pass' = NoPass
  /\ hotFor' = [i \in RowIds |-> 0]
  /\ UNCHANGED <<rows, monitored, throttle, quietFor>>

(* A synthetic or missing price gives way to the last close in the          *)
(* database; a title with neither triggers nothing.                         *)
Priced(real, closed) == {i \in pass.todo : TitleOf[i] \in real \union closed}

Price(real, closed, hot) ==
  /\ pass.at = "prices" /\ hot \subseteq Priced(real, closed)
  /\ pass' = [pass EXCEPT !.at = "rows", !.hot = hot]
  /\ hotFor' = [i \in RowIds |-> IF i \in pass.todo \ hot THEN 0 ELSE hotFor[i]]
  /\ UNCHANGED <<rows, monitored, throttle, quietFor>>

(* The query of the last closes failed: the pass ends, its evictions stay. *)
FailPass ==
  /\ pass.at = "prices" /\ pass' = NoPass
  /\ hotFor' = [i \in RowIds |-> 0]
  /\ UNCHANGED <<rows, monitored, throttle, quietFor>>

(* Mutant: a suppressed alert marks the key again. *)
MarkedAlways(i, sends) == IF i \in pass.hot THEN [throttle EXCEPT ![i] = 0] ELSE throttle

(* The key is marked before the message is sent; a failed send is logged.   *)
Marked(i, sends) == IF sends THEN [throttle EXCEPT ![i] = 0] ELSE throttle

(* One row: throttled, cold, or alerted; the pass yields at every message.  *)
Evaluate(i) ==
  /\ pass.at = "rows" /\ i \in pass.todo
  /\ LET sends == i \in pass.hot /\ throttle[i] >= Window[i]
     IN  /\ throttle' = Marked(i, sends)
         /\ quietFor' = IF sends /\ i \in rows
                         THEN [quietFor EXCEPT ![i] = IF @ < Window[i] THEN TooSoon ELSE 0]
                         ELSE quietFor
         /\ hotFor' = IF sends THEN [hotFor EXCEPT ![i] = 0] ELSE hotFor
  /\ pass' = IF pass.todo = {i} THEN NoPass ELSE [pass EXCEPT !.todo = @ \ {i}]
  /\ UNCHANGED <<rows, monitored>>

(* The throttle is memory of the process. *)
RestartAlerts ==
  /\ throttle' = [i \in RowIds |-> Never] /\ pass' = NoPass
  /\ quietFor' = [i \in RowIds |-> Never]
  /\ hotFor' = [i \in RowIds |-> 0]
  /\ UNCHANGED <<rows, monitored>>

(* The next run of the job; APScheduler never runs two at once. *)
Aged(n) == IF n >= Longest THEN n ELSE n + 1
AlertTick ==
  /\ pass = NoPass /\ pass' = [NoPass EXCEPT !.at = "due"]
  /\ throttle' = [i \in RowIds |-> Aged(throttle[i])]
  /\ quietFor' = [i \in RowIds |-> Aged(quietFor[i])]
  /\ hotFor' = [i \in RowIds |-> IF i \in Watched /\ hotFor[i] <= Longest
                                 THEN hotFor[i] + 1 ELSE hotFor[i]]
  /\ UNCHANGED <<rows, monitored>>

AlertNext ==
  \/ \E i \in RowIds : CreateRow(i) \/ DeleteRow(i) \/ Evaluate(i)
  \/ \E t \in Titles : SetMonitored(t)
  \/ \E real, closed \in SUBSET Titles : \E hot \in SUBSET pass.todo : Price(real, closed, hot)
  \/ BeginPass \/ SkipPass \/ FailPass \/ RestartAlerts \/ AlertTick
-----------------------------------------------------------------------------
AlertTypeOK ==
  /\ rows \subseteq RowIds /\ monitored \subseteq Titles
  /\ throttle \in [RowIds -> 0..Longest \union {Never}]
  /\ pass.at \in {"none", "due", "prices", "rows"} /\ pass.hot \union pass.todo \subseteq RowIds

(* A row that is alerted is not alerted again within its window, whatever   *)
(* other rows come, go or are evicted meanwhile, unless the process was     *)
(* restarted or its title was not monitored for a time.                     *)
Throttled == \A i \in RowIds : quietFor[i] # TooSoon

(* A row that every pass finds hot is alerted after its window at the       *)
(* latest, even one that was given the id, and so the throttle, of another. *)
AlertedInTime == \A i \in RowIds : hotFor[i] <= Window[i]
=============================================================================
