----------------------------- MODULE Watchlist -----------------------------
(***************************************************************************)
(* routers/watchlist.py for one account and one title.  Nothing but the    *)
(* look before the insertion keeps a second item of the title out: there   *)
(* is neither a lock nor a UNIQUE constraint.  Notes and thresholds are    *)
(* reduced to whether an item carries the threshold of the last request.   *)
(***************************************************************************)
EXTENDS Naturals, FiniteSets

CONSTANTS
  Adders,        \* requests POST /api/watchlist/ that run at once
  MaxItems       \* bound: the highest id

ASSUME WatchlistAssumption == MaxItems \in Nat \ {0}

VARIABLES
  stockRow,      \* the title is in stocks
  items,         \* ids of the account's watchlist_items of the title
  alerting,      \* those with a threshold
  adder,         \* each request: where it is, its threshold, the item it found
  overlapped     \* history: two additions ran at the same time

watchVars == <<stockRow, items, alerting, adder, overlapped>>

NoAdder == [at |-> "idle", threshold |-> FALSE, item |-> 0]
(* The item a query without ORDER BY finds first. *)
FirstItem(ids) == CHOOSE i \in ids : \A j \in ids : i <= j
(* SQLite gives a new row the id after the highest. *)
NextId == IF items = {} THEN 1 ELSE 1 + CHOOSE i \in items : \A j \in items : j <= i

WatchInit ==
  /\ stockRow = FALSE /\ items = {} /\ alerting = {} /\ overlapped = FALSE
  /\ adder = [r \in Adders |-> NoAdder]

AdderAt(r, at) == adder' = [adder EXCEPT ![r].at = at]
AdderLeaves(r) == adder' = [adder EXCEPT ![r] = NoAdder]

(* The title is looked up; a new one waits for its deep dive.               *)
AddItem(r, threshold) ==
  /\ adder[r].at = "idle"
  /\ adder' = [adder EXCEPT ![r] = [at |-> IF stockRow THEN "look" ELSE "title",
                                    threshold |-> threshold, item |-> 0]]
  /\ overlapped' = (overlapped \/ \E q \in Adders : adder[q].at # "idle")
  /\ UNCHANGED <<stockRow, items, alerting>>

(* The stocks row is committed by itself.  Who loses the race on its UNIQUE *)
(* ticker rolls back, which expires current_user: the request answers 500.  *)
CreateTitle(r) ==
  /\ adder[r].at = "title"
  /\ IF stockRow THEN AdderLeaves(r) ELSE AdderAt(r, "look")
  /\ stockRow' = TRUE
  /\ UNCHANGED <<items, alerting, overlapped>>

(* Mutant: nobody looks for an item that is there. *)
FoundNone == {}

(* The items the look before the insertion finds. *)
Found == items

LookForItem(r) ==
  /\ adder[r].at = "look"
  /\ IF Found = {} THEN AdderAt(r, "insert")
     ELSE adder' = [adder EXCEPT ![r] = [at |-> "update", threshold |-> @.threshold,
                                         item |-> FirstItem(Found)]]
  /\ UNCHANGED <<stockRow, items, alerting, overlapped>>

(* An item that is there takes the new threshold, if there is one; for one  *)
(* that is removed meanwhile the UPDATE finds no row and the answer is 500. *)
UpdateItem(r) ==
  /\ adder[r].at = "update" /\ AdderLeaves(r)
  /\ alerting' = IF adder[r].threshold THEN alerting \union ({adder[r].item} \intersect items)
                 ELSE alerting
  /\ UNCHANGED <<stockRow, items, overlapped>>

InsertItem(r) ==
  /\ adder[r].at = "insert" /\ AdderLeaves(r) /\ NextId <= MaxItems
  /\ items' = items \union {NextId}
  /\ alerting' = IF adder[r].threshold THEN alerting \union {NextId} ELSE alerting
  /\ UNCHANGED <<stockRow, overlapped>>

(* update_watchlist_alert sets both thresholds, or clears them. *)
SetAlert(i, threshold) ==
  /\ i \in items
  /\ alerting' = IF threshold THEN alerting \union {i} ELSE alerting \ {i}
  /\ UNCHANGED <<stockRow, items, adder, overlapped>>

(* remove_from_watchlist by id; remove_by_ticker takes the first item only. *)
RemoveItem(i) ==
  /\ i \in items /\ items' = items \ {i} /\ alerting' = alerting \ {i}
  /\ UNCHANGED <<stockRow, adder, overlapped>>

RemoveByTicker == stockRow /\ items # {} /\ RemoveItem(FirstItem(items))

WatchNext ==
  \/ \E r \in Adders :
       \/ \E threshold \in BOOLEAN : AddItem(r, threshold)
       \/ CreateTitle(r) \/ LookForItem(r) \/ UpdateItem(r) \/ InsertItem(r)
  \/ \E i \in items : RemoveItem(i) \/ \E threshold \in BOOLEAN : SetAlert(i, threshold)
  \/ RemoveByTicker
-----------------------------------------------------------------------------
WatchTypeOK ==
  /\ stockRow \in BOOLEAN /\ overlapped \in BOOLEAN
  /\ items \subseteq 1..MaxItems /\ alerting \subseteq items /\ (items # {} => stockRow)
  /\ \A r \in Adders : adder[r].at \in {"idle", "title", "look", "update", "insert"}

(* One title is twice in an account's watchlist, and its alerts are doubled *)
(* and its removal by ticker incomplete, only where two additions of it ran *)
(* at the same time.                                                        *)
DuplicateNeedsRace == Cardinality(items) > 1 => overlapped
=============================================================================
