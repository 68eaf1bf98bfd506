--------------------------- MODULE ServicesProofs ---------------------------
(***************************************************************************)
(* Theorems about the settings, the watchlist, the alert engine, the       *)
(* caches of computed figures, the advice desk, the rebalance targets and  *)
(* the limiter, each by itself, for every number of requests, keys, items, *)
(* rows, titles, accounts, permits and clients, and every lifetime.        *)
(***************************************************************************)
EXTENDS UserSettings, Watchlist, AlertEngine, AnalyticsCaches, AdviceDesk, Rebalance,
        RateLimiter, SumLemmas

-----------------------------------------------------------------------------
(* UserSettings. *)

SettingsSpec == SettingsInit /\ [][SettingsNext]_settingsVars

(* The variables as functions, the step of each request that holds the      *)
(* lock, and what a request about to insert has seen under it.              *)

RequestState == [op : {"none", "read", "save", "resolve"},
                 at : {"idle", "read", "lock", "reread", "insert", "apply",
                       "invalidate", "fill"},
                 key : Keys \union {NoKey}]

RowInv ==
  /\ request \in [Requests -> RequestState]
  /\ userRows \in Nat /\ userRows <= 1
  /\ key \in Keys \union {NoKey}
  /\ initLock \in Requests \union {Nobody}
  /\ \A r \in Requests : request[r].at \in {"reread", "insert"} <=> initLock = r
  /\ \A r \in Requests : request[r].at = "insert" => userRows = 0

LEMMA RowInvInit == SettingsInit => RowInv
  BY SettingsAssumption DEF SettingsInit, RowInv, RequestState, NoRequest

LEMMA RowInvStep == RowInv /\ [SettingsNext]_settingsVars => RowInv'
<1> SUFFICES ASSUME RowInv, [SettingsNext]_settingsVars PROVE RowInv'
  OBVIOUS
<1> USE DEF RowInv, RequestState
<1>1. ASSUME NEW r \in Requests, NEW op \in {"read", "save"}, NEW k \in Keys \union {NoKey},
             AskSettings(r, op, k)
      PROVE  RowInv'
  BY <1>1 DEF AskSettings
<1>2. ASSUME NEW r \in Requests, ReadSettings(r) PROVE RowInv'
  BY <1>2 DEF ReadSettings, StepRequest
<1>3. ASSUME NEW r \in Requests, AcquireInit(r) PROVE RowInv'
  BY <1>3, SettingsAssumption DEF AcquireInit, LockTaken, StepRequest
<1>4. ASSUME NEW r \in Requests, RereadSettings(r) PROVE RowInv'
  BY <1>4, SettingsAssumption DEF RereadSettings, ReleaseInit, StepRequest
<1>5. ASSUME NEW r \in Requests, InsertRow(r) PROVE RowInv'
  BY <1>5, SettingsAssumption DEF InsertRow, ReleaseInit, StepRequest, EndRequest, NoRequest
<1>6. ASSUME NEW r \in Requests, ApplySettings(r) PROVE RowInv'
  BY <1>6 DEF ApplySettings, StepRequest, EndRequest, NoRequest
<1>7. ASSUME NEW r \in Requests, InvalidateKey(r) PROVE RowInv'
  BY <1>7 DEF InvalidateKey, EndRequest, NoRequest
<1>8. ASSUME NEW r \in Requests, FillCache(r) PROVE RowInv'
  BY <1>8 DEF FillCache, EndRequest, NoRequest
<1>9. CASE DeleteAccount
  BY <1>9 DEF DeleteAccount
<1>10. CASE ReuseId
  BY <1>10 DEF ReuseId
<1>11. CASE UNCHANGED settingsVars
  BY <1>11 DEF settingsVars
<1>12. ASSUME NEW r \in Requests, ResolveKey(r) PROVE RowInv'
  BY <1>12 DEF ResolveKey
<1> QED
  BY <1>1, <1>2, <1>3, <1>4, <1>5, <1>6, <1>7, <1>8, <1>9, <1>10, <1>11, <1>12
  DEF SettingsNext

(* However many requests create the row at once, the account has one: what  *)
(* the lock and the second look under it are for                            *)
(* (_get_or_create_user_settings).                                          *)
THEOREM RowIsUnique == SettingsSpec => []OneRowPerUser
<1>1. RowInv => OneRowPerUser
  BY DEF RowInv, OneRowPerUser
<1> QED
  BY RowInvInit, RowInvStep, <1>1, PTL DEF SettingsSpec

-----------------------------------------------------------------------------
(* A key that is in memory, or that a resolution is about to put there, is  *)
(* the row's unless a save has yet to invalidate or the difference is       *)
(* excused.                                                                 *)

Saving == \E r \in Requests : request[r].at = "invalidate"

KeyInv ==
  /\ keyCache \in Keys \union {NoKey} /\ excused \in BOOLEAN
  /\ keyCache \notin {NoKey, key} => Saving \/ excused
  /\ \A r \in Requests :
       request[r].at = "fill" /\ request[r].key \notin {NoKey, key} => Saving \/ excused

LEMMA KeyInvInit == SettingsInit => KeyInv
<1> SUFFICES ASSUME SettingsInit PROVE KeyInv
  OBVIOUS
<1>1. \A r \in Requests : request[r].at = "idle"
  BY DEF SettingsInit, NoRequest
<1>2. excused \in BOOLEAN
  BY DEF SettingsInit
<1>3. keyCache = NoKey
  BY DEF SettingsInit
<1> QED
  BY <1>1, <1>2, <1>3 DEF KeyInv

LEMMA KeyInvStep == RowInv /\ KeyInv /\ [SettingsNext]_settingsVars => KeyInv'
<1> SUFFICES ASSUME RowInv, KeyInv, [SettingsNext]_settingsVars PROVE KeyInv'
  OBVIOUS
<1> USE DEF RowInv, RequestState, KeyInv, Saving
<1>1. ASSUME NEW r \in Requests, NEW op \in {"read", "save"}, NEW k \in Keys \union {NoKey},
             AskSettings(r, op, k)
      PROVE  KeyInv'
  BY <1>1 DEF AskSettings
<1>2. ASSUME NEW r \in Requests, ReadSettings(r) PROVE KeyInv'
  BY <1>2 DEF ReadSettings, StepRequest
<1>3. ASSUME NEW r \in Requests, AcquireInit(r) PROVE KeyInv'
  BY <1>3 DEF AcquireInit, StepRequest
<1>4. ASSUME NEW r \in Requests, RereadSettings(r) PROVE KeyInv'
  BY <1>4 DEF RereadSettings, StepRequest
<1>5. ASSUME NEW r \in Requests, InsertRow(r) PROVE KeyInv'
  BY <1>5 DEF InsertRow, StepRequest, EndRequest, NoRequest
<1>6. ASSUME NEW r \in Requests, ApplySettings(r) PROVE KeyInv'
  BY <1>6 DEF ApplySettings, StepRequest, EndRequest, NoRequest
<1>7. ASSUME NEW r \in Requests, InvalidateKey(r) PROVE KeyInv'
  BY <1>7 DEF InvalidateKey, Invalidation, Resolving, EndRequest, NoRequest
<1>8. ASSUME NEW r \in Requests, FillCache(r) PROVE KeyInv'
  BY <1>8 DEF FillCache, EndRequest, NoRequest
<1>9. CASE DeleteAccount
  BY <1>9 DEF DeleteAccount, Resolving
<1>10. CASE ReuseId
  BY <1>10 DEF ReuseId
<1>11. CASE UNCHANGED settingsVars
  BY <1>11 DEF settingsVars
<1>12. ASSUME NEW r \in Requests, ResolveKey(r) PROVE KeyInv'
  BY <1>12 DEF ResolveKey
<1> QED
  BY <1>1, <1>2, <1>3, <1>4, <1>5, <1>6, <1>7, <1>8, <1>9, <1>10, <1>11, <1>12
  DEF SettingsNext

(* Once no save is between its commit and its invalidation, the key that    *)
(* resolve_gemini_key serves from memory is the row's, but for the two      *)
(* races that `excused` records.                                            *)
THEOREM KeyIsTheRows == SettingsSpec => []KeyCacheCoherent
<1>1. KeyInv => KeyCacheCoherent
  BY DEF KeyInv, Saving, KeyCacheCoherent
<1> QED
  BY RowInvInit, RowInvStep, KeyInvInit, KeyInvStep, <1>1, PTL DEF SettingsSpec

(* The row, the key and the lock stay in their ranges, and the lock is only *)
(* held under the second look and the insertion.                            *)
THEOREM SettingsTypes == SettingsSpec => []SettingsTypeOK
<1>1. RowInv /\ KeyInv => SettingsTypeOK
  BY SettingsAssumption DEF RowInv, KeyInv, RequestState, SettingsTypeOK
<1> QED
  BY RowInvInit, RowInvStep, KeyInvInit, KeyInvStep, <1>1, PTL DEF SettingsSpec

-----------------------------------------------------------------------------
(* Watchlist. *)

WatchSpec == WatchInit /\ [][WatchNext]_watchVars

(* Only an item of the list can carry a threshold, and only a title that    *)
(* has its row can be in the list.                                          *)
ItemInv ==
  /\ stockRow \in BOOLEAN
  /\ items \subseteq 1..MaxItems /\ alerting \subseteq items /\ (items # {} => stockRow)
  /\ \A r \in Adders : adder[r].at \in {"look", "update", "insert"} => stockRow

LEMMA NextIdIs ==
  ASSUME items \subseteq 1..MaxItems
  PROVE  NextId \in Nat /\ NextId >= 1
<1>1. CASE items = {}
  BY <1>1 DEF NextId
<1>2. CASE items # {}
  <2>1. items \in SUBSET Nat /\ IsFiniteSet(items)
    <3>1. 1 \in Int /\ MaxItems \in Int /\ 1..MaxItems \subseteq Nat
      BY WatchlistAssumption
    <3>2. IsFiniteSet(1..MaxItems)
      BY <3>1, FS_Interval
    <3> QED
      BY <3>1, <3>2, FS_Subset
  <2>2. \E i \in items : \A j \in items : j <= i
    BY <1>2, <2>1, GreatestNatural
  <2>3. PICK n \in items : n = CHOOSE i \in items : \A j \in items : j <= i
    BY <2>2
  <2>4. NextId = 1 + n /\ n \in Nat
    BY <1>2, <2>1, <2>3 DEF NextId
  <2> QED
    BY <2>4
<1> QED
  BY <1>1, <1>2

LEMMA FirstItemIs ==
  ASSUME items \subseteq 1..MaxItems, items # {}
  PROVE  FirstItem(items) \in items
<1>1. items \in SUBSET Nat
  BY WatchlistAssumption
<1>2. \E i \in items : \A j \in items : i <= j
  BY <1>1, LeastNatural
<1> QED
  BY <1>2 DEF FirstItem

Additions == [at : {"idle", "title", "look", "update", "insert"}, threshold : BOOLEAN,
              item : 0..MaxItems]

(* While no two additions have overlapped, the one that is about to insert  *)
(* has looked, and nothing came since.                                      *)
LookInv ==
  /\ adder \in [Adders -> Additions]
  /\ overlapped \in BOOLEAN
  /\ ~overlapped =>
       /\ \A q, r \in Adders : adder[q].at # "idle" /\ adder[r].at # "idle" => q = r
       /\ \A r \in Adders : adder[r].at = "insert" => items = {}
       /\ \A i, j \in items : i = j

LEMMA NoAdderIs == NoAdder \in Additions
  BY WatchlistAssumption DEF NoAdder, Additions

LEMMA LookInvInit == WatchInit => LookInv
<1> SUFFICES ASSUME WatchInit PROVE LookInv
  OBVIOUS
<1>1. overlapped \in BOOLEAN
  BY DEF WatchInit
<1>2. items = {} /\ \A r \in Adders : adder[r].at = "idle"
  BY DEF WatchInit, NoAdder
<1>3. adder \in [Adders -> Additions]
  BY NoAdderIs DEF WatchInit
<1> QED
  BY <1>1, <1>2, <1>3 DEF LookInv

LEMMA LookInvStep == LookInv /\ ItemInv /\ [WatchNext]_watchVars => LookInv'
<1> SUFFICES ASSUME LookInv, ItemInv, [WatchNext]_watchVars PROVE LookInv'
  OBVIOUS
<1> USE DEF LookInv
<1>1. ASSUME NEW r \in Adders, NEW threshold \in BOOLEAN, AddItem(r, threshold)
      PROVE  LookInv'
  <2>1. overlapped' \in BOOLEAN /\ items' = items
    BY <1>1 DEF AddItem
  <2>2. /\ adder' \in [Adders -> Additions]
        /\ \A q \in Adders : q # r => adder'[q] = adder[q]
        /\ adder'[r].at \in {"look", "title"}
    BY <1>1, WatchlistAssumption DEF AddItem, Additions
  <2>3. ASSUME ~overlapped' PROVE ~overlapped /\ \A q \in Adders : adder[q].at = "idle"
    BY <1>1, <2>3 DEF AddItem
  <2> QED
    BY <2>1, <2>2, <2>3
<1>2. ASSUME NEW r \in Adders, CreateTitle(r) PROVE LookInv'
  <2>1. overlapped' = overlapped /\ items' = items
    BY <1>2 DEF CreateTitle
  <2>2. adder' = [adder EXCEPT ![r].at = "look"] \/ adder' = [adder EXCEPT ![r] = NoAdder]
    BY <1>2 DEF CreateTitle, AdderAt, AdderLeaves
  <2>3. CASE adder' = [adder EXCEPT ![r].at = "look"]
    <3>1. adder[r].at = "title"
      BY <1>2 DEF CreateTitle
    <3>2. /\ adder' \in [Adders -> Additions]
          /\ \A q \in Adders : q # r => adder'[q] = adder[q]
          /\ adder'[r].at = "look"
      BY <2>3 DEF Additions
    <3> QED
      BY <2>1, <3>1, <3>2
  <2>4. CASE adder' = [adder EXCEPT ![r] = NoAdder]
    <3>1. adder' \in [Adders -> Additions]
      BY <2>4, NoAdderIs
    <3> QED
      BY <2>1, <2>4, <3>1 DEF NoAdder
  <2> QED
    BY <2>2, <2>3, <2>4
<1>3. ASSUME NEW r \in Adders, LookForItem(r) PROVE LookInv'
  <2>1. overlapped' = overlapped /\ items' = items /\ adder[r].at = "look"
    BY <1>3 DEF LookForItem
  <2>2. CASE items = {} /\ adder' = [adder EXCEPT ![r].at = "insert"]
    <3>1. adder' \in [Adders -> Additions]
      BY <2>2 DEF Additions
    <3> QED
      BY <2>1, <2>2, <3>1
  <2>3. CASE items # {} /\ adder' = [adder EXCEPT ![r] =
                 [at |-> "update", threshold |-> @.threshold, item |-> FirstItem(items)]]
    <3> DEFINE n == [at |-> "update", threshold |-> adder[r].threshold, item |-> FirstItem(items)]
    <3>1. FirstItem(items) \in 0..MaxItems
      BY <2>3, FirstItemIs, WatchlistAssumption DEF ItemInv
    <3>2. n \in Additions /\ n.at = "update"
      BY <3>1 DEF Additions
    <3>3. adder' = [adder EXCEPT ![r] = n]
      BY <2>3
    <3> HIDE DEF n
    <3>4. /\ adder' \in [Adders -> Additions]
          /\ \A q \in Adders : q # r => adder'[q] = adder[q]
          /\ adder'[r].at = "update"
      BY <3>2, <3>3
    <3> QED
      BY <2>1, <3>4
  <2> QED
    BY <1>3, <2>2, <2>3 DEF LookForItem, Found, AdderAt
<1>4. ASSUME NEW r \in Adders, InsertItem(r) \/ UpdateItem(r) PROVE LookInv'
  <2>1. /\ adder' = [adder EXCEPT ![r] = NoAdder] /\ overlapped' = overlapped
        /\ adder[r].at # "idle"
        /\ items' = items \/ (items' = items \union {NextId} /\ adder[r].at = "insert")
    BY <1>4 DEF InsertItem, UpdateItem, AdderLeaves
  <2>2. /\ adder' \in [Adders -> Additions]
        /\ \A q \in Adders : q # r => adder'[q] = adder[q]
        /\ adder'[r].at = "idle"
    BY <2>1, NoAdderIs DEF NoAdder
  <2> QED
    BY <2>1, <2>2
<1>5. ASSUME NEW i \in items, NEW threshold \in BOOLEAN, SetAlert(i, threshold)
      PROVE  LookInv'
  BY <1>5 DEF SetAlert
<1>6. ASSUME NEW i, RemoveItem(i) PROVE LookInv'
  BY <1>6 DEF RemoveItem
<1>7. CASE UNCHANGED watchVars
  BY <1>7 DEF watchVars
<1> QED
  BY <1>1, <1>2, <1>3, <1>4, <1>5, <1>6, <1>7 DEF WatchNext, RemoveByTicker

LEMMA ItemInvInit == WatchInit => ItemInv
<1> SUFFICES ASSUME WatchInit PROVE ItemInv
  OBVIOUS
<1>1. stockRow \in BOOLEAN
  BY DEF WatchInit
<1>2. items = {} /\ alerting = {} /\ \A r \in Adders : adder[r].at = "idle"
  BY DEF WatchInit, NoAdder
<1> QED
  BY <1>1, <1>2 DEF ItemInv

LEMMA ItemInvStep == LookInv /\ ItemInv /\ [WatchNext]_watchVars => ItemInv'
<1> SUFFICES ASSUME LookInv, ItemInv, [WatchNext]_watchVars PROVE ItemInv'
  OBVIOUS
<1> USE DEF LookInv, ItemInv
<1>1. ASSUME NEW r \in Adders, NEW threshold \in BOOLEAN, AddItem(r, threshold)
      PROVE  ItemInv'
  BY <1>1 DEF AddItem
<1>2. ASSUME NEW r \in Adders, CreateTitle(r) PROVE ItemInv'
  BY <1>2 DEF CreateTitle, AdderAt, AdderLeaves, NoAdder
<1>3. ASSUME NEW r \in Adders, LookForItem(r) \/ UpdateItem(r) PROVE ItemInv'
  <2>1. /\ UNCHANGED <<stockRow, items>> /\ stockRow
        /\ alerting' \subseteq alerting \union items
    BY <1>3 DEF LookForItem, UpdateItem
  <2> QED
    BY <2>1
<1>4. ASSUME NEW r \in Adders, InsertItem(r) PROVE ItemInv'
  <2>1. /\ stockRow /\ stockRow' = stockRow /\ NextId <= MaxItems
        /\ items' = items \union {NextId} /\ adder' = [adder EXCEPT ![r] = NoAdder]
        /\ alerting' \in {alerting, alerting \union {NextId}}
    BY <1>4 DEF InsertItem, AdderLeaves
  <2>2. NextId \in 1..MaxItems
    BY <2>1, NextIdIs, WatchlistAssumption
  <2> QED
    BY <2>1, <2>2
<1>5. ASSUME NEW i \in items, NEW threshold \in BOOLEAN, SetAlert(i, threshold)
      PROVE  ItemInv'
  BY <1>5 DEF SetAlert
<1>6. ASSUME NEW i, RemoveItem(i) PROVE ItemInv'
  BY <1>6 DEF RemoveItem
<1>7. CASE UNCHANGED watchVars
  BY <1>7 DEF watchVars
<1> QED
  BY <1>1, <1>2, <1>3, <1>4, <1>5, <1>6, <1>7 DEF WatchNext, RemoveByTicker

(* A title is twice in a watchlist only where two additions of it           *)
(* overlapped: one at a time, the look before the insertion of              *)
(* add_to_watchlist is enough.                                              *)
THEOREM DuplicatesComeFromRaces == WatchSpec => []DuplicateNeedsRace
<1>1. LookInv => DuplicateNeedsRace
  <2> SUFFICES ASSUME LookInv, ~overlapped PROVE ~(Cardinality(items) > 1)
    BY DEF DuplicateNeedsRace
  <2>1. CASE items = {}
    BY <2>1, FS_EmptySet
  <2>2. ASSUME NEW i \in items PROVE Cardinality(items) = 1
    <3>1. items = {i}
      BY DEF LookInv
    <3> QED
      BY <3>1, FS_Singleton
  <2> QED
    BY <2>1, <2>2
<1> QED
  BY LookInvInit, LookInvStep, ItemInvInit, ItemInvStep, <1>1, PTL DEF WatchSpec

-----------------------------------------------------------------------------
(* An item outlives neither its title nor its list: a threshold is only     *)
(* ever set on an item that is there (update_watchlist_alert and the        *)
(* removals), whatever additions run meanwhile.                             *)
THEOREM WatchTypes == WatchSpec => []WatchTypeOK
<1>1. LookInv /\ ItemInv => WatchTypeOK
  BY DEF LookInv, ItemInv, WatchTypeOK, Additions
<1> QED
  BY LookInvInit, LookInvStep, ItemInvInit, ItemInvStep, <1>1, PTL DEF WatchSpec

-----------------------------------------------------------------------------
(* AlertEngine.  The throttle is no older than the last alert of a row that *)
(* a pass may look at, and a row that stays hot waits no longer than its    *)
(* throttle ages.                                                           *)

AlertSpec == AlertInit /\ [][AlertNext]_alertVars

Age == 0..Never

AlertTypes ==
  /\ rows \in SUBSET RowIds /\ monitored \in SUBSET Titles
  /\ throttle \in [RowIds -> Age] /\ quietFor \in [RowIds -> Age]
  /\ hotFor \in [RowIds -> 0..Longest]
  /\ pass \in [at : {"none", "due", "prices", "rows"}, todo : SUBSET RowIds, hot : SUBSET RowIds]
  /\ pass.at \in {"none", "due"} => pass = [NoPass EXCEPT !.at = pass.at]

(* What a pass may alert: the rows it has yet to look at and, at its next   *)
(* beginning, the watched ones.                                             *)
InSight(i) == i \in Watched \/ (i \in rows /\ i \in pass.todo)

QuietInv == \A i \in RowIds : InSight(i) => quietFor[i] = Never \/ throttle[i] <= quietFor[i]

(* Only a row that the due or running pass has yet to look at may have      *)
(* waited for all of its window.                                            *)
HotInv ==
  \A i \in RowIds :
    /\ hotFor[i] <= throttle[i] /\ hotFor[i] <= Window[i]
    /\ hotFor[i] < Window[i] \/ i \notin Watched \/ pass.at = "due" \/ i \in pass.todo
    /\ pass.at = "rows" /\ i \in pass.todo \ pass.hot => hotFor[i] = 0

AlertInv == AlertTypes /\ QuietInv /\ HotInv

LEMMA Ages ==
  /\ Longest \in Nat /\ Never = Longest + 1 /\ TooSoon = Longest + 2
  /\ \A i \in RowIds : Window[i] \in 1..Longest
  /\ \A n \in Age : Aged(n) \in Age /\ n <= Aged(n) /\ (n = Never <=> Aged(n) = Never)
  /\ \A m, n \in Age : m <= n => Aged(m) <= Aged(n)
  /\ \A n \in 0..Longest : n < Longest => Aged(n) = n + 1
  BY AlertAssumption DEF Age, Never, TooSoon, Aged

LEMMA NoPassType ==
  /\ NoPass \in [at : {"none", "due", "prices", "rows"}, todo : SUBSET RowIds, hot : SUBSET RowIds]
  /\ NoPass.at = "none" /\ NoPass.todo = {} /\ NoPass.hot = {}
  /\ NoPass = [NoPass EXCEPT !.at = NoPass.at]
  BY DEF NoPass

LEMMA AlertInvInit == AlertInit => AlertInv
<1> SUFFICES ASSUME AlertInit PROVE AlertInv
  OBVIOUS
<1> USE Ages, NoPassType
<1>1. AlertTypes
  BY DEF AlertInit, AlertTypes, Age
<1>2. QuietInv
  BY DEF AlertInit, QuietInv
<1>3. HotInv
  BY DEF AlertInit, HotInv
<1> QED
  BY <1>1, <1>2, <1>3 DEF AlertInv

LEMMA AlertInvStep == AlertInv /\ [AlertNext]_alertVars => AlertInv'
<1> SUFFICES ASSUME AlertInv, [AlertNext]_alertVars PROVE AlertInv'
  OBVIOUS
<1> USE Ages, NoPassType DEF AlertInv
<1>1. ASSUME NEW i \in RowIds, CreateRow(i) PROVE AlertInv'
  <2>1. AlertTypes'
    BY <1>1 DEF CreateRow, AlertTypes, Age
  <2>2. /\ pass' = pass /\ throttle' = throttle
        /\ quietFor'[i] = Never /\ hotFor'[i] = 0
        /\ \A j \in RowIds : j # i => /\ quietFor'[j] = quietFor[j] /\ hotFor'[j] = hotFor[j]
                                      /\ j \in rows' => j \in rows
                                      /\ j \in Watched' => j \in Watched
    BY <1>1 DEF CreateRow, AlertTypes, Watched
  <2>3. throttle[i] >= 0
    BY DEF AlertTypes, Age
  <2> QED
    BY <2>1, <2>2, <2>3 DEF QuietInv, HotInv, InSight
<1>2. ASSUME NEW i \in RowIds, DeleteRow(i) PROVE AlertInv'
  <2>1. AlertTypes'
    BY <1>2 DEF DeleteRow, AlertTypes
  <2>2. Watched' \subseteq Watched /\ rows' \subseteq rows
    BY <1>2 DEF DeleteRow, Watched
  <2> QED
    BY <1>2, <2>1, <2>2 DEF DeleteRow, QuietInv, HotInv, InSight
<1>3. ASSUME NEW t \in Titles, SetMonitored(t) PROVE AlertInv'
  <2>1. AlertTypes'
    BY <1>3 DEF SetMonitored, AlertTypes, Age
  <2>2. /\ pass' = pass /\ throttle' = throttle /\ rows' = rows
        /\ \A j \in RowIds : IF TitleOf[j] = t THEN quietFor'[j] = Never /\ hotFor'[j] = 0
                            ELSE /\ quietFor'[j] = quietFor[j] /\ hotFor'[j] = hotFor[j]
                                 /\ j \in Watched' => j \in Watched
    BY <1>3 DEF SetMonitored, AlertTypes, Watched
  <2>3. \A j \in RowIds : throttle[j] >= 0
    BY DEF AlertTypes, Age
  <2>4. QuietInv'
    BY <2>2 DEF QuietInv, InSight
  <2>5. HotInv'
    BY <2>2, <2>3 DEF HotInv
  <2> QED
    BY <2>1, <2>4, <2>5
<1>4. CASE BeginPass
  <2>1. /\ throttle' = [i \in RowIds |-> IF i \in Watched THEN throttle[i] ELSE Never]
        /\ Watched' = Watched /\ rows' = rows /\ quietFor' = quietFor /\ hotFor' = hotFor
        /\ pass'.todo = Watched /\ pass'.hot = {} /\ pass'.at \in {"none", "prices"}
    BY <1>4 DEF BeginPass, Evicted, Watched
  <2>2. AlertTypes'
    <3>1. Watched \in SUBSET RowIds
      BY DEF Watched, AlertTypes
    <3>2. throttle' \in [RowIds -> Age]
      BY <2>1 DEF AlertTypes, Age
    <3> QED
      BY <1>4, <3>1, <3>2 DEF BeginPass, AlertTypes
  <2>3. QuietInv'
    BY <2>1 DEF QuietInv, InSight
  <2>4. HotInv'
    BY <2>1 DEF HotInv, AlertTypes
  <2> QED
    BY <2>2, <2>3, <2>4
<1>5. CASE SkipPass \/ FailPass
  <2>1. /\ throttle' = throttle /\ quietFor' = quietFor /\ rows' = rows /\ monitored' = monitored
        /\ pass' = NoPass /\ hotFor' = [i \in RowIds |-> 0] /\ Watched' = Watched
    BY <1>5 DEF SkipPass, FailPass, Watched
  <2>2. AlertTypes'
    BY <2>1 DEF AlertTypes
  <2>3. QuietInv'
    BY <2>1 DEF QuietInv, InSight
  <2>4. HotInv'
    BY <2>1 DEF HotInv, AlertTypes, Age
  <2> QED
    BY <2>2, <2>3, <2>4
<1>6. ASSUME NEW real, NEW closed, NEW hot \in SUBSET pass.todo, Price(real, closed, hot)
      PROVE  AlertInv'
  <2>1. /\ throttle' = throttle /\ quietFor' = quietFor /\ rows' = rows /\ monitored' = monitored
        /\ Watched' = Watched
        /\ pass' = [pass EXCEPT !.at = "rows", !.hot = hot]
        /\ hotFor' = [i \in RowIds |-> IF i \in pass.todo \ hot THEN 0 ELSE hotFor[i]]
    BY <1>6 DEF Price, Watched
  <2>2. pass'.todo = pass.todo /\ pass'.hot = hot /\ pass'.at = "rows"
    BY <2>1 DEF AlertTypes
  <2>3. pass.at = "prices"
    BY <1>6 DEF Price
  <2>4. AlertTypes'
    <3>1. hotFor' \in [RowIds -> 0..Longest]
      BY <2>1 DEF AlertTypes
    <3>2. /\ pass' \in [at : {"none", "due", "prices", "rows"}, todo : SUBSET RowIds,
                        hot : SUBSET RowIds]
          /\ pass'.at \notin {"none", "due"}
      BY <2>1, <2>2 DEF AlertTypes
    <3> QED
      BY <2>1, <3>1, <3>2 DEF AlertTypes
  <2>5. QuietInv'
    BY <2>1, <2>2 DEF QuietInv, InSight
  <2>6. HotInv'
    BY <2>1, <2>2, <2>3 DEF HotInv, AlertTypes, Age
  <2> QED
    BY <2>4, <2>5, <2>6
<1>7. ASSUME NEW i \in RowIds, Evaluate(i) PROVE AlertInv'
  <2> DEFINE sends == i \in pass.hot /\ throttle[i] >= Window[i]
  <2>1. /\ pass.at = "rows" /\ i \in pass.todo /\ rows' = rows /\ monitored' = monitored
        /\ Watched' = Watched /\ pass'.todo = pass.todo \ {i}
        /\ pass'.at \in {"none", "rows"} /\ pass'.hot \in {{}, pass.hot}
        /\ pass'.at = "rows" => pass'.hot = pass.hot
    BY <1>7 DEF Evaluate, Watched, AlertTypes
  <2>2. \A j \in RowIds : j # i => /\ throttle'[j] = throttle[j] /\ quietFor'[j] = quietFor[j]
                                   /\ hotFor'[j] = hotFor[j]
    BY <1>7 DEF Evaluate, Marked, AlertTypes
  <2>3. CASE sends
    <3>1. throttle'[i] = 0 /\ hotFor'[i] = 0 /\ throttle' \in [RowIds -> Age]
          /\ hotFor' \in [RowIds -> 0..Longest]
      BY <1>7, <2>3 DEF Evaluate, Marked, AlertTypes, Age
    <3>2. i \in rows => quietFor'[i] = 0
      <4> SUFFICES ASSUME i \in rows PROVE quietFor'[i] = 0
        OBVIOUS
      <4>1. InSight(i)
        BY <2>1 DEF InSight
      <4>2. ~(quietFor[i] < Window[i])
        BY <2>3, <4>1 DEF QuietInv, AlertTypes, Age
      <4> QED
        BY <1>7, <2>3, <4>2 DEF Evaluate, AlertTypes
    <3>3. quietFor' \in [RowIds -> Age]
      <4>1. quietFor' = quietFor \/ quietFor' = [quietFor EXCEPT ![i] = quietFor'[i]]
        BY <1>7 DEF Evaluate, AlertTypes
      <4>2. CASE i \in rows
        BY <3>2, <4>1, <4>2 DEF AlertTypes, Age
      <4>3. CASE i \notin rows
        BY <1>7, <4>3 DEF Evaluate, AlertTypes
      <4> QED
        BY <4>2, <4>3
    <3>4. AlertTypes'
      BY <1>7, <2>1, <3>1, <3>3 DEF Evaluate, AlertTypes
    <3>5. QuietInv'
      BY <2>1, <2>2, <3>1, <3>2 DEF QuietInv, InSight, Watched
    <3>6. HotInv'
      BY <2>1, <2>2, <3>1 DEF HotInv
    <3> QED
      BY <3>4, <3>5, <3>6
  <2>4. CASE ~sends
    <3>1. throttle' = throttle /\ quietFor' = quietFor /\ hotFor' = hotFor
      BY <1>7, <2>4 DEF Evaluate, Marked
    <3>2. AlertTypes'
      BY <1>7, <2>1, <3>1 DEF Evaluate, AlertTypes
    <3>3. QuietInv'
      BY <2>1, <3>1 DEF QuietInv, InSight
    <3>4. hotFor[i] < Window[i]
      BY <2>1, <2>4 DEF HotInv, AlertTypes, Age
    <3>5. HotInv'
      BY <2>1, <3>1, <3>4 DEF HotInv
    <3> QED
      BY <3>2, <3>3, <3>5
  <2> QED
    BY <2>3, <2>4
<1>8. CASE RestartAlerts
  <2>1. /\ throttle' = [i \in RowIds |-> Never] /\ quietFor' = [i \in RowIds |-> Never]
        /\ hotFor' = [i \in RowIds |-> 0] /\ pass' = NoPass
        /\ rows' = rows /\ monitored' = monitored
    BY <1>8 DEF RestartAlerts
  <2>2. AlertTypes'
    BY <2>1 DEF AlertTypes, Age
  <2>3. QuietInv' /\ HotInv'
    BY <2>1 DEF QuietInv, HotInv
  <2> QED
    BY <2>2, <2>3
<1>9. CASE AlertTick
  <2>1. /\ pass = NoPass /\ pass' = [NoPass EXCEPT !.at = "due"]
        /\ throttle' = [i \in RowIds |-> Aged(throttle[i])]
        /\ quietFor' = [i \in RowIds |-> Aged(quietFor[i])]
        /\ rows' = rows /\ monitored' = monitored /\ Watched' = Watched
        /\ hotFor' = [i \in RowIds |-> IF i \in Watched /\ hotFor[i] <= Longest
                                       THEN hotFor[i] + 1 ELSE hotFor[i]]
    BY <1>9 DEF AlertTick, Watched
  <2>2. pass'.at = "due" /\ pass'.todo = {} /\ pass'.hot = {}
    BY <2>1 DEF NoPass
  <2>3. \A i \in RowIds : throttle[i] \in Age /\ quietFor[i] \in Age /\ hotFor[i] \in 0..Longest
    BY DEF AlertTypes
  <2>4. QuietInv'
    BY <2>1, <2>2, <2>3 DEF QuietInv, InSight
  <2>5. ASSUME NEW i \in RowIds
        PROVE  hotFor'[i] <= throttle'[i] /\ hotFor'[i] <= Window[i] /\ hotFor'[i] \in 0..Longest
    <3>1. i \in Watched => hotFor[i] < Window[i]
      BY <2>1 DEF HotInv
    <3>2. hotFor[i] <= throttle[i] /\ hotFor[i] <= Window[i]
      BY DEF HotInv
    <3>3. throttle'[i] = Aged(throttle[i])
      BY <2>1
    <3>4. hotFor'[i] = hotFor[i] \/ (i \in Watched /\ hotFor'[i] = hotFor[i] + 1)
      BY <2>1
    <3> QED
      BY <2>3, <3>1, <3>2, <3>3, <3>4 DEF Age, Aged
  <2>6. HotInv'
    BY <2>1, <2>2, <2>5 DEF HotInv
  <2>7. AlertTypes'
    <3>1. throttle' \in [RowIds -> Age] /\ quietFor' \in [RowIds -> Age]
      BY <2>1, <2>3
    <3>2. hotFor' \in [RowIds -> 0..Longest]
      BY <2>1, <2>5
    <3> QED
      BY <2>1, <3>1, <3>2 DEF AlertTypes, NoPass
  <2> QED
    BY <2>4, <2>6, <2>7
<1>10. CASE UNCHANGED alertVars
  BY <1>10 DEF alertVars, AlertTypes, QuietInv, HotInv, InSight, Watched
<1> QED
  BY <1>1, <1>2, <1>3, <1>4, <1>5, <1>6, <1>7, <1>8, <1>9, <1>10 DEF AlertNext

(* Whatever rows come, go and are evicted, no row that stays is alerted     *)
(* twice within its window (AlertingService.check_alerts, its throttle).    *)
THEOREM NoSecondAlert == AlertSpec => []Throttled
<1>1. AlertInv => Throttled
  BY Ages DEF AlertInv, AlertTypes, Age, Throttled
<1> QED
  BY AlertInvInit, AlertInvStep, <1>1, PTL DEF AlertSpec

(* And no row that every pass finds hot waits longer than its window, also  *)
(* where its id, and so its throttle, was another's.                        *)
THEOREM NoLateAlert == AlertSpec => []AlertedInTime
<1>1. AlertInv => AlertedInTime
  BY DEF AlertInv, HotInv, AlertedInTime
<1> QED
  BY AlertInvInit, AlertInvStep, <1>1, PTL DEF AlertSpec

(* The throttle of a row is an age, and a pass looks only at rows.          *)
THEOREM AlertsStayTyped == AlertSpec => []AlertTypeOK
<1>1. AlertInv => AlertTypeOK
  BY Ages DEF AlertInv, AlertTypes, Age, AlertTypeOK
<1> QED
  BY AlertInvInit, AlertInvStep, <1>1, PTL DEF AlertSpec

-----------------------------------------------------------------------------
(* AnalyticsCaches. *)

AnalyticsSpec == AnalyticsInit /\ [][AnalyticsNext]_analyticsVars

ReaderType == [at : {"idle", "reading", "rows", "series", "risk"}, risk : BOOLEAN,
               since : 0..Budget, series : 0..Budget, miss : Nat, raced : BOOLEAN]
EntryType == [age : Nat, miss : Nat, raced : BOOLEAN]

(* What a request misses is at most as old as the request, until it takes a *)
(* series from the cache, which has missed it for as long as it was served. *)
ReaderOK(x) ==
  /\ x \in ReaderType /\ x.series <= x.since
  /\ x.at \in {"idle", "reading"} => x.miss = NothingMissed
  /\ x.at \in {"rows", "series"} /\ x.miss # NothingMissed => x.miss <= x.since
  /\ x.at = "risk" /\ x.miss # NothingMissed => x.miss <= x.since + SeriesTTL - 1 + Budget

(* What an entry misses is older than its date by at most that much. *)
EntryOK(e, name) ==
  /\ e \in EntryType
  /\ e.miss # NothingMissed =>
       e.miss <= e.age + IF name = "series" THEN Budget ELSE SeriesTTL - 1 + Budget

(* While no write waits for its invalidation, whoever misses one was under  *)
(* way at an invalidation.                                                  *)
RacedOK(x) == ~writing /\ x.miss # NothingMissed => x.raced

Names == {"series", "risk"}

CacheInv ==
  /\ reader \in [Readers -> ReaderType] /\ stored \in [Names -> EntryType]
  /\ writing \in BOOLEAN
  /\ \A r \in Readers : ReaderOK(reader[r]) /\ RacedOK(reader[r])
  /\ \A n \in Names : EntryOK(stored[n], n) /\ RacedOK(stored[n])

LEMMA Bounds ==
  /\ SeriesTTL \in Nat /\ RiskTTL \in Nat /\ Budget \in Nat
  /\ SeriesTTL > 0 /\ RiskTTL > 0
  /\ OldestMiss \in Nat /\ NothingMissed \in Nat /\ NothingMissed = OldestMiss + 1
  /\ OldestMiss = RiskTTL + SeriesTTL + Budget
  BY AnalyticsAssumption DEF AnalyticsAssumption, OldestMiss, NothingMissed

LEMMA WorseIsOne == \A a, b : Worse(a, b) = a \/ Worse(a, b) = b
  BY DEF Worse

LEMMA LaterBounds ==
  \A n \in Nat : /\ Later(n) \in Nat
                 /\ Later(n) = NothingMissed <=> n = NothingMissed
                 /\ Later(n) <= n + 1
  BY Bounds DEF Later

LEMMA NoneOK ==
  /\ NoReader \in ReaderType /\ NoEntry \in EntryType
  /\ NoReader.miss = NothingMissed /\ NoEntry.miss = NothingMissed
  /\ ReaderOK(NoReader) /\ \A n \in Names : EntryOK(NoEntry, n)
  BY Bounds DEF NoReader, NoEntry, ReaderType, EntryType, ReaderOK, EntryOK

(* What the steps do to a request and to an entry, field by field. *)
LEMMA SeriesAsked ==
  ASSUME NEW x \in ReaderType, NEW y, y = [x EXCEPT !.at = "series", !.series = 0]
  PROVE  /\ y \in ReaderType /\ y.at = "series" /\ y.series = 0
         /\ y.since = x.since /\ y.miss = x.miss /\ y.raced = x.raced
<1> DEFINE zero == 0
<1>1. zero \in 0..Budget
  BY Bounds
<1> HIDE DEF zero
<1>2. y = [x EXCEPT !.at = "series", !.series = zero]
  BY DEF zero
<1>3. /\ y \in ReaderType /\ y.at = "series" /\ y.series = zero
      /\ y.since = x.since /\ y.miss = x.miss /\ y.raced = x.raced
  BY <1>1, <1>2 DEF ReaderType
<1> QED
  BY <1>3 DEF zero

LEMMA ReaderAges ==
  ASSUME NEW x \in ReaderType, x.since < Budget, x.series <= x.since
  PROVE  LET y == OlderReader(x)
         IN  /\ y \in ReaderType /\ y.at = x.at /\ y.since = x.since + 1
             /\ y.series = x.series + 1 /\ y.miss = Later(x.miss) /\ y.raced = x.raced
<1> DEFINE since == x.since + 1
           series == x.series + 1
           miss == Later(x.miss)
           y == OlderReader(x)
<1>1. since \in 0..Budget /\ series \in 0..Budget /\ miss \in Nat
  BY Bounds, LaterBounds DEF ReaderType
<1>2. y = [x EXCEPT !.since = since, !.series = series, !.miss = miss]
  BY DEF OlderReader
<1> HIDE DEF since, series, miss, y
<1>3. /\ y \in ReaderType /\ y.at = x.at /\ y.since = since /\ y.series = series
      /\ y.miss = miss /\ y.raced = x.raced
  BY <1>1, <1>2 DEF ReaderType
<1> QED
  BY <1>3 DEF since, series, miss, y

LEMMA FigureAges ==
  ASSUME NEW e \in EntryType
  PROVE  LET y == OlderFigure(e)
         IN  /\ y \in EntryType /\ y.age = e.age + 1
             /\ y.miss = Later(e.miss) /\ y.raced = e.raced
<1> DEFINE age == e.age + 1
           miss == Later(e.miss)
           y == OlderFigure(e)
<1>1. age \in Nat /\ miss \in Nat
  BY LaterBounds DEF EntryType
<1>2. y = [e EXCEPT !.age = age, !.miss = miss]
  BY DEF OlderFigure
<1> HIDE DEF age, miss, y
<1>3. y \in EntryType /\ y.age = age /\ y.miss = miss /\ y.raced = e.raced
  BY <1>1, <1>2 DEF EntryType
<1> QED
  BY <1>3 DEF age, miss, y

LEMMA CacheInvInit == AnalyticsInit => CacheInv
<1> SUFFICES ASSUME AnalyticsInit PROVE CacheInv
  OBVIOUS
<1>1. \A r \in Readers : reader[r] = NoReader
  BY DEF AnalyticsInit
<1>2. \A n \in Names : stored[n] = NoEntry
  BY DEF AnalyticsInit, Names
<1>3. \A x : x.miss = NothingMissed => RacedOK(x)
  BY DEF RacedOK
<1> QED
  BY <1>1, <1>2, <1>3, NoneOK DEF CacheInv, AnalyticsInit, Names

(* A step of one request that leaves the caches alone, or stores one entry. *)
LEMMA OneReader ==
  ASSUME CacheInv, NEW r \in Readers, NEW new, ReaderGoes(r, new), writing' = writing,
         ReaderOK(new), RacedOK(new),
         \/ stored' = stored
         \/ \E n \in Names : \E e :
              stored' = [stored EXCEPT ![n] = e] /\ EntryOK(e, n) /\ RacedOK(e)
  PROVE  CacheInv'
<1>1. /\ reader' \in [Readers -> ReaderType] /\ reader'[r] = new
      /\ \A q \in Readers : q # r => reader'[q] = reader[q]
  BY DEF CacheInv, ReaderGoes, ReaderOK
<1>2. \A q \in Readers : ReaderOK(reader'[q]) /\ RacedOK(reader'[q])
  BY <1>1 DEF CacheInv
<1>3. /\ stored' \in [Names -> EntryType]
      /\ \A n \in Names : EntryOK(stored'[n], n) /\ RacedOK(stored'[n])
  BY DEF CacheInv, EntryOK
<1>4. \A x : RacedOK(x) => (~writing' /\ x.miss # NothingMissed => x.raced)
  BY DEF RacedOK
<1> QED
  BY <1>1, <1>2, <1>3, <1>4 DEF CacheInv, RacedOK, ReaderOK, EntryOK

LEMMA CacheInvStep == CacheInv /\ [AnalyticsNext]_analyticsVars => CacheInv'
<1> SUFFICES ASSUME CacheInv, [AnalyticsNext]_analyticsVars PROVE CacheInv'
  OBVIOUS
<1>0. /\ \A r \in Readers : reader[r] \in ReaderType /\ ReaderOK(reader[r]) /\ RacedOK(reader[r])
      /\ \A n \in Names : stored[n] \in EntryType /\ EntryOK(stored[n], n) /\ RacedOK(stored[n])
      /\ {"series", "risk"} \subseteq Names /\ RacedOK(NoReader) /\ RacedOK(NoEntry)
      /\ DOMAIN stored = Names
  BY NoneOK DEF CacheInv, Names, RacedOK
<1>1. ASSUME NEW r \in Readers, NEW risk \in BOOLEAN, AskFigures(r, risk) PROVE CacheInv'
  <2> DEFINE new == [NoReader EXCEPT !.at = "reading", !.risk = risk]
  <2>1. ReaderOK(new) /\ RacedOK(new)
    BY <1>0, NoneOK DEF ReaderOK, ReaderType, RacedOK, NoReader
  <2>2. CASE UNCHANGED reader
    BY <1>1, <2>2 DEF AskFigures, CacheInv, RacedOK
  <2>3. CASE ReaderGoes(r, new)
    BY <1>1, <2>1, <2>3, OneReader DEF AskFigures
  <2> QED
    BY <1>1, <2>2, <2>3 DEF AskFigures
<1>2. ASSUME NEW r \in Readers, ReadRows(r) PROVE CacheInv'
  <2> DEFINE new == [reader[r] EXCEPT !.at = IF reader[r].risk THEN "rows" ELSE "series"]
  <2>1. ReaderOK(new) /\ RacedOK(new)
    BY <1>0, <1>2, Bounds DEF ReadRows, ReaderOK, ReaderType, RacedOK
  <2> QED
    BY <1>2, <2>1, OneReader DEF ReadRows
<1>3. ASSUME NEW r \in Readers, AskSeries(r) PROVE CacheInv'
  <2> DEFINE got == [reader[r] EXCEPT !.at = "risk",
                                      !.miss = Worse(@, stored["series"].miss),
                                      !.raced = @ \/ stored["series"].raced]
             new == [reader[r] EXCEPT !.at = "series", !.series = 0]
  <2>1. ReaderOK(new) /\ RacedOK(new)
    <3>1. reader[r].at = "rows"
      BY <1>3 DEF AskSeries
    <3>2. /\ new \in ReaderType /\ new.at = "series" /\ new.series = 0
          /\ new.since = reader[r].since /\ new.miss = reader[r].miss
          /\ new.raced = reader[r].raced
      BY <1>0, SeriesAsked
    <3>3. ReaderOK(new)
      BY <1>0, <3>1, <3>2 DEF ReaderOK, ReaderType
    <3>4. RacedOK(new)
      BY <1>0, <3>2 DEF RacedOK
    <3> QED
      BY <3>3, <3>4
  <2>2. CASE IsServed("series") /\ ReaderGoes(r, got)
    <3> DEFINE e == stored["series"]
               worse == Worse(reader[r].miss, e.miss)
    <3>1. worse = reader[r].miss \/ worse = e.miss
      BY WorseIsOne
    <3>2. e.miss # NothingMissed => e.miss <= SeriesTTL - 1 + Budget
      BY <1>0, <2>2, Bounds DEF IsServed, FigureTTL, EntryOK, EntryType
    <3>3. reader[r].miss # NothingMissed => reader[r].miss <= reader[r].since
      BY <1>0, <1>3 DEF AskSeries, ReaderOK
    <3>4. /\ got.at = "risk" /\ got.miss = worse /\ got.since = reader[r].since
          /\ got.series = reader[r].series
          /\ got.raced = (reader[r].raced \/ e.raced)
          /\ got \in ReaderType
      <4>1. worse \in Nat
        BY <1>0, <3>1 DEF ReaderType, EntryType
      <4>2. (reader[r].raced \/ e.raced) \in BOOLEAN
        BY <1>0 DEF ReaderType, EntryType
      <4> HIDE DEF worse
      <4> QED
        BY <1>0, <4>1, <4>2 DEF ReaderType, worse
    <3>5. worse # NothingMissed => worse <= reader[r].since + SeriesTTL - 1 + Budget
      BY <1>0, <3>1, <3>2, <3>3, Bounds DEF ReaderType, EntryType
    <3>6. ReaderOK(got)
      BY <1>0, <3>4, <3>5 DEF ReaderOK
    <3>7. RacedOK(got)
      BY <1>0, <3>1, <3>4 DEF RacedOK
    <3> QED
      BY <1>3, <2>2, <3>6, <3>7, OneReader DEF AskSeries
  <2>3. CASE ReaderGoes(r, new)
    BY <1>3, <2>1, <2>3, OneReader DEF AskSeries
  <2> QED
    BY <1>3, <2>2, <2>3 DEF AskSeries
<1>4. ASSUME NEW r \in Readers, NEW name \in Names, reader[r].at = name
      PROVE  EntryOK(CacheEntry(r, name), name) /\ RacedOK(CacheEntry(r, name))
  BY <1>0, <1>4, Bounds
  DEF CacheEntry, Stamp, EntryOK, EntryType, ReaderOK, ReaderType, RacedOK, Names
<1>5. ASSUME NEW r \in Readers, reader[r].at = "series"
      PROVE  LET new == IF reader[r].risk THEN [reader[r] EXCEPT !.at = "risk"] ELSE NoReader
             IN  ReaderOK(new) /\ RacedOK(new)
  <2>1. ReaderOK([reader[r] EXCEPT !.at = "risk"]) /\ RacedOK([reader[r] EXCEPT !.at = "risk"])
    BY <1>0, <1>5, Bounds DEF ReaderOK, ReaderType, RacedOK
  <2> QED
    BY <1>0, <2>1, NoneOK
<1>6. ASSUME NEW r \in Readers, StoreSeries(r) PROVE CacheInv'
  BY <1>0, <1>4, <1>5, <1>6, OneReader DEF StoreSeries
<1>7. ASSUME NEW r \in Readers, NoPositions(r) PROVE CacheInv'
  BY <1>5, <1>7, OneReader DEF NoPositions
<1>8. ASSUME NEW r \in Readers, Dismiss(r) PROVE CacheInv'
  BY <1>0, <1>8, NoneOK, OneReader DEF Dismiss
<1>9. ASSUME NEW r \in Readers, StoreRisk(r) PROVE CacheInv'
  BY <1>0, <1>4, <1>9, NoneOK, OneReader DEF StoreRisk
<1>10. CASE CommitWrite
  <2>1. ASSUME NEW n \in Names PROVE EntryOK(stored'[n], n)
    <3>1. CASE stored'[n] = NoEntry
      BY <2>1, <3>1, NoneOK
    <3>2. CASE stored'[n] = [stored[n] EXCEPT !.miss = Worse(@, 0)]
      <4>1. Worse(stored[n].miss, 0) = stored[n].miss \/ Worse(stored[n].miss, 0) = 0
        BY WorseIsOne
      <4> QED
        BY <1>0, <3>2, <4>1, Bounds DEF EntryOK, EntryType
    <3> QED
      BY <1>0, <1>10, <3>1, <3>2 DEF CommitWrite
  <2>2. ASSUME NEW r \in Readers PROVE ReaderOK(reader'[r])
    <3>1. CASE reader'[r] = reader[r]
      BY <1>0, <3>1
    <3>2. CASE /\ reader'[r] = [reader[r] EXCEPT !.miss = Worse(@, 0)]
               /\ reader[r].at \notin {"idle", "reading"}
      <4>1. Worse(reader[r].miss, 0) = reader[r].miss \/ Worse(reader[r].miss, 0) = 0
        BY WorseIsOne
      <4> QED
        BY <1>0, <3>2, <4>1, Bounds DEF ReaderOK, ReaderType
    <3> QED
      BY <1>10, <3>1, <3>2 DEF CommitWrite
  <2>3. /\ writing' = TRUE
        /\ reader' \in [Readers -> ReaderType] /\ stored' \in [Names -> EntryType]
    <3>1. \A n \in Names : stored'[n] \in EntryType
      BY <2>1 DEF EntryOK
    <3>2. \A r \in Readers : reader'[r] \in ReaderType
      BY <2>2 DEF ReaderOK
    <3> QED
      BY <1>0, <1>10, <3>1, <3>2 DEF CommitWrite
  <2> QED
    BY <2>1, <2>2, <2>3 DEF CacheInv, RacedOK, ReaderOK, EntryOK
<1>11. CASE InvalidateUserCaches
  <2>1. /\ stored' = [n \in Names |-> NoEntry] /\ writing' = FALSE
    BY <1>0, <1>11 DEF InvalidateUserCaches, Invalidated
  <2>2. ASSUME NEW r \in Readers
        PROVE  /\ ReaderOK(reader'[r])
               /\ reader'[r].miss # NothingMissed => reader'[r].raced
    <3>1. CASE reader'[r] = reader[r] /\ reader[r].miss = NothingMissed
      BY <1>0, <3>1
    <3>2. CASE reader'[r] = [reader[r] EXCEPT !.raced = TRUE]
      BY <1>0, <3>2 DEF ReaderOK, ReaderType
    <3> QED
      BY <1>11, <3>1, <3>2 DEF InvalidateUserCaches
  <2>3. reader' \in [Readers -> ReaderType]
    <3>1. \A r \in Readers : reader'[r] \in ReaderType
      BY <2>2 DEF ReaderOK
    <3> QED
      BY <1>11, <3>1 DEF InvalidateUserCaches
  <2> QED
    BY <2>1, <2>2, <2>3, NoneOK DEF CacheInv, RacedOK, ReaderOK, EntryOK
<1>12. CASE AnalyticsTick
  <2>1. ASSUME NEW n \in Names PROVE EntryOK(stored'[n], n) /\ RacedOK(stored'[n])
    <3>1. CASE stored'[n] = NoEntry
      BY <1>0, <2>1, <3>1, NoneOK
    <3>2. CASE stored'[n] = OlderFigure(stored[n])
      <4>1. /\ stored'[n] \in EntryType
            /\ stored'[n].age = stored[n].age + 1 /\ stored'[n].raced = stored[n].raced
            /\ stored'[n].miss = Later(stored[n].miss)
        BY <1>0, <3>2, FigureAges
      <4>2. /\ stored'[n].miss <= stored[n].miss + 1
            /\ stored'[n].miss = NothingMissed <=> stored[n].miss = NothingMissed
        BY <1>0, <4>1, LaterBounds DEF EntryType
      <4>3. EntryOK(stored'[n], n)
        BY <1>0, <4>1, <4>2, Bounds DEF EntryOK, EntryType
      <4>4. RacedOK(stored'[n])
        BY <1>0, <4>1, <4>2 DEF RacedOK
      <4> QED
        BY <4>3, <4>4
    <3> QED
      BY <1>0, <1>12, <3>1, <3>2 DEF AnalyticsTick
  <2>2. ASSUME NEW r \in Readers PROVE ReaderOK(reader'[r]) /\ RacedOK(reader'[r])
    <3>1. CASE reader'[r] = reader[r]
      BY <1>0, <3>1
    <3>2. CASE reader'[r] = OlderReader(reader[r]) /\ reader[r].since < Budget
      <4>1. /\ reader'[r] \in ReaderType
            /\ reader'[r].at = reader[r].at /\ reader'[r].since = reader[r].since + 1
            /\ reader'[r].series = reader[r].series + 1 /\ reader'[r].raced = reader[r].raced
            /\ reader'[r].miss = Later(reader[r].miss)
        BY <1>0, <3>2, ReaderAges DEF ReaderOK
      <4>2. /\ reader'[r].miss <= reader[r].miss + 1
            /\ reader'[r].miss = NothingMissed <=> reader[r].miss = NothingMissed
        BY <1>0, <4>1, LaterBounds DEF ReaderType
      <4>3. ReaderOK(reader'[r])
        BY <1>0, <4>1, <4>2, Bounds DEF ReaderOK, ReaderType
      <4>4. RacedOK(reader'[r])
        BY <1>0, <4>1, <4>2 DEF RacedOK
      <4> QED
        BY <4>3, <4>4
    <3> QED
      BY <1>12, <3>1, <3>2 DEF AnalyticsTick
  <2>3. /\ writing' = writing
        /\ reader' \in [Readers -> ReaderType] /\ stored' \in [Names -> EntryType]
    <3>1. \A n \in Names : stored'[n] \in EntryType
      BY <2>1 DEF EntryOK
    <3>2. \A r \in Readers : reader'[r] \in ReaderType
      BY <2>2 DEF ReaderOK
    <3> QED
      BY <1>0, <1>12, <3>1, <3>2 DEF AnalyticsTick
  <2> QED
    BY <2>1, <2>2, <2>3 DEF CacheInv, RacedOK, ReaderOK, EntryOK
<1>13. CASE UNCHANGED analyticsVars
  BY <1>13 DEF analyticsVars, CacheInv, RacedOK
<1> QED
  BY <1>1, <1>2, <1>3, <1>6, <1>7, <1>8, <1>9, <1>10, <1>11, <1>12, <1>13 DEF AnalyticsNext

(* However computations, writes and invalidations interleave, what the      *)
(* caches serve misses no write older than the lifetimes and the wait.      *)
THEOREM ServedIsRecent == AnalyticsSpec => []StalenessBounded
<1>1. CacheInv => StalenessBounded
  BY Bounds DEF CacheInv, StalenessBounded, IsServed, FigureTTL, EntryOK, EntryType, Names
<1> QED
  BY CacheInvInit, CacheInvStep, <1>1, PTL DEF AnalyticsSpec

(* An answered write is hidden only by a computation that was under way     *)
(* when the caches were invalidated.                                        *)
THEOREM WritesShow == AnalyticsSpec => []WritesShowUnlessRaced
<1>1. CacheInv => WritesShowUnlessRaced
  BY DEF CacheInv, WritesShowUnlessRaced, RacedOK, Names
<1> QED
  BY CacheInvInit, CacheInvStep, <1>1, PTL DEF AnalyticsSpec

-----------------------------------------------------------------------------
(* An entry is as old as a lifetime, or as the computation that stored it.  *)
AgeInv == \A n \in Names : stored[n].age \in 0..(RiskTTL + Budget) \union {NothingMissed}

LEMMA AgeInvStep == CacheInv /\ AgeInv /\ [AnalyticsNext]_analyticsVars => AgeInv'
<1> SUFFICES ASSUME CacheInv, AgeInv, [AnalyticsNext]_analyticsVars PROVE AgeInv'
  OBVIOUS
<1> DEFINE Good(n) == n \in 0..(RiskTTL + Budget) \union {NothingMissed}
<1>0. /\ stored \in [Names -> EntryType] /\ \A r \in Readers : reader[r] \in ReaderType
      /\ Good(NoEntry.age) /\ \A n \in Names : Good(stored[n].age)
      /\ {"series", "risk"} = Names /\ DOMAIN stored = Names
  BY DEF CacheInv, AgeInv, Names, NoEntry
<1>1. ASSUME NEW r \in Readers, NEW name \in Names
      PROVE  Good(CacheEntry(r, name).age)
  BY <1>0, Bounds DEF CacheEntry, Stamp, ReaderType
<1>2. CASE stored' = stored
  BY <1>2 DEF AgeInv
<1>3. ASSUME NEW r \in Readers, NEW name \in Names,
             stored' = [stored EXCEPT ![name] = CacheEntry(r, name)]
      PROVE  AgeInv'
  BY <1>0, <1>1, <1>3 DEF AgeInv
<1>4. CASE CommitWrite
  <2>1. ASSUME NEW n \in Names PROVE stored'[n].age = stored[n].age
    BY <1>0, <1>4 DEF CommitWrite, EntryType
  <2> QED
    BY <2>1 DEF AgeInv
<1>5. CASE InvalidateUserCaches
  BY <1>0, <1>5 DEF InvalidateUserCaches, Invalidated, AgeInv
<1>6. CASE AnalyticsTick
  <2>1. ASSUME NEW n \in Names PROVE Good(stored'[n].age)
    <3>1. CASE stored'[n] = NoEntry
      BY <1>0, <3>1
    <3>2. CASE IsServed(n) /\ stored'[n] = OlderFigure(stored[n])
      <4>1. stored[n].age < RiskTTL /\ stored[n].age \in Nat
        BY <1>0, <3>2, AnalyticsAssumption DEF IsServed, FigureTTL, EntryType
      <4>2. stored'[n].age = stored[n].age + 1
        BY <1>0, <3>2, FigureAges
      <4> QED
        BY <4>1, <4>2, Bounds
    <3> QED
      BY <1>0, <1>6, <3>1, <3>2 DEF AnalyticsTick
  <2> QED
    BY <2>1 DEF AgeInv
<1>7. CASE UNCHANGED analyticsVars
  BY <1>2, <1>7 DEF analyticsVars
<1>8. CASE \E r \in Readers : \/ AskFigures(r, TRUE) \/ AskFigures(r, FALSE) \/ ReadRows(r)
                              \/ AskSeries(r) \/ NoPositions(r) \/ Dismiss(r)
  BY <1>2, <1>8 DEF AskFigures, ReadRows, AskSeries, NoPositions, Dismiss
<1>9. CASE \E r \in Readers : StoreSeries(r) \/ StoreRisk(r)
  BY <1>0, <1>3, <1>9 DEF StoreSeries, StoreRisk
<1> QED
  BY <1>4, <1>5, <1>6, <1>7, <1>8, <1>9 DEF AnalyticsNext

(* No computation outlives its wait, and no entry its lifetime by more than *)
(* the wait it was computed in.                                             *)
THEOREM FiguresStayTyped == AnalyticsSpec => []AnalyticsTypeOK
<1>1. AnalyticsInit => AgeInv
  BY DEF AnalyticsInit, AgeInv, Names, NoEntry
<1>2. CacheInv /\ AgeInv => AnalyticsTypeOK
  BY DEF CacheInv, AgeInv, AnalyticsTypeOK, ReaderType, Names
<1> QED
  BY CacheInvInit, CacheInvStep, <1>1, AgeInvStep, <1>2, PTL DEF AnalyticsSpec

-----------------------------------------------------------------------------
(* AdviceDesk. *)

DeskSpec == DeskInit /\ [][DeskNext]_deskVars

-----------------------------------------------------------------------------
(* The types of the variables that the invariants below speak of.           *)

DeskState == [op : {"none", "generate", "single", "follow"},
              at : {"idle", "news", "read", "key", "queue", "gemini", "final", "deep",
                    "put", "ended"},
              todo : SUBSET (Accounts \union {0}), new : SUBSET Advice,
              row : Advice, set : BOOLEAN]

TypeInv ==
  /\ enrolled \subseteq Accounts /\ advices \subseteq Advice
  /\ desk \in [Desks -> DeskState]
  /\ answers \in [Desks -> [Accounts -> SUBSET Markets]]

LEMMA OldAdviceType == OldAdvice \in Advice
  BY DeskAssumption DEF OldAdvice, Advice, Markets

\* The rows an answer brings are advices.
LEMMA AnswerRows ==
  ASSUME NEW d \in Desks, NEW a \in Accounts, NEW markets \in SUBSET Markets
  PROVE  {[run |-> d, owner |-> a, market |-> m] : m \in markets} \subseteq Advice
  BY DEF Advice

\* The accounts that a generation settles on, and what becomes of its desk.
LEMMA Resolved ==
  ASSUME TypeInv, NEW d \in Desks, NEW active \in SUBSET Accounts, ResolveUsers(d, active)
  PROVE  /\ desk[d].at = "news" /\ desk[d].op = "generate"
         /\ \/ Sends(d, Closed) /\ UNCHANGED session
            \/ \E chosen \in SUBSET Accounts :
                 /\ Sends(d, [desk[d] EXCEPT !.at = "read", !.todo = chosen])
                 /\ session' = session \union {d}
         /\ UNCHANGED <<enrolled, advices, followed, writer, answers>>
<1> DEFINE chosen == IF desk[d].todo = {0} THEN active ELSE desk[d].todo \intersect enrolled
<1>1. chosen \in SUBSET Accounts
  BY DEF TypeInv
<1>2. CASE chosen = {}
  BY <1>2 DEF ResolveUsers, Sits
<1>3. CASE chosen # {}
  <2>1. /\ Sends(d, [desk[d] EXCEPT !.at = "read", !.todo = chosen])
        /\ session' = session \union {d}
    BY <1>3 DEF ResolveUsers
  <2> QED
    BY <1>1, <2>1 DEF ResolveUsers, Sits
<1> QED
  BY <1>2, <1>3

LEMMA TypeInvInit == DeskInit => TypeInv
  BY OldAdviceType, DeskAssumption DEF DeskInit, TypeInv, DeskState, Unused

LEMMA TypeInvStep == TypeInv /\ [DeskNext]_deskVars => TypeInv'
<1> SUFFICES ASSUME TypeInv, [DeskNext]_deskVars PROVE TypeInv'
  OBVIOUS
<1> USE DEF TypeInv, DeskState
<1>1. ASSUME NEW d \in Desks, NEW a \in Accounts \union {0}, GenerateAdvice(d, a)
      PROVE  TypeInv'
  BY <1>1, OldAdviceType, AnswerRows DEF GenerateAdvice, Unused, Sends, Sits
<1>2. ASSUME NEW d \in Desks, NEW active \in SUBSET Accounts, ResolveUsers(d, active)
      PROVE  TypeInv'
  <2>1. /\ desk[d].at = "news" /\ desk[d].op = "generate"
        /\ UNCHANGED <<enrolled, advices, followed, writer, answers>>
    BY Resolved, <1>2
  <2>2. CASE Sends(d, Closed) /\ UNCHANGED session
    BY <2>1, <2>2, OldAdviceType DEF Sends, Closed, Unused
  <2>3. ASSUME NEW chosen \in SUBSET Accounts,
               Sends(d, [desk[d] EXCEPT !.at = "read", !.todo = chosen]),
               session' = session \union {d}
        PROVE  TypeInv'
    BY <2>1, <2>3 DEF Sends
  <2> QED
    BY <1>2, <2>2, <2>3, Resolved
<1>3. ASSUME NEW d \in Desks, ReadAccount(d)
      PROVE  TypeInv'
  BY <1>3, OldAdviceType, AnswerRows DEF ReadAccount, MovesTo, Sends, Sits
<1>4. ASSUME NEW d \in Desks, CommitBeforeGemini(d)
      PROVE  TypeInv'
  <2>1. advices' \subseteq Advice
    BY <1>4 DEF CommitBeforeGemini, Committed
  <2>2. desk[d].new \ advices' \in SUBSET Advice
    OBVIOUS
  <2>3. desk' \in [Desks -> DeskState]
    BY <1>4, <2>2 DEF CommitBeforeGemini, Sends
  <2> QED
    BY <1>4, <2>1, <2>3 DEF CommitBeforeGemini
<1>5. ASSUME NEW d \in Desks, CallGemini(d)
      PROVE  TypeInv'
  BY <1>5, OldAdviceType, AnswerRows DEF CallGemini, MovesTo, Sends, Sits
<1>6. ASSUME NEW d \in Desks, NEW a \in Accounts, NEW markets \in SUBSET Markets, Answer(d, a, markets)
      PROVE  TypeInv'
  <2> DEFINE brought == {[run |-> d, owner |-> a, market |-> m] : m \in markets}
             next == IF desk[d].todo = {a} THEN "final" ELSE "read"
  <2>1. desk[d].new \union brought \in SUBSET Advice
    BY AnswerRows
  <2>2. next \in {"final", "read"} /\ desk[d].todo \ {a} \in SUBSET (Accounts \union {0})
    OBVIOUS
  <2> HIDE DEF brought, next
  <2>3. desk' = [desk EXCEPT ![d] = [desk[d] EXCEPT !.at = next, !.todo = desk[d].todo \ {a},
                                                    !.new = desk[d].new \union brought]]
    BY <1>6 DEF Answer, Sends, brought, next
  <2>4. desk' \in [Desks -> DeskState]
    <3> DEFINE seat == [desk[d] EXCEPT !.at = next, !.todo = desk[d].todo \ {a},
                                       !.new = desk[d].new \union brought]
    <3>1. seat \in DeskState
      BY <2>1, <2>2
    <3> QED
      BY <2>3, <3>1
  <2> QED
    BY <1>6, <2>4 DEF Answer
<1>7. ASSUME NEW d \in Desks, FinalCommit(d)
      PROVE  TypeInv'
  BY <1>7, OldAdviceType, AnswerRows DEF FinalCommit, Committed, Ends, Unused, Closed, Sends, Sits
<1>8. ASSUME NEW d \in Desks, AnalyzeSingleStock(d)
      PROVE  TypeInv'
  BY <1>8, OldAdviceType, AnswerRows DEF AnalyzeSingleStock, Unused, Sends, Sits
<1>9. ASSUME NEW d \in Desks, ReadPosition(d)
      PROVE  TypeInv'
  BY <1>9, OldAdviceType, AnswerRows DEF ReadPosition, MovesTo, Committed, Ends, Sends, Sits
<1>10. ASSUME NEW d \in Desks, ReadProfile(d)
      PROVE  TypeInv'
  BY <1>10, OldAdviceType, AnswerRows DEF ReadProfile, MovesTo, Sends, Sits
<1>11. ASSUME NEW d \in Desks, Reply(d)
      PROVE  TypeInv'
  BY <1>11, OldAdviceType, AnswerRows DEF Reply, Unused, Closed, Sends, Sits
<1>12. ASSUME NEW d \in Desks, Abandon(d)
      PROVE  TypeInv'
  BY <1>12, OldAdviceType, AnswerRows DEF Abandon, Ends, Unused, Closed, Sends, Sits
<1>13. ASSUME NEW d \in Desks, NEW r \in advices, ToggleFollow(d, r)
      PROVE  TypeInv'
  BY <1>13, OldAdviceType, AnswerRows DEF ToggleFollow, Unused, Sends, Sits
<1>14. ASSUME NEW d \in Desks, PutFollow(d)
      PROVE  TypeInv'
  BY <1>14, OldAdviceType, AnswerRows DEF PutFollow, Ends, Unused, Flagged, Sends, Sits
<1>15. ASSUME NEW a \in Accounts, DeleteUser(a)
      PROVE  TypeInv'
  BY <1>15 DEF DeleteUser
<1>16. CASE UNCHANGED deskVars
  BY <1>16 DEF deskVars
<1> QED
  BY <1>1, <1>2, <1>3, <1>4, <1>5, <1>6, <1>7, <1>8, <1>9, <1>10, <1>11, <1>12, <1>13, <1>14, <1>15, <1>16
  DEF DeskNext

-----------------------------------------------------------------------------
(* A desk that rests, or waits for something slow, has no transaction.      *)

Resting == {"idle", "news", "queue", "gemini", "ended"}

RestInv == \A d \in Desks : desk[d].at \in Resting => d \notin session /\ writer # d

LEMMA RestInvInit == DeskInit => RestInv
  BY DeskAssumption DEF DeskInit, RestInv

LEMMA RestInvStep == TypeInv /\ RestInv /\ [DeskNext]_deskVars => RestInv'
<1> SUFFICES ASSUME TypeInv, RestInv, [DeskNext]_deskVars PROVE RestInv'
  OBVIOUS
<1> USE DEF TypeInv, DeskState, RestInv, Resting
<1>1. ASSUME NEW d \in Desks, NEW a \in Accounts \union {0}, GenerateAdvice(d, a)
      PROVE  RestInv'
  BY <1>1, DeskAssumption DEF GenerateAdvice, Unused, Sends, Sits
<1>2. ASSUME NEW d \in Desks, NEW active \in SUBSET Accounts, ResolveUsers(d, active)
      PROVE  RestInv'
  <2>1. /\ desk[d].at = "news" /\ desk[d].op = "generate"
        /\ UNCHANGED <<enrolled, advices, followed, writer, answers>>
    BY Resolved, <1>2
  <2>2. CASE Sends(d, Closed) /\ UNCHANGED session
    BY <2>1, <2>2, OldAdviceType DEF Sends, Closed, Unused
  <2>3. ASSUME NEW chosen \in SUBSET Accounts,
               Sends(d, [desk[d] EXCEPT !.at = "read", !.todo = chosen]),
               session' = session \union {d}
        PROVE  RestInv'
    BY <2>1, <2>3 DEF Sends
  <2> QED
    BY <1>2, <2>2, <2>3, Resolved
<1>3. ASSUME NEW d \in Desks, ReadAccount(d)
      PROVE  RestInv'
  BY <1>3, DeskAssumption DEF ReadAccount, MovesTo, Sends, Sits
<1>4. ASSUME NEW d \in Desks, CommitBeforeGemini(d)
      PROVE  RestInv'
  BY <1>4, DeskAssumption DEF CommitBeforeGemini, Committed, Ends, Sends, Sits
<1>5. ASSUME NEW d \in Desks, CallGemini(d)
      PROVE  RestInv'
  BY <1>5, DeskAssumption DEF CallGemini, MovesTo, Sends, Sits
<1>6. ASSUME NEW d \in Desks, NEW a \in Accounts, NEW markets \in SUBSET Markets, Answer(d, a, markets)
      PROVE  RestInv'
  BY <1>6, DeskAssumption DEF Answer, Sends, Sits
<1>7. ASSUME NEW d \in Desks, FinalCommit(d)
      PROVE  RestInv'
  BY <1>7, DeskAssumption DEF FinalCommit, Committed, Ends, Unused, Closed, Sends, Sits
<1>8. ASSUME NEW d \in Desks, AnalyzeSingleStock(d)
      PROVE  RestInv'
  BY <1>8, DeskAssumption DEF AnalyzeSingleStock, Unused, Sends, Sits
<1>9. ASSUME NEW d \in Desks, ReadPosition(d)
      PROVE  RestInv'
  BY <1>9, DeskAssumption DEF ReadPosition, MovesTo, Committed, Ends, Sends, Sits
<1>10. ASSUME NEW d \in Desks, ReadProfile(d)
      PROVE  RestInv'
  BY <1>10, DeskAssumption DEF ReadProfile, MovesTo, Sends, Sits
<1>11. ASSUME NEW d \in Desks, Reply(d)
      PROVE  RestInv'
  BY <1>11, DeskAssumption DEF Reply, Unused, Closed, Sends, Sits
<1>12. ASSUME NEW d \in Desks, Abandon(d)
      PROVE  RestInv'
  BY <1>12, DeskAssumption DEF Abandon, Ends, Unused, Closed, Sends, Sits
<1>13. ASSUME NEW d \in Desks, NEW r \in advices, ToggleFollow(d, r)
      PROVE  RestInv'
  BY <1>13, DeskAssumption DEF ToggleFollow, Unused, Sends, Sits
<1>14. ASSUME NEW d \in Desks, PutFollow(d)
      PROVE  RestInv'
  BY <1>14, DeskAssumption DEF PutFollow, Ends, Unused, Flagged, Sends, Sits
<1>15. ASSUME NEW a \in Accounts, DeleteUser(a)
      PROVE  RestInv'
  BY <1>15 DEF DeleteUser
<1>16. CASE UNCHANGED deskVars
  BY <1>16 DEF deskVars
<1> QED
  BY <1>1, <1>2, <1>3, <1>4, <1>5, <1>6, <1>7, <1>8, <1>9, <1>10, <1>11, <1>12, <1>13, <1>14, <1>15, <1>16
  DEF DeskNext

(* Nothing slow is waited for inside a transaction (generate_advice and     *)
(* analyze_single_stock commit before they call Gemini, and read nothing    *)
(* between the news and the end of that read).                              *)
THEOREM SlowWaitsHoldNothing == DeskSpec => []WaitsOutsideTransactions
<1>1. RestInv => WaitsOutsideTransactions
  BY DEF RestInv, Resting, WaitsOutsideTransactions
<1> QED
  BY TypeInvInit, TypeInvStep, RestInvInit, RestInvStep, <1>1, PTL DEF DeskSpec

-----------------------------------------------------------------------------
(* What was answered for an account whose turn is over is in the session or *)
(* in the database, and before Gemini is called in the database; a desk     *)
(* that has asked nothing has no answers.                                   *)

NoAnswers(d) == \A a \in Accounts : answers[d][a] = {}
Answered(d, brought) ==
  \A a \in enrolled \ desk[d].todo : \A m \in answers[d][a] :
    [run |-> d, owner |-> a, market |-> m] \in brought

AnswerInv ==
  \A d \in Desks :
    /\ desk[d].at \in {"idle", "news", "put", "deep"} \/ desk[d].op \in {"single", "follow"}
         => NoAnswers(d)
    /\ desk[d].at \in {"read", "key", "final"} => Answered(d, advices \union desk[d].new)
    /\ desk[d].at \in {"queue", "gemini"} => Answered(d, advices)

LEMMA AnswerInvInit == DeskInit => AnswerInv
  BY DEF DeskInit, AnswerInv, NoAnswers, Unused

LEMMA AnswerInvStep == TypeInv /\ AnswerInv /\ [DeskNext]_deskVars => AnswerInv'
<1> SUFFICES ASSUME TypeInv, AnswerInv, [DeskNext]_deskVars PROVE AnswerInv'
  OBVIOUS
<1> USE DEF TypeInv, DeskState, AnswerInv, NoAnswers, Answered
<1>1. ASSUME NEW d \in Desks, NEW a \in Accounts \union {0}, GenerateAdvice(d, a)
      PROVE  AnswerInv'
  BY <1>1, DeskAssumption DEF GenerateAdvice, Unused, Sends, Sits
<1>2. ASSUME NEW d \in Desks, NEW active \in SUBSET Accounts, ResolveUsers(d, active)
      PROVE  AnswerInv'
  <2>1. /\ desk[d].at = "news" /\ desk[d].op = "generate"
        /\ UNCHANGED <<enrolled, advices, followed, writer, answers>>
    BY Resolved, <1>2
  <2>2. CASE Sends(d, Closed) /\ UNCHANGED session
    BY <2>1, <2>2, OldAdviceType DEF Sends, Closed, Unused
  <2>3. ASSUME NEW chosen \in SUBSET Accounts,
               Sends(d, [desk[d] EXCEPT !.at = "read", !.todo = chosen]),
               session' = session \union {d}
        PROVE  AnswerInv'
    BY <2>1, <2>3 DEF Sends
  <2> QED
    BY <1>2, <2>2, <2>3, Resolved
<1>3. ASSUME NEW d \in Desks, ReadAccount(d)
      PROVE  AnswerInv'
  BY <1>3, DeskAssumption DEF ReadAccount, MovesTo, Sends, Sits
<1>4. ASSUME NEW d \in Desks, CommitBeforeGemini(d)
      PROVE  AnswerInv'
  BY <1>4, DeskAssumption DEF CommitBeforeGemini, Committed, Ends, Sends, Sits
<1>5. ASSUME NEW d \in Desks, CallGemini(d)
      PROVE  AnswerInv'
  BY <1>5, DeskAssumption DEF CallGemini, MovesTo, Sends, Sits
<1>6. ASSUME NEW d \in Desks, NEW a \in Accounts, NEW markets \in SUBSET Markets, Answer(d, a, markets)
      PROVE  AnswerInv'
  BY <1>6, DeskAssumption DEF Answer, Sends, Sits
<1>7. ASSUME NEW d \in Desks, FinalCommit(d)
      PROVE  AnswerInv'
  BY <1>7, DeskAssumption DEF FinalCommit, Committed, Ends, Unused, Closed, Sends, Sits
<1>8. ASSUME NEW d \in Desks, AnalyzeSingleStock(d)
      PROVE  AnswerInv'
  BY <1>8, DeskAssumption DEF AnalyzeSingleStock, Unused, Sends, Sits
<1>9. ASSUME NEW d \in Desks, ReadPosition(d)
      PROVE  AnswerInv'
  BY <1>9, DeskAssumption DEF ReadPosition, MovesTo, Committed, Ends, Sends, Sits
<1>10. ASSUME NEW d \in Desks, ReadProfile(d)
      PROVE  AnswerInv'
  BY <1>10, DeskAssumption DEF ReadProfile, MovesTo, Sends, Sits
<1>11. ASSUME NEW d \in Desks, Reply(d)
      PROVE  AnswerInv'
  BY <1>11, DeskAssumption DEF Reply, Unused, Closed, Sends, Sits
<1>12. ASSUME NEW d \in Desks, Abandon(d)
      PROVE  AnswerInv'
  BY <1>12, DeskAssumption DEF Abandon, Ends, Unused, Closed, Sends, Sits
<1>13. ASSUME NEW d \in Desks, NEW r \in advices, ToggleFollow(d, r)
      PROVE  AnswerInv'
  BY <1>13, DeskAssumption DEF ToggleFollow, Unused, Sends, Sits
<1>14. ASSUME NEW d \in Desks, PutFollow(d)
      PROVE  AnswerInv'
  BY <1>14, DeskAssumption DEF PutFollow, Ends, Unused, Flagged, Sends, Sits
<1>15. ASSUME NEW a \in Accounts, DeleteUser(a)
      PROVE  AnswerInv'
  BY <1>15 DEF DeleteUser
<1>16. CASE UNCHANGED deskVars
  BY <1>16 DEF deskVars
<1> QED
  BY <1>1, <1>2, <1>3, <1>4, <1>5, <1>6, <1>7, <1>8, <1>9, <1>10, <1>11, <1>12, <1>13, <1>14, <1>15, <1>16
  DEF DeskNext

(* What the accounts before got is committed while the next one's advice is *)
(* asked for (the commit before Gemini in the loop of generate_advice).     *)
THEOREM EarlierAdviceCommitted == DeskSpec => []EarlierAdviceSafe
<1>1. TypeInv /\ AnswerInv => EarlierAdviceSafe
  BY DEF AnswerInv, Answered, EarlierAdviceSafe
<1> QED
  BY TypeInvInit, TypeInvStep, AnswerInvInit, AnswerInvStep, <1>1, PTL DEF DeskSpec

-----------------------------------------------------------------------------
(* What is flagged is there, transactions are the desks', and who is in     *)
(* Gemini has one of the permits.                                           *)
PermitInv ==
  /\ followed \subseteq advices /\ session \subseteq Desks /\ writer \in Desks \union {Unheld}
  /\ IsFiniteSet(InGemini) /\ Cardinality(InGemini) <= Permits

\* Nobody enters Gemini in a step that sends one desk elsewhere.
LEMMA LeavesGemini ==
  ASSUME PermitInv, desk \in [Desks -> DeskState], NEW d \in Desks, NEW seat, Sends(d, seat),
         seat.at # "gemini"
  PROVE  IsFiniteSet(InGemini') /\ Cardinality(InGemini') <= Permits
<1>1. InGemini' \subseteq InGemini
  BY DEF InGemini, Sends, Sits
<1>2. /\ IsFiniteSet(InGemini') /\ Cardinality(InGemini') <= Cardinality(InGemini)
      /\ Cardinality(InGemini') \in Nat /\ Cardinality(InGemini) \in Nat
  BY <1>1, FS_Subset, FS_CardinalityType DEF PermitInv
<1>3. Permits \in Nat
  BY DeskAssumption
<1> QED
  BY <1>2, <1>3 DEF PermitInv

LEMMA EntersGemini ==
  ASSUME PermitInv, TypeInv, NEW d \in Desks, CallGemini(d)
  PROVE  IsFiniteSet(InGemini') /\ Cardinality(InGemini') <= Permits
<1>1. d \notin InGemini /\ InGemini' = InGemini \union {d}
  BY DEF CallGemini, MovesTo, Sends, Sits, InGemini, TypeInv, DeskState
<1>2. /\ IsFiniteSet(InGemini') /\ Cardinality(InGemini') = Cardinality(InGemini) + 1
      /\ Cardinality(InGemini) \in Nat
  BY <1>1, FS_AddElement, FS_CardinalityType DEF PermitInv
<1>3. Permits \in Nat /\ Cardinality(InGemini) < Permits
  BY DeskAssumption DEF CallGemini, PermitFree
<1> QED
  BY <1>2, <1>3

LEMMA PermitInvInit == DeskInit => PermitInv
<1> SUFFICES ASSUME DeskInit PROVE PermitInv
  OBVIOUS
<1>1. InGemini = {}
  BY DEF DeskInit, InGemini, Sits, Unused
<1>2. IsFiniteSet(InGemini) /\ Cardinality(InGemini) = 0
  BY <1>1, FS_EmptySet
<1>3. followed = {} /\ session = {} /\ writer = Unheld
  BY DEF DeskInit
<1> QED
  BY <1>2, <1>3, DeskAssumption DEF PermitInv

LEMMA PermitInvStep == TypeInv /\ PermitInv /\ [DeskNext]_deskVars => PermitInv'
<1> SUFFICES ASSUME TypeInv, PermitInv, [DeskNext]_deskVars PROVE PermitInv'
  OBVIOUS
<1>0. desk \in [Desks -> DeskState]
  BY DEF TypeInv
<1> DEFINE Held == /\ followed' \subseteq advices' /\ session' \subseteq Desks
                   /\ writer' \in Desks \union {Unheld}
<1>a. ASSUME NEW d \in Desks, NEW seat, Sends(d, seat), seat.at # "gemini", Held
      PROVE  PermitInv'
  BY <1>0, <1>a, LeavesGemini DEF PermitInv
<1>b. \A d \in Desks : Ends(d) => session' \subseteq Desks /\ writer' \in Desks \union {Unheld}
  BY DEF Ends, PermitInv
<1>c. Closed.at = "ended" /\ Unused.at = "idle"
  BY DEF Closed, Unused
<1>1. ASSUME NEW d \in Desks, NEW a \in Accounts \union {0}, GenerateAdvice(d, a)
      PROVE  PermitInv'
  <2>1. Held
    BY <1>1 DEF GenerateAdvice, PermitInv
  <2>2. [Unused EXCEPT !.op = "generate", !.at = "news", !.todo = {a}].at = "news"
    BY DEF Unused
  <2> QED
    BY <1>1, <1>a, <2>1, <2>2 DEF GenerateAdvice
<1>2. ASSUME NEW d \in Desks, NEW active \in SUBSET Accounts, ResolveUsers(d, active)
      PROVE  PermitInv'
  <2>1. UNCHANGED <<enrolled, advices, followed, writer, answers>>
    BY Resolved, <1>2
  <2>2. CASE Sends(d, Closed) /\ UNCHANGED session
    BY <1>a, <1>c, <2>1, <2>2 DEF PermitInv
  <2>3. ASSUME NEW chosen \in SUBSET Accounts,
               Sends(d, [desk[d] EXCEPT !.at = "read", !.todo = chosen]),
               session' = session \union {d}
        PROVE  PermitInv'
    <3>1. [desk[d] EXCEPT !.at = "read", !.todo = chosen].at = "read"
      BY <1>0 DEF DeskState
    <3>2. Held
      BY <2>1, <2>3 DEF PermitInv
    <3> QED
      BY <1>a, <2>3, <3>1, <3>2
  <2> QED
    BY <1>2, <2>2, <2>3, Resolved
<1>3. ASSUME NEW d \in Desks, ReadAccount(d)
      PROVE  PermitInv'
  <2>1. Held
    BY <1>3 DEF ReadAccount, PermitInv
  <2>2. [desk[d] EXCEPT !.at = "key"].at = "key"
    BY <1>0 DEF DeskState
  <2> QED
    BY <1>3, <1>a, <2>1, <2>2 DEF ReadAccount, MovesTo
<1>4. ASSUME NEW d \in Desks, CommitBeforeGemini(d)
      PROVE  PermitInv'
  <2>1. Held
    BY <1>4, <1>b DEF CommitBeforeGemini, Committed, PermitInv
  <2>2. [desk[d] EXCEPT !.at = "queue", !.new = desk[d].new \ advices'].at = "queue"
    BY <1>0 DEF DeskState
  <2> QED
    BY <1>4, <1>a, <2>1, <2>2 DEF CommitBeforeGemini
<1>5. ASSUME NEW d \in Desks, CallGemini(d)
      PROVE  PermitInv'
  BY <1>5, EntersGemini DEF CallGemini, PermitInv
<1>6. ASSUME NEW d \in Desks, NEW a \in Accounts, NEW markets \in SUBSET Markets, Answer(d, a, markets)
      PROVE  PermitInv'
  <2> DEFINE next == IF desk[d].todo = {a} THEN "final" ELSE "read"
             seat == [desk[d] EXCEPT !.at = next, !.todo = @ \ {a},
                        !.new = @ \union {[run |-> d, owner |-> a, market |-> m] : m \in markets}]
  <2>1. Held
    BY <1>6 DEF Answer, PermitInv
  <2>2. seat.at # "gemini"
    BY <1>0 DEF DeskState
  <2>3. Sends(d, seat)
    BY <1>6 DEF Answer
  <2> HIDE DEF seat
  <2> QED
    BY <1>a, <2>1, <2>2, <2>3
<1>7. ASSUME NEW d \in Desks, FinalCommit(d)
      PROVE  PermitInv'
  <2>1. Held
    BY <1>7, <1>b DEF FinalCommit, Committed, PermitInv
  <2> QED
    BY <1>7, <1>a, <1>c, <2>1 DEF FinalCommit
<1>8. ASSUME NEW d \in Desks, AnalyzeSingleStock(d)
      PROVE  PermitInv'
  <2>1. Held
    BY <1>8 DEF AnalyzeSingleStock, PermitInv
  <2>2. [Unused EXCEPT !.op = "single", !.at = "deep"].at = "deep"
    BY DEF Unused
  <2> QED
    BY <1>8, <1>a, <2>1, <2>2 DEF AnalyzeSingleStock
<1>9. ASSUME NEW d \in Desks, ReadPosition(d)
      PROVE  PermitInv'
  <2>1. Held
    BY <1>9, <1>b DEF ReadPosition, Committed, PermitInv
  <2>2. [desk[d] EXCEPT !.at = "news"].at = "news"
    BY <1>0 DEF DeskState
  <2> QED
    BY <1>9, <1>a, <2>1, <2>2 DEF ReadPosition, MovesTo
<1>10. ASSUME NEW d \in Desks, ReadProfile(d)
      PROVE  PermitInv'
  <2>1. Held
    BY <1>10 DEF ReadProfile, PermitInv
  <2>2. [desk[d] EXCEPT !.at = "key"].at = "key"
    BY <1>0 DEF DeskState
  <2> QED
    BY <1>10, <1>a, <2>1, <2>2 DEF ReadProfile, MovesTo
<1>11. ASSUME NEW d \in Desks, Reply(d)
      PROVE  PermitInv'
  BY <1>11, <1>a, <1>c DEF Reply, PermitInv
<1>12. ASSUME NEW d \in Desks, Abandon(d)
      PROVE  PermitInv'
  <2>1. Held
    BY <1>12, <1>b DEF Abandon, PermitInv
  <2> QED
    BY <1>12, <1>a, <1>c, <2>1 DEF Abandon
<1>13. ASSUME NEW d \in Desks, NEW r \in advices, ToggleFollow(d, r)
      PROVE  PermitInv'
  <2> DEFINE seat == [Unused EXCEPT !.op = "follow", !.at = "put", !.row = r,
                                    !.set = r \notin followed]
  <2>1. Held
    BY <1>13 DEF ToggleFollow, PermitInv
  <2>2. seat.at = "put" /\ Sends(d, seat)
    BY <1>13 DEF ToggleFollow, Unused
  <2> HIDE DEF seat
  <2> QED
    BY <1>a, <2>1, <2>2
<1>14. ASSUME NEW d \in Desks, PutFollow(d)
      PROVE  PermitInv'
  <2>1. Held
    BY <1>14, <1>b DEF PutFollow, Flagged, PermitInv
  <2> QED
    BY <1>14, <1>a, <1>c, <2>1 DEF PutFollow
<1>15. ASSUME NEW a \in Accounts, DeleteUser(a)
      PROVE  PermitInv'
  <2>1. followed' \subseteq advices'
    BY <1>15 DEF DeleteUser
  <2>2. UNCHANGED <<desk, session, writer>>
    BY <1>15 DEF DeleteUser
  <2> QED
    BY <2>1, <2>2 DEF PermitInv, InGemini, Sits
<1>16. CASE UNCHANGED deskVars
  BY <1>16 DEF deskVars, PermitInv, InGemini, Sits
<1> QED
  BY <1>1, <1>2, <1>3, <1>4, <1>5, <1>6, <1>7, <1>8, <1>9, <1>10, <1>11, <1>12, <1>13, <1>14, <1>15, <1>16
  DEF DeskNext

(* However many generations and analyses run, no more of them are in Gemini *)
(* than _gemini_semaphore has permits, only an advice that is there is      *)
(* flagged as followed, and every variable stays in its range.              *)
THEOREM PermitsSuffice == DeskSpec => []DeskTypeOK
<1>1. TypeInv /\ PermitInv => DeskTypeOK
  BY DEF TypeInv, PermitInv, DeskTypeOK
<1> QED
  BY TypeInvInit, TypeInvStep, PermitInvInit, PermitInvStep, <1>1, PTL DEF DeskSpec

-----------------------------------------------------------------------------
(* Rebalance. Targets: within 100% by the account's lock.                  *)

PlanTypes ==
  /\ IsFiniteSet(targets)
  /\ \A t \in targets : t.id \in 1..MaxTargets /\ t.percent \in Percents /\ t.scope \in Scopes
  /\ planner \in [Planners -> [at : {"idle", "lock", "sum", "insert"},
                               scope : Scopes \cup {{}}, percent : 0..100]]
  /\ \A r \in Planners : planner[r].at # "idle"
                           => planner[r].percent \in Percents /\ planner[r].scope \in Scopes
  /\ position \in [Holdable -> Amounts \cup {0}] /\ cash \in Amounts \cup {0}
  /\ targetLock \in Planners \cup {Unlocked}

\* Who has read the sum holds the lock, and found room for its percentage.
RoomInv ==
  /\ \A r \in Planners : planner[r].at \in {"sum", "insert"} => targetLock = r
  /\ \A r \in Planners : planner[r].at = "insert" => PercentSum + planner[r].percent <= 100
  /\ PercentSum <= 100

\* What the sums need.
LEMMA TargetFacts ==
  ASSUME PlanTypes
  PROVE  /\ IsFiniteSet(targets) /\ MaxTargets \in Nat
         /\ \A t \in targets : t.id \in Nat /\ t.id <= MaxTargets /\ t.percent \in Nat
         /\ \A t \in targets : t.scope \in SUBSET Holdable
<1>1. Percents \subseteq Nat /\ MaxTargets \in Nat
  BY RebalanceAssumption
<1>2. \A s \in Scopes : s \in SUBSET Holdable
  BY RebalanceAssumption
<1>3. IsFiniteSet(targets)
  BY DEF PlanTypes
<1>4. \A t \in targets : t.id \in 1..MaxTargets /\ t.percent \in Percents /\ t.scope \in Scopes
  BY DEF PlanTypes
<1>5. \A t \in targets : t.id \in Nat /\ t.id <= MaxTargets
  BY <1>1, <1>4
<1>6. \A t \in targets : t.percent \in Nat
  BY <1>1, <1>4
<1>7. \A t \in targets : t.scope \in SUBSET Holdable
  BY <1>2, <1>4
<1> QED
  BY <1>1, <1>3, <1>5, <1>6, <1>7

LEMMA PositionFacts ==
  ASSUME PlanTypes
  PROVE  IsFiniteSet(Holdable) /\ cash \in Nat /\ \A h \in Holdable : position[h] \in Nat
<1>1. position \in [Holdable -> Amounts \cup {0}] /\ cash \in Amounts \cup {0}
  BY DEF PlanTypes
<1>2. IsFiniteSet(Holdable) /\ Amounts \cup {0} \subseteq Nat
  BY RebalanceAssumption
<1> QED
  BY <1>1, <1>2

LEMMA PercentSumType ==
  ASSUME PlanTypes
  PROVE  PercentSum \in Nat
<1> DEFINE f == [t \in targets |-> t.percent]
<1>1. IsFiniteSet(targets) /\ \A t \in targets : f[t] \in Nat
  BY TargetFacts
<1> HIDE DEF f
<1>2. SumFunctionOnSet(f, targets) \in Nat
  BY <1>1, SumOfNaturals
<1> QED
  BY <1>2 DEF PercentSum, f

SumIsNatural == PercentSum \in Nat

LEMMA PercentSumTypeNext == PlanTypes' => PercentSum' \in Nat
<1>1. PlanTypes => SumIsNatural
  BY PercentSumType DEF SumIsNatural
<1>2. PlanTypes' => SumIsNatural'
  BY <1>1, PTL
<1> QED
  BY <1>2 DEF SumIsNatural

\* The next id: one more than the highest.
LEMMA FreshIdIs ==
  ASSUME PlanTypes
  PROVE  FreshId \in 1..(MaxTargets + 1) /\ \A t \in targets : t.id < FreshId
<1> DEFINE Above == {i \in 1..(MaxTargets + 1) : \A t \in targets : t.id < i}
<1>1. Above \in SUBSET Nat /\ Above # {}
  <2>1. MaxTargets + 1 \in Above
    BY TargetFacts
  <2> QED
    BY <2>1, TargetFacts
<1>2. PICK i \in Above : \A j \in Above : i <= j
  <2> HIDE DEF Above
  <2> QED
    BY <1>1, LeastNatural
<1>3. \A j \in 1..(i - 1) : \E t \in targets : t.id >= j
  <2> SUFFICES ASSUME NEW j \in 1..(i - 1) PROVE \E t \in targets : t.id >= j
    OBVIOUS
  <2>1. j \in 1..(MaxTargets + 1) /\ j \notin Above
    BY <1>2, TargetFacts
  <2> QED
    BY <2>1, TargetFacts
<1>4. \E k \in 1..(MaxTargets + 1) : /\ \A t \in targets : t.id < k
                                     /\ \A j \in 1..(k - 1) : \E t \in targets : t.id >= j
  BY <1>2, <1>3
<1> QED
  BY <1>4 DEF FreshId

LEMMA PlanTypesInit == RebalanceInit => PlanTypes /\ RoomInv
<1> SUFFICES ASSUME RebalanceInit PROVE PlanTypes /\ RoomInv
  OBVIOUS
<1>1. PlanTypes
  BY FS_EmptySet, RebalanceAssumption DEF RebalanceInit, PlanTypes, NoPlan
<1>2. PercentSum = 0
  BY SumEmpty DEF PercentSum, RebalanceInit
<1> QED
  BY <1>1, <1>2 DEF RoomInv, RebalanceInit, NoPlan

LEMMA PlanTypesStep == PlanTypes /\ [RebalanceNext]_rebalanceVars => PlanTypes'
<1> SUFFICES ASSUME PlanTypes, [RebalanceNext]_rebalanceVars PROVE PlanTypes'
  OBVIOUS
<1>1. ASSUME NEW r \in Planners, NEW s \in Scopes, NEW p \in Percents, AskTarget(r, s, p)
      PROVE  PlanTypes'
  BY <1>1, RebalanceAssumption DEF AskTarget, PlanTypes
<1>2. ASSUME NEW r \in Planners, AcquireTarget(r) PROVE PlanTypes'
  BY <1>2 DEF AcquireTarget, PlanTypes
<1>3. ASSUME NEW r \in Planners, ReadSum(r) PROVE PlanTypes'
  BY <1>3 DEF ReadSum, PlanTypes, NoPlan
<1>4. ASSUME NEW r \in Planners, InsertTarget(r) PROVE PlanTypes'
  <2> DEFINE x == [id |-> FreshId, scope |-> planner[r].scope, percent |-> planner[r].percent]
  <2>1. /\ targets' = targets \cup {x} /\ planner' = [planner EXCEPT ![r] = NoPlan]
        /\ targetLock' = Unlocked /\ position' = position /\ cash' = cash
        /\ planner[r].at = "insert" /\ FreshId <= MaxTargets
    BY <1>4 DEF InsertTarget
  <2>2. x.id \in 1..MaxTargets /\ x.percent \in Percents /\ x.scope \in Scopes
    BY <2>1, FreshIdIs, RebalanceAssumption DEF PlanTypes
  <2> HIDE DEF x
  <2>3. IsFiniteSet(targets')
    BY <2>1, FS_AddElement DEF PlanTypes
  <2> QED
    BY <2>1, <2>2, <2>3 DEF PlanTypes, NoPlan
<1>5. ASSUME NEW t \in targets, DeleteTarget(t) PROVE PlanTypes'
  <2>1. IsFiniteSet(targets')
    BY <1>5, FS_RemoveElement DEF DeleteTarget, PlanTypes
  <2> QED
    BY <1>5, <2>1 DEF DeleteTarget, PlanTypes
<1>6. ASSUME NEW h \in Holdable, NEW v \in Amounts, MovePosition(h, v) PROVE PlanTypes'
  BY <1>6 DEF MovePosition, PlanTypes
<1>7. ASSUME NEW v \in Amounts, BringCash(v) PROVE PlanTypes'
  BY <1>7 DEF BringCash, PlanTypes
<1>8. CASE UNCHANGED rebalanceVars
  BY <1>8 DEF rebalanceVars, PlanTypes
<1> QED
  BY <1>1, <1>2, <1>3, <1>4, <1>5, <1>6, <1>7, <1>8 DEF RebalanceNext

\* Deleting a target makes room, inserting one takes its percentage.
LEMMA SumMoves ==
  ASSUME PlanTypes
  PROVE  /\ \A r \in Planners : InsertTarget(r) => PercentSum' <= PercentSum + planner[r].percent
         /\ \A t \in targets : DeleteTarget(t) => PercentSum' <= PercentSum
<1> DEFINE f == [t \in targets |-> t.percent]
<1>1. IsFiniteSet(targets) /\ \A t \in targets : f[t] = t.percent /\ f[t] \in Nat
  BY TargetFacts
<1>2. PercentSum = SumFunctionOnSet(f, targets)
  BY DEF PercentSum
<1>3. ASSUME NEW r \in Planners, InsertTarget(r)
      PROVE  PercentSum' <= PercentSum + planner[r].percent
  <2> DEFINE x == [id |-> FreshId, scope |-> planner[r].scope, percent |-> planner[r].percent]
             h == [t \in targets \cup {x} |-> t.percent]
  <2>1. PercentSum' = SumFunctionOnSet(h, targets \cup {x})
    BY <1>3 DEF InsertTarget, PercentSum
  <2>2. x \notin targets
    BY FreshIdIs DEF PlanTypes
  <2>3. x.percent = planner[r].percent /\ planner[r].percent \in Nat
    BY DEF PlanTypes
  <2> HIDE DEF x
  <2>4. /\ \A t \in targets : h[t] = f[t]
        /\ \A t \in targets \cup {x} : h[t] \in Nat /\ h[t] \in Int
        /\ h[x] = planner[r].percent
    BY <1>1, <2>3
  <2> HIDE DEF f, h
  <2>5. SumFunctionOnSet(h, targets \cup {x}) = h[x] + SumFunctionOnSet(h, targets)
    BY <1>1, <2>2, <2>4, SumAdd
  <2>6. SumFunctionOnSet(h, targets) = SumFunctionOnSet(f, targets)
    BY <1>1, <2>4, SumSame
  <2> QED
    BY <1>2, <2>1, <2>3, <2>4, <2>5, <2>6, PercentSumType
<1>4. ASSUME NEW t \in targets, DeleteTarget(t)
      PROVE  PercentSum' <= PercentSum
  <2> DEFINE h == [x \in targets \ {t} |-> x.percent]
  <2>1. PercentSum' = SumFunctionOnSet(h, targets \ {t})
    BY <1>4 DEF DeleteTarget, PercentSum
  <2>2. \A x \in targets \ {t} : h[x] = f[x] /\ h[x] \in Nat
    BY <1>1
  <2>3. \A x \in targets : f[x] \in Int
    BY <1>1
  <2> HIDE DEF f, h
  <2>4. IsFiniteSet(targets \ {t})
    BY <1>1, FS_RemoveElement
  <2>5. SumFunctionOnSet(f, targets) = f[t] + SumFunctionOnSet(f, targets \ {t})
    BY <1>1, <2>3, SumSplit
  <2>6. SumFunctionOnSet(h, targets \ {t}) = SumFunctionOnSet(f, targets \ {t})
    BY <2>2, <2>4, SumSame
  <2>7. SumFunctionOnSet(h, targets \ {t}) \in Nat /\ f[t] \in Nat
    BY <1>1, <2>2, <2>4, SumOfNaturals
  <2> QED
    BY <1>2, <2>1, <2>5, <2>6, <2>7
<1> QED
  BY <1>3, <1>4

LEMMA RoomInvStep == PlanTypes /\ PlanTypes' /\ RoomInv /\ [RebalanceNext]_rebalanceVars => RoomInv'
<1> SUFFICES ASSUME PlanTypes, PlanTypes', RoomInv, [RebalanceNext]_rebalanceVars PROVE RoomInv'
  OBVIOUS
<1>0. /\ Unlocked \notin Planners /\ PercentSum \in Nat
      /\ \A r \in Planners : planner[r].percent \in Nat
  BY RebalanceAssumption, PercentSumType DEF Unlocked, PlanTypes
<1>a. PercentSum' \in Nat
  BY PercentSumTypeNext
<1>1. ASSUME NEW r \in Planners, NEW s \in Scopes, NEW p \in Percents, AskTarget(r, s, p)
      PROVE  RoomInv'
  <2>1. PercentSum' = PercentSum
    BY <1>1 DEF AskTarget, PercentSum
  <2> QED
    BY <1>1, <2>1 DEF AskTarget, PlanTypes, RoomInv, NoPlan
<1>2. ASSUME NEW r \in Planners, AcquireTarget(r) PROVE RoomInv'
  <2>1. PercentSum' = PercentSum
    BY <1>2 DEF AcquireTarget, PercentSum
  <2>2. \A x \in Planners : planner[x].at \notin {"sum", "insert"}
    BY <1>0, <1>2 DEF AcquireTarget, TakesLock, RoomInv
  <2> QED
    BY <1>2, <2>1, <2>2 DEF AcquireTarget, PlanTypes, RoomInv
<1>3. ASSUME NEW r \in Planners, ReadSum(r) PROVE RoomInv'
  <2>1. PercentSum' = PercentSum
    BY <1>3 DEF ReadSum, PercentSum
  <2>2. \A x \in Planners \ {r} : planner[x].at \notin {"sum", "insert"}
    BY <1>3 DEF ReadSum, RoomInv
  <2> QED
    BY <1>0, <1>3, <2>1, <2>2 DEF ReadSum, PlanTypes, RoomInv, NoPlan
<1>4. ASSUME NEW r \in Planners, InsertTarget(r) PROVE RoomInv'
  <2>1. PercentSum' <= PercentSum + planner[r].percent
    BY <1>4, SumMoves
  <2>2. PercentSum' <= 100
    BY <1>0, <1>a, <1>4, <2>1 DEF InsertTarget, RoomInv
  <2>3. \A x \in Planners \ {r} : planner[x].at \notin {"sum", "insert"}
    BY <1>4 DEF InsertTarget, RoomInv
  <2> QED
    BY <1>4, <2>2, <2>3 DEF InsertTarget, PlanTypes, RoomInv, NoPlan
<1>5. ASSUME NEW t \in targets, DeleteTarget(t) PROVE RoomInv'
  <2>1. PercentSum' <= PercentSum
    BY <1>5, SumMoves
  <2>2. planner' = planner /\ targetLock' = targetLock
    BY <1>5 DEF DeleteTarget
  <2> QED
    BY <1>0, <1>a, <2>1, <2>2 DEF RoomInv
<1>6. CASE UNCHANGED <<targets, planner, targetLock>>
  BY <1>6 DEF RoomInv, PercentSum
<1> QED
  BY <1>1, <1>2, <1>3, <1>4, <1>5, <1>6 DEF RebalanceNext, MovePosition, BringCash, rebalanceVars

\* Whatever creations and deletions of targets overlap, the percentages of an
\* account never add up to more than 100 (create_target's sum under the lock;
\* delete_target takes none).
THEOREM CapHolds == RebalanceSpec => []TargetsWithinCap
<1>1. RoomInv => TargetsWithinCap
  BY DEF RoomInv, TargetsWithinCap
<1> QED
  BY <1>1, PlanTypesInit, PlanTypesStep, RoomInvStep, PTL DEF RebalanceSpec

\* Targets, positions and the lock stay in their ranges: an id within the
\* bound, a percentage and a scope that were asked for.
THEOREM TargetsStayTyped == RebalanceSpec => []RebalanceTypeOK
<1>1. PlanTypes => RebalanceTypeOK
  BY DEF PlanTypes, RebalanceTypeOK
<1> QED
  BY <1>1, PlanTypesInit, PlanTypesStep, PTL DEF RebalanceSpec

-----------------------------------------------------------------------------
(* The plan: what the legs of one bucket come to.                          *)

LEMMA ValueIs ==
  ASSUME PlanTypes, NEW hs \in SUBSET Holdable
  PROVE  /\ Value(hs) \in Nat
         /\ SumFunctionOnSet(position, hs) \in Nat
         /\ \A h \in hs : position[h] <= SumFunctionOnSet(position, hs)
<1>1. IsFiniteSet(hs) /\ \A h \in hs : position[h] \in Nat
  BY PositionFacts, FS_Subset
<1>2. SumFunctionOnSet(position, hs) \in Nat
  BY <1>1, SumOfNaturals
<1>3. Parts \in Nat \ {0}
  BY ExactAssumption DEF Parts
<1>4. Value(hs) \in Nat
  BY <1>2, <1>3 DEF Value
<1> QED
  BY <1>1, <1>2, <1>4, SumOfNaturals

\* A multiple divides exactly.
LEMMA Divides ==
  ASSUME NEW n \in Nat \ {0}, NEW k \in Int
  PROVE  (n * k) \div n = k
  OBVIOUS

\* The worth of the portfolio and the cash is in whole hundreds of euros, so
\* that a percentage of it is in whole euros.
LEMMA TargetValue ==
  ASSUME PlanTypes
  PROVE  \E x \in Nat :
           /\ x = SumFunctionOnSet(position, Holdable) + cash
           /\ TotalValue = Parts * x
           /\ \A t \in targets : /\ t.percent \in Nat
                                  /\ (TotalValue * t.percent) \div 100 = Euro * t.percent * x
<1>1. PICK m \in Nat, c \in Nat : m = SumFunctionOnSet(position, Holdable) /\ c = cash
  BY ValueIs, PositionFacts
<1>2. Euro \in Nat \ {0} /\ Parts = 100 * Euro
  BY ExactAssumption DEF Parts
<1>3. TotalValue = Parts * m + Parts * c
  BY <1>1 DEF TotalValue, Value
<1>4. TotalValue = Parts * (m + c)
  BY <1>2, <1>3
<1>5. ASSUME NEW t \in targets
      PROVE  /\ t.percent \in Nat
             /\ (TotalValue * t.percent) \div 100 = Euro * t.percent * (m + c)
  <2>1. PICK p \in Nat : p = t.percent
    BY TargetFacts
  <2>2. Parts * (m + c) * p = 100 * (Euro * p * (m + c))
    BY <1>2
  <2>3. Euro * p * (m + c) \in Int
    BY <1>2
  <2> QED
    BY <1>4, <2>1, <2>2, <2>3, Divides
<1> QED
  BY <1>1, <1>4, <1>5

\* The value of one position.
LEMMA ValueOne ==
  ASSUME PlanTypes, NEW h \in Holdable
  PROVE  Value({h}) = Parts * position[h]
<1>1. IsFiniteSet({}) /\ h \notin {} /\ {} \cup {h} = {h}
  BY FS_EmptySet
<1>2. position[h] \in Int
  BY PositionFacts
<1>3. SumFunctionOnSet(position, {} \cup {h}) = position[h] + SumFunctionOnSet(position, {})
  BY <1>1, <1>2, SumAdd
<1>4. SumFunctionOnSet(position, {}) = 0
  BY SumEmpty
<1>5. SumFunctionOnSet(position, {h}) = position[h]
  BY <1>1, <1>2, <1>3, <1>4
<1> QED
  BY <1>5 DEF Value

\* A bucket's difference is spread over its titles at one rate, in units for
\* each hundred euros of the position, and that sells no more than is held.
LEMMA BucketRate ==
  ASSUME PlanTypes, NEW t \in targets, Constituents(t) # {}
  PROVE  \E k \in Int :
           /\ Delta(t) = k * SumFunctionOnSet(position, t.scope)
           /\ \A h \in Constituents(t) : Leg(t, h) = k * position[h]
<1>1. PICK x \in Nat : /\ TotalValue = Parts * x
                       /\ t.percent \in Nat
                       /\ (TotalValue * t.percent) \div 100 = Euro * t.percent * x
  BY TargetValue
<1>2. t.scope \in SUBSET Holdable /\ t.scope # {}
  BY TargetFacts DEF Constituents
<1>3. PICK n \in Nat \ {0} : n = SumFunctionOnSet(position, t.scope)
  <2>1. PICK h \in t.scope : position[h] > 0
    BY DEF Constituents
  <2>2. /\ SumFunctionOnSet(position, t.scope) \in Nat /\ position[h] \in Nat
        /\ position[h] <= SumFunctionOnSet(position, t.scope)
    BY <1>2, <2>1, ValueIs, PositionFacts
  <2> QED
    BY <2>1, <2>2
<1>4. Euro \in Nat \ {0} /\ Parts \in Nat \ {0}
  BY ExactAssumption DEF Parts
<1>5. PICK q \in Nat : Euro * t.percent = n * q
  <2>1. position \in [Holdable -> Amounts \union {0}] /\ t.scope \in Scopes /\ t.percent \in Percents
    BY DEF PlanTypes
  <2>2. \E q \in 0..(100 * Euro) : Euro * t.percent = n * q
    BY <1>3, <2>1, ExactAssumption
  <2> QED
    BY <1>4, <2>2
<1> DEFINE k == q * x - Parts
<1>6. k \in Int /\ k >= -Parts
  BY <1>4
<1>7. Value(t.scope) = Parts * n /\ Value(t.scope) \div Parts = n
  BY <1>3, <1>4, Divides DEF Value
<1>8. Delta(t) = n * k
  <2>1. Delta(t) = n * q * x - Parts * n
    BY <1>1, <1>2, <1>5, <1>7 DEF Delta
  <2>2. n * q * x - Parts * n = n * (q * x - Parts)
    BY <1>4
  <2> QED
    BY <2>1, <2>2
<1> HIDE DEF k
<1>9. ASSUME NEW h \in Constituents(t) PROVE Leg(t, h) = k * position[h]
  <2>1. PICK v \in Nat : v = position[h]
    BY <1>2, PositionFacts DEF Constituents
  <2>2. (Delta(t) * v) \div n = k * v
    <3>1. Delta(t) * v = n * (k * v)
      BY <1>6, <1>8
    <3>2. k * v \in Int
      BY <1>6
    <3> QED
      BY <3>1, <3>2, Divides
  <2>3. Leg(t, h) = Capped(h, k * v)
    BY <1>2, <1>7, <2>1, <2>2 DEF Leg
  <2>4. h \in Holdable
    BY <1>2 DEF Constituents
  <2>5. Value({h}) = Parts * v
    BY <2>1, <2>4, ValueOne
  <2>6. k * v >= -(Parts * v)
    <3>1. (k + Parts) * v >= 0
      BY <1>4, <1>6
    <3> QED
      BY <1>4, <1>6, <3>1
  <2>7. k * v \in Int /\ Parts * v \in Int
    BY <1>4, <1>6
  <2> QED
    BY <2>1, <2>3, <2>5, <2>6, <2>7 DEF Capped
<1> QED
  BY <1>3, <1>6, <1>8, <1>9

LEMMA LegType ==
  ASSUME PlanTypes, NEW t \in targets, NEW h \in Holdable
  PROVE  Leg(t, h) \in Int
<1>1. CASE h \in Constituents(t)
  <2>1. PICK k \in Int : Leg(t, h) = k * position[h]
    BY <1>1, BucketRate
  <2>2. position[h] \in Nat
    BY PositionFacts
  <2> QED
    BY <2>1, <2>2
<1>2. CASE h \notin Constituents(t)
  BY <1>2 DEF Leg
<1> QED
  BY <1>1, <1>2

-----------------------------------------------------------------------------
(* The plan reaches the targets that split the portfolio.                  *)

\* A sum of zeros.
LEMMA SumZeros ==
  ASSUME NEW S, IsFiniteSet(S), NEW f, \A x \in S : f[x] = 0
  PROVE  SumFunctionOnSet(f, S) = 0
<1>1. \A x \in S : f[x] \in Int /\ f[x] = 0 * f[x] + 0 * f[x]
  OBVIOUS
<1>2. SumFunctionOnSet(f, S) = 0 * SumFunctionOnSet(f, S) + 0 * SumFunctionOnSet(f, S)
  BY <1>1, SumLinear
<1> QED
  BY <1>1, <1>2, SumType

\* When the targets split the positions, the order of a title is the leg of
\* the one bucket that has it.
LEMMA OrderIsLeg ==
  ASSUME PlanTypes, Splits, NEW t \in targets, NEW h \in Constituents(t)
  PROVE  Order(h) = Leg(t, h) /\ \A u \in targets : h \in Constituents(u) => u = t
<1> DEFINE f == [u \in targets |-> Leg(u, h)]
           Having == {u \in targets : h \in u.scope}
<1>1. h \in Holdable /\ t \in Having /\ position[h] > 0
  BY TargetFacts DEF Constituents
<1>2. \A u \in targets : h \in u.scope => u = t
  <2>1. Cardinality(Having) = 1
    BY <1>1 DEF Splits
  <2>2. IsFiniteSet(Having) /\ Having \subseteq targets
    BY TargetFacts, FS_Subset
  <2> HIDE DEF Having
  <2>3. \E u : Having = {u}
    BY <2>1, <2>2, FS_Singleton
  <2> QED
    BY <1>1, <2>3 DEF Having
<1>3. IsFiniteSet(targets) /\ IsFiniteSet(targets \ {t})
  BY TargetFacts, FS_RemoveElement
<1>4. \A u \in targets : f[u] = Leg(u, h) /\ f[u] \in Int
  BY <1>1, LegType
<1>5. \A u \in targets \ {t} : f[u] = 0
  BY <1>2 DEF Leg, Constituents
<1>6. Merged(h) = SumFunctionOnSet(f, targets)
  BY DEF Merged
<1> HIDE DEF f
<1>7. SumFunctionOnSet(f, targets \ {t}) = 0
  BY <1>3, <1>5, SumZeros
<1>8. Merged(h) = Leg(t, h)
  BY <1>3, <1>4, <1>6, <1>7, SumSplit
<1>9. Leg(t, h) >= -Value({h})
  <2>1. \E q : Leg(t, h) = Capped(h, q)
    BY <1>1 DEF Leg, Constituents
  <2>2. Value({h}) \in Nat /\ Leg(t, h) \in Int
    BY <1>1, ValueIs, LegType
  <2>3. PICK q : Leg(t, h) = IF q < -Value({h}) THEN -Value({h}) ELSE q
    BY <2>1 DEF Capped
  <2>4. PICK v \in Nat : v = Value({h})
    BY <2>2
  <2>5. Leg(t, h) = -v \/ (Leg(t, h) = q /\ ~(q < -v))
    BY <2>3, <2>4
  <2> QED
    BY <2>2, <2>4, <2>5
<1>10. Value({h}) \in Nat /\ Leg(t, h) \in Int
  BY <1>1, ValueIs, LegType
<1> QED
  BY <1>2, <1>8, <1>9, <1>10 DEF Order, Capped, Constituents

\* A title that is not held gets no order.
LEMMA NoOrder ==
  ASSUME PlanTypes, NEW h \in Holdable, position[h] = 0
  PROVE  Order(h) = 0
<1> DEFINE f == [u \in targets |-> Leg(u, h)]
<1>1. IsFiniteSet(targets) /\ \A u \in targets : f[u] = 0
  BY TargetFacts DEF Leg, Constituents
<1>2. Merged(h) = SumFunctionOnSet(f, targets)
  BY DEF Merged
<1> HIDE DEF f
<1>3. Merged(h) = 0
  BY <1>1, <1>2, SumZeros
<1>4. Value({h}) = 0
  BY ValueOne, ExactAssumption DEF Parts
<1> QED
  BY <1>3, <1>4 DEF Order, Capped

LEMMA OrderType ==
  ASSUME PlanTypes, NEW h \in Holdable
  PROVE  Order(h) \in Int
<1> DEFINE f == [t \in targets |-> Leg(t, h)]
<1>1. IsFiniteSet(targets) /\ \A t \in targets : f[t] \in Int
  BY LegType, TargetFacts
<1>2. Merged(h) = SumFunctionOnSet(f, targets)
  BY DEF Merged
<1> HIDE DEF f
<1>3. Merged(h) \in Int /\ Value({h}) \in Nat
  BY <1>1, <1>2, SumType, ValueIs
<1> QED
  BY <1>3 DEF Order, Capped

\* The titles of a scope that are not held are worth nothing.
LEMMA HeldWorth ==
  ASSUME PlanTypes, NEW hs \in SUBSET Holdable, NEW held \in SUBSET hs,
         \A h \in hs \ held : position[h] = 0
  PROVE  /\ IsFiniteSet(held)
         /\ SumFunctionOnSet(position, held) = SumFunctionOnSet(position, hs)
<1>1. IsFiniteSet(held) /\ IsFiniteSet(hs \ held) /\ held \cup (hs \ held) = hs
  BY PositionFacts, FS_Subset
<1>2. \A h \in hs : position[h] \in Int
  BY PositionFacts
<1>3. SumFunctionOnSet(position, hs \ held) = 0
  BY <1>1, SumZeros
<1>4. SumFunctionOnSet(position, held \cup (hs \ held))
        = SumFunctionOnSet(position, held) + SumFunctionOnSet(position, hs \ held)
  BY <1>1, <1>2, SumUnion
<1>5. SumFunctionOnSet(position, held) \in Int
  BY <1>1, <1>2, SumType
<1> QED
  BY <1>1, <1>3, <1>4, <1>5

\* The legs of a bucket make up its difference.
LEMMA BucketLegs ==
  ASSUME PlanTypes, NEW t \in targets, Constituents(t) # {}
  PROVE  /\ IsFiniteSet(Constituents(t)) /\ Constituents(t) \in SUBSET Holdable
         /\ SumFunctionOnSet([h \in Constituents(t) |-> Leg(t, h)], Constituents(t)) = Delta(t)
<1> DEFINE C == Constituents(t)
           f == [h \in C |-> Leg(t, h)]
<1>1. PICK k \in Int : /\ Delta(t) = k * SumFunctionOnSet(position, t.scope)
                      /\ \A h \in C : Leg(t, h) = k * position[h]
  BY BucketRate
<1>2. t.scope \in SUBSET Holdable /\ C \in SUBSET t.scope
  BY TargetFacts DEF Constituents
<1>3. \A h \in t.scope \ C : position[h] = 0
  BY <1>2, PositionFacts DEF Constituents
<1>4. IsFiniteSet(C) /\ SumFunctionOnSet(position, C) = SumFunctionOnSet(position, t.scope)
  <2> HIDE DEF C
  <2> QED
    BY <1>2, <1>3, HeldWorth
<1>5. \A h \in C : f[h] = k * position[h]
  BY <1>1
<1>6. \A h \in C : position[h] \in Int
  BY <1>2, PositionFacts
<1> HIDE DEF C, f
<1>7. \A h \in C : /\ position[h] \in Int
                   /\ f[h] = k * position[h] + 0 * position[h]
  BY <1>5, <1>6
<1>8. SumFunctionOnSet(f, C)
        = k * SumFunctionOnSet(position, C) + 0 * SumFunctionOnSet(position, C)
  BY <1>4, <1>7, SumLinear
<1>9. PICK n \in Nat : n = SumFunctionOnSet(position, C)
  BY <1>2, <1>4, ValueIs
<1>10. k * n + 0 * n = k * n
  OBVIOUS
<1>11. SumFunctionOnSet(f, C) = Delta(t)
  BY <1>1, <1>4, <1>8, <1>9, <1>10
<1> QED
  BY <1>2, <1>4, <1>11 DEF C, f

\* The orders of a bucket that shares no title make up its difference.
LEMMA BucketOrders ==
  ASSUME PlanTypes, Splits, NEW t \in targets, Constituents(t) # {}
  PROVE  Ordered(Constituents(t)) = Delta(t)
<1>1. \A h \in Constituents(t) : Order(h) = Leg(t, h)
  BY OrderIsLeg
<1>2. [h \in Constituents(t) |-> Order(h)] = [h \in Constituents(t) |-> Leg(t, h)]
  BY <1>1
<1> QED
  BY <1>2, BucketLegs DEF Ordered

\* The buckets of titles, of which those with nothing in them want nothing,
\* have every position once.
Buckets == targets \ CashTargets

LEMMA BucketsSplit ==
  ASSUME PlanTypes, Splits
  PROVE  /\ IsFiniteSet(Buckets) /\ IsFiniteSet(CashTargets)
         /\ \A t \in Buckets : /\ Constituents(t) \in SUBSET Holdable
                               /\ IsFiniteSet(Constituents(t))
         /\ \A t, u \in Buckets : t # u => Constituents(t) \cap Constituents(u) = {}
         /\ \A h \in Holdable : (\A t \in Buckets : h \notin Constituents(t)) => position[h] = 0
         /\ \A t \in Buckets : SumFunctionOnSet(position, Constituents(t))
                                 = SumFunctionOnSet(position, t.scope)
<1>1. IsFiniteSet(Buckets) /\ IsFiniteSet(CashTargets)
  BY TargetFacts, FS_Subset DEF Buckets, CashTargets
<1>2. \A t \in Buckets : t \in targets /\ t.scope \in SUBSET Holdable
  BY TargetFacts DEF Buckets
<1>3. \A t \in Buckets : /\ Constituents(t) \in SUBSET t.scope
                         /\ \A h \in t.scope \ Constituents(t) : position[h] = 0
  BY <1>2, PositionFacts DEF Constituents
<1>4. \A t \in Buckets : /\ IsFiniteSet(Constituents(t))
                         /\ SumFunctionOnSet(position, Constituents(t))
                              = SumFunctionOnSet(position, t.scope)
  BY <1>2, <1>3, HeldWorth
<1>5. \A t, u \in Buckets : t # u => Constituents(t) \cap Constituents(u) = {}
  BY <1>2, OrderIsLeg
<1>6. ASSUME NEW h \in Holdable, position[h] # 0
      PROVE  \E t \in Buckets : h \in Constituents(t)
  <2> DEFINE Having == {u \in targets : h \in u.scope}
  <2>1. position[h] > 0
    BY <1>6, PositionFacts
  <2>2. Cardinality(Having) = 1
    BY <2>1 DEF Splits
  <2>3. Having # {}
    BY <2>2, FS_EmptySet
  <2>4. PICK t \in targets : h \in t.scope
    BY <2>3
  <2> QED
    BY <2>1, <2>4 DEF Buckets, CashTargets, Constituents
<1> QED
  BY <1>1, <1>2, <1>3, <1>4, <1>5, <1>6

\* What all orders come to, bucket by bucket, and what all positions.
LEMMA AllBuckets ==
  ASSUME PlanTypes, Splits
  PROVE  /\ Ordered(Holdable) = SumFunctionOnSet([t \in Buckets |-> Delta(t)], Buckets)
         /\ SumFunctionOnSet(position, Holdable)
              = SumFunctionOnSet([t \in Buckets |-> SumFunctionOnSet(position, t.scope)], Buckets)
<1> DEFINE c == [t \in Buckets |-> Constituents(t)]
           Held == UNION {c[t] : t \in Buckets}
           f == [h \in Holdable |-> Order(h)]
           d == [t \in Buckets |-> Delta(t)]
           w == [t \in Buckets |-> SumFunctionOnSet(position, t.scope)]
<1>1. /\ IsFiniteSet(Buckets)
      /\ \A t \in Buckets : IsFiniteSet(c[t]) /\ c[t] \in SUBSET Holdable
      /\ \A t, u \in Buckets : t # u => c[t] \cap c[u] = {}
  BY BucketsSplit
<1>2. Held \in SUBSET Holdable /\ \A h \in Holdable \ Held : position[h] = 0
  BY BucketsSplit
<1>3. \A h \in Holdable : f[h] \in Int /\ position[h] \in Int
  BY OrderType, PositionFacts
<1>4. \A h \in Holdable \ Held : f[h] = 0
  BY <1>2, NoOrder
<1>5. \A t \in Buckets : w[t] = SumFunctionOnSet(position, c[t])
  BY BucketsSplit
<1>6. \A t \in Buckets : d[t] = SumFunctionOnSet(f, c[t])
  <2> SUFFICES ASSUME NEW t \in Buckets PROVE Delta(t) = SumFunctionOnSet(f, Constituents(t))
    OBVIOUS
  <2>1. t \in targets /\ t.scope # {} /\ IsFiniteSet(Constituents(t))
    BY BucketsSplit DEF Buckets, CashTargets
  <2>2. CASE Constituents(t) # {}
    <3> DEFINE g == [h \in Constituents(t) |-> Order(h)]
    <3>1. \A h \in Constituents(t) : f[h] = g[h]
      BY BucketsSplit
    <3>2. Ordered(Constituents(t)) = SumFunctionOnSet(g, Constituents(t))
      BY DEF Ordered
    <3> HIDE DEF f, g
    <3>3. SumFunctionOnSet(f, Constituents(t)) = SumFunctionOnSet(g, Constituents(t))
      BY <2>1, <3>1, SumSame
    <3> QED
      BY <2>1, <2>2, <3>2, <3>3, BucketOrders
  <2>3. CASE Constituents(t) = {}
    <3>1. SumFunctionOnSet(f, {}) = 0
      BY SumEmpty
    <3>2. t.percent = 0
      <4>1. t.percent \in Nat
        BY <2>1, TargetFacts
      <4> QED
        BY <2>1, <2>3, <4>1 DEF Splits
    <3>3. SumFunctionOnSet(position, t.scope) = 0
      BY <2>3, BucketsSplit, SumEmpty
    <3>4. Delta(t) = 0
      <4>1. PICK x \in Nat : (TotalValue * t.percent) \div 100 = Euro * t.percent * x
        BY <2>1, TargetValue
      <4>2. Euro \in Nat /\ Parts \in Nat
        BY ExactAssumption DEF Parts
      <4>3. Value(t.scope) = 0
        BY <3>3, <4>2 DEF Value
      <4>4. Euro * 0 * x = 0
        BY <4>2
      <4> QED
        BY <2>1, <3>2, <4>1, <4>3, <4>4 DEF Delta
    <3> QED
      BY <2>3, <3>1, <3>4
  <2> QED
    BY <2>2, <2>3
<1>7. IsFiniteSet(Holdable) /\ Ordered(Holdable) = SumFunctionOnSet(f, Holdable)
  BY PositionFacts DEF Ordered
<1>8. /\ \A t \in Buckets : \A h \in c[t] : f[h] \in Int
      /\ \A t \in Buckets : \A h \in c[t] : position[h] \in Int
      /\ \A t \in Buckets : IsFiniteSet(c[t])
  BY <1>1, <1>3
<1> HIDE DEF c, f, d, w
<1>a. IsFiniteSet(Buckets) /\ \A t, u \in Buckets : t # u => c[t] \cap c[u] = {}
  BY <1>1
<1>9. IsFiniteSet(Held)
  BY <1>2, <1>7, FS_Subset
<1>d. SumFunctionOnSet(f, Held) = SumFunctionOnSet(d, Buckets)
  BY <1>a, <1>6, <1>8, SumFamily
<1>10. SumFunctionOnSet(position, Held) = SumFunctionOnSet(w, Buckets)
  BY <1>a, <1>5, <1>8, SumFamily
<1> HIDE DEF Held
<1>11. IsFiniteSet(Holdable \ Held) /\ Held \cup (Holdable \ Held) = Holdable
  BY <1>2, <1>7, FS_Subset
<1>12. SumFunctionOnSet(f, Holdable \ Held) = 0
  BY <1>4, <1>11, SumZeros
<1>b. \A h \in Held \cup (Holdable \ Held) : f[h] \in Int
  BY <1>2, <1>3
<1>13. SumFunctionOnSet(f, Held \cup (Holdable \ Held))
         = SumFunctionOnSet(f, Held) + SumFunctionOnSet(f, Holdable \ Held)
  BY <1>b, <1>9, <1>11, SumUnion
<1>14. PICK n \in Int : n = SumFunctionOnSet(f, Held)
  BY <1>b, <1>9, SumType
<1>c. SumFunctionOnSet(f, Holdable) = n + 0
  BY <1>11, <1>12, <1>13, <1>14
<1>15. SumFunctionOnSet(position, Held) = SumFunctionOnSet(position, Holdable)
  BY <1>2, HeldWorth
<1>16. Ordered(Holdable) = SumFunctionOnSet(d, Buckets)
  BY <1>7, <1>d, <1>14, <1>c
<1> QED
  BY <1>10, <1>15, <1>16 DEF d, w

\* What the orders cost is the cash that no target keeps.
LEMMA CashSpent ==
  ASSUME PlanTypes, Splits
  PROVE  Ordered(Holdable) = Parts * cash - Reserve
<1> DEFINE p == [t \in targets |-> t.percent]
           d == [t \in Buckets |-> Delta(t)]
           w == [t \in Buckets |-> SumFunctionOnSet(position, t.scope)]
           k == [t \in CashTargets |-> (TotalValue * t.percent) \div 100]
<1>1. PICK x \in Nat, m \in Nat, c \in Nat :
        /\ m = SumFunctionOnSet(position, Holdable) /\ c = cash /\ x = m + c
        /\ \A t \in targets : /\ t.percent \in Nat
                              /\ (TotalValue * t.percent) \div 100 = Euro * t.percent * x
  BY TargetValue, ValueIs, PositionFacts
<1>2. PICK e \in Nat : e = Euro /\ Parts = 100 * e
  BY ExactAssumption DEF Parts
<1>3. /\ IsFiniteSet(Buckets) /\ IsFiniteSet(CashTargets)
      /\ Buckets \cap CashTargets = {} /\ Buckets \cup CashTargets = targets
  BY BucketsSplit DEF Buckets, CashTargets
<1>a. PICK a \in Int, z \in Int : a = e * x /\ z = -(100 * e)
  OBVIOUS
<1>4. ASSUME NEW t \in Buckets
      PROVE  /\ p[t] \in Int /\ w[t] \in Int
             /\ d[t] = a * p[t] + z * w[t]
  <2>1. t \in targets /\ t.scope # {} /\ t.scope \in SUBSET Holdable
    BY TargetFacts DEF Buckets, CashTargets
  <2>2. PICK r \in Nat, n \in Nat : r = t.percent /\ n = SumFunctionOnSet(position, t.scope)
    BY <1>1, <2>1, ValueIs
  <2>3. Delta(t) = e * r * x - 100 * e * n
    BY <1>1, <1>2, <2>1, <2>2 DEF Delta, Value
  <2>4. e * r * x - 100 * e * n = (e * x) * r + (-(100 * e)) * n
    OBVIOUS
  <2> QED
    BY <1>a, <2>1, <2>2, <2>3, <2>4
<1>5. ASSUME NEW t \in CashTargets
      PROVE  p[t] \in Int /\ k[t] = a * p[t] + 0 * p[t]
  <2>1. t \in targets
    BY DEF CashTargets
  <2>2. PICK r \in Nat : r = t.percent
    BY <1>1, <2>1
  <2>3. (TotalValue * t.percent) \div 100 = e * r * x
    BY <1>1, <1>2, <2>1, <2>2
  <2>4. e * r * x = (e * x) * r + 0 * r
    OBVIOUS
  <2> QED
    BY <1>a, <2>1, <2>2, <2>3, <2>4
<1>6. \A t \in targets : p[t] \in Int
  BY <1>1
<1>7. /\ PercentSum = SumFunctionOnSet(p, targets)
      /\ Ordered(Holdable) = SumFunctionOnSet(d, Buckets)
      /\ m = SumFunctionOnSet(w, Buckets)
      /\ Reserve = SumFunctionOnSet(k, CashTargets)
  BY <1>1, AllBuckets DEF PercentSum, Reserve
<1> HIDE DEF p, d, w, k
<1>8. PICK b \in Int, r \in Int : /\ b = SumFunctionOnSet(p, Buckets)
                                 /\ r = SumFunctionOnSet(p, CashTargets)
  BY <1>3, <1>6, SumType
<1>9. b + r = 100
  BY <1>3, <1>6, <1>7, <1>8, SumUnion DEF Splits
<1>11. SumFunctionOnSet(d, Buckets) = a * b + z * m
  <2>1. SumFunctionOnSet(d, Buckets)
          = a * SumFunctionOnSet(p, Buckets) + z * SumFunctionOnSet(w, Buckets)
    BY <1>3, <1>4, SumLinear
  <2> QED
    BY <2>1, <1>7, <1>8
<1>12. SumFunctionOnSet(k, CashTargets) = a * r + 0 * r
  <2>1. SumFunctionOnSet(k, CashTargets)
          = a * SumFunctionOnSet(p, CashTargets) + 0 * SumFunctionOnSet(p, CashTargets)
    BY <1>3, <1>5, SumLinear
  <2> QED
    BY <2>1, <1>8
<1>13. a * b + z * m = 100 * e * c - (a * r + 0 * r)
  <2>1. b = 100 - r /\ x = m + c /\ a = e * x /\ z = -(100 * e)
    BY <1>1, <1>9, <1>a
  <2>2. (e * x) * (100 - r) = (e * x) * 100 - (e * x) * r
    OBVIOUS
  <2>3. (e * (m + c)) * 100 = 100 * e * m + 100 * e * c
    OBVIOUS
  <2>4. (-(100 * e)) * m = -(100 * e * m)
    OBVIOUS
  <2> QED
    BY <2>1, <2>2, <2>3, <2>4
<1> QED
  BY <1>1, <1>2, <1>7, <1>11, <1>12, <1>13

\* A bucket that moves by its difference is at its share.
LEMMA ShareOf ==
  ASSUME PlanTypes, NEW t \in targets, t.scope # {}
  PROVE  /\ Delta(t) \in Int /\ Value(t.scope) \in Nat /\ t.percent * TotalValue \in Nat
         /\ 100 * (Value(t.scope) + Delta(t)) = t.percent * TotalValue
<1>1. PICK x \in Nat : /\ TotalValue = Parts * x
                      /\ t.percent \in Nat
                      /\ (TotalValue * t.percent) \div 100 = Euro * t.percent * x
  BY TargetValue
<1>2. PICK e \in Nat, r \in Nat : e = Euro /\ Parts = 100 * e /\ r = t.percent
  BY <1>1, ExactAssumption DEF Parts
<1>3. PICK v \in Nat : v = Value(t.scope)
  BY TargetFacts, ValueIs
<1>4. Delta(t) = e * r * x - v
  BY <1>1, <1>2, <1>3 DEF Delta
<1>5. /\ 100 * (v + (e * r * x - v)) = r * (100 * e * x)
      /\ e * r * x - v \in Int /\ r * (100 * e * x) \in Nat
  OBVIOUS
<1> QED
  BY <1>1, <1>2, <1>3, <1>4, <1>5

\* When targets split the positions and add up to 100%, the merged and capped
\* orders of compute_rebalance_plan move every bucket onto its share exactly,
\* and cost the cash that no target keeps, whatever the amounts and the
\* number of titles and targets.
THEOREM PlanIsExact == RebalanceSpec => []PlanReachesTargets
<1>1. PlanTypes => PlanReachesTargets
  BY BucketOrders, ShareOf, CashSpent DEF PlanReachesTargets, EndsAt
<1> QED
  BY <1>1, PlanTypesInit, PlanTypesStep, PTL DEF RebalanceSpec

-----------------------------------------------------------------------------
(* The plan where buckets overlap.                                         *)

\* A sum grows with its terms.
LEMMA SumGrows ==
  ASSUME NEW S, IsFiniteSet(S), NEW f, NEW g, \A x \in S : f[x] \in Int /\ g[x] \in Int /\ f[x] <= g[x]
  PROVE  SumFunctionOnSet(f, S) <= SumFunctionOnSet(g, S)
<1> DEFINE d == [x \in S |-> g[x] - f[x]]
<1>1. \A x \in S : d[x] \in Nat /\ g[x] = 1 * d[x] + 1 * f[x] /\ f[x] \in Int
  OBVIOUS
<1> HIDE DEF d
<1>2. SumFunctionOnSet(d, S) \in Nat
  BY <1>1, SumOfNaturals
<1>3. SumFunctionOnSet(f, S) \in Int
  BY SumType
<1>4. SumFunctionOnSet(g, S) = 1 * SumFunctionOnSet(d, S) + 1 * SumFunctionOnSet(f, S)
  BY <1>1, SumLinear
<1> QED
  BY <1>2, <1>3, <1>4

\* A bucket's legs all buy, or all sell, and sell no more than the positions.
LEMMA LegSign ==
  ASSUME PlanTypes, NEW t \in targets, NEW h \in Constituents(t)
  PROVE  /\ Delta(t) >= 0 => Leg(t, h) >= 0
         /\ Delta(t) <= 0 => Leg(t, h) <= 0
<1>1. PICK k \in Int : /\ Delta(t) = k * SumFunctionOnSet(position, t.scope)
                      /\ Leg(t, h) = k * position[h]
  BY BucketRate
<1>2. h \in t.scope /\ t.scope \in SUBSET Holdable /\ position[h] > 0
  BY TargetFacts DEF Constituents
<1>3. PICK n \in Nat, v \in Nat : /\ n = SumFunctionOnSet(position, t.scope) /\ v = position[h]
                                  /\ v <= n /\ v > 0
  BY <1>2, ValueIs, PositionFacts
<1>4. n > 0
  BY <1>3
<1>5. k * n >= 0 => k >= 0
  BY <1>4
<1>6. k * n <= 0 => k <= 0
  BY <1>4
<1>7. k >= 0 => k * v >= 0
  OBVIOUS
<1>8. k <= 0 => k * v <= 0
  OBVIOUS
<1> QED
  BY <1>1, <1>3, <1>5, <1>6, <1>7, <1>8

\* Where every bucket that meets this one buys, so does each of its orders, at
\* least by its own leg; where every one sells, each order sells at least the
\* leg and at most the position.
LEMMA OrdersCoverLegs ==
  ASSUME PlanTypes, NEW t \in targets, NEW h \in Constituents(t)
  PROVE  /\ (\A u \in Meeting(t) : Delta(u) >= 0) => Order(h) >= Leg(t, h)
         /\ (\A u \in Meeting(t) : Delta(u) <= 0) => Order(h) <= Leg(t, h)
         /\ Order(h) >= -Value({h})
<1> DEFINE f == [u \in targets |-> Leg(u, h)]
           rest == targets \ {t}
<1>1. h \in Holdable
  BY TargetFacts DEF Constituents
<1>2. IsFiniteSet(targets) /\ IsFiniteSet(rest)
  BY TargetFacts, FS_RemoveElement
<1>3. \A u \in targets : f[u] = Leg(u, h) /\ f[u] \in Int
  BY <1>1, LegType
<1>4. Merged(h) = SumFunctionOnSet(f, targets)
  BY DEF Merged
<1>5. \A u \in targets : h \notin Constituents(u) => f[u] = 0
  BY DEF Leg
<1>6. \A u \in targets : h \in Constituents(u) => u \in Meeting(t)
  BY DEF Meeting
<1> HIDE DEF f
<1>7. Merged(h) = Leg(t, h) + SumFunctionOnSet(f, rest)
  BY <1>2, <1>3, <1>4, SumSplit
<1>8. PICK l \in Int, r \in Int, v \in Nat :
        l = Leg(t, h) /\ r = SumFunctionOnSet(f, rest) /\ v = Value({h})
  <2>1. \A u \in rest : f[u] \in Int
    BY <1>3
  <2> HIDE DEF rest
  <2>2. SumFunctionOnSet(f, rest) \in Int
    BY <1>2, <2>1, SumType
  <2> QED
    BY <1>1, <1>3, <2>2, LegType, ValueIs
<1>9. Order(h) = IF l + r < -v THEN -v ELSE l + r
  BY <1>7, <1>8 DEF Order, Capped
<1>10. l >= -v
  <2>1. PICK q : l = IF q < -v THEN -v ELSE q
    BY <1>8 DEF Leg, Capped, Constituents
  <2>2. l = -v \/ (l = q /\ ~(q < -v))
    BY <2>1
  <2> QED
    BY <2>2
<1>11. ASSUME \A u \in Meeting(t) : Delta(u) >= 0 PROVE r >= 0 /\ l >= 0
  <2>1. \A u \in targets : f[u] \in Nat
    BY <1>3, <1>5, <1>6, <1>11, LegSign
  <2>2. \A u \in rest : f[u] \in Nat
    BY <2>1
  <2> HIDE DEF rest
  <2>3. SumFunctionOnSet(f, rest) \in Nat
    BY <1>2, <2>2, SumOfNaturals
  <2> QED
    BY <1>3, <1>8, <2>1, <2>3
<1>12. ASSUME \A u \in Meeting(t) : Delta(u) <= 0 PROVE r <= 0
  <2> DEFINE z == [u \in rest |-> 0]
  <2>1. \A u \in targets : f[u] <= 0
    BY <1>3, <1>5, <1>6, <1>12, LegSign
  <2>2. \A u \in rest : f[u] \in Int /\ z[u] \in Int /\ f[u] <= z[u] /\ z[u] = 0
    BY <1>3, <2>1
  <2> HIDE DEF rest, z
  <2>3. SumFunctionOnSet(f, rest) <= SumFunctionOnSet(z, rest)
    BY <1>2, <2>2, SumGrows
  <2>4. SumFunctionOnSet(z, rest) = 0
    BY <1>2, <2>2, SumZeros
  <2> QED
    BY <1>8, <2>3, <2>4
<1>13. ASSUME \A u \in Meeting(t) : Delta(u) >= 0 PROVE Order(h) >= l
  <2>1. r >= 0 /\ l >= 0
    BY <1>11, <1>13
  <2> QED
    BY <1>9, <2>1
<1>14. ASSUME \A u \in Meeting(t) : Delta(u) <= 0 PROVE Order(h) <= l
  <2>1. r <= 0
    BY <1>12, <1>14
  <2> QED
    BY <1>9, <1>10, <2>1
<1>15. Order(h) >= -v
  BY <1>9
<1> QED
  BY <1>8, <1>13, <1>14, <1>15

\* What is sold of a bucket is at most what is in it.
LEMMA NothingOwed ==
  ASSUME PlanTypes, NEW t \in targets, Constituents(t) # {}
  PROVE  Value(t.scope) + Ordered(Constituents(t)) >= 0
<1> DEFINE C == Constituents(t)
           o == [h \in C |-> Order(h)]
           w == [h \in C |-> -(Parts * position[h])]
<1>1. IsFiniteSet(C) /\ C \in SUBSET Holdable
  BY BucketLegs
<1>2. PICK p \in Nat : p = Parts
  BY ExactAssumption DEF Parts
<1>3. \A h \in C : position[h] \in Nat /\ o[h] = Order(h) /\ w[h] = -(p * position[h])
  BY <1>1, <1>2, PositionFacts
<1>4. \A h \in C : Value({h}) = p * position[h] /\ Order(h) \in Int /\ Order(h) >= -Value({h})
  BY <1>1, <1>2, ValueOne, OrderType, OrdersCoverLegs
<1>5. Ordered(C) = SumFunctionOnSet(o, C)
  BY DEF Ordered
<1>6. SumFunctionOnSet(position, C) = SumFunctionOnSet(position, t.scope)
  <2>1. t.scope \in SUBSET Holdable /\ C \in SUBSET t.scope
    BY TargetFacts DEF Constituents
  <2>2. \A h \in t.scope \ C : position[h] = 0
    BY <2>1, PositionFacts DEF Constituents
  <2> HIDE DEF C
  <2> QED
    BY <2>1, <2>2, HeldWorth
<1> HIDE DEF C, o, w
<1>k. PICK k \in Int : k = -p
  OBVIOUS
<1>7. ASSUME NEW h \in C
      PROVE  /\ w[h] \in Int /\ o[h] \in Int /\ w[h] <= o[h]
             /\ position[h] \in Int
             /\ w[h] = k * position[h] + 0 * position[h]
  <2>1. PICK v \in Nat : v = position[h]
    BY <1>3
  <2>2. p * v \in Nat /\ k * v + 0 * v = -(p * v) /\ -(p * v) \in Int
    BY <1>k
  <2>3. Value({h}) = p * v /\ w[h] = -(p * v) /\ o[h] = Order(h) /\ o[h] \in Int
    BY <1>3, <1>4, <2>1
  <2>4. o[h] >= -(p * v)
    BY <1>4, <2>3
  <2> QED
    BY <2>1, <2>2, <2>3, <2>4
<1>8. SumFunctionOnSet(w, C) <= SumFunctionOnSet(o, C)
  BY <1>1, <1>7, SumGrows
<1>9. SumFunctionOnSet(w, C)
        = k * SumFunctionOnSet(position, C) + 0 * SumFunctionOnSet(position, C)
  BY <1>1, <1>7, SumLinear
<1>10. PICK m \in Nat : m = SumFunctionOnSet(position, C)
  BY <1>1, ValueIs
<1>11. SumFunctionOnSet(w, C) = -(p * m)
  <2>1. k * m + 0 * m = -(p * m)
    BY <1>k
  <2> QED
    BY <1>9, <1>10, <2>1
<1>12. Value(t.scope) = p * m
  BY <1>2, <1>6, <1>10 DEF Value
<1>13. PICK q \in Int : q = SumFunctionOnSet(o, C)
  BY <1>1, <1>7, SumType
<1>14. p * m + q >= 0
  BY <1>8, <1>11, <1>13
<1> QED
  BY <1>5, <1>12, <1>13, <1>14 DEF C

\* However the buckets of the targets overlap: where every bucket that meets
\* another buys, the merged orders still bring that one to its share, and where
\* every one sells, they bring it down to its share, and never below nothing.
\* compute_rebalance_plan loses no leg of a shared title, and the cap of its
\* merged sale cuts none that a bucket needs.
THEOREM OverlapsAreServed == RebalanceSpec => []OverlapsKeepShares
<1>1. ASSUME PlanTypes, NEW t \in targets, t.scope # {}, Constituents(t) # {}
      PROVE  /\ (\A u \in Meeting(t) : Delta(u) >= 0) => 100 * EndsAt(t) >= t.percent * TotalValue
             /\ (\A u \in Meeting(t) : Delta(u) <= 0)
                  => 100 * EndsAt(t) \in 0..(t.percent * TotalValue)
  <2> DEFINE C == Constituents(t)
             l == [h \in C |-> Leg(t, h)]
             o == [h \in C |-> Order(h)]
  <2>1. IsFiniteSet(C) /\ C \in SUBSET Holdable /\ SumFunctionOnSet(l, C) = Delta(t)
    BY <1>1, BucketLegs
  <2>2. \A h \in C : l[h] \in Int /\ o[h] \in Int
    BY <1>1, <2>1, LegType, OrderType
  <2>3. EndsAt(t) = Value(t.scope) + SumFunctionOnSet(o, C)
    BY DEF EndsAt, Ordered
  <2>4. (\A u \in Meeting(t) : Delta(u) >= 0) => \A h \in C : l[h] <= o[h]
    <3> SUFFICES ASSUME \A u \in Meeting(t) : Delta(u) >= 0, NEW h \in C PROVE l[h] <= o[h]
      OBVIOUS
    <3>1. Order(h) >= Leg(t, h)
      BY <1>1, OrdersCoverLegs
    <3> QED
      BY <2>2, <3>1
  <2>5. (\A u \in Meeting(t) : Delta(u) <= 0) => \A h \in C : o[h] <= l[h]
    BY <1>1, OrdersCoverLegs
  <2>6. Value(t.scope) + SumFunctionOnSet(o, C) >= 0
    BY <1>1, NothingOwed DEF Ordered
  <2> HIDE DEF C, l, o
  <2>7. PICK s \in Int, v \in Nat, d \in Int, g \in Nat :
          /\ s = SumFunctionOnSet(o, C) /\ v = Value(t.scope) /\ d = Delta(t)
          /\ g = t.percent * TotalValue /\ 100 * (v + d) = g
    BY <1>1, <2>1, <2>2, SumType, ShareOf
  <2>8. ASSUME \A u \in Meeting(t) : Delta(u) >= 0 PROVE d <= s
    <3>1. SumFunctionOnSet(l, C) <= SumFunctionOnSet(o, C)
      BY <2>1, <2>2, <2>4, <2>8, SumGrows
    <3> QED
      BY <2>1, <2>7, <3>1
  <2>9. ASSUME \A u \in Meeting(t) : Delta(u) <= 0 PROVE s <= d
    <3>1. SumFunctionOnSet(o, C) <= SumFunctionOnSet(l, C)
      BY <2>1, <2>2, <2>5, <2>9, SumGrows
    <3> QED
      BY <2>1, <2>7, <3>1
  <2>10. EndsAt(t) = v + s /\ v + s >= 0
    BY <2>3, <2>6, <2>7
  <2>11. ASSUME d <= s PROVE 100 * EndsAt(t) >= g
    BY <2>7, <2>10, <2>11
  <2>12. ASSUME s <= d PROVE 100 * EndsAt(t) \in 0..g
    BY <2>7, <2>10, <2>12
  <2> QED
    BY <2>7, <2>8, <2>9, <2>11, <2>12
<1>2. PlanTypes => OverlapsKeepShares
  BY <1>1 DEF OverlapsKeepShares
<1> QED
  BY <1>2, PlanTypesInit, PlanTypesStep, PTL DEF RebalanceSpec

-----------------------------------------------------------------------------
(* The limiter.                                                            *)

LimiterSpec == LimiterInit /\ [][LimiterNext]_limiterVars

\* A sequence that is not empty is a shorter one and its last element.
LEMMA LastOfSequence ==
  ASSUME NEW T, NEW s \in Seq(T), s # <<>>
  PROVE  \E r \in Seq(T), x \in T : s = Append(r, x) /\ Len(r) = Len(s) - 1
<1>1. PICK n \in Nat \ {0} : n = Len(s)
  OBVIOUS
<1> DEFINE r == SubSeq(s, 1, n - 1)
<1>2. r \in Seq(T) /\ Len(r) = n - 1 /\ s[n] \in T
  BY <1>1
<1>3. s = Append(r, s[n])
  BY <1>1, <1>2
<1> QED
  BY <1>1, <1>2, <1>3

\* What holds of the empty sequence, and of a longer one if of the shorter,
\* holds of all.
LEMMA SequenceInduction ==
  ASSUME NEW T, NEW S, <<>> \in S, \A s \in Seq(T), x \in T : s \in S => Append(s, x) \in S
  PROVE  Seq(T) \subseteq S
<1> DEFINE Bad == {n \in Nat : \E s \in Seq(T) : Len(s) = n /\ s \notin S}
<1>1. ASSUME NEW n \in Bad PROVE n # 0 /\ n - 1 \in Bad
  <2>1. PICK s \in Seq(T) : Len(s) = n /\ s \notin S
    OBVIOUS
  <2>2. s # <<>> /\ n \in Nat \ {0}
    BY <2>1
  <2>3. PICK r \in Seq(T), x \in T : s = Append(r, x) /\ Len(r) = n - 1
    BY <2>1, <2>2, LastOfSequence
  <2>4. r \notin S
    BY <2>1, <2>3
  <2>5. n - 1 \in Nat
    BY <2>2
  <2> QED
    BY <2>2, <2>3, <2>4, <2>5
<1>2. Bad = {}
  <2> SUFFICES ASSUME Bad # {} PROVE FALSE
    OBVIOUS
  <2>1. Bad \in SUBSET Nat
    OBVIOUS
  <2> HIDE DEF Bad
  <2>2. PICK n \in Bad : \A m \in Bad : n <= m
    BY <2>1, LeastNatural
  <2>3. n \in Nat /\ n - 1 \in Bad
    BY <1>1, <2>1
  <2> QED
    BY <2>2, <2>3
<1> QED
  BY <1>2

KeptFrom(s, n, g) ==
  g = [i \in 0..n |-> IF i = 0 THEN <<>>
                      ELSE IF s[i] < RateWindow THEN Append(g[i - 1], s[i]) ELSE g[i - 1]]
Kept(s, n) == CHOOSE g : KeptFrom(s, n, g)

LEMMA RecentIs == ASSUME NEW s PROVE Recent(s) = Kept(s, Len(s))[Len(s)]
  BY DEF Recent, Kept, KeptFrom

\* The recursion of Recent has a solution.
LEMMA KeptExists == ASSUME NEW s, NEW m \in Nat PROVE KeptFrom(s, m, Kept(s, m))
<1> DEFINE Bad == {n \in Nat : ~\E g : KeptFrom(s, n, g)}
<1>1. 0 \notin Bad
  <2>1. KeptFrom(s, 0, [i \in 0..0 |-> <<>>])
    BY DEF KeptFrom
  <2> QED
    BY <2>1
<1>2. ASSUME NEW n \in Nat \ {0}, n - 1 \notin Bad PROVE n \notin Bad
  <2>1. PICK g : KeptFrom(s, n - 1, g)
    BY <1>2
  <2> DEFINE step(h, i) == IF i = 0 THEN <<>>
                           ELSE IF s[i] < RateWindow THEN Append(h[i - 1], s[i]) ELSE h[i - 1]
             h == [i \in 0..n |-> step(g, i)]
  <2>2. g = [i \in 0..(n - 1) |-> step(g, i)]
    BY <2>1 DEF KeptFrom
  <2>3. \A i \in 0..(n - 1) : h[i] = g[i]
    <3> HIDE DEF step
    <3> SUFFICES ASSUME NEW i \in 0..(n - 1) PROVE h[i] = g[i]
      OBVIOUS
    <3>1. i \in 0..n
      OBVIOUS
    <3>2. g[i] = step(g, i)
      BY <2>2
    <3> QED
      BY <3>1, <3>2
  <2>4. \A i \in 0..n : step(h, i) = step(g, i)
    <3> SUFFICES ASSUME NEW i \in 0..n PROVE step(h, i) = step(g, i)
      OBVIOUS
    <3> HIDE DEF h
    <3>1. CASE i = 0
      BY <3>1
    <3>2. CASE i # 0
      <4>1. i - 1 \in 0..(n - 1)
        BY <3>2
      <4>2. h[i - 1] = g[i - 1]
        BY <2>3, <4>1
      <4> QED
        BY <4>2
    <3> QED
      BY <3>1, <3>2
  <2>5. h = [i \in 0..n |-> step(h, i)]
    <3>1. h = [i \in 0..n |-> step(g, i)]
      OBVIOUS
    <3> HIDE DEF h, step
    <3> QED
      BY <2>4, <3>1
  <2>6. KeptFrom(s, n, h)
    <3> HIDE DEF h
    <3> QED
      BY <2>5 DEF KeptFrom
  <2> QED
    BY <2>6
<1>3. Bad = {}
  <2> SUFFICES ASSUME Bad # {} PROVE FALSE
    OBVIOUS
  <2>1. Bad \in SUBSET Nat
    OBVIOUS
  <2> HIDE DEF Bad
  <2>2. PICK n \in Bad : \A k \in Bad : n <= k
    BY <2>1, LeastNatural
  <2>3. n \in Nat \ {0} /\ n - 1 \in Nat
    BY <1>1, <2>1
  <2>4. n - 1 \notin Bad
    BY <2>2, <2>3
  <2> QED
    BY <1>2, <2>3, <2>4
<1>4. \E g : KeptFrom(s, m, g)
  BY <1>3
<1> QED
  BY <1>4 DEF Kept

LEMMA KeptSteps ==
  ASSUME NEW s, NEW n \in Nat, NEW i \in 0..n
  PROVE  Kept(s, n)[i] = IF i = 0 THEN <<>>
                         ELSE IF s[i] < RateWindow THEN Append(Kept(s, n)[i - 1], s[i])
                         ELSE Kept(s, n)[i - 1]
<1> DEFINE g == Kept(s, n)
<1>1. KeptFrom(s, n, g)
  BY KeptExists
<1> HIDE DEF g
<1>2. g = [j \in 0..n |-> IF j = 0 THEN <<>>
                          ELSE IF s[j] < RateWindow THEN Append(g[j - 1], s[j]) ELSE g[j - 1]]
  BY <1>1 DEF KeptFrom
<1>3. g[i] = IF i = 0 THEN <<>>
             ELSE IF s[i] < RateWindow THEN Append(g[i - 1], s[i]) ELSE g[i - 1]
  BY <1>2, Zenon
<1> QED
  BY <1>3 DEF g

\* It depends on the calls up to there.
LEMMA KeptAgree ==
  ASSUME NEW s, NEW r, NEW n \in Nat, NEW m \in Nat, n <= m, \A i \in 1..n : s[i] = r[i]
  PROVE  \A i \in 0..n : Kept(s, n)[i] = Kept(r, m)[i]
<1> DEFINE Bad == {i \in 0..n : Kept(s, n)[i] # Kept(r, m)[i]}
<1> SUFFICES ASSUME Bad # {} PROVE FALSE
  OBVIOUS
<1>1. Bad \in SUBSET Nat
  OBVIOUS
<1>2. PICK i \in Bad : \A k \in Bad : i <= k
  <2> HIDE DEF Bad
  <2> QED
    BY <1>1, LeastNatural
<1>3. i \in 0..n /\ i \in 0..m /\ Kept(s, n)[i] # Kept(r, m)[i]
  OBVIOUS
<1>4. i # 0
  BY <1>3, KeptSteps
<1>5. i - 1 \in 0..n /\ ~(i <= i - 1)
  BY <1>3, <1>4
<1>6. Kept(s, n)[i - 1] = Kept(r, m)[i - 1]
  BY <1>2, <1>5
<1>7. s[i] = r[i]
  BY <1>3, <1>4
<1>8. /\ Kept(s, n)[i] = IF s[i] < RateWindow THEN Append(Kept(s, n)[i - 1], s[i])
                         ELSE Kept(s, n)[i - 1]
      /\ Kept(r, m)[i] = IF r[i] < RateWindow THEN Append(Kept(r, m)[i - 1], r[i])
                         ELSE Kept(r, m)[i - 1]
  BY <1>3, <1>4, KeptSteps
<1> QED
  BY <1>3, <1>6, <1>7, <1>8

LEMMA RecentEmpty == Recent(<<>>) = <<>>
<1>1. Recent(<<>>) = Kept(<<>>, 0)[0]
  BY RecentIs
<1>2. Kept(<<>>, 0)[0] = <<>>
  BY KeptSteps
<1> QED
  BY <1>1, <1>2

LEMMA RecentAppend ==
  ASSUME NEW s \in Seq(Nat), NEW x \in Nat
  PROVE  Recent(Append(s, x)) = IF x < RateWindow THEN Append(Recent(s), x) ELSE Recent(s)
<1> DEFINE r == Append(s, x)
           n == Len(s)
<1>1. n \in Nat /\ Len(r) = n + 1 /\ r[n + 1] = x /\ \A i \in 1..n : s[i] = r[i]
  OBVIOUS
<1> HIDE DEF r, n
<1>2. Recent(r) = Kept(r, n + 1)[n + 1] /\ Recent(s) = Kept(s, n)[n]
  BY <1>1, RecentIs DEF n
<1>3. Kept(r, n + 1)[n + 1] = IF x < RateWindow THEN Append(Kept(r, n + 1)[n], x)
                              ELSE Kept(r, n + 1)[n]
  <2>1. n + 1 \in Nat /\ n + 1 \in 0..(n + 1) /\ n + 1 # 0 /\ (n + 1) - 1 = n
    BY <1>1
  <2>2. Kept(r, n + 1)[n + 1] =
          IF n + 1 = 0 THEN <<>>
          ELSE IF r[n + 1] < RateWindow THEN Append(Kept(r, n + 1)[(n + 1) - 1], r[n + 1])
          ELSE Kept(r, n + 1)[(n + 1) - 1]
    BY <2>1, KeptSteps
  <2> QED
    BY <1>1, <2>1, <2>2
<1>4. Kept(s, n)[n] = Kept(r, n + 1)[n]
  <2>1. n <= n + 1 /\ n + 1 \in Nat /\ n \in 0..n
    BY <1>1
  <2> QED
    BY <1>1, <2>1, KeptAgree
<1> QED
  BY <1>2, <1>3, <1>4 DEF r

\* What is recent is one of the calls, and recent.
LEMMA RecentAmong ==
  ASSUME NEW s \in Seq(Nat)
  PROVE  /\ Recent(s) \in Seq(Nat)
         /\ \A j \in 1..Len(Recent(s)) : /\ Recent(s)[j] < RateWindow
                                         /\ \E i \in 1..Len(s) : Recent(s)[j] = s[i]
<1> DEFINE S == {q \in Seq(Nat) :
                   /\ Recent(q) \in Seq(Nat)
                   /\ \A j \in 1..Len(Recent(q)) : /\ Recent(q)[j] < RateWindow
                                                   /\ \E i \in 1..Len(q) : Recent(q)[j] = q[i]}
<1>1. <<>> \in S
  <2> DEFINE r == Recent(<<>>)
  <2>1. r = <<>>
    BY RecentEmpty
  <2>2. <<>> \in Seq(Nat) /\ Len(<<>>) = 0
    OBVIOUS
  <2> HIDE DEF r
  <2>3. r \in Seq(Nat) /\ 1..Len(r) = {}
    BY <2>1, <2>2
  <2> QED
    BY <2>2, <2>3 DEF r
<1>2. ASSUME NEW q \in Seq(Nat), NEW x \in Nat, q \in S PROVE Append(q, x) \in S
  <2> DEFINE r == Recent(q)
             a == Append(q, x)
  <2>1. /\ r \in Seq(Nat)
        /\ \A j \in 1..Len(r) : r[j] < RateWindow /\ \E i \in 1..Len(q) : r[j] = q[i]
    BY <1>2
  <2>2. /\ a \in Seq(Nat) /\ Len(a) = Len(q) + 1 /\ a[Len(a)] = x /\ Len(q) \in Nat
        /\ \A i \in 1..Len(q) : i \in 1..Len(a) /\ a[i] = q[i]
    OBVIOUS
  <2>3. Recent(a) = IF x < RateWindow THEN Append(r, x) ELSE r
    BY RecentAppend
  <2> HIDE DEF r, a
  <2>4. CASE x < RateWindow
    <3>1. /\ Append(r, x) \in Seq(Nat) /\ Len(Append(r, x)) = Len(r) + 1 /\ Len(r) \in Nat
          /\ \A j \in 1..Len(r) : Append(r, x)[j] = r[j]
          /\ Append(r, x)[Len(r) + 1] = x
      BY <2>1
    <3>2. ASSUME NEW j \in 1..(Len(r) + 1)
          PROVE  Append(r, x)[j] < RateWindow /\ \E i \in 1..Len(a) : Append(r, x)[j] = a[i]
      <4>1. CASE j = Len(r) + 1
        <5>1. Len(a) \in 1..Len(a)
          BY <2>2
        <5> QED
          BY <2>2, <2>4, <3>1, <4>1, <5>1
      <4>2. CASE j \in 1..Len(r)
        BY <2>1, <2>2, <3>1, <4>2
      <4> QED
        BY <3>1, <4>1, <4>2
    <3> QED
      BY <2>2, <2>3, <2>4, <3>1, <3>2 DEF a
  <2>5. CASE ~(x < RateWindow)
    BY <2>1, <2>2, <2>3, <2>5 DEF a
  <2> QED
    BY <2>4, <2>5
<1> HIDE DEF S
<1>3. Seq(Nat) \subseteq S
  BY <1>1, <1>2, SequenceInduction
<1> QED
  BY <1>3 DEF S

\* Among old calls none is recent, among recent ones all are.
LEMMA NoneRecent ==
  ASSUME NEW s \in Seq(Nat), \A i \in 1..Len(s) : s[i] >= RateWindow
  PROVE  Recent(s) = <<>>
<1> DEFINE r == Recent(s)
<1>1. /\ r \in Seq(Nat)
      /\ \A j \in 1..Len(r) : r[j] < RateWindow /\ \E i \in 1..Len(s) : r[j] = s[i]
  BY RecentAmong
<1> HIDE DEF r
<1>2. RateWindow \in Nat /\ \A i \in 1..Len(s) : s[i] \in Nat
  BY LimiterAssumption
<1>3. ASSUME NEW j \in 1..Len(r) PROVE FALSE
  <2>1. PICK i \in 1..Len(s) : r[j] = s[i]
    BY <1>1
  <2>2. r[j] < RateWindow /\ s[i] >= RateWindow /\ s[i] \in Nat
    BY <1>1, <1>2
  <2> QED
    BY <1>2, <2>1, <2>2
<1>4. r = <<>>
  <2>1. Len(r) \in Nat
    BY <1>1
  <2>2. Len(r) = 0
    BY <1>3, <2>1
  <2> QED
    BY <1>1, <2>2
<1> QED
  BY <1>4 DEF r

LEMMA AllRecent ==
  ASSUME NEW s \in Seq(Nat), \A i \in 1..Len(s) : s[i] < RateWindow
  PROVE  Recent(s) = s
<1> DEFINE S == {q \in Seq(Nat) : (\A i \in 1..Len(q) : q[i] < RateWindow) => Recent(q) = q}
<1>1. <<>> \in S
  BY RecentEmpty
<1>2. ASSUME NEW q \in Seq(Nat), NEW x \in Nat, q \in S PROVE Append(q, x) \in S
  <2> DEFINE a == Append(q, x)
  <2>1. a \in Seq(Nat) /\ Len(q) + 1 \in 1..Len(a) /\ a[Len(q) + 1] = x
        /\ \A i \in 1..Len(q) : i \in 1..Len(a) /\ a[i] = q[i]
    OBVIOUS
  <2>2. Recent(a) = IF x < RateWindow THEN Append(Recent(q), x) ELSE Recent(q)
    BY RecentAppend
  <2> HIDE DEF a
  <2>3. ASSUME \A i \in 1..Len(a) : a[i] < RateWindow PROVE Recent(a) = a
    <3>1. x < RateWindow /\ Recent(q) = q
      BY <1>2, <2>1, <2>3
    <3> QED
      BY <2>2, <3>1 DEF a
  <2>4. a \in S
    BY <2>1, <2>3
  <2> QED
    BY <2>4 DEF a
<1> HIDE DEF S
<1>3. Seq(Nat) \subseteq S
  BY <1>1, <1>2, SequenceInduction
<1> QED
  BY <1>3 DEF S

LEMMA AgedIs ==
  ASSUME NEW s \in Seq(Nat)
  PROVE  /\ AgedBy(s) \in Seq(Nat) /\ Len(AgedBy(s)) = Len(s)
         /\ \A i \in 1..Len(s) : AgedBy(s)[i] = IF s[i] < RateWindow THEN s[i] + 1 ELSE s[i]
  BY DEF AgedBy

LEMMA AgedAppend ==
  ASSUME NEW s \in Seq(Nat), NEW x \in Nat
  PROVE  AgedBy(Append(s, x))
           = Append(AgedBy(s), IF x < RateWindow THEN x + 1 ELSE x)
<1> DEFINE a == Append(s, x)
           y == IF x < RateWindow THEN x + 1 ELSE x
           b == Append(AgedBy(s), y)
<1>1. a \in Seq(Nat) /\ Len(a) = Len(s) + 1 /\ a[Len(s) + 1] = x /\ Len(s) \in Nat
      /\ \A i \in 1..Len(s) : a[i] = s[i]
  OBVIOUS
<1>2. /\ AgedBy(a) \in Seq(Nat) /\ Len(AgedBy(a)) = Len(s) + 1
      /\ \A i \in 1..(Len(s) + 1) : AgedBy(a)[i] = IF a[i] < RateWindow THEN a[i] + 1 ELSE a[i]
  BY <1>1, AgedIs
<1>3. y \in Nat
  BY DEF y
<1> HIDE DEF a, y
<1>4. /\ b \in Seq(Nat) /\ Len(b) = Len(s) + 1 /\ b[Len(s) + 1] = y
      /\ \A i \in 1..Len(s) : b[i] = AgedBy(s)[i]
  BY <1>3, AgedIs
<1> HIDE DEF b
<1>5. \A i \in 1..(Len(s) + 1) : AgedBy(a)[i] = b[i]
  <2>1. AgedBy(a)[Len(s) + 1] = b[Len(s) + 1]
    <3>1. Len(s) + 1 \in 1..(Len(s) + 1)
      BY <1>1
    <3>2. AgedBy(a)[Len(s) + 1] = y
      BY <1>1, <1>2, <3>1 DEF y
    <3> QED
      BY <1>4, <3>2
  <2>2. ASSUME NEW i \in 1..Len(s) PROVE AgedBy(a)[i] = b[i]
    <3>1. i \in 1..(Len(s) + 1)
      BY <1>1
    <3>2. AgedBy(a)[i] = IF s[i] < RateWindow THEN s[i] + 1 ELSE s[i]
      BY <1>1, <1>2, <3>1
    <3>3. AgedBy(s)[i] = IF s[i] < RateWindow THEN s[i] + 1 ELSE s[i]
      BY AgedIs
    <3> QED
      BY <1>4, <3>2, <3>3
  <2> QED
    BY <1>1, <2>1, <2>2
<1>6. AgedBy(a) = b
  BY <1>2, <1>4, <1>5
<1> QED
  BY <1>6 DEF a, b, y

\* Forgetting old calls before they age changes nothing.
LEMMA AgedRecent ==
  ASSUME NEW s \in Seq(Nat)
  PROVE  Recent(AgedBy(Recent(s))) = Recent(AgedBy(s))
<1> DEFINE S == {q \in Seq(Nat) : Recent(AgedBy(Recent(q))) = Recent(AgedBy(q))}
<1>1. <<>> \in S
  BY RecentEmpty
<1>2. ASSUME NEW q \in Seq(Nat), NEW x \in Nat, q \in S PROVE Append(q, x) \in S
  <2> DEFINE r == Recent(q)
             y == IF x < RateWindow THEN x + 1 ELSE x
  <2>1. r \in Seq(Nat) /\ AgedBy(r) \in Seq(Nat) /\ AgedBy(q) \in Seq(Nat) /\ y \in Nat
    BY RecentAmong, AgedIs
  <2>2. Recent(Append(q, x)) = IF x < RateWindow THEN Append(r, x) ELSE r
    BY RecentAppend
  <2>3. AgedBy(Append(q, x)) = Append(AgedBy(q), y) /\ AgedBy(Append(r, x)) = Append(AgedBy(r), y)
    BY <2>1, AgedAppend
  <2>4. Recent(AgedBy(r)) = Recent(AgedBy(q))
    BY <1>2
  <2> HIDE DEF r, y
  <2>5. /\ Recent(Append(AgedBy(q), y))
             = IF y < RateWindow THEN Append(Recent(AgedBy(q)), y) ELSE Recent(AgedBy(q))
        /\ Recent(Append(AgedBy(r), y))
             = IF y < RateWindow THEN Append(Recent(AgedBy(r)), y) ELSE Recent(AgedBy(r))
    BY <2>1, RecentAppend
  <2>6. Recent(AgedBy(Recent(Append(q, x)))) = Recent(AgedBy(Append(q, x)))
    <3>1. CASE x < RateWindow
      BY <2>2, <2>3, <2>4, <2>5, <3>1
    <3>2. CASE ~(x < RateWindow)
      <4>1. y = x
        BY <3>2 DEF y
      <4> QED
        BY <2>2, <2>3, <2>4, <2>5, <3>2, <4>1
    <3> QED
      BY <3>1, <3>2
  <2>7. Append(q, x) \in Seq(Nat)
    OBVIOUS
  <2> QED
    BY <2>6, <2>7
<1> HIDE DEF S
<1>3. Seq(Nat) \subseteq S
  BY <1>1, <1>2, SequenceInduction
<1> QED
  BY <1>3 DEF S

(* The last call is the youngest, so a client whose last call is old has no *)
(* recent one and may be forgotten.                                         *)
LastLeast(s) == \A i \in 1..Len(s) : s[i] >= s[Len(s)]

LEMMA PrunedForgetsNone ==
  ASSUME NEW s \in Seq(Nat), LastLeast(s)
  PROVE  /\ Pruned(s) \in Seq(Nat) /\ LastLeast(Pruned(s)) /\ Recent(Pruned(s)) = Recent(s)
         /\ LastLeast(Recent(s)) /\ Recent(Recent(s)) = Recent(s)
<1>1. CASE s # <<>> /\ s[Len(s)] >= RateWindow
  <2>1. \A i \in 1..Len(s) : s[i] \in Nat /\ s[Len(s)] \in Nat /\ RateWindow \in Nat
    BY LimiterAssumption
  <2>2. \A i \in 1..Len(s) : s[i] >= RateWindow
    BY <1>1, <2>1 DEF LastLeast
  <2>3. Recent(s) = <<>> /\ Pruned(s) = <<>>
    BY <1>1, <2>2, NoneRecent DEF Pruned
  <2>4. LastLeast(<<>>)
    BY DEF LastLeast
  <2> QED
    BY <2>3, <2>4, RecentEmpty
<1>2. CASE ~(s # <<>> /\ s[Len(s)] >= RateWindow)
  <2>1. Pruned(s) = s
    BY <1>2 DEF Pruned
  <2>2. Recent(Recent(s)) = Recent(s)
    BY RecentAmong, AllRecent
  <2>3. LastLeast(Recent(s))
    <3>1. CASE s = <<>>
      BY <3>1, RecentEmpty DEF LastLeast
    <3>2. CASE s # <<>>
      <4>1. PICK r \in Seq(Nat), x \in Nat : s = Append(r, x) /\ Len(r) = Len(s) - 1
        BY <3>2, LastOfSequence
      <4>2. /\ Len(s) \in Nat \ {0} /\ x = s[Len(s)] /\ Len(r) \in Nat
            /\ \A i \in 1..Len(r) : i \in 1..Len(s) /\ r[i] = s[i]
        BY <3>2, <4>1
      <4>3. x < RateWindow
        BY <1>2, <3>2, <4>1, <4>2, LimiterAssumption
      <4>4. \A i \in 1..Len(r) : r[i] >= x
        BY <4>2 DEF LastLeast
      <4>5. Recent(s) = Append(Recent(r), x)
        BY <4>1, <4>3, RecentAppend
      <4>6. /\ Recent(r) \in Seq(Nat)
            /\ \A j \in 1..Len(Recent(r)) : Recent(r)[j] >= x
        BY <4>1, <4>4, RecentAmong
      <4> DEFINE q == Recent(r)
      <4> HIDE DEF q
      <4>7. LastLeast(Append(q, x))
        <5>1. q \in Seq(Nat) /\ \A j \in 1..Len(q) : q[j] >= x
          BY <4>6 DEF q
        <5>2. /\ Len(Append(q, x)) = Len(q) + 1 /\ Len(q) \in Nat
              /\ Append(q, x)[Len(q) + 1] = x
              /\ \A j \in 1..Len(q) : Append(q, x)[j] = q[j]
          BY <4>1, <5>1
        <5> QED
          BY <4>1, <5>1, <5>2 DEF LastLeast
      <4> QED
        BY <4>5, <4>7 DEF q
    <3> QED
      BY <3>1, <3>2
  <2> QED
    BY <2>1, <2>2, <2>3
<1> QED
  BY <1>1, <1>2

LimiterInv ==
  /\ stamps \in [Clients -> Seq(Nat)] /\ granted \in [Clients -> Seq(Nat)]
  /\ \A c \in Clients : LastLeast(stamps[c]) /\ granted[c] = Recent(stamps[c])
  /\ RefusedExactlyWhenFull

LEMMA LimiterInvStep == LimiterInv /\ [LimiterNext]_limiterVars => LimiterInv'
<1> SUFFICES ASSUME LimiterInv, [LimiterNext]_limiterVars PROVE LimiterInv'
  OBVIOUS
<1>1. CASE UNCHANGED limiterVars
  BY <1>1 DEF limiterVars, LimiterInv, RefusedExactlyWhenFull
<1>2. ASSUME NEW c \in Clients, CheckRateLimit(c) PROVE LimiterInv'
  <2> DEFINE others == [k \in Clients |-> Pruned(stamps[k])]
             kept == Recent(others[c])
             ok == Len(kept) < MaxCalls
  <2>1. /\ stamps' = [others EXCEPT ![c] = IF ok THEN Append(kept, 0) ELSE kept]
        /\ granted' = [granted EXCEPT ![c] = IF ok THEN Append(granted[c], 0) ELSE granted[c]]
        /\ verdict' = [ok |-> ok, before |-> Len(granted[c])]
    BY <1>2 DEF CheckRateLimit
  <2>2. \A k \in Clients : /\ others[k] \in Seq(Nat) /\ LastLeast(others[k])
                           /\ Recent(others[k]) = granted[k] /\ granted[k] \in Seq(Nat)
                           /\ LastLeast(granted[k]) /\ Recent(granted[k]) = granted[k]
    BY PrunedForgetsNone DEF LimiterInv
  <2>3. kept = granted[c] /\ others \in [Clients -> Seq(Nat)]
    BY <2>2
  <2> HIDE DEF others, kept
  <2>4. RefusedExactlyWhenFull'
    <3>1. verdict'.ok = ok /\ verdict'.before = Len(granted[c])
      BY <2>1
    <3> QED
      BY <2>3, <3>1 DEF RefusedExactlyWhenFull
  <2> DEFINE new == IF ok THEN Append(kept, 0) ELSE kept
  <2>5. new \in Seq(Nat) /\ LastLeast(new) /\ Recent(new) = new
    <3>1. kept \in Seq(Nat) /\ LastLeast(kept) /\ Recent(kept) = kept
      BY <2>2, <2>3
    <3>2. Append(kept, 0) \in Seq(Nat) /\ LastLeast(Append(kept, 0))
      BY <3>1 DEF LastLeast
    <3>3. Recent(Append(kept, 0)) = Append(kept, 0)
      <4>1. 0 \in Nat /\ 0 < RateWindow
        BY LimiterAssumption
      <4> QED
        BY <3>1, <4>1, RecentAppend
    <3> QED
      BY <3>1, <3>2, <3>3
  <2>6. /\ stamps' = [others EXCEPT ![c] = new] /\ granted' = [granted EXCEPT ![c] = new]
    BY <2>1, <2>3
  <2> HIDE DEF new
  <2>7. granted \in [Clients -> Seq(Nat)]
    BY DEF LimiterInv
  <2> QED
    BY <2>2, <2>3, <2>4, <2>5, <2>6, <2>7 DEF LimiterInv
<1>3. CASE LimiterTick
  <2>1. /\ stamps' = [c \in Clients |-> AgedBy(stamps[c])]
        /\ granted' = [c \in Clients |-> Recent(AgedBy(granted[c]))]
        /\ verdict' = verdict
    BY <1>3 DEF LimiterTick
  <2>2. ASSUME NEW c \in Clients
        PROVE  /\ AgedBy(stamps[c]) \in Seq(Nat) /\ LastLeast(AgedBy(stamps[c]))
               /\ Recent(AgedBy(granted[c])) = Recent(AgedBy(stamps[c]))
               /\ Recent(AgedBy(granted[c])) \in Seq(Nat)
    <3> DEFINE s == stamps[c]
    <3>1. s \in Seq(Nat) /\ LastLeast(s) /\ granted[c] = Recent(s)
      BY DEF LimiterInv
    <3> HIDE DEF s
    <3>2. LastLeast(AgedBy(s))
      <4>1. RateWindow \in Nat /\ Len(s) \in Nat /\ \A i \in 1..Len(s) : s[i] \in Nat
        BY <3>1, LimiterAssumption
      <4>2. ASSUME NEW i \in 1..Len(s) PROVE AgedBy(s)[i] >= AgedBy(s)[Len(s)]
        <5>1. Len(s) \in 1..Len(s) /\ s[i] >= s[Len(s)]
          BY <3>1, <4>1 DEF LastLeast
        <5>2. /\ AgedBy(s)[i] = IF s[i] < RateWindow THEN s[i] + 1 ELSE s[i]
              /\ AgedBy(s)[Len(s)] = IF s[Len(s)] < RateWindow THEN s[Len(s)] + 1 ELSE s[Len(s)]
          BY <3>1, <5>1, AgedIs
        <5> QED
          BY <4>1, <5>1, <5>2
      <4> QED
        BY <3>1, <4>2, AgedIs DEF LastLeast
    <3>3. AgedBy(s) \in Seq(Nat) /\ Recent(AgedBy(Recent(s))) = Recent(AgedBy(s))
          /\ Recent(AgedBy(s)) \in Seq(Nat)
      BY <3>1, AgedIs, AgedRecent, RecentAmong
    <3> QED
      BY <3>1, <3>2, <3>3 DEF s
  <2> QED
    BY <2>1, <2>2 DEF LimiterInv, RefusedExactlyWhenFull
<1> QED
  BY <1>1, <1>2, <1>3 DEF LimiterNext

(* Whatever is pruned and when, a request is refused exactly when MaxCalls  *)
(* of its client were granted in the window before it (_check_rate_limit,   *)
(* _prune_rate_limiter).                                                    *)
THEOREM LimiterIsExact == LimiterSpec => []RefusedExactlyWhenFull
<1>1. LimiterInit => LimiterInv
  <2> SUFFICES ASSUME LimiterInit PROVE LimiterInv
    OBVIOUS
  <2>1. \A c \in Clients : stamps[c] = <<>> /\ granted[c] = <<>>
    BY DEF LimiterInit
  <2>2. LastLeast(<<>>)
    BY DEF LastLeast
  <2>3. RefusedExactlyWhenFull
    <3>1. 0 < MaxCalls
      BY LimiterAssumption
    <3> QED
      BY <3>1 DEF LimiterInit, RefusedExactlyWhenFull
  <2>4. stamps \in [Clients -> Seq(Nat)] /\ granted \in [Clients -> Seq(Nat)]
    BY DEF LimiterInit
  <2> QED
    BY <2>1, <2>2, <2>3, <2>4, RecentEmpty DEF LimiterInv
<1>2. LimiterInv => RefusedExactlyWhenFull
  BY DEF LimiterInv
<1> QED
  BY <1>1, <1>2, LimiterInvStep, PTL DEF LimiterSpec
=============================================================================
