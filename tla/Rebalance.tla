----------------------------- MODULE Rebalance -----------------------------
(***************************************************************************)
(* The target allocations of one account (routers/portfolio.py) and the    *)
(* plan computed from them (services/analytics.py).  Positions are worth   *)
(* whole hundreds of euros, counted in a unit so small that every division *)
(* below is exact (ExactAssumption); buckets differ by whole euros, so the *)
(* code's neglect of differences under one does not show.  Names,          *)
(* currencies and the rounding of the answer are left out.                 *)
(***************************************************************************)
EXTENDS Integers, FiniteSets, FiniteSetsExt

CONSTANTS
  Holdable,       \* titles
  Amounts,        \* the values a position may have, in hundreds of euros
  Euro,           \* how many units of value make a euro
  Scopes,         \* the scopes asked for: sets of titles, {} is CASH
  Percents,       \* the percentages asked for
  MaxTargets,     \* bound: the highest id of a target
  Planners        \* requests that create a target

ASSUME RebalanceAssumption ==
  /\ IsFiniteSet(Holdable) /\ Amounts \subseteq Nat /\ Percents \subseteq 0..100 /\ MaxTargets \in Nat
  /\ \A s \in Scopes : s \subseteq Holdable
  /\ "nobody" \notin Planners

(* A percentage of any total is spread over any bucket in whole units.      *)
ASSUME ExactAssumption ==
  /\ Euro \in Nat \ {0}
  /\ \A worth \in [Holdable -> Amounts \union {0}], s \in Scopes, p \in Percents :
       LET n == SumFunctionOnSet(worth, s)
       IN  n # 0 => \E q \in 0..(100 * Euro) : Euro * p = n * q

VARIABLES
  targets,        \* target_allocations: [id, scope, percent]
  position,       \* the value of each holding, 0 when there is none
  cash,           \* extra_cash of the preview
  planner,        \* each creation: its step, its target
  targetLock      \* the account's lock

rebalanceVars == <<targets, position, cash, planner, targetLock>>

Unlocked == "nobody"
NoPlan == [at |-> "idle", scope |-> {}, percent |-> 0]

PercentSum == SumFunctionOnSet([t \in targets |-> t.percent], targets)

RebalanceInit ==
  /\ targets = {} /\ cash = 0 /\ targetLock = Unlocked
  /\ position = [h \in Holdable |-> 0]
  /\ planner = [r \in Planners |-> NoPlan]

(* Bound: positions move after the creation of targets, which reads none.   *)
NobodyPlans == \A r \in Planners : planner[r] = NoPlan
Unmoved == cash = 0 /\ \A h \in Holdable : position[h] = 0

AskTarget(r, scope, percent) ==
  /\ planner[r] = NoPlan /\ Unmoved
  /\ planner' = [planner EXCEPT ![r] = [at |-> "lock", scope |-> scope, percent |-> percent]]
  /\ UNCHANGED <<targets, position, cash, targetLock>>

(* Mutant: the sum is checked outside the lock. *)
FreeToPlan(r) == TRUE

TakesLock(r) == targetLock = Unlocked

AcquireTarget(r) ==
  /\ planner[r].at = "lock" /\ TakesLock(r)
  /\ targetLock' = r
  /\ planner' = [planner EXCEPT ![r].at = "sum"]
  /\ UNCHANGED <<targets, position, cash>>

(* The sum is read; too much is refused with 400. *)
ReadSum(r) ==
  /\ planner[r].at = "sum"
  /\ IF PercentSum + planner[r].percent > 100
     THEN planner' = [planner EXCEPT ![r] = NoPlan] /\ targetLock' = Unlocked
     ELSE planner' = [planner EXCEPT ![r].at = "insert"] /\ UNCHANGED targetLock
  /\ UNCHANGED <<targets, position, cash>>

FreshId == CHOOSE i \in 1..(MaxTargets + 1) :
             /\ \A t \in targets : t.id < i
             /\ \A j \in 1..(i - 1) : \E t \in targets : t.id >= j

InsertTarget(r) ==
  /\ planner[r].at = "insert" /\ FreshId <= MaxTargets
  /\ targets' = targets \union {[id |-> FreshId, scope |-> planner[r].scope,
                                 percent |-> planner[r].percent]}
  /\ planner' = [planner EXCEPT ![r] = NoPlan]
  /\ targetLock' = Unlocked
  /\ UNCHANGED <<position, cash>>

(* delete_target takes no lock. *)
DeleteTarget(t) ==
  /\ t \in targets /\ targets' = targets \ {t}
  /\ UNCHANGED <<position, cash, planner, targetLock>>

(* Trades and prices move the positions; each preview brings its own cash.  *)
MovePosition(h, v) ==
  /\ NobodyPlans /\ position' = [position EXCEPT ![h] = v]
  /\ UNCHANGED <<targets, cash, planner, targetLock>>
BringCash(v) == NobodyPlans /\ cash' = v /\ UNCHANGED <<targets, position, planner, targetLock>>

RebalanceNext ==
  \/ \E r \in Planners :
       \/ \E s \in Scopes, p \in Percents : AskTarget(r, s, p)
       \/ AcquireTarget(r) \/ ReadSum(r) \/ InsertTarget(r)
  \/ \E t \in targets : DeleteTarget(t)
  \/ \E h \in Holdable, v \in Amounts : MovePosition(h, v)
  \/ \E v \in Amounts : BringCash(v)

RebalanceSpec == RebalanceInit /\ [][RebalanceNext]_rebalanceVars
-----------------------------------------------------------------------------
(* compute_rebalance_plan, in units. *)
Parts == 100 * Euro
Value(hs) == Parts * SumFunctionOnSet(position, hs)
TotalValue == Value(Holdable) + Parts * cash

(* The titles of the bucket that are held and priced. *)
Constituents(t) == {h \in t.scope : position[h] > 0}
Delta(t) == (TotalValue * t.percent) \div 100
              - (IF t.scope = {} THEN Parts * cash ELSE Value(t.scope))

(* Never sell more than is held. *)
Capped(h, q) == IF q < -Value({h}) THEN -Value({h}) ELSE q

(* A bucket's delta is spread over its titles by their value. *)
Leg(t, h) ==
  IF t.scope = {} \/ h \notin Constituents(t) THEN 0
  ELSE Capped(h, (Delta(t) * position[h]) \div (Value(t.scope) \div Parts))

(* Mutant: a title that two targets name is ordered for the last one. *)
MergedLast(h) ==
  IF targets = {} THEN 0 ELSE Leg(CHOOSE t \in targets : \A u \in targets : u.id <= t.id, h)

(* _merge_rebalance_orders: one order per title. *)
Merged(h) == SumFunctionOnSet([t \in targets |-> Leg(t, h)], targets)

Order(h) == Capped(h, Merged(h))
-----------------------------------------------------------------------------
RebalanceTypeOK ==
  /\ \A t \in targets : t.id \in 1..MaxTargets /\ t.percent \in Percents /\ t.scope \in Scopes
  /\ position \in [Holdable -> Amounts \union {0}] /\ cash \in Amounts \union {0}
  /\ targetLock \in Planners \union {Unlocked}

(* The targets of an account never add up to more than 100%, whatever       *)
(* creations and deletions overlap.                                         *)
TargetsWithinCap == PercentSum <= 100

(* The orders of one preview on a set of titles, and the value a bucket    *)
(* ends at when they are all carried out.                                  *)
Ordered(hs) == SumFunctionOnSet([h \in hs |-> Order(h)], hs)
EndsAt(t) == Value(t.scope) + Ordered(Constituents(t))

(* Buckets may share titles, and the orders of a shared title are merged.   *)
(* Where all the targets that meet a bucket buy, it still reaches its       *)
(* share: it gives nothing up to the others.  Where all of them sell, it    *)
(* comes down to its share at least, although the sale of a shared title is *)
(* cut, and no further than to nothing.                                     *)
Meeting(t) == {u \in targets : Constituents(u) \intersect Constituents(t) # {}}
OverlapsKeepShares ==
  \A t \in targets : t.scope # {} /\ Constituents(t) # {} =>
    /\ (\A u \in Meeting(t) : Delta(u) >= 0) => 100 * EndsAt(t) >= t.percent * TotalValue
    /\ (\A u \in Meeting(t) : Delta(u) <= 0) => 100 * EndsAt(t) \in 0..(t.percent * TotalValue)

(* When the targets split the positions between them and add up to 100%,    *)
(* the orders move the portfolio onto the targets: every bucket ends at its *)
(* share, so that the purchases cost the sales and the cash not kept.       *)
Splits ==
  /\ PercentSum = 100
  /\ \A h \in Holdable : position[h] > 0 => Cardinality({t \in targets : h \in t.scope}) = 1
  /\ \A t \in targets : t.percent > 0 /\ t.scope # {} => Constituents(t) # {}
CashTargets == {t \in targets : t.scope = {}}
Reserve == SumFunctionOnSet([t \in CashTargets |-> (TotalValue * t.percent) \div 100], CashTargets)
PlanReachesTargets ==
  Splits =>
    /\ \A t \in targets : t.scope # {} /\ Constituents(t) # {} =>
         100 * EndsAt(t) = t.percent * TotalValue
    /\ Ordered(Holdable) = Parts * cash - Reserve
=============================================================================
