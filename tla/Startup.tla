------------------------------ MODULE Startup ------------------------------
(***************************************************************************)
(* The migrations of the data at every start (init_db in database.py) and  *)
(* what the lifespan of main.py adds, over databases that earlier versions *)
(* wrote: rows without an owner, duplicate positions, no UNIQUE indexes.   *)
(* The process may die at any statement.  Without DB_KEY the migration is  *)
(* one transaction; with it every statement commits by itself, except      *)
(* inside a SAVEPOINT.  One title; a position is its quantity.  Columns,   *)
(* notes and prices are left out.                                          *)
(***************************************************************************)
EXTENDS Naturals, Sequences, FiniteSetsExt

CONSTANTS
  People,         \* the ids of the accounts, the administrator's among them
  Legacy,         \* the databases a first start may find
  MaxQuantity     \* bound: what the accounts hold in all, at most

VARIABLES
  disk,           \* what is committed
  view,           \* what the connection of the migration sees
  saved,          \* the view at the SAVEPOINT
  step,           \* where the process is
  merging,        \* the accounts whose positions are yet to merge, the rows to delete
  encrypted,      \* DB_KEY is set
  adminAtStart,   \* history: account 1 was there when the process started
  owed            \* history: what each account should hold

startupVars == <<disk, view, saved, step, merging, encrypted, adminAtStart, owed>>

(* A database: users, holdings (id, owner, quantity), user_settings (id,    *)
(* owner), the indexes, the other tables with rows that have no owner.      *)
NoOwner == 0
Admin == 1
Holding == [id : Nat, owner : {NoOwner} \union People, quantity : Nat]
Profile == [id : Nat, owner : {NoOwner} \union People]
Others == {"advices", "transactions", "watchlist", "alerts", "targets"}
Database == [users : SUBSET People, holdings : SUBSET Holding, profiles : SUBSET Profile,
             unique : BOOLEAN, uniqueProfiles : BOOLEAN, orphans : SUBSET Others]
Empty == [users |-> {}, holdings |-> {}, profiles |-> {}, unique |-> TRUE,
          uniqueProfiles |-> TRUE, orphans |-> {}]
OwnedBy(rs, u) == {r \in rs : r.owner = u}
Quantity(rs) == SumFunctionOnSet([r \in rs |-> r.quantity], rs)
Oldest(rs) == CHOOSE r \in rs : \A s \in rs : r.id <= s.id
NewId(rs) == 1 + Max({0} \union {r.id : r \in rs})
Share(rs, u) == OwnedBy(rs, u) \union IF u = Admin THEN OwnedBy(rs, NoOwner) ELSE {}
Holds(db, u) == Quantity(Share(db.holdings, u))

(* The ids are primary keys, and a UNIQUE index that is there holds. *)
Keyed(rs) == IsFiniteSet(rs) /\ \A r, s \in rs : r.id = s.id => r = s
Single(rs) == \A u \in People : Cardinality(OwnedBy(rs, u)) <= 1
Indexed(db) == (db.unique => Single(db.holdings)) /\ (db.uniqueProfiles => Single(db.profiles))

ASSUME StartupAssumption ==
  /\ Admin \in People /\ NoOwner \notin People
  /\ MaxQuantity \in Nat /\ Legacy \subseteq Database
  /\ \A db \in Legacy : Keyed(db.holdings) /\ Keyed(db.profiles) /\ Indexed(db)

NoMerge == [accounts |-> {}, rows |-> {}]

StartupInit ==
  /\ disk \in Legacy /\ view = disk /\ saved = Empty /\ step = "off"
  /\ merging = NoMerge /\ encrypted \in BOOLEAN
  /\ adminAtStart = FALSE
  /\ owed = [u \in People |-> Holds(disk, u)]

(* A statement takes effect in the view, and on disk unless the transaction *)
(* has yet to commit.                                                       *)
Does(db) == view' = db /\ disk' = IF encrypted THEN db ELSE disk

(* create_all and the ALTER TABLEs find their columns or add them. *)
StartProcess ==
  /\ step = "off" /\ step' = "advices"
  /\ view' = disk /\ adminAtStart' = (Admin \in disk.users)
  /\ UNCHANGED <<disk, saved, merging, encrypted, owed>>

(* The backfills in their order: those to account 1 are one try. *)
Backfills == <<"advices", "holdings", "transactions", "watchlist", "profiles",
               "alerts", "targets", "dedup">>
After(s) == Backfills[1 + CHOOSE i \in 1..7 : Backfills[i] = s]

(* An UPDATE that finds rows breaks the foreign key without an account 1,   *)
(* and UNIQUE where the index is there and the owner has a row.             *)
Collides(rs, unique) ==
  LET lost == OwnedBy(rs, NoOwner)
  IN  lost # {} /\ (Admin \notin view.users
                     \/ (unique /\ (Cardinality(lost) > 1 \/ OwnedBy(rs, Admin) # {})))
Given(rs) == {[r EXCEPT !.owner = IF @ = NoOwner THEN Admin ELSE @] : r \in rs}
Refused(s) ==
  CASE s = "holdings" -> Collides(view.holdings, view.unique)
    [] s = "profiles" -> Collides(view.profiles, view.uniqueProfiles)
    [] OTHER -> s \in view.orphans /\ Admin \notin view.users
Adopted(s) ==
  CASE s = "holdings" -> [view EXCEPT !.holdings = Given(@)]
    [] s = "profiles" -> [view EXCEPT !.profiles = Given(@)]
    [] OTHER -> [view EXCEPT !.orphans = @ \ {s}]

(* Advices and targets go to the administrator or the lowest id, if any.    *)
AdoptByName(s) ==
  /\ step = s /\ s \in {"advices", "targets"} /\ step' = After(s)
  /\ Does(IF view.users = {} THEN view ELSE Adopted(s))
  /\ UNCHANGED <<saved, merging, encrypted, adminAtStart, owed>>

(* The first UPDATE that fails ends the try, silently. *)
Adopt(s) ==
  /\ step = s /\ s \in {"holdings", "transactions", "watchlist", "profiles", "alerts"}
  /\ IF Refused(s) THEN step' = "targets" /\ UNCHANGED <<disk, view>>
     ELSE step' = After(s) /\ Does(Adopted(s))
  /\ UNCHANGED <<saved, merging, encrypted, adminAtStart, owed>>

(* _ensure_holdings_unique_constraint: nothing to do, or a SAVEPOINT.       *)
BeginDedup ==
  /\ step = "dedup" /\ saved' = view
  /\ step' = IF view.unique THEN "profileDedup" ELSE "merge"
  /\ merging' = [NoMerge EXCEPT !.accounts =
       {u \in People : ~view.unique /\ Cardinality(OwnedBy(view.holdings, u)) > 1}]
  /\ UNCHANGED <<disk, view, encrypted, adminAtStart, owed>>

(* Mutant: no SAVEPOINT, each statement commits as it may. *)
DoesAtOnce(db) == Does(db)

DoesNested(db) == view' = db /\ UNCHANGED disk

(* The oldest row takes the sum, the others are deleted one by one.         *)
MergeAccount(u) ==
  /\ step = "merge" /\ merging.rows = {} /\ u \in merging.accounts
  /\ LET mine == OwnedBy(view.holdings, u)
         kept == [Oldest(mine) EXCEPT !.quantity = Quantity(mine)]
     IN  /\ DoesNested([view EXCEPT !.holdings = (@ \ {Oldest(mine)}) \union {kept}])
         /\ merging' = [accounts |-> merging.accounts \ {u}, rows |-> mine \ {Oldest(mine)}]
  /\ UNCHANGED <<saved, step, encrypted, adminAtStart, owed>>

DeleteDuplicate(r) ==
  /\ step = "merge" /\ r \in merging.rows
  /\ DoesNested([view EXCEPT !.holdings = @ \ {r}])
  /\ merging' = [merging EXCEPT !.rows = @ \ {r}]
  /\ UNCHANGED <<saved, step, encrypted, adminAtStart, owed>>

(* CREATE UNIQUE INDEX, where rows without an owner differ; RELEASE. *)
CreateIndex ==
  /\ step = "merge" /\ merging = NoMerge /\ step' = "profileDedup"
  /\ Does([view EXCEPT !.unique = TRUE])
  /\ UNCHANGED <<saved, merging, encrypted, adminAtStart, owed>>

(* A statement fails: back to the SAVEPOINT, the start goes on without it.  *)
DedupFails ==
  /\ step = "merge" /\ step' = "profileDedup" /\ merging' = NoMerge
  /\ view' = saved
  /\ UNCHANGED <<disk, saved, encrypted, adminAtStart, owed>>

(* Mutant: the newest row is deleted with the others. *)
KeptNone(rs) == {r \in rs : r.owner = NoOwner \/ Cardinality(OwnedBy(rs, r.owner)) = 1}

KeptProfiles(rs) == {r \in rs : r.owner = NoOwner \/ r = Oldest(OwnedBy(rs, r.owner))}

(* _ensure_user_settings_unique_constraint, all of it in a SAVEPOINT. *)
DedupProfiles(fails) ==
  /\ step = "profileDedup" /\ step' = "commit"
  /\ Does(IF view.uniqueProfiles \/ fails THEN view
          ELSE [view EXCEPT !.profiles = KeptProfiles(@), !.uniqueProfiles = TRUE])
  /\ UNCHANGED <<saved, merging, encrypted, adminAtStart, owed>>

CommitMigration ==
  /\ step = "commit" /\ step' = "migrated" /\ disk' = view
  /\ UNCHANGED <<view, saved, merging, encrypted, adminAtStart, owed>>

Commits(db) == disk' = db /\ view' = db

(* The lifespan: a default profile if there is none, without an owner; then *)
(* the administrator.                                                       *)
SeedProfile ==
  /\ step = "migrated" /\ step' = "admin"
  /\ Commits(IF disk.profiles # {} THEN disk
             ELSE [disk EXCEPT !.profiles = {[id |-> 1, owner |-> NoOwner]}])
  /\ UNCHANGED <<saved, merging, encrypted, adminAtStart, owed>>

(* The account of ADMIN_USERNAME is looked up, whose name the settings may  *)
(* change between starts; without it one is added.  Bound: its id is among  *)
(* People.                                                                  *)
NewAccount == 1 + Max({0} \union disk.users)
SeedAdmin(found) ==
  /\ step = "admin" /\ step' = "up"
  /\ IF found THEN disk.users # {} /\ Commits(disk)
     ELSE NewAccount \in People /\ Commits([disk EXCEPT !.users = @ \union {NewAccount}])
  /\ UNCHANGED <<saved, merging, encrypted, adminAtStart, owed>>

(* The program runs: an account opens its settings, or buys. *)
OpenSettings(u) ==
  /\ step = "up" /\ u \in disk.users /\ OwnedBy(disk.profiles, u) = {}
  /\ Commits([disk EXCEPT !.profiles = @ \union {[id |-> NewId(@), owner |-> u]}])
  /\ UNCHANGED <<saved, step, merging, encrypted, adminAtStart, owed>>

Buy(u) ==
  /\ step = "up" /\ u \in disk.users /\ Quantity(disk.holdings) < MaxQuantity
  /\ LET mine == OwnedBy(disk.holdings, u)
     IN  Commits([disk EXCEPT !.holdings =
           IF mine = {} THEN @ \union {[id |-> NewId(@), owner |-> u, quantity |-> 1]}
           ELSE (@ \ {Oldest(mine)}) \union {[Oldest(mine) EXCEPT !.quantity = @ + 1]}])
  /\ owed' = [owed EXCEPT ![u] = @ + 1]
  /\ UNCHANGED <<saved, step, merging, encrypted, adminAtStart>>

(* Killed or stopped: what is not committed is gone. *)
StopProcess ==
  /\ step # "off" /\ step' = "off"
  /\ view' = disk /\ merging' = NoMerge /\ saved' = Empty
  /\ UNCHANGED <<disk, encrypted, adminAtStart, owed>>

StartupNext ==
  \/ StartProcess \/ BeginDedup \/ CreateIndex \/ DedupFails \/ CommitMigration
  \/ SeedProfile \/ StopProcess
  \/ \E s \in {"advices", "targets"} : AdoptByName(s)
  \/ \E s \in {"holdings", "transactions", "watchlist", "profiles", "alerts"} : Adopt(s)
  \/ \E u \in People : MergeAccount(u) \/ OpenSettings(u) \/ Buy(u)
  \/ \E r \in merging.rows : DeleteDuplicate(r)
  \/ \E fails \in BOOLEAN : DedupProfiles(fails)
  \/ \E found \in BOOLEAN : SeedAdmin(found)

StartupSpec == StartupInit /\ [][StartupNext]_startupVars
-----------------------------------------------------------------------------
StartupTypeOK ==
  /\ \A db \in {disk, view} : db.users \subseteq People /\ Indexed(db)
  /\ encrypted \in BOOLEAN

(* However often the process dies in a migration, encrypted or not, the     *)
(* quantities on disk are those each account had and bought: none is        *)
(* counted twice by a merge cut in half, none is lost, none changes hands.  *)
PositionsKept == \A u \in People : Holds(disk, u) = owed[u]

(* An account that has settings never loses its last row of them. *)
ProfilesKept ==
  [][\A u \in People :
       OwnedBy(disk.profiles, u) # {} => OwnedBy(disk'.profiles, u) # {}]_startupVars

(* The comment on the backfill says that the rows without an owner go to    *)
(* account 1: once a start that found that account has migrated, none is    *)
(* left among the positions, transactions, watchlist items and alerts.      *)
OrphansAdopted ==
  step = "migrated" /\ adminAtStart =>
    /\ OwnedBy(disk.holdings, NoOwner) = {}
    /\ disk.orphans \intersect {"transactions", "watchlist", "alerts"} = {}
=============================================================================
