---------------------------- MODULE StartupProofs ----------------------------
(***************************************************************************)
(* Theorems about Startup, for every set of accounts and every set of      *)
(* databases that an earlier version may have left: the migrations keep    *)
(* the positions, the settings and the UNIQUE indexes, wherever a start is *)
(* killed.                                                                 *)
(***************************************************************************)
EXTENDS Startup, SumLemmas

-----------------------------------------------------------------------------
(* Rows and their sums.                                                    *)

\* The rows of a table of holdings.
RowsOK(hs) == hs \subseteq Holding /\ Keyed(hs)

\* What a set of positions adds up to.
LEMMA QuantityType ==
  ASSUME NEW hs \in SUBSET Holding, IsFiniteSet(hs)
  PROVE  Quantity(hs) \in Nat
<1> DEFINE f == [r \in hs |-> r.quantity]
<1>1. \A r \in hs : f[r] \in Nat
  BY DEF Holding
<1> HIDE DEF f
<1>2. SumFunctionOnSet(f, hs) \in Nat
  BY <1>1, SumOfNaturals
<1> QED
  BY <1>2 DEF Quantity, f

LEMMA QuantityUnion ==
  ASSUME NEW S \in SUBSET Holding, IsFiniteSet(S), NEW T \in SUBSET Holding, IsFiniteSet(T),
         S \cap T = {}
  PROVE  Quantity(S \cup T) = Quantity(S) + Quantity(T)
<1> DEFINE f == [r \in S \cup T |-> r.quantity]
           g == [r \in S |-> r.quantity]
           h == [r \in T |-> r.quantity]
<1>1. /\ \A r \in S \cup T : f[r] \in Int
      /\ \A r \in S : f[r] = g[r]
      /\ \A r \in T : f[r] = h[r]
  BY DEF Holding
<1>2. /\ Quantity(S \cup T) = SumFunctionOnSet(f, S \cup T)
      /\ Quantity(S) = SumFunctionOnSet(g, S) /\ Quantity(T) = SumFunctionOnSet(h, T)
  BY DEF Quantity
<1> HIDE DEF f, g, h
<1>3. SumFunctionOnSet(f, S \cup T) = SumFunctionOnSet(f, S) + SumFunctionOnSet(f, T)
  BY <1>1, SumUnion
<1>4. SumFunctionOnSet(f, S) = SumFunctionOnSet(g, S) /\ SumFunctionOnSet(f, T) = SumFunctionOnSet(h, T)
  BY <1>1, SumSame
<1> QED
  BY <1>2, <1>3, <1>4

LEMMA QuantityOne ==
  ASSUME NEW r \in Holding
  PROVE  Quantity({r}) = r.quantity
<1> DEFINE f == [x \in {r} |-> x.quantity]
<1>1. f[r] = r.quantity /\ r.quantity \in Nat
  BY DEF Holding
<1>2. Quantity({r}) = SumFunctionOnSet(f, {} \cup {r})
  BY DEF Quantity
<1> HIDE DEF f
<1>3. SumFunctionOnSet(f, {} \cup {r}) = f[r] + SumFunctionOnSet(f, {})
  <2> DEFINE e == {}
  <2>1. IsFiniteSet(e) /\ r \notin e /\ \A y \in e \cup {r} : f[y] \in Int
    BY <1>1, FS_EmptySet
  <2> HIDE DEF e
  <2>2. SumFunctionOnSet(f, e \cup {r}) = f[r] + SumFunctionOnSet(f, e)
    BY <2>1, SumAdd
  <2> QED
    BY <2>2 DEF e
<1>4. SumFunctionOnSet(f, {}) = 0
  BY SumEmpty
<1> QED
  BY <1>1, <1>2, <1>3, <1>4

LEMMA QuantityAdd ==
  ASSUME NEW S \in SUBSET Holding, IsFiniteSet(S), NEW r \in Holding, r \notin S
  PROVE  Quantity(S \cup {r}) = Quantity(S) + r.quantity
<1>1. IsFiniteSet({r}) /\ S \cap {r} = {}
  BY FS_Singleton
<1> QED
  BY <1>1, QuantityUnion, QuantityOne

LEMMA Shares ==
  ASSUME NEW hs, RowsOK(hs), NEW u
  PROVE  /\ Share(hs, u) \in SUBSET Holding /\ IsFiniteSet(Share(hs, u))
         /\ OwnedBy(hs, u) \in SUBSET Holding /\ IsFiniteSet(OwnedBy(hs, u))
         /\ Share(hs, u) \subseteq hs /\ OwnedBy(hs, u) \subseteq hs
<1>1. Share(hs, u) \subseteq hs /\ OwnedBy(hs, u) \subseteq hs
  BY DEF Share, OwnedBy
<1> QED
  BY <1>1, FS_Subset DEF RowsOK, Keyed

-----------------------------------------------------------------------------
(* What the statements do to the rows.                                     *)

\* The oldest row takes the sum of an account's rows, the others are as good
\* as deleted.
LEMMA Merging ==
  ASSUME NEW hs, RowsOK(hs), NEW u \in People, NEW old \in OwnedBy(hs, u)
  PROVE  LET mine == OwnedBy(hs, u)
             kept == [old EXCEPT !.quantity = Quantity(mine)]
             new  == (hs \ {old}) \cup {kept}
         IN  /\ RowsOK(new)
             /\ \A v \in People : Quantity(Share(new \ (mine \ {old}), v)) = Quantity(Share(hs, v))
<1> DEFINE mine == OwnedBy(hs, u)
           kept == [old EXCEPT !.quantity = Quantity(mine)]
           new  == (hs \ {old}) \cup {kept}
<1>1. old \in hs /\ old \in Holding /\ old.owner = u
  BY DEF OwnedBy, RowsOK
<1>2. Quantity(mine) \in Nat
  BY QuantityType, Shares
<1>3. kept \in Holding /\ kept.id = old.id /\ kept.owner = u /\ kept.quantity = Quantity(mine)
  BY <1>1, <1>2 DEF Holding
<1> HIDE DEF kept
<1>4. \A r \in hs : r.id = kept.id => r = old
  BY <1>1, <1>3 DEF RowsOK, Keyed
<1>5. RowsOK(new)
  <2>1. IsFiniteSet(new)
    BY FS_RemoveElement, FS_AddElement DEF RowsOK, Keyed
  <2>2. \A r, s \in new : r.id = s.id => r = s
    BY <1>4 DEF RowsOK, Keyed
  <2> QED
    BY <1>3, <2>1, <2>2 DEF RowsOK, Keyed
<1>6. ASSUME NEW v \in People
      PROVE  Quantity(Share(new \ (mine \ {old}), v)) = Quantity(Share(hs, v))
  <2>1. CASE v # u
    <3>1. Share(new \ (mine \ {old}), v) = Share(hs, v)
      BY <1>1, <1>3, <2>1, StartupAssumption DEF Share, OwnedBy
    <3> QED
      BY <3>1
  <2>2. CASE v = u
    <3> DEFINE rest == Share(hs, u) \ mine
    <3>1. /\ Share(new \ (mine \ {old}), u) = rest \cup {kept} /\ kept \notin rest
          /\ Share(hs, u) = rest \cup mine /\ rest \cap mine = {}
      <4>1. mine \subseteq Share(hs, u) /\ kept \notin hs \ mine
        BY <1>3 DEF Share, OwnedBy
      <4>2. new \ (mine \ {old}) = (hs \ mine) \cup {kept}
        BY <1>1, <1>3, <1>4 DEF OwnedBy
      <4>3. \A r : r \in Share((hs \ mine) \cup {kept}, u) <=> r \in rest \cup {kept}
        BY <1>3, <4>1 DEF Share, OwnedBy
      <4> QED
        BY <4>1, <4>2, <4>3, Shares
    <3>2. rest \in SUBSET Holding /\ IsFiniteSet(rest) /\ mine \in SUBSET Holding /\ IsFiniteSet(mine)
      BY Shares, FS_Subset
    <3> HIDE DEF rest, mine, new
    <3>3. Quantity(rest \cup {kept}) = Quantity(rest) + kept.quantity
      BY <1>3, <3>1, <3>2, QuantityAdd
    <3>4. Quantity(rest \cup mine) = Quantity(rest) + Quantity(mine)
      BY <3>1, <3>2, QuantityUnion
    <3> QED
      BY <1>3, <2>2, <3>1, <3>3, <3>4
  <2> QED
    BY <2>1, <2>2
<1> QED
  BY <1>5, <1>6 DEF kept

\* The backfill gives the administrator what was counted as the administrator's.
LEMMA Giving ==
  ASSUME NEW hs, RowsOK(hs)
  PROVE  /\ RowsOK(Given(hs))
         /\ \A u \in People : Quantity(Share(Given(hs), u)) = Quantity(Share(hs, u))
<1> DEFINE b == [r \in hs |-> [r EXCEPT !.owner = IF @ = NoOwner THEN Admin ELSE @]]
<1>1. /\ Given(hs) = {b[r] : r \in hs}
      /\ \A r \in hs : /\ b[r] \in Holding /\ b[r].id = r.id /\ b[r].quantity = r.quantity
                       /\ b[r].owner = IF r.owner = NoOwner THEN Admin ELSE r.owner
  BY StartupAssumption DEF Given, RowsOK, Holding
<1> HIDE DEF b
<1>2. \A r, s \in hs : b[r] = b[s] => r = s
  BY <1>1 DEF RowsOK, Keyed
<1>3. ASSUME NEW S \in SUBSET hs
      PROVE  IsFiniteSet({b[r] : r \in S}) /\ Quantity({b[r] : r \in S}) = Quantity(S)
  <2> DEFINE f == [r \in S |-> r.quantity]
             h == [r \in {b[x] : x \in S} |-> r.quantity]
  <2>1. IsFiniteSet(S)
    BY FS_Subset DEF RowsOK, Keyed
  <2>2. \A x \in S : h[b[x]] = f[x] /\ f[x] \in Int
    BY <1>1 DEF RowsOK, Holding
  <2>3. Quantity(S) = SumFunctionOnSet(f, S)
        /\ Quantity({b[r] : r \in S}) = SumFunctionOnSet(h, {b[r] : r \in S})
    BY DEF Quantity
  <2>4. \A x, y \in S : b[x] = b[y] => x = y
    BY <1>2
  <2> HIDE DEF f, h
  <2> QED
    BY <2>1, <2>2, <2>3, <2>4, SumImage
<1>4. RowsOK(Given(hs))
  <2>1. IsFiniteSet(Given(hs)) /\ Given(hs) \subseteq Holding
    BY <1>1, <1>3
  <2>2. \A r, s \in Given(hs) : r.id = s.id => r = s
    BY <1>1 DEF RowsOK, Keyed
  <2> QED
    BY <2>1, <2>2 DEF RowsOK, Keyed
<1>5. ASSUME NEW u \in People PROVE Quantity(Share(Given(hs), u)) = Quantity(Share(hs, u))
  <2>1. Share(Given(hs), u) = {b[r] : r \in Share(hs, u)}
    <3>1. \A r \in hs : b[r] \in Share(Given(hs), u) <=> r \in Share(hs, u)
      BY <1>1, StartupAssumption DEF Share, OwnedBy, Admin, NoOwner
    <3>2. Share(Given(hs), u) \subseteq Given(hs) /\ Share(hs, u) \subseteq hs
      BY DEF Share, OwnedBy
    <3> QED
      BY <1>1, <3>1, <3>2
  <2>2. Share(hs, u) \in SUBSET hs
    BY Shares
  <2> QED
    BY <1>3, <2>1, <2>2
<1> QED
  BY <1>4, <1>5

\* The next id is no row's.
LEMMA NewIdFresh ==
  ASSUME NEW rs, IsFiniteSet(rs), \A r \in rs : r.id \in Nat
  PROVE  NewId(rs) \in Nat /\ \A r \in rs : r.id < NewId(rs)
<1> DEFINE T == {r.id : r \in rs}
           b == [r \in rs |-> r.id]
<1>1. b \in Surjection(rs, T)
  BY DEF Surjection
<1>2. IsFiniteSet(T)
  <2> HIDE DEF b, T
  <2> QED
    BY <1>1, FS_Surjection
<1>3. IsFiniteSet({0} \cup T)
  BY <1>2, FS_Singleton, FS_Union
<1>4. PICK n \in {0} \cup T : \A m \in {0} \cup T : m <= n
  <2>1. {0} \cup T \in SUBSET Nat /\ {0} \cup T # {}
    OBVIOUS
  <2> HIDE DEF T
  <2> QED
    BY <1>3, <2>1, GreatestNatural
<1>5. Max({0} \cup T) \in {0} \cup T /\ \A m \in {0} \cup T : Max({0} \cup T) >= m
  <2>1. \E x \in {0} \cup T : \A y \in {0} \cup T : x >= y
    BY <1>4
  <2> HIDE DEF T
  <2> QED
    BY <2>1 DEF Max
<1> QED
  BY <1>5 DEF NewId

\* The oldest row is one of them.
LEMMA OldestIs ==
  ASSUME NEW rs, rs # {}, \A r \in rs : r.id \in Nat
  PROVE  Oldest(rs) \in rs
<1> DEFINE T == {r.id : r \in rs}
<1>1. T \in SUBSET Nat /\ T # {}
  OBVIOUS
<1>2. PICK n \in T : \A m \in T : n <= m
  <2> HIDE DEF T
  <2> QED
    BY <1>1, LeastNatural
<1>3. \E r \in rs : \A s \in rs : r.id <= s.id
  BY <1>2
<1> QED
  BY <1>3 DEF Oldest

\* A purchase: of a title the account has not, or into its oldest row.
LEMMA Buying ==
  ASSUME NEW hs, RowsOK(hs), NEW u \in People
  PROVE  LET mine == OwnedBy(hs, u)
             new  == IF mine = {}
                     THEN hs \cup {[id |-> NewId(hs), owner |-> u, quantity |-> 1]}
                     ELSE (hs \ {Oldest(mine)}) \cup {[Oldest(mine) EXCEPT !.quantity = @ + 1]}
         IN  /\ RowsOK(new)
             /\ \A v \in People : Quantity(Share(new, v)) = Quantity(Share(hs, v)) + (IF v = u THEN 1 ELSE 0)
<1> DEFINE mine == OwnedBy(hs, u)
           added == [id |-> NewId(hs), owner |-> u, quantity |-> 1]
           kept == [Oldest(mine) EXCEPT !.quantity = @ + 1]
<1>0. \A r \in hs : r \in Holding /\ r.id \in Nat /\ r.quantity \in Nat
  BY DEF RowsOK, Holding
<1>1. CASE mine = {}
  <2>1. added \in Holding /\ added.owner = u /\ added.quantity = 1 /\ \A r \in hs : r.id # added.id
    BY <1>0, NewIdFresh DEF Holding, RowsOK, Keyed
  <2> HIDE DEF added
  <2>2. RowsOK(hs \cup {added})
    <3>1. IsFiniteSet(hs \cup {added})
      BY FS_AddElement DEF RowsOK, Keyed
    <3> QED
      BY <2>1, <3>1 DEF RowsOK, Keyed
  <2>3. ASSUME NEW v \in People
        PROVE  Quantity(Share(hs \cup {added}, v)) = Quantity(Share(hs, v)) + (IF v = u THEN 1 ELSE 0)
    <3>1. Quantity(Share(hs, v)) \in Nat
      BY Shares, QuantityType
    <3>2. CASE v = u
      <4>1. Share(hs \cup {added}, u) = Share(hs, u) \cup {added} /\ added \notin Share(hs, u)
        BY <2>1, StartupAssumption DEF Share, OwnedBy
      <4>2. Quantity(Share(hs, u) \cup {added}) = Quantity(Share(hs, u)) + added.quantity
        BY <2>1, <4>1, Shares, QuantityAdd
      <4> QED
        BY <2>1, <3>2, <4>1, <4>2
    <3>3. CASE v # u
      <4>1. Share(hs \cup {added}, v) = Share(hs, v)
        BY <2>1, <3>3, StartupAssumption DEF Share, OwnedBy
      <4> QED
        BY <3>1, <3>3, <4>1
    <3> QED
      BY <3>2, <3>3
  <2> QED
    BY <1>1, <2>2, <2>3 DEF added
<1>2. CASE mine # {}
  <2>1. PICK old \in mine : old = Oldest(mine)
    BY <1>0, <1>2, Shares, OldestIs
  <2>2. old \in hs /\ old \in Holding /\ old.owner = u /\ old.quantity \in Nat
    BY <1>0, <2>1 DEF OwnedBy
  <2>3. kept \in Holding /\ kept.id = old.id /\ kept.owner = u /\ kept.quantity = old.quantity + 1
    BY <2>1, <2>2 DEF Holding
  <2>4. (hs \ {Oldest(mine)}) \cup {kept} = (hs \ {old}) \cup {kept}
    BY <2>1
  <2> HIDE DEF kept
  <2>5. kept \notin hs \ {old} /\ \A r \in hs : r.id = kept.id => r = old
    BY <2>2, <2>3 DEF RowsOK, Keyed
  <2>6. RowsOK((hs \ {old}) \cup {kept})
    <3>1. IsFiniteSet((hs \ {old}) \cup {kept})
      BY FS_RemoveElement, FS_AddElement DEF RowsOK, Keyed
    <3>2. \A r, s \in (hs \ {old}) \cup {kept} : r.id = s.id => r = s
      BY <2>5 DEF RowsOK, Keyed
    <3> QED
      BY <2>3, <3>1, <3>2 DEF RowsOK, Keyed
  <2>7. ASSUME NEW v \in People
        PROVE  Quantity(Share((hs \ {old}) \cup {kept}, v))
                 = Quantity(Share(hs, v)) + (IF v = u THEN 1 ELSE 0)
    <3>1. Quantity(Share(hs, v)) \in Nat
      BY Shares, QuantityType
    <3>2. CASE v = u
      <4> DEFINE rest == Share(hs, u) \ {old}
      <4>1. /\ Share((hs \ {old}) \cup {kept}, u) = rest \cup {kept} /\ kept \notin rest
            /\ Share(hs, u) = rest \cup {old} /\ old \notin rest
        BY <2>2, <2>3, <2>5, StartupAssumption DEF Share, OwnedBy
      <4>2. rest \in SUBSET Holding /\ IsFiniteSet(rest)
        BY Shares, FS_Subset
      <4> HIDE DEF rest
      <4>3. Quantity(rest \cup {kept}) = Quantity(rest) + kept.quantity
        BY <2>3, <4>1, <4>2, QuantityAdd
      <4>4. Quantity(rest \cup {old}) = Quantity(rest) + old.quantity
        BY <2>2, <4>1, <4>2, QuantityAdd
      <4>5. Quantity(rest) \in Nat
        BY <4>2, QuantityType
      <4>6. /\ Quantity(Share((hs \ {old}) \cup {kept}, u)) = Quantity(rest) + (old.quantity + 1)
            /\ Quantity(Share(hs, u)) = Quantity(rest) + old.quantity
        BY <2>3, <4>1, <4>3, <4>4
      <4>7. Quantity(Share((hs \ {old}) \cup {kept}, u)) = Quantity(Share(hs, u)) + 1
        BY <2>2, <4>5, <4>6
      <4> QED
        BY <3>2, <4>7
    <3>3. CASE v # u
      <4>1. Share((hs \ {old}) \cup {kept}, v) = Share(hs, v)
        BY <2>2, <2>3, <3>3, StartupAssumption DEF Share, OwnedBy
      <4> QED
        BY <3>1, <3>3, <4>1
    <3> QED
      BY <3>2, <3>3
  <2> QED
    BY <1>2, <2>4, <2>6, <2>7 DEF kept
<1> QED
  BY <1>1, <1>2

-----------------------------------------------------------------------------
(* The migrations as wholes.                                               *)

DatabaseOK(db) == db \in Database /\ Keyed(db.holdings) /\ Keyed(db.profiles)
Whole(db, quantities) == DatabaseOK(db) /\ \A u \in People : Holds(db, u) = quantities[u]
Settled(db) == {u \in People : OwnedBy(db.profiles, u) # {}}

(* In a merge cut in half the rows yet to be deleted are counted twice, and *)
(* the accounts yet to merge have rows of their own; before and after it    *)
(* the migration's view is whole, and so is what a SAVEPOINT keeps.         *)
HalfMerged ==
  /\ Whole(saved, owed) /\ Settled(disk) \subseteq Settled(saved)
  /\ DatabaseOK(view)
  /\ merging.rows \subseteq view.holdings /\ merging.accounts \subseteq People
  /\ DOMAIN merging = {"accounts", "rows"}
  /\ \A u \in merging.accounts : OwnedBy(view.holdings, u) # {}
  /\ \A r \in merging.rows : r.owner \notin merging.accounts
  /\ \A u \in People : Quantity(Share(view.holdings \ merging.rows, u)) = owed[u]
StartInv ==
  /\ owed \in [People -> Nat]
  /\ Whole(disk, owed)
  /\ Settled(disk) \subseteq Settled(view)
  /\ step # "merge" => merging = NoMerge /\ Whole(view, owed)
  /\ step = "merge" => HalfMerged

\* The step after a backfill is no merge.
LEMMA AfterIs ==
  ASSUME NEW s \in {"advices", "holdings", "transactions", "watchlist", "profiles", "alerts",
                    "targets"}
  PROVE  After(s) # "merge"
<1> DEFINE i == CHOOSE i \in 1..7 : Backfills[i] = s
<1>1. \E j \in 1..7 : Backfills[j] = s
  <2>1. /\ Backfills[1] = "advices" /\ Backfills[2] = "holdings"
        /\ Backfills[3] = "transactions" /\ Backfills[4] = "watchlist"
        /\ Backfills[5] = "profiles" /\ Backfills[6] = "alerts" /\ Backfills[7] = "targets"
    BY DEF Backfills
  <2>2. /\ 1 \in 1..7 /\ 2 \in 1..7 /\ 3 \in 1..7 /\ 4 \in 1..7 /\ 5 \in 1..7 /\ 6 \in 1..7
        /\ 7 \in 1..7
    OBVIOUS
  <2> QED
    BY <2>1, <2>2
<1>2. i \in 1..7
  BY <1>1
<1> HIDE DEF i
<1>3. \A j \in 1..7 : Backfills[1 + j] # "merge"
  BY DEF Backfills
<1> QED
  BY <1>2, <1>3 DEF After, i

\* A backfill of the profiles takes no account's settings.
LEMMA GivingProfiles ==
  ASSUME NEW ps \in SUBSET Profile, Keyed(ps)
  PROVE  /\ Given(ps) \in SUBSET Profile /\ Keyed(Given(ps))
         /\ \A u \in People : OwnedBy(ps, u) # {} => OwnedBy(Given(ps), u) # {}
<1> DEFINE b == [r \in ps |-> [r EXCEPT !.owner = IF @ = NoOwner THEN Admin ELSE @]]
<1>1. /\ Given(ps) = {b[r] : r \in ps}
      /\ \A r \in ps : /\ b[r] \in Profile /\ b[r].id = r.id
                       /\ b[r].owner = IF r.owner = NoOwner THEN Admin ELSE r.owner
  BY StartupAssumption DEF Given, Profile
<1>2. b \in Surjection(ps, Given(ps))
  BY <1>1 DEF Surjection
<1> HIDE DEF b
<1>3. IsFiniteSet(Given(ps))
  BY <1>2, FS_Surjection DEF Keyed
<1>4. \A r, s \in Given(ps) : r.id = s.id => r = s
  BY <1>1 DEF Keyed
<1>5. ASSUME NEW u \in People, NEW r \in ps, r.owner = u PROVE b[r] \in OwnedBy(Given(ps), u)
  BY <1>1, <1>5, StartupAssumption DEF OwnedBy
<1> QED
  BY <1>1, <1>3, <1>4, <1>5 DEF OwnedBy, Keyed

\* The deduplication of the profiles keeps a row of each account.
LEMMA KeepingProfiles ==
  ASSUME NEW ps \in SUBSET Profile, Keyed(ps)
  PROVE  /\ KeptProfiles(ps) \in SUBSET Profile /\ Keyed(KeptProfiles(ps))
         /\ \A u \in People : OwnedBy(ps, u) # {} => OwnedBy(KeptProfiles(ps), u) # {}
<1>1. KeptProfiles(ps) \subseteq ps
  BY DEF KeptProfiles
<1>2. IsFiniteSet(KeptProfiles(ps))
  BY <1>1, FS_Subset DEF Keyed
<1>3. ASSUME NEW u \in People, OwnedBy(ps, u) # {} PROVE OwnedBy(KeptProfiles(ps), u) # {}
  <2>1. Oldest(OwnedBy(ps, u)) \in OwnedBy(ps, u)
    <3>1. \A r \in OwnedBy(ps, u) : r.id \in Nat
      BY DEF OwnedBy, Profile
    <3> QED
      BY <1>3, <3>1, OldestIs
  <2>2. /\ Oldest(OwnedBy(ps, u)) \in ps /\ Oldest(OwnedBy(ps, u)).owner = u
    BY <2>1 DEF OwnedBy
  <2>3. Oldest(OwnedBy(ps, u)) \in KeptProfiles(ps)
    BY <2>2 DEF KeptProfiles
  <2> QED
    BY <2>2, <2>3 DEF OwnedBy
<1> QED
  BY <1>1, <1>2, <1>3 DEF Keyed

\* A backfill leaves every account what it holds, and its settings.
LEMMA Adopting ==
  ASSUME NEW s, Whole(view, owed)
  PROVE  Whole(Adopted(s), owed) /\ Settled(view) \subseteq Settled(Adopted(s))
<1>1. /\ view \in Database /\ RowsOK(view.holdings) /\ Keyed(view.profiles)
      /\ view.profiles \in SUBSET Profile /\ \A u \in People : Quantity(Share(view.holdings, u)) = owed[u]
  BY DEF Whole, DatabaseOK, Database, RowsOK, Holds
<1>2. CASE s = "holdings"
  <2>1. Adopted(s) = [view EXCEPT !.holdings = Given(view.holdings)]
    BY <1>2 DEF Adopted
  <2>2. /\ Adopted(s) \in Database /\ Adopted(s).holdings = Given(view.holdings)
        /\ Adopted(s).profiles = view.profiles
    BY <1>1, <2>1, Giving DEF Database, RowsOK
  <2> QED
    BY <1>1, <2>2, Giving DEF Whole, DatabaseOK, Holds, Settled, RowsOK
<1>3. CASE s = "profiles"
  <2>1. Adopted(s) = [view EXCEPT !.profiles = Given(view.profiles)]
    BY <1>3 DEF Adopted
  <2>2. /\ Adopted(s) \in Database /\ Adopted(s).profiles = Given(view.profiles)
        /\ Adopted(s).holdings = view.holdings
    BY <1>1, <2>1, GivingProfiles DEF Database
  <2> QED
    BY <1>1, <2>2, GivingProfiles DEF Whole, DatabaseOK, Holds, Settled, RowsOK
<1>4. CASE s \notin {"holdings", "profiles"}
  <2>1. Adopted(s) = [view EXCEPT !.orphans = view.orphans \ {s}]
    BY <1>4 DEF Adopted
  <2>2. /\ Adopted(s) \in Database /\ Adopted(s).profiles = view.profiles
        /\ Adopted(s).holdings = view.holdings
    BY <1>1, <2>1 DEF Database
  <2> QED
    BY <1>1, <2>2 DEF Whole, DatabaseOK, Holds, Settled, RowsOK
<1> QED
  BY <1>2, <1>3, <1>4

\* A statement outside the merge that leaves each account what it had.
LEMMA Doing ==
  ASSUME StartInv, NEW db, Whole(db, owed), Settled(view) \subseteq Settled(db), Does(db),
         owed' = owed, merging' = NoMerge, step' # "merge"
  PROVE  StartInv' /\ Settled(disk) \subseteq Settled(disk')
<1>1. view' = db /\ (disk' = db \/ disk' = disk)
  BY DEF Does
<1> QED
  BY <1>1 DEF StartInv

\* So does a transaction of the program.
LEMMA Committing ==
  ASSUME NEW db, Whole(db, owed'), Settled(disk) \subseteq Settled(db), Commits(db),
         owed' \in [People -> Nat], merging' = NoMerge, step' # "merge"
  PROVE  StartInv' /\ Settled(disk) \subseteq Settled(disk')
  BY DEF Commits, StartInv

LEMMA StartInvInit == StartupInit => StartInv
<1> SUFFICES ASSUME StartupInit PROVE StartInv
  OBVIOUS
<1>1. DatabaseOK(disk)
  BY StartupAssumption DEF StartupInit, DatabaseOK
<1>2. \A u \in People : Holds(disk, u) \in Nat
  <2>1. RowsOK(disk.holdings)
    BY <1>1 DEF DatabaseOK, Database, RowsOK
  <2> QED
    BY <2>1, Shares, QuantityType DEF Holds
<1> QED
  BY <1>1, <1>2 DEF StartupInit, StartInv, Whole

-----------------------------------------------------------------------------
(* The actions.                                                            *)

LEMMA MergeAccountKeeps ==
  ASSUME StartInv, NEW u \in People, MergeAccount(u)
  PROVE  StartInv' /\ Settled(disk) \subseteq Settled(disk')
<1> DEFINE hs == view.holdings
           mine == OwnedBy(hs, u)
           old == Oldest(mine)
           kept == [old EXCEPT !.quantity = Quantity(mine)]
           new == (hs \ {old}) \cup {kept}
<1>1. /\ step = "merge" /\ merging.rows = {} /\ u \in merging.accounts
      /\ HalfMerged /\ view \in Database /\ RowsOK(hs) /\ Keyed(view.profiles)
      /\ view' = [view EXCEPT !.holdings = new]
      /\ merging' = [accounts |-> merging.accounts \ {u}, rows |-> mine \ {old}]
      /\ UNCHANGED <<disk, saved, step, owed>>
  BY DEF MergeAccount, DoesNested, StartInv, HalfMerged, DatabaseOK, Database, RowsOK
<1>2. old \in mine /\ old \in hs /\ old \in Holding /\ old.owner = u
  <2>1. mine # {} /\ \A r \in mine : r.id \in Nat /\ r \in hs /\ r \in Holding /\ r.owner = u
    BY <1>1 DEF HalfMerged, OwnedBy, RowsOK, Holding
  <2>2. old \in mine
    <3> HIDE DEF mine
    <3> QED
      BY <2>1, OldestIs
  <2> QED
    BY <2>1, <2>2
<1>3. kept.owner = u /\ kept \in Holding
  <2>1. Quantity(mine) \in Nat
    BY <1>1, QuantityType, Shares
  <2> QED
    BY <1>2, <2>1 DEF Holding
<1> HIDE DEF old
<1>4. RowsOK(new) /\ \A v \in People : Quantity(Share(new \ (mine \ {old}), v)) = Quantity(Share(hs, v))
  <2> HIDE DEF hs
  <2>1. RowsOK(hs) /\ old \in OwnedBy(hs, u)
    BY <1>1, <1>2
  <2> QED
    BY <2>1, Merging
<1> HIDE DEF kept
<1>5. mine \ {old} \subseteq new /\ \A r \in mine : r.owner = u
  BY DEF OwnedBy
<1>6. \A v \in People \ {u} : OwnedBy(new, v) = OwnedBy(hs, v)
  BY <1>2, <1>3 DEF OwnedBy
<1>7. view' \in Database /\ view'.holdings = new /\ view'.profiles = view.profiles
  BY <1>1, <1>4 DEF Database, RowsOK
<1>8. Settled(view') = Settled(view)
  BY <1>7 DEF Settled
<1>9. \A v \in People : Quantity(Share(new \ merging'.rows, v)) = owed[v]
  <2>1. hs \ merging.rows = hs
    BY <1>1
  <2> QED
    BY <1>1, <1>4, <2>1 DEF HalfMerged
<1> HIDE DEF new, mine
<1>10. HalfMerged'
  <2>1. DatabaseOK(view')
    BY <1>1, <1>4, <1>7 DEF DatabaseOK, RowsOK
  <2>2. /\ merging'.rows \subseteq view'.holdings /\ merging'.accounts \subseteq People
        /\ DOMAIN merging' = {"accounts", "rows"}
        /\ \A v \in merging'.accounts : OwnedBy(view'.holdings, v) # {}
        /\ \A r \in merging'.rows : r.owner \notin merging'.accounts
    BY <1>1, <1>5, <1>6, <1>7 DEF HalfMerged
  <2> QED
    BY <1>1, <1>7, <1>9, <2>1, <2>2 DEF HalfMerged
<1> QED
  BY <1>1, <1>8, <1>10 DEF StartInv

LEMMA DeleteDuplicateKeeps ==
  ASSUME StartInv, NEW r \in merging.rows, DeleteDuplicate(r)
  PROVE  StartInv' /\ Settled(disk) \subseteq Settled(disk')
<1> DEFINE hs == view.holdings
<1>1. /\ step = "merge" /\ r \in merging.rows
      /\ HalfMerged /\ view \in Database /\ RowsOK(hs) /\ Keyed(view.profiles)
      /\ view' = [view EXCEPT !.holdings = hs \ {r}]
      /\ merging' = [merging EXCEPT !.rows = merging.rows \ {r}]
      /\ UNCHANGED <<disk, saved, step, owed>>
  BY DEF DeleteDuplicate, DoesNested, StartInv, HalfMerged, DatabaseOK, Database, RowsOK
<1>2. merging'.rows = merging.rows \ {r} /\ merging'.accounts = merging.accounts
      /\ DOMAIN merging' = {"accounts", "rows"}
  BY <1>1 DEF HalfMerged
<1>3. RowsOK(hs \ {r})
  <2>1. IsFiniteSet(hs \ {r})
    BY <1>1, FS_RemoveElement DEF RowsOK, Keyed
  <2> QED
    BY <1>1, <2>1 DEF RowsOK, Keyed
<1>4. view' \in Database /\ view'.holdings = hs \ {r} /\ view'.profiles = view.profiles
  BY <1>1, <1>3 DEF Database, RowsOK
<1>5. (hs \ {r}) \ (merging.rows \ {r}) = hs \ merging.rows
  BY <1>1
<1>6. \A u \in merging.accounts : OwnedBy(hs \ {r}, u) # {}
  BY <1>1 DEF HalfMerged, OwnedBy
<1>7. HalfMerged'
  <2>1. DatabaseOK(view')
    BY <1>1, <1>3, <1>4 DEF DatabaseOK, RowsOK
  <2>2. /\ merging'.rows \subseteq view'.holdings /\ merging'.accounts \subseteq People
        /\ \A v \in merging'.accounts : OwnedBy(view'.holdings, v) # {}
        /\ \A x \in merging'.rows : x.owner \notin merging'.accounts
    BY <1>1, <1>2, <1>4, <1>6 DEF HalfMerged
  <2>3. \A u \in People : Quantity(Share(view'.holdings \ merging'.rows, u)) = owed[u]
    BY <1>1, <1>2, <1>4, <1>5 DEF HalfMerged
  <2> QED
    BY <1>1, <1>2, <2>1, <2>2, <2>3 DEF HalfMerged
<1>8. Settled(view') = Settled(view)
  BY <1>4 DEF Settled
<1> QED
  BY <1>1, <1>7, <1>8 DEF StartInv

LEMMA BuyKeeps ==
  ASSUME StartInv, NEW u \in People, Buy(u)
  PROVE  StartInv' /\ Settled(disk) \subseteq Settled(disk')
<1> DEFINE hs == disk.holdings
           mine == OwnedBy(hs, u)
           new  == IF mine = {}
                   THEN hs \cup {[id |-> NewId(hs), owner |-> u, quantity |-> 1]}
                   ELSE (hs \ {Oldest(mine)}) \cup {[Oldest(mine) EXCEPT !.quantity = @ + 1]}
           db == [disk EXCEPT !.holdings = new]
<1>1. /\ step = "up" /\ Commits(db) /\ owed' = [owed EXCEPT ![u] = owed[u] + 1]
      /\ UNCHANGED <<step, merging>>
  BY DEF Buy
<1>2. disk \in Database /\ RowsOK(hs) /\ Keyed(disk.profiles)
      /\ owed \in [People -> Nat] /\ \A v \in People : Quantity(Share(hs, v)) = owed[v]
  BY DEF StartInv, Whole, DatabaseOK, Database, RowsOK, Holds
<1>3. /\ RowsOK(new)
      /\ \A v \in People : Quantity(Share(new, v)) = Quantity(Share(hs, v)) + (IF v = u THEN 1 ELSE 0)
  BY <1>2, Buying
<1> HIDE DEF new
<1>4. db \in Database /\ db.holdings = new /\ db.profiles = disk.profiles
  BY <1>2, <1>3 DEF Database, RowsOK
<1> HIDE DEF db
<1>5. owed' \in [People -> Nat] /\ \A v \in People : owed'[v] = owed[v] + (IF v = u THEN 1 ELSE 0)
  BY <1>1, <1>2
<1>6. Whole(db, owed')
  BY <1>2, <1>3, <1>4, <1>5 DEF Whole, DatabaseOK, RowsOK, Holds
<1>7. Settled(db) = Settled(disk)
  BY <1>4 DEF Settled
<1>8. merging' = NoMerge /\ step' # "merge"
  BY <1>1 DEF StartInv
<1> QED
  BY <1>1, <1>5, <1>6, <1>7, <1>8, Committing

LEMMA OpenSettingsKeeps ==
  ASSUME StartInv, NEW u \in People, OpenSettings(u)
  PROVE  StartInv' /\ Settled(disk) \subseteq Settled(disk')
<1> DEFINE ps == disk.profiles
           new == ps \cup {[id |-> NewId(ps), owner |-> u]}
           db == [disk EXCEPT !.profiles = new]
<1>1. step = "up" /\ Commits(db) /\ UNCHANGED <<step, merging, owed>>
  BY DEF OpenSettings
<1>2. disk \in Database /\ Keyed(disk.holdings) /\ Keyed(ps) /\ ps \in SUBSET Profile
      /\ owed \in [People -> Nat] /\ \A v \in People : Holds(disk, v) = owed[v]
  BY DEF StartInv, Whole, DatabaseOK, Database
<1>3. new \in SUBSET Profile /\ Keyed(new)
  <2>1. \A r \in ps : r.id \in Nat
    BY <1>2 DEF Profile
  <2>2. NewId(ps) \in Nat /\ \A r \in ps : r.id < NewId(ps)
    BY <1>2, <2>1, NewIdFresh DEF Keyed
  <2>3. IsFiniteSet(new)
    BY <1>2, FS_AddElement DEF Keyed
  <2>4. \A r \in ps : r.id # NewId(ps)
    BY <2>1, <2>2
  <2> QED
    BY <1>2, <2>2, <2>3, <2>4 DEF Keyed, Profile
<1> HIDE DEF new
<1>4. db \in Database /\ db.holdings = disk.holdings /\ db.profiles = new
  BY <1>2, <1>3 DEF Database
<1> HIDE DEF db
<1>5. Whole(db, owed')
  BY <1>1, <1>2, <1>3, <1>4 DEF Whole, DatabaseOK, Holds
<1>6. Settled(disk) \subseteq Settled(db)
  BY <1>4 DEF Settled, OwnedBy, new
<1>7. merging' = NoMerge /\ step' # "merge" /\ owed' \in [People -> Nat]
  BY <1>1, <1>2 DEF StartInv
<1> QED
  BY <1>1, <1>5, <1>6, <1>7, Committing

LEMMA SeedProfileKeeps ==
  ASSUME StartInv, SeedProfile
  PROVE  StartInv' /\ Settled(disk) \subseteq Settled(disk')
<1> DEFINE seed == [id |-> 1, owner |-> NoOwner]
           db == IF disk.profiles # {} THEN disk ELSE [disk EXCEPT !.profiles = {seed}]
<1>1. step = "migrated" /\ step' = "admin" /\ Commits(db) /\ UNCHANGED <<merging, owed>>
  BY DEF SeedProfile
<1>2. Whole(disk, owed) /\ owed \in [People -> Nat] /\ merging' = NoMerge /\ step' # "merge"
  BY <1>1 DEF StartInv
<1>3. CASE disk.profiles # {}
  BY <1>1, <1>2, <1>3, Committing
<1>4. CASE disk.profiles = {}
  <2>1. seed \in Profile /\ Keyed({seed})
    BY FS_Singleton DEF Profile, Keyed
  <2> HIDE DEF seed
  <2>2. db \in Database /\ db.holdings = disk.holdings /\ db.profiles = {seed}
    BY <1>2, <1>4, <2>1 DEF Whole, DatabaseOK, Database
  <2> HIDE DEF db
  <2>3. Whole(db, owed')
    BY <1>1, <1>2, <2>1, <2>2 DEF Whole, DatabaseOK, Holds
  <2>4. Settled(disk) = {}
    BY <1>4 DEF Settled, OwnedBy
  <2> QED
    BY <1>1, <1>2, <2>3, <2>4, Committing
<1> QED
  BY <1>3, <1>4

LEMMA SeedAdminKeeps ==
  ASSUME StartInv, NEW found \in BOOLEAN, SeedAdmin(found)
  PROVE  StartInv' /\ Settled(disk) \subseteq Settled(disk')
<1> DEFINE db == IF found THEN disk ELSE [disk EXCEPT !.users = @ \cup {NewAccount}]
<1>1. /\ step = "admin" /\ step' = "up" /\ Commits(db) /\ UNCHANGED <<merging, owed>>
      /\ ~found => NewAccount \in People
  BY DEF SeedAdmin
<1>2. Whole(disk, owed) /\ owed \in [People -> Nat] /\ merging' = NoMerge /\ step' # "merge"
  BY <1>1 DEF StartInv
<1>3. db \in Database /\ db.holdings = disk.holdings /\ db.profiles = disk.profiles
  BY <1>1, <1>2 DEF Whole, DatabaseOK, Database
<1> HIDE DEF db
<1>4. Whole(db, owed') /\ Settled(db) = Settled(disk)
  BY <1>1, <1>2, <1>3 DEF Whole, DatabaseOK, Holds, Settled
<1> QED
  BY <1>1, <1>2, <1>4, Committing

LEMMA MigrationKeeps ==
  ASSUME StartInv,
         \/ StartProcess \/ BeginDedup \/ CreateIndex \/ DedupFails \/ CommitMigration
         \/ StopProcess
         \/ \E s \in {"advices", "targets"} : AdoptByName(s)
         \/ \E s \in {"holdings", "transactions", "watchlist", "profiles", "alerts"} : Adopt(s)
         \/ \E fails \in BOOLEAN : DedupProfiles(fails)
  PROVE  StartInv' /\ Settled(disk) \subseteq Settled(disk')
<1>1. CASE StartProcess
  BY <1>1 DEF StartProcess, StartInv
<1>2. CASE BeginDedup
  <2>1. step = "dedup" /\ saved' = view /\ UNCHANGED <<disk, view, owed>>
        /\ merging' = [NoMerge EXCEPT !.accounts =
             {u \in People : ~view.unique /\ Cardinality(OwnedBy(view.holdings, u)) > 1}]
    BY <1>2 DEF BeginDedup
  <2>2. Whole(view, owed)
    BY <2>1 DEF StartInv
  <2>3. CASE view.unique
    <3>1. merging' = NoMerge /\ step' = "profileDedup"
      BY <1>2, <2>1, <2>3 DEF BeginDedup, NoMerge
    <3> QED
      BY <2>1, <2>2, <3>1 DEF StartInv
  <2>4. CASE ~view.unique
    <3>1. step' = "merge" /\ merging'.rows = {} /\ DOMAIN merging' = {"accounts", "rows"}
          /\ merging'.accounts = {u \in People : Cardinality(OwnedBy(view.holdings, u)) > 1}
      BY <1>2, <2>1, <2>4 DEF BeginDedup, NoMerge
    <3>2. \A u \in merging'.accounts : OwnedBy(view.holdings, u) # {}
      BY <3>1, FS_EmptySet
    <3>3. view.holdings \ merging'.rows = view.holdings
      BY <3>1
    <3>4. HalfMerged'
      BY <2>1, <2>2, <3>1, <3>2, <3>3 DEF HalfMerged, Whole, Holds, StartInv
    <3> QED
      BY <2>1, <3>1, <3>4 DEF StartInv
  <2> QED
    BY <2>3, <2>4
<1>3. CASE CreateIndex
  <2> DEFINE db == [view EXCEPT !.unique = TRUE]
  <2>1. /\ step = "merge" /\ merging = NoMerge /\ step' = "profileDedup"
        /\ Does(db) /\ UNCHANGED <<merging, owed>> /\ HalfMerged
    BY <1>3 DEF CreateIndex, StartInv
  <2>2. view.holdings \ merging.rows = view.holdings
    BY <2>1 DEF NoMerge
  <2>3. view \in Database /\ Keyed(view.holdings) /\ Keyed(view.profiles)
    BY <2>1 DEF HalfMerged, DatabaseOK
  <2>4. db \in Database /\ db.holdings = view.holdings /\ db.profiles = view.profiles
    BY <2>3 DEF Database
  <2> HIDE DEF db
  <2>5. Whole(db, owed) /\ Settled(view) \subseteq Settled(db)
    BY <2>1, <2>2, <2>3, <2>4 DEF Whole, DatabaseOK, Holds, HalfMerged, Settled
  <2> QED
    BY <2>1, <2>5, Doing
<1>4. CASE DedupFails
  BY <1>4 DEF DedupFails, StartInv, HalfMerged
<1>5. CASE CommitMigration
  BY <1>5 DEF CommitMigration, StartInv
<1>6. CASE StopProcess
  BY <1>6 DEF StopProcess, StartInv
<1>7. ASSUME NEW s \in {"advices", "targets"}, AdoptByName(s)
      PROVE  StartInv' /\ Settled(disk) \subseteq Settled(disk')
  <2> DEFINE db == IF view.users = {} THEN view ELSE Adopted(s)
  <2>1. step = s /\ step' = After(s) /\ Does(db) /\ UNCHANGED <<merging, owed>>
    BY <1>7 DEF AdoptByName
  <2>2. Whole(view, owed) /\ merging' = NoMerge /\ step' # "merge"
    BY <2>1, AfterIs DEF StartInv
  <2>3. Whole(db, owed) /\ Settled(view) \subseteq Settled(db)
    BY <2>2, Adopting
  <2> HIDE DEF db
  <2> QED
    BY <2>1, <2>2, <2>3, Doing
<1>8. ASSUME NEW s \in {"holdings", "transactions", "watchlist", "profiles", "alerts"}, Adopt(s)
      PROVE  StartInv' /\ Settled(disk) \subseteq Settled(disk')
  <2>1. Whole(view, owed) /\ merging' = NoMerge /\ owed' = owed
    BY <1>8 DEF Adopt, StartInv
  <2>2. CASE Refused(s)
    BY <1>8, <2>1, <2>2 DEF Adopt, StartInv
  <2>3. CASE ~Refused(s)
    <3>1. step' = After(s) /\ Does(Adopted(s))
      BY <1>8, <2>3 DEF Adopt
    <3> QED
      BY <2>1, <3>1, AfterIs, Adopting, Doing
  <2> QED
    BY <2>2, <2>3
<1>9. ASSUME NEW fails \in BOOLEAN, DedupProfiles(fails)
      PROVE  StartInv' /\ Settled(disk) \subseteq Settled(disk')
  <2> DEFINE db == IF view.uniqueProfiles \/ fails THEN view
                   ELSE [view EXCEPT !.profiles = KeptProfiles(view.profiles),
                                     !.uniqueProfiles = TRUE]
  <2>1. step = "profileDedup" /\ step' = "commit" /\ Does(db) /\ UNCHANGED <<merging, owed>>
    BY <1>9 DEF DedupProfiles
  <2>2. Whole(view, owed) /\ merging' = NoMerge
    BY <2>1 DEF StartInv
  <2>3. Whole(db, owed) /\ Settled(view) \subseteq Settled(db)
    <3>1. view \in Database /\ Keyed(view.holdings) /\ Keyed(view.profiles)
          /\ view.profiles \in SUBSET Profile /\ \A u \in People : Holds(view, u) = owed[u]
      BY <2>2 DEF Whole, DatabaseOK, Database
    <3>2. CASE view.uniqueProfiles \/ fails
      BY <2>2, <3>2
    <3>3. CASE ~(view.uniqueProfiles \/ fails)
      <4>1. db \in Database /\ db.holdings = view.holdings
            /\ db.profiles = KeptProfiles(view.profiles)
        BY <3>1, <3>3, KeepingProfiles DEF Database
      <4> HIDE DEF db
      <4> QED
        BY <3>1, <4>1, KeepingProfiles DEF Whole, DatabaseOK, Holds, Settled
    <3> QED
      BY <3>2, <3>3
  <2> HIDE DEF db
  <2> QED
    BY <2>1, <2>2, <2>3, Doing
<1> QED
  BY <1>1, <1>2, <1>3, <1>4, <1>5, <1>6, <1>7, <1>8, <1>9

LEMMA StartInvStep ==
  StartInv /\ [StartupNext]_startupVars => StartInv' /\ Settled(disk) \subseteq Settled(disk')
<1> SUFFICES ASSUME StartInv, [StartupNext]_startupVars
             PROVE  StartInv' /\ Settled(disk) \subseteq Settled(disk')
  OBVIOUS
<1>1. CASE UNCHANGED startupVars
  BY <1>1 DEF startupVars, StartInv, HalfMerged
<1>2. CASE StartupNext
  BY <1>2, MigrationKeeps, MergeAccountKeeps, DeleteDuplicateKeeps, BuyKeeps,
     OpenSettingsKeeps, SeedProfileKeeps, SeedAdminKeeps DEF StartupNext
<1> QED
  BY <1>1, <1>2

\* Whatever databases earlier versions left, however many accounts and rows
\* they hold and however often a start is killed between two statements of a
\* migration, encrypted or not: the quantities on disk are those each account
\* had and bought.  A merge of duplicates counts none twice and loses none.
THEOREM PositionsSurvive == StartupSpec => []PositionsKept
<1>1. StartInv => PositionsKept
  BY DEF StartInv, Whole, PositionsKept
<1>2. StartInv /\ [StartupNext]_startupVars => StartInv'
  BY StartInvStep
<1> QED
  BY StartInvInit, <1>1, <1>2, PTL DEF StartupSpec

\* No statement of a start, no stop and no operation takes the last settings
\* row of an account from the disk: the deduplication keeps the oldest, and a
\* backfill only gives rows to the administrator.
THEOREM ProfilesSurvive == StartupSpec => ProfilesKept
<1>1. StartInv /\ [StartupNext]_startupVars => StartInv'
  BY StartInvStep
<1>2. StartInv /\ [StartupNext]_startupVars =>
        [\A u \in People : OwnedBy(disk.profiles, u) # {} => OwnedBy(disk'.profiles, u) # {}]_startupVars
  BY StartInvStep DEF Settled
<1> QED
  BY StartInvInit, <1>1, <1>2, PTL DEF StartupSpec, ProfilesKept

-----------------------------------------------------------------------------
(* The UNIQUE indexes. *)

\* An account has at most one of the rows.
One(rs, u) == \A r, s \in OwnedBy(rs, u) : r = s

LEMMA OneIs ==
  ASSUME NEW rs, IsFiniteSet(rs), NEW u
  PROVE  Cardinality(OwnedBy(rs, u)) <= 1 <=> One(rs, u)
<1> DEFINE mine == OwnedBy(rs, u)
<1>1. IsFiniteSet(mine) /\ Cardinality(mine) \in Nat
  BY FS_Subset, FS_CardinalityType DEF OwnedBy
<1>2. ASSUME One(rs, u) PROVE Cardinality(mine) <= 1
  <2>1. CASE mine = {}
    BY <2>1, FS_EmptySet
  <2>2. ASSUME NEW r \in mine PROVE Cardinality(mine) <= 1
    <3>1. mine = {r}
      BY <1>2 DEF One
    <3> QED
      BY <3>1, FS_Singleton
  <2> QED
    BY <2>1, <2>2
<1>3. ASSUME Cardinality(mine) <= 1, NEW r \in mine, NEW s \in mine, r # s PROVE FALSE
  <2>1. {r, s} \subseteq mine /\ Cardinality({r, s}) = 2
    <3>1. Cardinality({r}) = 1 /\ IsFiniteSet({r})
      BY FS_Singleton
    <3>2. Cardinality({r} \cup {s}) = Cardinality({r}) + 1
      BY <1>3, <3>1, FS_AddElement
    <3> QED
      BY <3>1, <3>2
  <2>2. Cardinality({r, s}) <= Cardinality(mine)
    BY <1>1, <2>1, FS_Subset
  <2> QED
    BY <1>1, <1>3, <2>1, <2>2
<1> QED
  BY <1>2, <1>3 DEF One

LEMMA SingleIs ==
  ASSUME NEW rs, IsFiniteSet(rs)
  PROVE  Single(rs) <=> \A u \in People : One(rs, u)
  BY OneIs DEF Single

\* A backfill that breaks no UNIQUE index leaves the accounts a row at most.
LEMMA GivingOne ==
  ASSUME NEW T \in {Holding, Profile}, NEW rs \in SUBSET T, IsFiniteSet(rs), Single(rs),
         ~Collides(rs, TRUE)
  PROVE  IsFiniteSet(Given(rs)) /\ Single(Given(rs))
<1> DEFINE b == [r \in rs |-> [r EXCEPT !.owner = IF @ = NoOwner THEN Admin ELSE @]]
           lost == OwnedBy(rs, NoOwner)
<1>1. /\ Given(rs) = {b[r] : r \in rs}
      /\ \A r \in rs : b[r].owner = IF r.owner = NoOwner THEN Admin ELSE r.owner
  <2>1. CASE T = Holding
    BY <2>1 DEF Given, Holding
  <2>2. CASE T = Profile
    BY <2>2 DEF Given, Profile
  <2> QED
    BY <2>1, <2>2
<1>2. b \in Surjection(rs, Given(rs))
  BY <1>1 DEF Surjection
<1> HIDE DEF b
<1>3. IsFiniteSet(Given(rs))
  BY <1>2, FS_Surjection
<1>4. \A u \in People : One(rs, u)
  BY SingleIs
<1>5. lost = {} \/ (One(rs, NoOwner) /\ OwnedBy(rs, Admin) = {})
  <2>1. IsFiniteSet(lost) /\ Cardinality(lost) \in Nat
    BY FS_Subset, FS_CardinalityType DEF OwnedBy
  <2>2. lost = {} \/ (~(Cardinality(lost) > 1) /\ OwnedBy(rs, Admin) = {})
    BY DEF Collides
  <2>3. ~(Cardinality(lost) > 1) => Cardinality(lost) <= 1
    BY <2>1
  <2> QED
    BY <2>2, <2>3, OneIs
<1>6. ASSUME NEW u \in People PROVE One(Given(rs), u)
  <2> SUFFICES ASSUME NEW r \in rs, NEW s \in rs, b[r].owner = u, b[s].owner = u PROVE r = s
    BY <1>1 DEF One, OwnedBy
  <2>1. CASE u # Admin
    BY <1>1, <1>4, <2>1 DEF One, OwnedBy
  <2>2. CASE u = Admin /\ lost = {}
    BY <1>1, <1>4, <2>2 DEF One, OwnedBy
  <2>3. CASE u = Admin /\ One(rs, NoOwner) /\ OwnedBy(rs, Admin) = {}
    BY <1>1, <2>3 DEF One, OwnedBy
  <2> QED
    BY <1>5, <2>1, <2>2, <2>3
<1> QED
  BY <1>3, <1>6, SingleIs

\* The deduplication of the profiles leaves one of each account.
LEMMA KeepingOne ==
  ASSUME NEW ps, IsFiniteSet(ps)
  PROVE  Single(KeptProfiles(ps))
<1>1. IsFiniteSet(KeptProfiles(ps))
  BY FS_Subset DEF KeptProfiles
<1>2. \A u \in People : One(KeptProfiles(ps), u)
  BY StartupAssumption DEF One, OwnedBy, KeptProfiles
<1> QED
  BY <1>1, <1>2, SingleIs

(* In a merge cut in half the accounts that are done have one row, besides  *)
(* those yet to be deleted.                                                 *)
IndexInv ==
  /\ Indexed(disk) /\ Indexed(view)
  /\ step = "merge" =>
       /\ Indexed(saved) /\ ~view.unique
       /\ \A u \in People \ merging.accounts : One(view.holdings \ merging.rows, u)

\* What the types say of a database.
LEMMA Tables ==
  ASSUME NEW db, DatabaseOK(db)
  PROVE  /\ db.holdings \in SUBSET Holding /\ IsFiniteSet(db.holdings)
         /\ db.profiles \in SUBSET Profile /\ IsFiniteSet(db.profiles)
         /\ db.unique \in BOOLEAN /\ db.uniqueProfiles \in BOOLEAN /\ db.users \subseteq People
  BY DEF DatabaseOK, Database, Keyed

LEMMA Views ==
  ASSUME StartInv
  PROVE  DatabaseOK(disk) /\ DatabaseOK(view) /\ (step = "merge" => DatabaseOK(saved))
  BY DEF StartInv, HalfMerged, Whole

LEMMA MergeAccountIndexes ==
  ASSUME StartInv, IndexInv, NEW u \in People, MergeAccount(u)
  PROVE  IndexInv'
<1> DEFINE hs == view.holdings
           mine == OwnedBy(hs, u)
           old == Oldest(mine)
           kept == [old EXCEPT !.quantity = Quantity(mine)]
           new == (hs \ {old}) \cup {kept}
<1>1. /\ step = "merge" /\ merging.rows = {} /\ u \in merging.accounts
      /\ DatabaseOK(view) /\ mine # {} /\ ~view.unique
      /\ view' = [view EXCEPT !.holdings = new]
      /\ merging' = [accounts |-> merging.accounts \ {u}, rows |-> mine \ {old}]
      /\ UNCHANGED <<disk, saved, step>>
  BY DEF MergeAccount, DoesNested, StartInv, HalfMerged, IndexInv
<1>2. old \in mine /\ old \in Holding /\ old.owner = u /\ kept.owner = u
  <2>1. \A r \in mine : r.id \in Nat /\ r \in Holding /\ r.owner = u
    BY <1>1, Tables DEF OwnedBy, Holding
  <2>2. old \in mine
    <3> HIDE DEF mine
    <3> QED
      BY <1>1, <2>1, OldestIs
  <2> HIDE DEF mine, old
  <2> QED
    BY <2>1, <2>2 DEF Holding
<1> HIDE DEF old, kept
<1>3. ASSUME NEW v \in People, v \notin merging'.accounts
      PROVE  One(new \ (mine \ {old}), v)
  <2>1. CASE v = u
    <3>1. \A r \in new \ (mine \ {old}) : r.owner = u => r = kept
      BY <1>2 DEF OwnedBy
    <3> QED
      BY <2>1, <3>1 DEF One, OwnedBy
  <2>2. CASE v # u
    <3>1. v \notin merging.accounts
      BY <1>1, <1>3, <2>2
    <3>2. One(hs \ merging.rows, v)
      BY <1>1, <3>1 DEF IndexInv
    <3> QED
      BY <1>1, <1>2, <2>2, <3>2 DEF One, OwnedBy
  <2> QED
    BY <2>1, <2>2
<1>4. /\ view'.holdings = new /\ view'.unique = view.unique
      /\ view'.profiles = view.profiles /\ view'.uniqueProfiles = view.uniqueProfiles
  BY <1>1 DEF DatabaseOK, Database
<1>5. merging'.rows = mine \ {old}
  BY <1>1
<1> HIDE DEF new, mine
<1>6. Indexed(view')
  BY <1>1, <1>4 DEF IndexInv, Indexed
<1>7. \A v \in People \ merging'.accounts : One(view'.holdings \ merging'.rows, v)
  BY <1>3, <1>4, <1>5
<1> QED
  BY <1>1, <1>4, <1>6, <1>7 DEF IndexInv

LEMMA DeleteDuplicateIndexes ==
  ASSUME StartInv, IndexInv, NEW r \in merging.rows, DeleteDuplicate(r)
  PROVE  IndexInv'
<1>1. /\ step = "merge" /\ DatabaseOK(view) /\ ~view.unique
      /\ view' = [view EXCEPT !.holdings = view.holdings \ {r}]
      /\ merging' = [merging EXCEPT !.rows = merging.rows \ {r}]
      /\ DOMAIN merging = {"accounts", "rows"}
      /\ UNCHANGED <<disk, saved, step>>
  BY DEF DeleteDuplicate, DoesNested, StartInv, HalfMerged, IndexInv
<1>2. /\ view'.holdings = view.holdings \ {r} /\ view'.unique = view.unique
      /\ view'.profiles = view.profiles /\ view'.uniqueProfiles = view.uniqueProfiles
      /\ merging'.rows = merging.rows \ {r} /\ merging'.accounts = merging.accounts
  BY <1>1 DEF DatabaseOK, Database
<1>3. view'.holdings \ merging'.rows = view.holdings \ merging.rows
  BY <1>2
<1>4. Indexed(view')
  BY <1>1, <1>2 DEF IndexInv, Indexed
<1> QED
  BY <1>1, <1>2, <1>3, <1>4 DEF IndexInv

LEMMA BuyIndexes ==
  ASSUME StartInv, IndexInv, NEW u \in People, Buy(u)
  PROVE  IndexInv'
<1> DEFINE hs == disk.holdings
           mine == OwnedBy(hs, u)
           added == [id |-> NewId(hs), owner |-> u, quantity |-> 1]
           old == Oldest(mine)
           kept == [old EXCEPT !.quantity = @ + 1]
           new == IF mine = {} THEN hs \cup {added} ELSE (hs \ {old}) \cup {kept}
<1>1. /\ step = "up" /\ step' = "up" /\ disk' = [disk EXCEPT !.holdings = new] /\ view' = disk'
      /\ DatabaseOK(disk)
  BY Views DEF Buy, Commits
<1>2. /\ disk'.holdings = new /\ disk'.unique = disk.unique
      /\ disk'.profiles = disk.profiles /\ disk'.uniqueProfiles = disk.uniqueProfiles
  BY <1>1 DEF DatabaseOK, Database
<1>3. ASSUME disk.unique PROVE Single(new)
  <2>1. IsFiniteSet(hs) /\ \A v \in People : One(hs, v)
    BY <1>1, <1>3, Tables, SingleIs DEF IndexInv, Indexed
  <2>2. CASE mine = {}
    <3>1. \A v \in People : One(hs \cup {added}, v)
      BY <2>1, <2>2 DEF One, OwnedBy
    <3>2. IsFiniteSet(hs \cup {added})
      BY <2>1, FS_AddElement
    <3> QED
      BY <2>2, <3>1, <3>2, SingleIs
  <2>3. CASE mine # {}
    <3>1. old \in mine /\ kept.owner = u
      <4>1. \A r \in mine : r.id \in Nat /\ r \in Holding /\ r.owner = u
        BY <1>1, Tables DEF OwnedBy, Holding
      <4>2. old \in mine
        <5> HIDE DEF mine
        <5> QED
          BY <2>3, <4>1, OldestIs
      <4> HIDE DEF mine, old
      <4> QED
        BY <4>1, <4>2 DEF Holding
    <3> HIDE DEF old, kept
    <3>2. \A v \in People : One((hs \ {old}) \cup {kept}, v)
      BY <2>1, <3>1 DEF One, OwnedBy
    <3>3. IsFiniteSet((hs \ {old}) \cup {kept})
      BY <2>1, FS_RemoveElement, FS_AddElement
    <3> QED
      BY <2>3, <3>2, <3>3, SingleIs
  <2> QED
    BY <2>2, <2>3
<1> HIDE DEF new
<1>4. Indexed(disk')
  BY <1>2, <1>3 DEF IndexInv, Indexed
<1> QED
  BY <1>1, <1>4 DEF IndexInv

LEMMA OpenSettingsIndexes ==
  ASSUME StartInv, IndexInv, NEW u \in People, OpenSettings(u)
  PROVE  IndexInv'
<1> DEFINE ps == disk.profiles
           added == [id |-> NewId(ps), owner |-> u]
           new == ps \cup {added}
<1>1. /\ step = "up" /\ step' = "up" /\ disk' = [disk EXCEPT !.profiles = new] /\ view' = disk'
      /\ DatabaseOK(disk) /\ OwnedBy(ps, u) = {}
  BY Views DEF OpenSettings, Commits
<1>2. /\ disk'.profiles = new /\ disk'.unique = disk.unique
      /\ disk'.holdings = disk.holdings /\ disk'.uniqueProfiles = disk.uniqueProfiles
  BY <1>1 DEF DatabaseOK, Database
<1>3. ASSUME disk.uniqueProfiles PROVE Single(new)
  <2>1. IsFiniteSet(ps) /\ \A v \in People : One(ps, v)
    BY <1>1, <1>3, Tables, SingleIs DEF IndexInv, Indexed
  <2>2. \A v \in People : One(new, v)
    BY <1>1, <2>1 DEF One, OwnedBy
  <2>3. IsFiniteSet(new)
    BY <2>1, FS_AddElement
  <2> QED
    BY <2>2, <2>3, SingleIs
<1> HIDE DEF new
<1>4. Indexed(disk')
  BY <1>2, <1>3 DEF IndexInv, Indexed
<1> QED
  BY <1>1, <1>4 DEF IndexInv

LEMMA SeedingIndexes ==
  ASSUME StartInv, IndexInv, SeedProfile \/ \E found \in BOOLEAN : SeedAdmin(found)
  PROVE  IndexInv'
<1>0. DatabaseOK(disk) /\ Indexed(disk)
  BY Views DEF IndexInv
<1>1. CASE SeedProfile
  <2> DEFINE seed == [id |-> 1, owner |-> NoOwner]
             db == [disk EXCEPT !.profiles = {seed}]
  <2>1. step' = "admin" /\ view' = disk' /\ (disk' = disk \/ disk' = db)
    BY <1>1 DEF SeedProfile, Commits
  <2>2. Single({seed})
    <3>1. IsFiniteSet({seed}) /\ \A u \in People : One({seed}, u)
      BY FS_Singleton DEF One, OwnedBy
    <3> QED
      BY <3>1, SingleIs
  <2> HIDE DEF seed
  <2>3. /\ db.profiles = {seed} /\ db.unique = disk.unique /\ db.holdings = disk.holdings
        /\ db.uniqueProfiles = disk.uniqueProfiles
    BY <1>0 DEF DatabaseOK, Database
  <2> HIDE DEF db
  <2>4. Indexed(db)
    BY <1>0, <2>2, <2>3 DEF Indexed
  <2> QED
    BY <1>0, <2>1, <2>4 DEF IndexInv
<1>2. CASE \E found \in BOOLEAN : SeedAdmin(found)
  <2> DEFINE db == [disk EXCEPT !.users = @ \cup {NewAccount}]
  <2>1. step' = "up" /\ view' = disk' /\ (disk' = disk \/ disk' = db)
    BY <1>2 DEF SeedAdmin, Commits
  <2>2. /\ db.profiles = disk.profiles /\ db.unique = disk.unique /\ db.holdings = disk.holdings
        /\ db.uniqueProfiles = disk.uniqueProfiles
    BY <1>0 DEF DatabaseOK, Database
  <2> HIDE DEF db
  <2>3. Indexed(db)
    BY <1>0, <2>2 DEF Indexed
  <2> QED
    BY <1>0, <2>1, <2>3 DEF IndexInv
<1> QED
  BY <1>1, <1>2

\* A backfill that is not refused breaks no index.
LEMMA AdoptingIndexes ==
  ASSUME DatabaseOK(view), Indexed(view), NEW s, ~Refused(s)
  PROVE  Indexed(Adopted(s))
<1>0. /\ view.holdings \in SUBSET Holding /\ IsFiniteSet(view.holdings)
      /\ view.profiles \in SUBSET Profile /\ IsFiniteSet(view.profiles)
      /\ view.unique \in BOOLEAN /\ view.uniqueProfiles \in BOOLEAN
  BY Tables
<1>1. CASE s = "holdings"
  <2>1. Adopted(s) = [view EXCEPT !.holdings = Given(view.holdings)]
        /\ ~Collides(view.holdings, view.unique)
    BY <1>1 DEF Adopted, Refused
  <2>2. /\ Adopted(s).holdings = Given(view.holdings) /\ Adopted(s).unique = view.unique
        /\ Adopted(s).profiles = view.profiles /\ Adopted(s).uniqueProfiles = view.uniqueProfiles
    BY <2>1 DEF DatabaseOK, Database
  <2>3. ASSUME view.unique PROVE Single(Given(view.holdings))
    <3>1. ~Collides(view.holdings, TRUE)
      BY <2>1, <2>3 DEF Collides
    <3>2. Single(view.holdings)
      BY <2>3 DEF Indexed
    <3> QED
      BY <1>0, <3>1, <3>2, GivingOne
  <2> QED
    BY <2>2, <2>3 DEF Indexed
<1>2. CASE s = "profiles"
  <2>1. Adopted(s) = [view EXCEPT !.profiles = Given(view.profiles)]
        /\ ~Collides(view.profiles, view.uniqueProfiles)
    BY <1>2 DEF Adopted, Refused
  <2>2. /\ Adopted(s).holdings = view.holdings /\ Adopted(s).unique = view.unique
        /\ Adopted(s).profiles = Given(view.profiles)
        /\ Adopted(s).uniqueProfiles = view.uniqueProfiles
    BY <2>1 DEF DatabaseOK, Database
  <2>3. ASSUME view.uniqueProfiles PROVE Single(Given(view.profiles))
    <3>1. ~Collides(view.profiles, TRUE)
      BY <2>1, <2>3 DEF Collides
    <3>2. Single(view.profiles)
      BY <2>3 DEF Indexed
    <3> QED
      BY <1>0, <3>1, <3>2, GivingOne
  <2> QED
    BY <2>2, <2>3 DEF Indexed
<1>3. CASE s \notin {"holdings", "profiles"}
  <2>1. Adopted(s) = [view EXCEPT !.orphans = view.orphans \ {s}]
    BY <1>3 DEF Adopted
  <2>2. /\ Adopted(s).holdings = view.holdings /\ Adopted(s).unique = view.unique
        /\ Adopted(s).profiles = view.profiles /\ Adopted(s).uniqueProfiles = view.uniqueProfiles
    BY <2>1 DEF DatabaseOK, Database
  <2> QED
    BY <2>2 DEF Indexed
<1> QED
  BY <1>1, <1>2, <1>3

\* A statement outside the merge that keeps the indexes.
LEMMA DoingIndexes ==
  ASSUME IndexInv, NEW db, Indexed(db), Does(db), step' # "merge"
  PROVE  IndexInv'
  BY DEF Does, IndexInv

LEMMA MigrationIndexes ==
  ASSUME StartInv, IndexInv,
         \/ StartProcess \/ BeginDedup \/ CreateIndex \/ DedupFails \/ CommitMigration
         \/ StopProcess
         \/ \E s \in {"advices", "targets"} : AdoptByName(s)
         \/ \E s \in {"holdings", "transactions", "watchlist", "profiles", "alerts"} : Adopt(s)
         \/ \E fails \in BOOLEAN : DedupProfiles(fails)
  PROVE  IndexInv'
<1>0. DatabaseOK(disk) /\ DatabaseOK(view) /\ Indexed(view)
  BY Views DEF IndexInv
<1>1. CASE StartProcess
  BY <1>1 DEF StartProcess, IndexInv
<1>2. CASE BeginDedup
  <2>1. step = "dedup" /\ saved' = view /\ UNCHANGED <<disk, view>>
        /\ merging' = [NoMerge EXCEPT !.accounts =
             {u \in People : ~view.unique /\ Cardinality(OwnedBy(view.holdings, u)) > 1}]
    BY <1>2 DEF BeginDedup
  <2>2. CASE view.unique
    BY <1>2, <2>1, <2>2 DEF BeginDedup, IndexInv
  <2>3. CASE ~view.unique
    <3>1. /\ merging'.rows = {}
          /\ merging'.accounts = {u \in People : Cardinality(OwnedBy(view.holdings, u)) > 1}
      BY <2>1, <2>3 DEF NoMerge
    <3>2. ASSUME NEW u \in People \ merging'.accounts PROVE One(view.holdings, u)
      <4>1. IsFiniteSet(OwnedBy(view.holdings, u)) /\ IsFiniteSet(view.holdings)
        BY <1>0, Tables, FS_Subset DEF OwnedBy
      <4>2. Cardinality(OwnedBy(view.holdings, u)) <= 1
        BY <3>1, <4>1, FS_CardinalityType
      <4> QED
        BY <4>1, <4>2, OneIs
    <3>3. view'.holdings \ merging'.rows = view.holdings
      BY <2>1, <3>1
    <3> QED
      BY <2>1, <2>3, <3>2, <3>3 DEF IndexInv
  <2> QED
    BY <2>2, <2>3
<1>3. CASE CreateIndex
  <2> DEFINE db == [view EXCEPT !.unique = TRUE]
  <2>1. step = "merge" /\ merging = NoMerge /\ step' = "profileDedup" /\ Does(db)
    BY <1>3 DEF CreateIndex
  <2>2. \A u \in People : One(view.holdings, u)
    <3>1. merging.accounts = {} /\ view.holdings \ merging.rows = view.holdings
      BY <2>1 DEF NoMerge
    <3> QED
      BY <2>1, <3>1 DEF IndexInv
  <2>3. Single(view.holdings)
    BY <1>0, <2>2, Tables, SingleIs
  <2>4. /\ db.holdings = view.holdings /\ db.unique = TRUE
        /\ db.profiles = view.profiles /\ db.uniqueProfiles = view.uniqueProfiles
    BY <1>0 DEF DatabaseOK, Database
  <2> HIDE DEF db
  <2>5. Indexed(db)
    BY <1>0, <2>3, <2>4 DEF Indexed
  <2> QED
    BY <2>1, <2>5, DoingIndexes
<1>4. CASE DedupFails
  BY <1>4 DEF DedupFails, IndexInv
<1>5. CASE CommitMigration
  BY <1>5 DEF CommitMigration, IndexInv
<1>6. CASE StopProcess
  BY <1>6 DEF StopProcess, IndexInv
<1>7. ASSUME NEW s \in {"advices", "targets"}, AdoptByName(s) PROVE IndexInv'
  <2> DEFINE db == IF view.users = {} THEN view ELSE Adopted(s)
  <2>1. step' = After(s) /\ Does(db)
    BY <1>7 DEF AdoptByName
  <2>2. Adopted(s) = [view EXCEPT !.orphans = view.orphans \ {s}]
    BY DEF Adopted
  <2>3. /\ Adopted(s).holdings = view.holdings /\ Adopted(s).unique = view.unique
        /\ Adopted(s).profiles = view.profiles /\ Adopted(s).uniqueProfiles = view.uniqueProfiles
    BY <1>0, <2>2 DEF DatabaseOK, Database
  <2>4. Indexed(db)
    BY <1>0, <2>3 DEF Indexed
  <2> HIDE DEF db
  <2> QED
    BY <2>1, <2>4, AfterIs, DoingIndexes
<1>8. ASSUME NEW s \in {"holdings", "transactions", "watchlist", "profiles", "alerts"}, Adopt(s)
      PROVE  IndexInv'
  <2>1. CASE Refused(s)
    BY <1>8, <2>1 DEF Adopt, IndexInv
  <2>2. CASE ~Refused(s)
    <3>1. step' = After(s) /\ Does(Adopted(s))
      BY <1>8, <2>2 DEF Adopt
    <3>2. Indexed(Adopted(s))
      BY <1>0, <2>2, AdoptingIndexes
    <3> QED
      BY <3>1, <3>2, AfterIs, DoingIndexes
  <2> QED
    BY <2>1, <2>2
<1>9. ASSUME NEW fails \in BOOLEAN, DedupProfiles(fails) PROVE IndexInv'
  <2> DEFINE kept == [view EXCEPT !.profiles = KeptProfiles(view.profiles), !.uniqueProfiles = TRUE]
             db == IF view.uniqueProfiles \/ fails THEN view ELSE kept
  <2>1. step' = "commit" /\ Does(db)
    BY <1>9 DEF DedupProfiles
  <2>2. /\ kept.holdings = view.holdings /\ kept.unique = view.unique
        /\ kept.profiles = KeptProfiles(view.profiles)
    BY <1>0 DEF DatabaseOK, Database
  <2>3. Single(KeptProfiles(view.profiles))
    BY <1>0, Tables, KeepingOne
  <2> HIDE DEF kept
  <2>4. Indexed(db)
    BY <1>0, <2>2, <2>3 DEF Indexed
  <2> HIDE DEF db
  <2> QED
    BY <2>1, <2>4, DoingIndexes
<1> QED
  BY <1>1, <1>2, <1>3, <1>4, <1>5, <1>6, <1>7, <1>8, <1>9

LEMMA IndexInvStep == StartInv /\ IndexInv /\ [StartupNext]_startupVars => IndexInv'
<1> SUFFICES ASSUME StartInv, IndexInv, [StartupNext]_startupVars PROVE IndexInv'
  OBVIOUS
<1>1. CASE UNCHANGED startupVars
  BY <1>1 DEF startupVars, IndexInv
<1>2. CASE StartupNext
  BY <1>2, MigrationIndexes, MergeAccountIndexes, DeleteDuplicateIndexes, BuyIndexes,
     OpenSettingsIndexes, SeedingIndexes DEF StartupNext
<1> QED
  BY <1>1, <1>2

\* An index that a start creates, or finds, holds: where a migration is cut in
\* half, or goes on without its merge, the index is not there yet, and no
\* backfill, seed or operation adds a second row where it is.
THEOREM IndexesHold == StartupSpec => []StartupTypeOK
<1>1. StartupInit => IndexInv
  BY StartupAssumption DEF StartupInit, IndexInv
<1>2. StartInv /\ [StartupNext]_startupVars => StartInv'
  BY StartInvStep
<1>3. StartInv /\ IndexInv /\ encrypted \in BOOLEAN => StartupTypeOK
  BY Views, Tables DEF IndexInv, StartupTypeOK
<1>4. StartupInit => encrypted \in BOOLEAN
  BY DEF StartupInit
<1>5. encrypted \in BOOLEAN /\ [StartupNext]_startupVars => (encrypted \in BOOLEAN)'
  BY DEF StartupNext, startupVars, StartProcess, BeginDedup, CreateIndex, DedupFails,
     CommitMigration, SeedProfile, SeedAdmin, StopProcess, AdoptByName, Adopt, MergeAccount,
     OpenSettings, Buy, DeleteDuplicate, DedupProfiles
<1> QED
  BY StartInvInit, <1>1, <1>2, IndexInvStep, <1>3, <1>4, <1>5, PTL DEF StartupSpec
=============================================================================
