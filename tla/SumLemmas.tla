------------------------------ MODULE SumLemmas ------------------------------
(***************************************************************************)
(* Sums over finite sets: what SumFunctionOnSet of the community modules   *)
(* returns.  The library's induction theorems take the property as an      *)
(* operator, which the provers cannot instantiate; here it is a set, of    *)
(* the subsets that have the property (SubsetInduction).                   *)
(***************************************************************************)
EXTENDS Integers, FiniteSets, FiniteSetsExt, FiniteSetTheorems, WellFoundedInduction, TLAPS

NatLess == {ss \in Nat \X Nat : ss[1] < ss[2]}

\* A set of naturals that is not empty has a least element.
LEMMA LeastNatural ==
  ASSUME NEW T \in SUBSET Nat, T # {}
  PROVE  \E n \in T : \A m \in T : n <= m
<1>1. OpToRel(<, Nat) = NatLess
  BY DEF OpToRel, NatLess
<1>2. IsWellFoundedOn(NatLess, Nat)
  BY <1>1, NatLessThanWellFounded
<1>3. PICK n \in T : \A m \in T : <<m, n>> \notin NatLess
  BY <1>2, WFMin
<1>4. \A m \in Nat : m < n => <<m, n>> \in NatLess
  BY DEF NatLess
<1>5. \A m \in T : n <= m
  <2> SUFFICES ASSUME NEW m \in T PROVE ~(m < n)
    OBVIOUS
  <2> QED
    BY <1>3, <1>4
<1> QED
  BY <1>5

\* What holds of a set when it holds of the set less any element holds of all.
LEMMA SubsetInduction ==
  ASSUME NEW S, IsFiniteSet(S), NEW P,
         \A s \in SUBSET S : (\A x \in s : s \ {x} \in P) => s \in P
  PROVE  \A s \in SUBSET S : s \in P
<1> DEFINE Bad == {n \in Nat : \E s \in SUBSET S : Cardinality(s) = n /\ s \notin P}
<1> SUFFICES ASSUME NEW t \in SUBSET S, t \notin P PROVE FALSE
  OBVIOUS
<1>1. Bad \in SUBSET Nat /\ Bad # {}
  BY FS_Subset, FS_CardinalityType
<1>2. PICK n \in Bad : \A m \in Bad : n <= m
  <2> HIDE DEF Bad
  <2> QED
    BY <1>1, LeastNatural
<1>3. PICK s \in SUBSET S : Cardinality(s) = n /\ s \notin P
  BY <1>2
<1>4. PICK x \in s : s \ {x} \notin P
  BY <1>3
<1>5. /\ s \ {x} \in SUBSET S /\ n \in Nat /\ n - 1 \in Nat
      /\ Cardinality(s \ {x}) = n - 1
  <2>1. IsFiniteSet(s) /\ IsFiniteSet(s \ {x}) /\ Cardinality(s \ {x}) = Cardinality(s) - 1
    BY FS_Subset, FS_RemoveElement
  <2>2. Cardinality(s \ {x}) \in Nat /\ n \in Nat
    BY <1>2, <2>1, FS_CardinalityType
  <2> QED
    BY <1>3, <2>1, <2>2
<1>6. n - 1 \in Bad
  BY <1>4, <1>5
<1> HIDE DEF Bad
<1> QED
  BY <1>2, <1>5, <1>6

-----------------------------------------------------------------------------
(* The recursion of the fold.                                              *)

Picked(s) == CHOOSE x \in s : TRUE
Rest(s) == s \ {Picked(s)}
Folds(f, D, g) == g = [s \in D |-> IF s = {} THEN 0 ELSE f[Picked(s)] + g[Rest(s)]]
SubsetsUpTo(S, n) == {s \in SUBSET S : Cardinality(s) <= n}

\* What is left when an element is picked.
LEMMA RestSmaller ==
  ASSUME NEW S, IsFiniteSet(S), NEW s \in SUBSET S, s # {}
  PROVE  /\ Picked(s) \in s /\ Rest(s) \in SUBSET S
         /\ IsFiniteSet(s) /\ IsFiniteSet(Rest(s))
         /\ Cardinality(s) \in Nat /\ Cardinality(Rest(s)) \in Nat
         /\ Cardinality(Rest(s)) = Cardinality(s) - 1
<1>1. Picked(s) \in s
  BY DEF Picked
<1>2. IsFiniteSet(s)
  BY FS_Subset
<1> QED
  BY <1>1, <1>2, FS_RemoveElement, FS_CardinalityType DEF Rest

\* The fold exists on every finite set.
LEMMA FoldExists ==
  ASSUME NEW S, IsFiniteSet(S), NEW f
  PROVE  \E g : Folds(f, SUBSET S, g)
<1> DEFINE Bad == {n \in Nat : ~\E g : Folds(f, SubsetsUpTo(S, n), g)}
<1>1. 0 \notin Bad
  <2>1. \A s \in SubsetsUpTo(S, 0) : s = {}
    <3> SUFFICES ASSUME NEW s \in SubsetsUpTo(S, 0), s # {} PROVE FALSE
      OBVIOUS
    <3> QED
      BY RestSmaller DEF SubsetsUpTo
  <2>2. Folds(f, SubsetsUpTo(S, 0), [s \in SubsetsUpTo(S, 0) |-> 0])
    BY <2>1 DEF Folds
  <2> QED
    BY <2>2
<1>2. ASSUME NEW n \in Nat \ {0}, n - 1 \notin Bad PROVE n \notin Bad
  <2>1. PICK g : Folds(f, SubsetsUpTo(S, n - 1), g)
    BY <1>2
  <2> DEFINE h == [s \in SubsetsUpTo(S, n) |-> IF s = {} THEN 0 ELSE f[Picked(s)] + g[Rest(s)]]
  <2>2. SubsetsUpTo(S, n - 1) \subseteq SubsetsUpTo(S, n)
    <3> SUFFICES ASSUME NEW s \in SUBSET S, Cardinality(s) <= n - 1 PROVE Cardinality(s) <= n
      BY DEF SubsetsUpTo
    <3> QED
      BY FS_Subset, FS_CardinalityType
  <2>3. ASSUME NEW s \in SubsetsUpTo(S, n), s # {} PROVE h[Rest(s)] = g[Rest(s)]
    <3>1. Rest(s) \in SubsetsUpTo(S, n - 1)
      BY <2>3, RestSmaller DEF SubsetsUpTo
    <3>2. h[Rest(s)] = IF Rest(s) = {} THEN 0 ELSE f[Picked(Rest(s))] + g[Rest(Rest(s))]
      BY <2>2, <3>1
    <3> HIDE DEF h
    <3> QED
      BY <2>1, <3>1, <3>2 DEF Folds
  <2>4. Folds(f, SubsetsUpTo(S, n), h)
    <3>1. \A s \in SubsetsUpTo(S, n) :
            (IF s = {} THEN 0 ELSE f[Picked(s)] + g[Rest(s)])
              = (IF s = {} THEN 0 ELSE f[Picked(s)] + h[Rest(s)])
      BY <2>3
    <3>2. h = [s \in SubsetsUpTo(S, n) |-> IF s = {} THEN 0 ELSE f[Picked(s)] + g[Rest(s)]]
      OBVIOUS
    <3> HIDE DEF h
    <3> QED
      BY <3>1, <3>2 DEF Folds
  <2> QED
    BY <2>4
<1>3. Bad = {}
  <2> SUFFICES ASSUME Bad # {} PROVE FALSE
    OBVIOUS
  <2>1. Bad \in SUBSET Nat
    OBVIOUS
  <2> HIDE DEF Bad
  <2>2. PICK n \in Bad : \A m \in Bad : n <= m
    BY <2>1, LeastNatural
  <2>3. n \in Nat \ {0}
    BY <1>1, <2>1
  <2>4. n - 1 \in Nat /\ ~(n <= n - 1)
    BY <2>3
  <2>5. n - 1 \notin Bad
    BY <2>2, <2>4
  <2> QED
    BY <1>2, <2>2, <2>3, <2>5
<1>4. Cardinality(S) \in Nat
  BY FS_CardinalityType
<1>5. SubsetsUpTo(S, Cardinality(S)) = SUBSET S
  BY FS_Subset DEF SubsetsUpTo
<1> QED
  BY <1>3, <1>4, <1>5

\* SumFunctionOnSet is such a fold, read at the whole set.
SumFold(f, S) == CHOOSE g : Folds(f, SUBSET S, g)

\* The sum of the community modules is that fold.
LEMMA SumIsFold ==
  ASSUME NEW S, NEW f
  PROVE  SumFunctionOnSet(f, S) = SumFold(f, S)[S]
  BY DEF SumFunctionOnSet, FoldFunctionOnSet, MapThenFoldSet, SumFold, Folds, Picked, Rest

\* One step of the fold.
LEMMA FoldValue ==
  ASSUME NEW S, IsFiniteSet(S), NEW f, NEW s \in SUBSET S
  PROVE  SumFold(f, S)[s] = IF s = {} THEN 0 ELSE f[Picked(s)] + SumFold(f, S)[Rest(s)]
<1>1. Folds(f, SUBSET S, SumFold(f, S))
  BY FoldExists DEF SumFold
<1> QED
  BY <1>1 DEF Folds

\* On a subset, folds of the same values over different sets agree.
LEMMA FoldsAgree ==
  ASSUME NEW S, IsFiniteSet(S), NEW T, IsFiniteSet(T), NEW f, NEW h,
         NEW U \in SUBSET (S \cap T), \A x \in U : f[x] = h[x]
  PROVE  SumFold(f, S)[U] = SumFold(h, T)[U]
<1> DEFINE P == {s \in SUBSET U : SumFold(f, S)[s] = SumFold(h, T)[s]}
<1>1. ASSUME NEW s \in SUBSET U, \A x \in s : s \ {x} \in P PROVE s \in P
  <2>1. s \in SUBSET S /\ s \in SUBSET T
    OBVIOUS
  <2>2. SumFold(f, S)[s] = IF s = {} THEN 0 ELSE f[Picked(s)] + SumFold(f, S)[Rest(s)]
    BY <2>1, FoldValue
  <2>3. SumFold(h, T)[s] = IF s = {} THEN 0 ELSE h[Picked(s)] + SumFold(h, T)[Rest(s)]
    BY <2>1, FoldValue
  <2>4. s # {} => Picked(s) \in s /\ Rest(s) = s \ {Picked(s)}
    BY DEF Picked, Rest
  <2>5. s # {} => SumFold(f, S)[Rest(s)] = SumFold(h, T)[Rest(s)]
    BY <1>1, <2>4
  <2> QED
    BY <2>2, <2>3, <2>4, <2>5
<1>2. IsFiniteSet(U)
  BY FS_Subset
<1>3. U \in P
  <2> HIDE DEF P
  <2>1. \A s \in SUBSET U : (\A x \in s : s \ {x} \in P) => s \in P
    BY <1>1
  <2>2. \A s \in SUBSET U : s \in P
    BY <1>2, <2>1, SubsetInduction
  <2> QED
    BY <2>2
<1> QED
  BY <1>3

-----------------------------------------------------------------------------
(* Sums.                                                                   *)

\* The sum depends on the values on the set only.
LEMMA SumSame ==
  ASSUME NEW S, IsFiniteSet(S), NEW f, NEW h, \A x \in S : f[x] = h[x]
  PROVE  SumFunctionOnSet(f, S) = SumFunctionOnSet(h, S)
<1>1. S \in SUBSET (S \cap S)
  OBVIOUS
<1> QED
  BY <1>1, FoldsAgree, SumIsFold

\* The empty sum.
LEMMA SumEmpty ==
  ASSUME NEW f
  PROVE  SumFunctionOnSet(f, {}) = 0
<1>1. {} \in SUBSET {}
  OBVIOUS
<1> QED
  BY <1>1, FS_EmptySet, FoldValue, SumIsFold

\* One of the elements, and the sum of the others.
LEMMA SumPicked ==
  ASSUME NEW S, IsFiniteSet(S), S # {}, NEW f
  PROVE  SumFunctionOnSet(f, S) = f[Picked(S)] + SumFunctionOnSet(f, Rest(S))
<1>1. /\ S \in SUBSET S /\ Rest(S) \in SUBSET (S \cap Rest(S)) /\ IsFiniteSet(Rest(S))
  BY RestSmaller DEF Rest
<1>2. SumFold(f, S)[S] = f[Picked(S)] + SumFold(f, S)[Rest(S)]
  BY <1>1, FoldValue
<1>3. SumFold(f, S)[Rest(S)] = SumFold(f, Rest(S))[Rest(S)]
  BY <1>1, FoldsAgree
<1> QED
  BY <1>2, <1>3, SumIsFold

\* Sums of integers are integers.
LEMMA SumType ==
  ASSUME NEW S, IsFiniteSet(S), NEW f, \A x \in S : f[x] \in Int
  PROVE  SumFunctionOnSet(f, S) \in Int
<1> DEFINE P == {s \in SUBSET S : SumFunctionOnSet(f, s) \in Int}
<1>1. ASSUME NEW s \in SUBSET S, \A x \in s : s \ {x} \in P PROVE s \in P
  <2>1. CASE s = {}
    BY <2>1, SumEmpty
  <2>2. CASE s # {}
    <3>1. /\ SumFunctionOnSet(f, s) = f[Picked(s)] + SumFunctionOnSet(f, Rest(s))
          /\ Picked(s) \in s /\ Rest(s) = s \ {Picked(s)}
      BY <2>2, RestSmaller, SumPicked DEF Rest
    <3> QED
      BY <1>1, <3>1
  <2> QED
    BY <2>1, <2>2
<1>2. S \in P
  <2> HIDE DEF P
  <2>1. \A s \in SUBSET S : (\A x \in s : s \ {x} \in P) => s \in P
    BY <1>1
  <2>2. \A s \in SUBSET S : s \in P
    BY <2>1, SubsetInduction
  <2> QED
    BY <2>2
<1> QED
  BY <1>2

\* Any of the elements, and the sum of the others.
LEMMA SumSplit ==
  ASSUME NEW S, IsFiniteSet(S), NEW f, \A x \in S : f[x] \in Int, NEW x \in S
  PROVE  SumFunctionOnSet(f, S) = f[x] + SumFunctionOnSet(f, S \ {x})
<1> DEFINE Splits(s) == \A y \in s : SumFunctionOnSet(f, s) = f[y] + SumFunctionOnSet(f, s \ {y})
           P == {s \in SUBSET S : Splits(s)}
<1>1. ASSUME NEW s \in SUBSET S, \A y \in s : Splits(s \ {y}) PROVE Splits(s)
  <2> SUFFICES ASSUME NEW y \in s
               PROVE  SumFunctionOnSet(f, s) = f[y] + SumFunctionOnSet(f, s \ {y})
    OBVIOUS
  <2>1. Picked(s) \in s /\ IsFiniteSet(s) /\ Rest(s) = s \ {Picked(s)}
    BY <1>1, RestSmaller DEF Rest
  <2>2. SumFunctionOnSet(f, s) = f[Picked(s)] + SumFunctionOnSet(f, Rest(s))
    BY <1>1, <2>1, SumPicked
  <2>3. CASE y = Picked(s)
    BY <2>1, <2>2, <2>3
  <2>4. CASE y # Picked(s)
    <3> DEFINE both == s \ {Picked(s), y}
    <3>1. /\ Rest(s) \ {y} = both /\ y \in Rest(s)
          /\ (s \ {y}) \ {Picked(s)} = both /\ Picked(s) \in s \ {y}
      BY <2>1, <2>4
    <3>2. SumFunctionOnSet(f, Rest(s)) = f[y] + SumFunctionOnSet(f, both)
      BY <1>1, <2>1, <3>1
    <3>3. SumFunctionOnSet(f, s \ {y}) = f[Picked(s)] + SumFunctionOnSet(f, both)
      BY <1>1, <2>1, <3>1
    <3>4. /\ f[y] \in Int /\ f[Picked(s)] \in Int /\ SumFunctionOnSet(f, both) \in Int
      <4>1. IsFiniteSet(both) /\ \A z \in both : f[z] \in Int
        BY <1>1, <2>1, FS_Subset
      <4> HIDE DEF both
      <4> QED
        BY <1>1, <2>1, <4>1, SumType
    <3> HIDE DEF both, Splits
    <3> QED
      BY <2>2, <3>2, <3>3, <3>4
  <2> QED
    BY <2>3, <2>4
<1>2. \A s \in SUBSET S : (\A y \in s : s \ {y} \in P) => s \in P
  <2> HIDE DEF Splits
  <2> QED
    BY <1>1
<1>3. S \in P
  <2> HIDE DEF P
  <2>1. \A s \in SUBSET S : s \in P
    BY <1>2, SubsetInduction
  <2> QED
    BY <2>1
<1> QED
  BY <1>3

\* A new element adds its value.
LEMMA SumAdd ==
  ASSUME NEW S, IsFiniteSet(S), NEW x, x \notin S, NEW f, \A y \in S \cup {x} : f[y] \in Int
  PROVE  SumFunctionOnSet(f, S \cup {x}) = f[x] + SumFunctionOnSet(f, S)
<1>1. IsFiniteSet(S \cup {x}) /\ (S \cup {x}) \ {x} = S
  BY FS_AddElement
<1> QED
  BY <1>1, SumSplit

\* Naturals add up to a natural that none of them exceeds.
LEMMA SumOfNaturals ==
  ASSUME NEW S, IsFiniteSet(S), NEW f, \A x \in S : f[x] \in Nat
  PROVE  SumFunctionOnSet(f, S) \in Nat /\ \A x \in S : f[x] <= SumFunctionOnSet(f, S)
<1> DEFINE P == {s \in SUBSET S : SumFunctionOnSet(f, s) \in Nat}
<1>1. ASSUME NEW s \in SUBSET S, \A x \in s : s \ {x} \in P PROVE s \in P
  <2>1. CASE s = {}
    BY <2>1, SumEmpty
  <2>2. CASE s # {}
    <3>1. /\ SumFunctionOnSet(f, s) = f[Picked(s)] + SumFunctionOnSet(f, Rest(s))
          /\ Picked(s) \in s /\ Rest(s) = s \ {Picked(s)}
      BY <2>2, RestSmaller, SumPicked DEF Rest
    <3> QED
      BY <1>1, <3>1
  <2> QED
    BY <2>1, <2>2
<1>2. \A s \in SUBSET S : SumFunctionOnSet(f, s) \in Nat
  <2>1. \A s \in SUBSET S : (\A x \in s : s \ {x} \in P) => s \in P
    BY <1>1
  <2>2. \A s \in SUBSET S : s \in P
    <3> HIDE DEF P
    <3> QED
      BY <2>1, SubsetInduction
  <2> QED
    BY <2>2
<1>3. ASSUME NEW x \in S PROVE f[x] <= SumFunctionOnSet(f, S)
  <2>1. SumFunctionOnSet(f, S) = f[x] + SumFunctionOnSet(f, S \ {x})
    BY SumSplit
  <2>2. SumFunctionOnSet(f, S \ {x}) \in Nat
    BY <1>2
  <2> QED
    BY <2>1, <2>2
<1> QED
  BY <1>2, <1>3

\* A sum over two sets apart.
LEMMA SumUnion ==
  ASSUME NEW S, IsFiniteSet(S), NEW T, IsFiniteSet(T), S \cap T = {},
         NEW f, \A x \in S \cup T : f[x] \in Int
  PROVE  SumFunctionOnSet(f, S \cup T) = SumFunctionOnSet(f, S) + SumFunctionOnSet(f, T)
<1> DEFINE P == {s \in SUBSET T :
                   SumFunctionOnSet(f, S \cup s) = SumFunctionOnSet(f, S) + SumFunctionOnSet(f, s)}
<1>1. ASSUME NEW s \in SUBSET T, \A x \in s : s \ {x} \in P PROVE s \in P
  <2>1. CASE s = {}
    <3>1. SumFunctionOnSet(f, S) \in Int /\ SumFunctionOnSet(f, {}) = 0 /\ S \cup s = S
      BY <2>1, SumType, SumEmpty
    <3> QED
      BY <2>1, <3>1
  <2>2. ASSUME NEW x \in s PROVE s \in P
    <3> DEFINE r == s \ {x}
    <3>1. SumFunctionOnSet(f, S \cup r) = SumFunctionOnSet(f, S) + SumFunctionOnSet(f, r)
      BY <1>1
    <3>2. /\ IsFiniteSet(r) /\ IsFiniteSet(S \cup r) /\ x \notin r /\ x \notin S \cup r
          /\ s = r \cup {x} /\ S \cup s = (S \cup r) \cup {x} /\ r \subseteq T
      BY FS_Subset, FS_Union
    <3> HIDE DEF r
    <3>3. SumFunctionOnSet(f, r \cup {x}) = f[x] + SumFunctionOnSet(f, r)
      BY <3>2, SumAdd
    <3>4. SumFunctionOnSet(f, (S \cup r) \cup {x}) = f[x] + SumFunctionOnSet(f, S \cup r)
      BY <3>2, SumAdd
    <3>5. /\ f[x] \in Int /\ SumFunctionOnSet(f, S) \in Int /\ SumFunctionOnSet(f, r) \in Int
      BY <3>2, SumType
    <3>6. SumFunctionOnSet(f, S \cup s) = SumFunctionOnSet(f, S) + SumFunctionOnSet(f, s)
      <4> HIDE DEF P
      <4>1. SumFunctionOnSet(f, S \cup s) = f[x] + SumFunctionOnSet(f, S \cup r)
        BY <3>2, <3>4
      <4>2. SumFunctionOnSet(f, s) = f[x] + SumFunctionOnSet(f, r)
        BY <3>2, <3>3
      <4> QED
        BY <3>1, <3>5, <4>1, <4>2
    <3> QED
      BY <3>6
  <2> QED
    BY <2>1, <2>2
<1>2. T \in P
  <2> HIDE DEF P
  <2>1. \A s \in SUBSET T : (\A x \in s : s \ {x} \in P) => s \in P
    BY <1>1
  <2>2. \A s \in SUBSET T : s \in P
    BY <2>1, SubsetInduction
  <2> QED
    BY <2>2
<1> QED
  BY <1>2

\* A sum of multiples of two functions.
LEMMA SumLinear ==
  ASSUME NEW S, IsFiniteSet(S), NEW f, NEW g, NEW h, NEW a \in Int, NEW b \in Int,
         \A x \in S : f[x] \in Int /\ g[x] \in Int /\ h[x] = a * f[x] + b * g[x]
  PROVE  SumFunctionOnSet(h, S) = a * SumFunctionOnSet(f, S) + b * SumFunctionOnSet(g, S)
<1> DEFINE Linear(s) == SumFunctionOnSet(h, s)
                          = a * SumFunctionOnSet(f, s) + b * SumFunctionOnSet(g, s)
           P == {s \in SUBSET S : Linear(s)}
<1>1. ASSUME NEW s \in SUBSET S, \A x \in s : s \ {x} \in P PROVE s \in P
  <2>1. CASE s = {}
    <3>1. /\ SumFunctionOnSet(h, s) = 0 /\ SumFunctionOnSet(f, s) = 0
          /\ SumFunctionOnSet(g, s) = 0
      BY <2>1, SumEmpty
    <3>2. a * 0 + b * 0 = 0
      OBVIOUS
    <3> QED
      BY <3>1, <3>2
  <2>2. ASSUME NEW x \in s PROVE s \in P
    <3> DEFINE r == s \ {x}
    <3>1. Linear(r)
      BY <1>1
    <3>2. IsFiniteSet(r) /\ x \notin r /\ s = r \cup {x} /\ r \subseteq S /\ x \in S
      BY FS_Subset
    <3>3. \A y \in S : f[y] \in Int /\ g[y] \in Int /\ h[y] \in Int
      <4> SUFFICES ASSUME NEW y \in S PROVE f[y] \in Int /\ g[y] \in Int /\ h[y] \in Int
        OBVIOUS
      <4>1. PICK i \in Int, j \in Int : i = f[y] /\ j = g[y] /\ h[y] = a * i + b * j
        OBVIOUS
      <4> QED
        BY <4>1
    <3> HIDE DEF r
    <3>4. /\ SumFunctionOnSet(h, s) = h[x] + SumFunctionOnSet(h, r)
          /\ SumFunctionOnSet(f, s) = f[x] + SumFunctionOnSet(f, r)
          /\ SumFunctionOnSet(g, s) = g[x] + SumFunctionOnSet(g, r)
      BY <3>2, <3>3, SumAdd
    <3>5. PICK i \in Int, j \in Int, m \in Int, n \in Int :
            /\ i = f[x] /\ j = g[x] /\ h[x] = a * i + b * j
            /\ m = SumFunctionOnSet(f, r) /\ n = SumFunctionOnSet(g, r)
      BY <3>2, <3>3, SumType
    <3>6. SumFunctionOnSet(h, r) = a * m + b * n
      BY <3>1, <3>5
    <3>7. a * i + b * j + (a * m + b * n) = a * (i + m) + b * (j + n)
      OBVIOUS
    <3>8. Linear(s)
      BY <3>4, <3>5, <3>6, <3>7
    <3> QED
      BY <3>8
  <2> QED
    BY <2>1, <2>2
<1>2. S \in P
  <2> HIDE DEF P
  <2>1. \A s \in SUBSET S : (\A x \in s : s \ {x} \in P) => s \in P
    BY <1>1
  <2>2. \A s \in SUBSET S : s \in P
    BY <2>1, SubsetInduction
  <2> QED
    BY <2>2
<1> QED
  BY <1>2

\* A sum over sets apart, set by set.
LEMMA SumFamily ==
  ASSUME NEW T, IsFiniteSet(T), NEW c, \A t \in T : IsFiniteSet(c[t]),
         \A t, u \in T : t # u => c[t] \cap c[u] = {},
         NEW f, \A t \in T : \A x \in c[t] : f[x] \in Int,
         NEW g, \A t \in T : g[t] = SumFunctionOnSet(f, c[t])
  PROVE  /\ IsFiniteSet(UNION {c[t] : t \in T})
         /\ SumFunctionOnSet(f, UNION {c[t] : t \in T}) = SumFunctionOnSet(g, T)
<1> DEFINE P == {s \in SUBSET T :
                   /\ IsFiniteSet(UNION {c[t] : t \in s})
                   /\ SumFunctionOnSet(f, UNION {c[t] : t \in s}) = SumFunctionOnSet(g, s)}
<1>0. \A t \in T : g[t] \in Int
  BY SumType
<1>1. ASSUME NEW s \in SUBSET T, \A x \in s : s \ {x} \in P PROVE s \in P
  <2>1. CASE s = {}
    <3>1. UNION {c[t] : t \in s} = {} /\ IsFiniteSet({})
      BY <2>1, FS_EmptySet
    <3>2. SumFunctionOnSet(f, {}) = 0 /\ SumFunctionOnSet(g, {}) = 0
      BY SumEmpty
    <3> QED
      BY <2>1, <3>1, <3>2
  <2>2. ASSUME NEW x \in s PROVE s \in P
    <3> DEFINE r == s \ {x}
               A == UNION {c[t] : t \in r}
               B == UNION {c[t] : t \in s}
    <3>1. IsFiniteSet(A) /\ SumFunctionOnSet(f, A) = SumFunctionOnSet(g, r)
      BY <1>1
    <3>2. IsFiniteSet(r) /\ x \notin r /\ s = r \cup {x} /\ r \subseteq T /\ x \in T
      BY FS_Subset
    <3>3. B = A \cup c[x] /\ A \cap c[x] = {}
      OBVIOUS
    <3>4. \A y \in A \cup c[x] : f[y] \in Int
      BY <3>2
    <3> HIDE DEF r, A, B
    <3>5. IsFiniteSet(B)
      BY <3>1, <3>2, <3>3, FS_Union
    <3>6. SumFunctionOnSet(f, A \cup c[x])
            = SumFunctionOnSet(f, A) + SumFunctionOnSet(f, c[x])
      BY <3>1, <3>2, <3>3, <3>4, SumUnion
    <3>7. SumFunctionOnSet(g, r \cup {x}) = g[x] + SumFunctionOnSet(g, r)
      BY <1>0, <3>2, SumAdd
    <3>8. SumFunctionOnSet(g, r) \in Int /\ g[x] \in Int
      BY <1>0, <3>2, SumType
    <3>9. SumFunctionOnSet(f, B) = SumFunctionOnSet(g, s)
      BY <3>1, <3>2, <3>3, <3>6, <3>7, <3>8
    <3> QED
      BY <3>5, <3>9 DEF B
  <2> QED
    BY <2>1, <2>2
<1>2. T \in P
  <2> HIDE DEF P
  <2>1. \A s \in SUBSET T : (\A x \in s : s \ {x} \in P) => s \in P
    BY <1>1
  <2>2. \A s \in SUBSET T : s \in P
    BY <2>1, SubsetInduction
  <2> QED
    BY <2>2
<1> QED
  BY <1>2

\* A sum over renamed elements.
LEMMA SumImage ==
  ASSUME NEW S, IsFiniteSet(S), NEW b, \A x, y \in S : b[x] = b[y] => x = y,
         NEW f, NEW h, \A x \in S : h[b[x]] = f[x] /\ f[x] \in Int
  PROVE  /\ IsFiniteSet({b[x] : x \in S})
         /\ SumFunctionOnSet(h, {b[x] : x \in S}) = SumFunctionOnSet(f, S)
<1> DEFINE P == {s \in SUBSET S : /\ IsFiniteSet({b[x] : x \in s})
                                  /\ SumFunctionOnSet(h, {b[x] : x \in s}) = SumFunctionOnSet(f, s)}
<1>1. ASSUME NEW s \in SUBSET S, \A x \in s : s \ {x} \in P PROVE s \in P
  <2>1. CASE s = {}
    <3>1. {b[x] : x \in s} = {}
      BY <2>1
    <3>2. SumFunctionOnSet(h, {}) = 0 /\ SumFunctionOnSet(f, {}) = 0 /\ IsFiniteSet({})
      BY SumEmpty, FS_EmptySet
    <3> QED
      BY <2>1, <3>1, <3>2
  <2>2. ASSUME NEW x \in s PROVE s \in P
    <3> DEFINE r == s \ {x}
               B == {b[y] : y \in r}
    <3>1. IsFiniteSet(B) /\ SumFunctionOnSet(h, B) = SumFunctionOnSet(f, r)
      BY <1>1
    <3>2. IsFiniteSet(r) /\ x \notin r /\ s = r \cup {x} /\ r \subseteq S
      BY FS_Subset
    <3>3. b[x] \notin B /\ {b[y] : y \in s} = B \cup {b[x]}
      OBVIOUS
    <3>4. \A y \in B \cup {b[x]} : h[y] \in Int
      OBVIOUS
    <3> HIDE DEF r, B
    <3>5. SumFunctionOnSet(f, r \cup {x}) = f[x] + SumFunctionOnSet(f, r)
      BY <3>2, SumAdd
    <3>6. SumFunctionOnSet(h, B \cup {b[x]}) = h[b[x]] + SumFunctionOnSet(h, B)
      BY <3>1, <3>3, <3>4, SumAdd
    <3>7. IsFiniteSet(B \cup {b[x]})
      BY <3>1, FS_AddElement
    <3>8. SumFunctionOnSet(h, {b[y] : y \in s}) = SumFunctionOnSet(f, s)
      BY <3>1, <3>2, <3>3, <3>5, <3>6
    <3> QED
      BY <3>3, <3>7, <3>8
  <2> QED
    BY <2>1, <2>2
<1>2. S \in P
  <2> HIDE DEF P
  <2>1. \A s \in SUBSET S : (\A x \in s : s \ {x} \in P) => s \in P
    BY <1>1
  <2>2. \A s \in SUBSET S : s \in P
    BY <2>1, SubsetInduction
  <2> QED
    BY <2>2
<1> QED
  BY <1>2

\* A finite set of naturals has a greatest element, if any.
LEMMA GreatestNatural ==
  ASSUME NEW S \in SUBSET Nat, IsFiniteSet(S), S # {}
  PROVE  \E n \in S : \A m \in S : m <= n
<1> DEFINE P == {s \in SUBSET S : s = {} \/ \E n \in s : \A m \in s : m <= n}
<1>1. ASSUME NEW s \in SUBSET S, \A x \in s : s \ {x} \in P PROVE s \in P
  <2> SUFFICES ASSUME NEW x \in s PROVE s \in P
    OBVIOUS
  <2>1. CASE s \ {x} = {}
    <3>1. \A m \in s : m = x
      BY <2>1
    <3> QED
      BY <3>1
  <2>2. CASE s \ {x} # {}
    <3>1. PICK n \in s \ {x} : \A m \in s \ {x} : m <= n
      BY <1>1, <2>2
    <3>2. CASE x <= n
      BY <3>1, <3>2
    <3>3. CASE ~(x <= n)
      <4>1. \A m \in s : m <= x
        BY <3>1, <3>3
      <4> QED
        BY <4>1
    <3> QED
      BY <3>2, <3>3
  <2> QED
    BY <2>1, <2>2
<1>2. S \in P
  <2> HIDE DEF P
  <2>1. \A s \in SUBSET S : (\A x \in s : s \ {x} \in P) => s \in P
    BY <1>1
  <2>2. \A s \in SUBSET S : s \in P
    BY <2>1, SubsetInduction
  <2> QED
    BY <2>2
<1> QED
  BY <1>2
=============================================================================
