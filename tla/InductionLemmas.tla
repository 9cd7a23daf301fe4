---------------------------- MODULE InductionLemmas ----------------------------
(***************************************************************************)
(* Induction over the natural numbers and over finite sets, and what it    *)
(* shows of the sum of a function over a finite set.                       *)
(*                                                                         *)
(* Induction is stated about sets, by way of a least counterexample        *)
(* (WFMin): so the provers, which are first-order, can use it.             *)
(***************************************************************************)
EXTENDS Integers, FiniteSets, FiniteSetsExt, FiniteSetTheorems, WellFoundedInduction, TLAPS

(* Of the natural numbers in a set, one is the least.                      *)
LEMMA LeastOf ==
  ASSUME NEW D \in SUBSET Nat, D # {}
  PROVE  \E d \in D : \A i \in D : d <= i
<1>1. \E d \in D : \A i \in D : <<i, d>> \notin OpToRel(<, Nat)
  BY NatLessThanWellFounded, WFMin, Zenon
<1>2. ASSUME NEW d \in D, NEW i \in D, <<i, d>> \notin OpToRel(<, Nat) PROVE d <= i
  <2>1. ~(i < d)
    BY <1>2, Zenon DEF OpToRel
  <2> QED BY <2>1
<1> QED BY <1>1, <1>2, Zenon

(* Induction over the natural numbers, about a set instead of a predicate. *)
LEMMA NatSetInduction ==
    ASSUME NEW N \in SUBSET Nat, 0 \in N, \A n \in N : n + 1 \in N
    PROVE  N = Nat
<1>1. SUFFICES ASSUME Nat \ N # {} PROVE FALSE
  OBVIOUS
<1>2. PICK x \in Nat \ N : \A y \in Nat \ N : x <= y
  BY <1>1, LeastOf
<1>3. x # 0 /\ x - 1 \in Nat /\ x - 1 < x
  OBVIOUS
<1>4. x - 1 \in N
  BY <1>2, <1>3
<1> QED
  BY <1>3, <1>4

(* The element a fold takes next.                                          *)
Picked(U) == CHOOSE x \in U : TRUE

(* Induction along the fold over a finite set.                             *)
LEMMA SubsetInduction ==
    ASSUME NEW S, IsFiniteSet(S),
           NEW G \in SUBSET (SUBSET S), {} \in G,
           \A U \in SUBSET S : U # {} /\ U \ {Picked(U)} \in G => U \in G
    PROVE  G = SUBSET S
<1>1. SUFFICES ASSUME (SUBSET S) \ G # {} PROVE FALSE
  OBVIOUS
<1>2. IsWellFoundedOn(StrictSubsetOrdering(S), SUBSET S)
  BY FS_StrictSubsetOrderingWellFounded, FS_FiniteSubsetsOfFinite
<1>3. PICK U \in (SUBSET S) \ G : \A V \in (SUBSET S) \ G : <<V, U>> \notin StrictSubsetOrdering(S)
  <2> DEFINE R == StrictSubsetOrdering(S)  All == SUBSET S  T == All \ G
  <2>1. IsWellFoundedOn(R, All) /\ T \subseteq All /\ T # {}
    BY <1>1, <1>2
  <2> HIDE DEF R, All, T
  <2>2. \E U \in T : \A V \in T : <<V, U>> \notin R
    BY <2>1, WFMin
  <2> QED
    BY <2>2 DEF R, All, T
<1>4. U # {} /\ Picked(U) \in U
  BY DEF Picked
<1>5. <<U \ {Picked(U)}, U>> \in StrictSubsetOrdering(S)
  BY <1>4 DEF StrictSubsetOrdering
<1>6. U \ {Picked(U)} \in G
  BY <1>3, <1>5
<1> QED
  BY <1>4, <1>6

-------------------------------------------------------------------------------
(* Sums: MapThenSumSet recurses over the subsets of its set.               *)

(* The sum of f over S.                                                    *)
SumOf(f, S) == MapThenSumSet(LAMBDA x : f[x], S)

(* One step of the fold: the sum over U from that over a smaller set.      *)
SumStep(f, g, U) == IF U = {} THEN 0 ELSE f[Picked(U)] + g[U \ {Picked(U)}]

(* The sums of f over the subsets of S, as the fold computes them.         *)
PartialSums(f, S) == CHOOSE g : g = [U \in SUBSET S |-> SumStep(f, g, U)]

(* The fold answers with the last of its partial sums.                     *)
LEMMA SumIsLast ==
    ASSUME NEW f, NEW S
    PROVE  SumOf(f, S) = PartialSums(f, S)[S]
BY DEF SumOf, PartialSums, SumStep, Picked, MapThenSumSet, MapThenFoldSet

(* The subsets of at most n elements.                                      *)
SubsetsUpTo(S, n) == {U \in SUBSET S : Cardinality(U) <= n}

(* There are functions that satisfy the equation of the fold, by induction *)
(* on the size of the subsets, so that CHOOSE takes one of them.           *)
LEMMA PartialSumsExist ==
    ASSUME NEW S, IsFiniteSet(S), NEW f \in [S -> Int]
    PROVE  PartialSums(f, S) = [U \in SUBSET S |-> SumStep(f, PartialSums(f, S), U)]
<1> DEFINE N == {n \in Nat : \E g \in [SubsetsUpTo(S, n) -> Int] :
                             \A U \in SubsetsUpTo(S, n) : g[U] = SumStep(f, g, U)}
<1>1. \A U \in SUBSET S : Cardinality(U) \in Nat /\ (Cardinality(U) = 0 <=> U = {})
  BY FS_Subset, FS_CardinalityType, FS_EmptySet
<1>2. \A U \in SUBSET S : U # {} => /\ Picked(U) \in S
                                   /\ U \ {Picked(U)} \in SUBSET S
                                   /\ Cardinality(U \ {Picked(U)}) = Cardinality(U) - 1
  <2> SUFFICES ASSUME NEW U \in SUBSET S, U # {}
               PROVE  /\ Picked(U) \in S
                      /\ Cardinality(U \ {Picked(U)}) = Cardinality(U) - 1
    OBVIOUS
  <2>1. Picked(U) \in U
    BY DEF Picked
  <2>2. IsFiniteSet(U)
    BY FS_Subset
  <2> QED
    BY <2>1, <2>2, FS_RemoveElement
<1>3. 0 \in N
  <2>1. SubsetsUpTo(S, 0) = {{}}
    BY <1>1 DEF SubsetsUpTo
  <2> DEFINE g == [U \in SubsetsUpTo(S, 0) |-> 0]
  <2>2. g \in [SubsetsUpTo(S, 0) -> Int]
    OBVIOUS
  <2>3. \A U \in SubsetsUpTo(S, 0) : g[U] = SumStep(f, g, U)
    BY <2>1 DEF SumStep
  <2> QED
    BY <2>2, <2>3
<1>4. \A n \in N : n + 1 \in N
  <2> SUFFICES ASSUME NEW n \in N PROVE n + 1 \in N
    OBVIOUS
  <2>1. PICK g \in [SubsetsUpTo(S, n) -> Int] : \A U \in SubsetsUpTo(S, n) : g[U] = SumStep(f, g, U)
    OBVIOUS
  <2> DEFINE h == [U \in SubsetsUpTo(S, n + 1) |-> SumStep(f, g, U)]
  <2> HIDE DEF N
  <2>2. n \in Nat
    BY DEF N
  <2>3. \A U \in SubsetsUpTo(S, n + 1) : U # {} => U \ {Picked(U)} \in SubsetsUpTo(S, n)
    BY <1>1, <1>2, <2>2 DEF SubsetsUpTo
  <2>4. SubsetsUpTo(S, n) \subseteq SubsetsUpTo(S, n + 1)
    BY <1>1, <2>2 DEF SubsetsUpTo
  <2>5. h \in [SubsetsUpTo(S, n + 1) -> Int]
    <3> SUFFICES ASSUME NEW U \in SubsetsUpTo(S, n + 1) PROVE SumStep(f, g, U) \in Int
      OBVIOUS
    <3> QED
      BY <1>2, <2>3 DEF SumStep, SubsetsUpTo
  <2>6. \A U \in SubsetsUpTo(S, n) : h[U] = g[U]
    BY <2>1, <2>4
  <2>7. \A U \in SubsetsUpTo(S, n + 1) : h[U] = SumStep(f, h, U)
    BY <2>3, <2>6 DEF SumStep
  <2> HIDE DEF h
  <2> QED
    BY <2>2, <2>5, <2>7 DEF N
<1>5. Cardinality(S) \in N
  <2> HIDE DEF N
  <2>1. N \in SUBSET Nat
    BY DEF N
  <2> QED
    BY <1>3, <1>4, <2>1, NatSetInduction, FS_CardinalityType
<1>6. SubsetsUpTo(S, Cardinality(S)) = SUBSET S
  BY FS_Subset DEF SubsetsUpTo
<1>7. PICK g \in [SUBSET S -> Int] : \A U \in SUBSET S : g[U] = SumStep(f, g, U)
  BY <1>5, <1>6
<1>8. g = [U \in SUBSET S |-> SumStep(f, g, U)]
  BY <1>7
<1> QED
  BY <1>8 DEF PartialSums

(* The equation, as the other proofs use it.                               *)
LEMMA NextSum ==
    ASSUME NEW S, IsFiniteSet(S), NEW f \in [S -> Int]
    PROVE  /\ PartialSums(f, S)[{}] = 0
           /\ \A U \in SUBSET S : U # {} =>
                  /\ Picked(U) \in U
                  /\ PartialSums(f, S)[U] = f[Picked(U)] + PartialSums(f, S)[U \ {Picked(U)}]
<1> DEFINE g == PartialSums(f, S)
<1>1. g = [U \in SUBSET S |-> SumStep(f, g, U)]
  BY PartialSumsExist
<1> HIDE DEF g
<1>2. \A U \in SUBSET S : g[U] = SumStep(f, g, U)
  BY <1>1
<1>3. g[{}] = 0
  BY <1>2 DEF SumStep
<1>4. \A U \in SUBSET S : U # {} => Picked(U) \in U /\ g[U] = f[Picked(U)] + g[U \ {Picked(U)}]
  BY <1>2 DEF SumStep, Picked
<1> QED
  BY <1>3, <1>4 DEF g

(* Sums of integers are integers.                                          *)
LEMMA SumType ==
    ASSUME NEW S, IsFiniteSet(S), NEW f \in [S -> Int]
    PROVE  \A U \in SUBSET S : PartialSums(f, S)[U] \in Int
<1> DEFINE G == {U \in SUBSET S : PartialSums(f, S)[U] \in Int}
<1>1. {} \in G
  BY NextSum
<1>2. \A U \in SUBSET S : U # {} /\ U \ {Picked(U)} \in G => U \in G
  BY NextSum
<1>3. G = SUBSET S
  <2> HIDE DEF G
  <2>1. G \in SUBSET (SUBSET S)
    BY DEF G
  <2> QED
    BY <1>1, <1>2, <2>1, SubsetInduction
<1> QED
  BY <1>3

(* Who has no less in any place has no less in all.                        *)
LEMMA SumIsMonotone ==
    ASSUME NEW S, IsFiniteSet(S), NEW f \in [S -> Int], NEW g \in [S -> Int],
           \A x \in S : f[x] <= g[x]
    PROVE  SumOf(f, S) <= SumOf(g, S)
<1> DEFINE G == {U \in SUBSET S : PartialSums(f, S)[U] <= PartialSums(g, S)[U]}
<1>1. {} \in G
  BY NextSum
<1>2. \A U \in SUBSET S : U # {} /\ U \ {Picked(U)} \in G => U \in G
  <2> SUFFICES ASSUME NEW U \in SUBSET S, U # {}, U \ {Picked(U)} \in G PROVE U \in G
    OBVIOUS
  <2>1. /\ Picked(U) \in U
        /\ PartialSums(f, S)[U] = f[Picked(U)] + PartialSums(f, S)[U \ {Picked(U)}]
        /\ PartialSums(g, S)[U] = g[Picked(U)] + PartialSums(g, S)[U \ {Picked(U)}]
    BY NextSum
  <2>2. PartialSums(f, S)[U \ {Picked(U)}] \in Int /\ PartialSums(g, S)[U \ {Picked(U)}] \in Int
    BY SumType
  <2> QED
    BY <2>1, <2>2
<1>3. G = SUBSET S
  <2> HIDE DEF G
  <2>1. G \in SUBSET (SUBSET S)
    BY DEF G
  <2> QED
    BY <1>1, <1>2, <2>1, SubsetInduction
<1> QED
  BY <1>3, SumIsLast

(* To change one place changes the sum by as much.                         *)
LEMMA SumOfChange ==
    ASSUME NEW S, IsFiniteSet(S), NEW f \in [S -> Int], NEW g \in [S -> Int],
           NEW s \in S, \A x \in S : x # s => g[x] = f[x]
    PROVE  SumOf(g, S) = SumOf(f, S) - f[s] + g[s]
<1> DEFINE G == {U \in SUBSET S :
                    PartialSums(g, S)[U] = PartialSums(f, S)[U] + IF s \in U THEN g[s] - f[s] ELSE 0}
<1>1. {} \in G
  BY NextSum
<1>2. \A U \in SUBSET S : U # {} /\ U \ {Picked(U)} \in G => U \in G
  <2> SUFFICES ASSUME NEW U \in SUBSET S, U # {}, U \ {Picked(U)} \in G PROVE U \in G
    OBVIOUS
  <2> DEFINE x == Picked(U)  V == U \ {Picked(U)}
  <2>1. /\ x \in U
        /\ PartialSums(f, S)[U] = f[x] + PartialSums(f, S)[V]
        /\ PartialSums(g, S)[U] = g[x] + PartialSums(g, S)[V]
    BY NextSum
  <2>2. /\ PartialSums(f, S)[V] \in Int /\ PartialSums(g, S)[V] \in Int
        /\ f[s] \in Int /\ g[s] \in Int /\ f[x] \in Int
    BY <2>1, SumType
  <2>3. PartialSums(g, S)[V] = PartialSums(f, S)[V] + IF s \in V THEN g[s] - f[s] ELSE 0
    OBVIOUS
  <2>4. CASE x = s
    BY <2>1, <2>2, <2>3, <2>4
  <2>5. CASE x # s
    <3>1. g[x] = f[x] /\ (s \in U <=> s \in V)
      BY <2>1, <2>5
    <3> QED
      BY <2>1, <2>2, <2>3, <3>1
  <2> QED
    BY <2>4, <2>5
<1>3. G = SUBSET S
  <2> HIDE DEF G
  <2>1. G \in SUBSET (SUBSET S)
    BY DEF G
  <2> QED
    BY <1>1, <1>2, <2>1, SubsetInduction
<1>4. PartialSums(g, S)[S] = PartialSums(f, S)[S] + (g[s] - f[s])
  BY <1>3
<1>5. PartialSums(f, S)[S] \in Int /\ f[s] \in Int /\ g[s] \in Int
  BY SumType
<1> QED
  BY <1>4, <1>5, SumIsLast
===============================================================================
