----------------------------- MODULE Foundations -----------------------------
(***************************************************************************)
(* What the proofs of the components share.                                *)
(*                                                                         *)
(* Induction over data: the property is given as the set of the values     *)
(* that have it, and a theorem about a set can be cited for any property,  *)
(* by naming the set.                                                      *)
(*                                                                         *)
(* Ranks: a listing that is computed at every call is a finite set and an  *)
(* order, and a page of it the elements of the ranks from an offset on.    *)
(***************************************************************************)
EXTENDS FiniteSetTheorems, TLAPS

\* Every number has what 0 has and a number hands on to the next.
LEMMA NaturalsByInduction ==
    ASSUME NEW P, 0 \in P, \A n \in Nat : n \in P => n + 1 \in P
    PROVE  Nat \subseteq P
<1> DEFINE Less == {pair \in Nat \X Nat : pair[1] < pair[2]}
           Rest == {n \in Nat : n \notin P}
<1>1. IsWellFoundedOn(Less, Nat)
  BY NatLessThanWellFounded DEF OpToRel
<1>2. \A m, n \in Nat : m < n => <<m, n>> \in Less
  OBVIOUS
<1> SUFFICES ASSUME Rest # {}
             PROVE  FALSE
  OBVIOUS
<1>3. Rest \subseteq Nat
  OBVIOUS
<1>4. PICK n \in Rest : \A m \in Rest : ~(<<m, n>> \in Less)
  <2> HIDE DEF Less, Rest
  <2> QED
    BY <1>1, <1>3, WFMin
<1>5. n \in Nat /\ n \notin P /\ n # 0
  OBVIOUS
<1>6. n - 1 \in Nat /\ n - 1 < n /\ (n - 1) + 1 = n
  BY <1>5
<1>7. n - 1 \in Rest
  BY <1>5, <1>6
<1> QED
  BY <1>2, <1>4, <1>5, <1>6, <1>7

\* A property of the empty set, and of every set that has it whichever element is taken
\* away, is one of all the parts of a finite set.
LEMMA SetsByRemoval ==
    ASSUME NEW S, IsFiniteSet(S), NEW P, {} \in P,
           \A T \in SUBSET S : T # {} /\ (\A x \in T : T \ {x} \in P) => T \in P
    PROVE  SUBSET S \subseteq P
<1> DEFINE Q == {n \in Nat : \A T \in SUBSET S : Cardinality(T) = n => T \in P}
<1>1. \A T \in SUBSET S : IsFiniteSet(T) /\ Cardinality(T) \in Nat
  BY FS_Subset, FS_CardinalityType
<1>2. 0 \in Q
  <2>1. \A T \in SUBSET S : Cardinality(T) = 0 => T = {}
    BY <1>1, FS_EmptySet
  <2> QED
    BY <2>1
<1>3. ASSUME NEW n \in Nat, n \in Q
      PROVE  n + 1 \in Q
  <2> SUFFICES ASSUME NEW T \in SUBSET S, Cardinality(T) = n + 1
               PROVE  T \in P
    OBVIOUS
  <2>1. T # {}
    <3>1. Cardinality({}) = 0
      BY FS_EmptySet
    <3>2. n + 1 # 0
      OBVIOUS
    <3> QED
      BY <3>1, <3>2
  <2>2. \A x \in T : Cardinality(T \ {x}) = n
    <3>1. IsFiniteSet(T)
      BY <1>1
    <3>2. \A x \in T : Cardinality(T \ {x}) = Cardinality(T) - 1
      BY <3>1, FS_RemoveElement
    <3> QED
      BY <3>2
  <2>3. \A x \in T : T \ {x} \in P
    BY <1>3, <2>2
  <2> QED
    BY <2>1, <2>3
<1>4. Nat \subseteq Q
  <2> HIDE DEF Q
  <2> QED
    BY <1>2, <1>3, NaturalsByInduction
<1> QED
  BY <1>1, <1>4

\* f begins at first, and each of its values is a step from the one before.
Recurs(f, m, V, first, step) ==
    /\ f \in [0..m -> V] /\ f[0] = first
    /\ \A k \in 1..m : f[k] = step[f[k - 1]]

\* There is a function for every beginning and every step.
LEMMA RecursionOnNumbers ==
    ASSUME NEW m \in Nat, NEW V, NEW first \in V, NEW step \in [V -> V]
    PROVE  \E f : Recurs(f, m, V, first, step)
<1> DEFINE P == {n \in Nat : \E f : Recurs(f, n, V, first, step)}
<1>1. 0 \in P
  <2>1. Recurs([k \in 0..0 |-> first], 0, V, first, step)
    BY DEF Recurs
  <2> QED
    BY <2>1
<1>2. ASSUME NEW n \in Nat, n \in P
      PROVE  n + 1 \in P
  <2>1. PICK f : Recurs(f, n, V, first, step)
    BY <1>2
  <2> DEFINE g == [k \in 0..(n + 1) |-> IF k = 0 THEN first ELSE step[f[k - 1]]]
  <2>2. \A k \in 1..(n + 1) : k - 1 \in 0..n /\ f[k - 1] \in V
    BY <2>1 DEF Recurs
  <2>3. \A k \in 0..n : g[k] = f[k]
    BY <2>1 DEF Recurs
  <2>4. g \in [0..(n + 1) -> V]
    BY <2>2
  <2>5. \A k \in 1..(n + 1) : k \in 0..(n + 1) /\ k # 0
    OBVIOUS
  <2>6. 0 \in 0..(n + 1) /\ \A k \in 0..(n + 1) : g[k] = IF k = 0 THEN first ELSE step[f[k - 1]]
    OBVIOUS
  <2> HIDE DEF g
  <2>7. \A k \in 1..(n + 1) : g[k] = step[g[k - 1]]
    BY <2>2, <2>3, <2>5, <2>6
  <2>8. Recurs(g, n + 1, V, first, step)
    BY <2>4, <2>6, <2>7 DEF Recurs
  <2> QED
    BY <2>8
<1>3. m \in P
  <2> HIDE DEF P
  <2> QED
    BY <1>1, <1>2, NaturalsByInduction
<1> QED
  BY <1>3

\* f begins at first, and goes on for ever.
RecursForever(f, V, first, step) ==
    /\ f \in [Nat -> V] /\ f[0] = first
    /\ \A k \in Nat : f[k + 1] = step[f[k]]

LEMMA RecursionForever ==
    ASSUME NEW V, NEW first \in V, NEW step \in [V -> V]
    PROVE  \E f : RecursForever(f, V, first, step)
<1> DEFINE F(n) == CHOOSE f : Recurs(f, n, V, first, step)
           g == [n \in Nat |-> F(n)[n]]
           P == {k \in Nat : \A m \in Nat : k <= m => F(m)[k] = g[k]}
<1>1. \A n \in Nat : Recurs(F(n), n, V, first, step)
  BY RecursionOnNumbers
<1>2. ASSUME NEW n \in Nat
      PROVE  /\ F(n) \in [0..n -> V] /\ F(n)[0] = first
             /\ \A k \in 1..n : F(n)[k] = step[F(n)[k - 1]]
  BY <1>1 DEF Recurs
<1>3. \A n \in Nat : g[n] = F(n)[n]
  OBVIOUS
<1> HIDE DEF F
<1>4. g \in [Nat -> V]
  <2>1. \A n \in Nat : F(n)[n] \in V
    BY <1>2
  <2> QED
    BY <2>1
<1>5. g[0] = first
  BY <1>2, <1>3
<1> HIDE DEF g
<1>6. 0 \in P
  BY <1>2, <1>5
<1>7. ASSUME NEW k \in Nat, k \in P
      PROVE  k + 1 \in P /\ g[k + 1] = step[g[k]]
  <2>1. ASSUME NEW m \in Nat, k + 1 <= m
        PROVE  F(m)[k + 1] = step[g[k]]
    <3>1. k + 1 \in 1..m /\ (k + 1) - 1 = k /\ k <= m
      BY <2>1
    <3>2. F(m)[k + 1] = step[F(m)[k]]
      BY <1>2, <3>1
    <3>3. F(m)[k] = g[k]
      BY <1>7, <3>1
    <3> QED
      BY <3>2, <3>3
  <2>2. k + 1 \in Nat /\ k + 1 <= k + 1
    OBVIOUS
  <2>3. g[k + 1] = step[g[k]]
    BY <1>3, <2>1, <2>2
  <2> QED
    BY <2>1, <2>2, <2>3
<1>8. Nat \subseteq P
  <2>1. \A n \in Nat : n \in P => n + 1 \in P
    BY <1>7
  <2> HIDE DEF P
  <2> QED
    BY <1>6, <2>1, NaturalsByInduction
<1>9. \A k \in Nat : g[k + 1] = step[g[k]]
  BY <1>7, <1>8
<1> QED
  BY <1>4, <1>5, <1>9 DEF RecursForever

-----------------------------------------------------------------------------
(* Ranks in a finite ordered set.                                          *)

\* The number of those of S that come before i in the order.
RankIn(i, S, order) == Cardinality({j \in S : <<j, i>> \in order})

Orders(order, S) ==
    /\ \A i \in S : <<i, i>> \notin order
    /\ \A i, j, k \in S : <<i, j>> \in order /\ <<j, k>> \in order => <<i, k>> \in order
    /\ \A i, j \in S : i = j \/ <<i, j>> \in order \/ <<j, i>> \in order

\* What comes before has a lower rank.
LEMMA RanksFollow ==
    ASSUME NEW S, IsFiniteSet(S), NEW order, Orders(order, S)
    PROVE  /\ \A i \in S : RankIn(i, S, order) \in Nat /\ RankIn(i, S, order) < Cardinality(S)
           /\ \A i, j \in S : <<i, j>> \in order => RankIn(i, S, order) < RankIn(j, S, order)
<1> DEFINE Below(i) == {j \in S : <<j, i>> \in order}
<1>1. \A i \in S : IsFiniteSet(Below(i)) /\ Cardinality(Below(i)) \in Nat
  BY FS_Subset, FS_CardinalityType
<1>2. ASSUME NEW i \in S
      PROVE  Cardinality(Below(i)) < Cardinality(S)
  <2>1. Below(i) \subseteq S /\ Below(i) # S
    BY DEF Orders
  <2> HIDE DEF Below
  <2> QED
    BY <2>1, FS_Subset, FS_CardinalityType
<1>3. ASSUME NEW i \in S, NEW j \in S, <<i, j>> \in order
      PROVE  Cardinality(Below(i)) < Cardinality(Below(j))
  <2>1. Below(i) \subseteq Below(j)
    BY <1>3 DEF Orders
  <2>2. i \in Below(j) /\ i \notin Below(i)
    BY <1>3 DEF Orders
  <2>3. IsFiniteSet(Below(j))
    BY <1>1
  <2>4. Below(i) # Below(j)
    BY <2>2
  <2> HIDE DEF Below
  <2> QED
    BY <2>1, <2>3, <2>4, FS_Subset, FS_CardinalityType
<1> QED
  BY <1>1, <1>2, <1>3 DEF RankIn

\* No two have the same rank.
LEMMA RanksDiffer ==
    ASSUME NEW S, IsFiniteSet(S), NEW order, Orders(order, S)
    PROVE  \A i, j \in S : i # j => RankIn(i, S, order) # RankIn(j, S, order)
<1> SUFFICES ASSUME NEW i \in S, NEW j \in S, i # j
             PROVE  RankIn(i, S, order) # RankIn(j, S, order)
  OBVIOUS
<1>1. RankIn(i, S, order) \in Nat /\ RankIn(j, S, order) \in Nat
  BY RanksFollow
<1>2. <<i, j>> \in order \/ <<j, i>> \in order
  BY DEF Orders
<1>3. RankIn(i, S, order) < RankIn(j, S, order) \/ RankIn(j, S, order) < RankIn(i, S, order)
  BY <1>2, RanksFollow
<1> QED
  BY <1>1, <1>3

\* Every rank below the number of elements is taken.
LEMMA RanksAreFilled ==
    ASSUME NEW S, IsFiniteSet(S), NEW order, Orders(order, S),
           NEW k \in Nat, k < Cardinality(S)
    PROVE  \E i \in S : RankIn(i, S, order) = k
<1> DEFINE n == Cardinality(S)
           Free == (0..(n - 1)) \ {k}
           rank == [i \in S |-> RankIn(i, S, order)]
<1>1. n \in Nat /\ n # 0 /\ k \in 0..(n - 1)
  BY FS_CardinalityType
<1>2. IsFiniteSet(Free) /\ Cardinality(Free) = n - 1
  <2>1. IsFiniteSet(0..(n - 1)) /\ Cardinality(0..(n - 1)) = n
    <3>1. 0 \in Int /\ n - 1 \in Int /\ ~(0 > n - 1) /\ (n - 1) - 0 + 1 = n
      BY <1>1
    <3> HIDE DEF n
    <3> QED
      BY <3>1, FS_Interval
  <2> DEFINE all == 0..(n - 1)
  <2>2. IsFiniteSet(all) /\ Cardinality(all) = n /\ k \in all /\ Free = all \ {k}
    BY <1>1, <2>1
  <2> HIDE DEF n, all, Free
  <2> QED
    BY <2>2, FS_RemoveElement, FS_Subset
<1>3. \A i, j \in S : i # j => rank[i] # rank[j]
  BY RanksDiffer
<1> SUFFICES ASSUME \A i \in S : RankIn(i, S, order) # k
             PROVE  FALSE
  OBVIOUS
<1>4. rank \in [S -> Free]
  <2>1. \A i \in S : RankIn(i, S, order) \in Nat /\ RankIn(i, S, order) < n
    BY RanksFollow
  <2>2. \A i \in S : RankIn(i, S, order) \in Free
    BY <1>1, <2>1
  <2> QED
    BY <2>2
<1>5. Cardinality(Free) < Cardinality(S)
  BY <1>1, <1>2
<1> HIDE DEF n, Free, rank
<1> QED
  BY <1>2, <1>3, <1>4, <1>5, FS_PigeonHole

\* A page of m ranks holds at most m elements; exactly m, when there are any after it.
PageOf(S, order, at, m) == {i \in S : RankIn(i, S, order) \in at..(at + m - 1)}

LEMMA PagesAreFull ==
    ASSUME NEW S, IsFiniteSet(S), NEW order, Orders(order, S), NEW at \in Nat, NEW m \in Nat \ {0}
    PROVE  /\ Cardinality(PageOf(S, order, at, m)) \in 0..m
           /\ \A i \in S : RankIn(i, S, order) >= at + m => Cardinality(PageOf(S, order, at, m)) = m
<1> DEFINE page == PageOf(S, order, at, m)
           ranks == at..(at + m - 1)
<1>1. IsFiniteSet(page) /\ Cardinality(page) \in Nat /\ page \subseteq S
  <2>1. page \subseteq S
    BY DEF PageOf
  <2> QED
    BY <2>1, FS_Subset, FS_CardinalityType
<1>2. IsFiniteSet(ranks) /\ Cardinality(ranks) = m
  <2>1. at \in Int /\ at + m - 1 \in Int /\ ~(at > at + m - 1) /\ (at + m - 1) - at + 1 = m
    OBVIOUS
  <2> QED
    BY <2>1, FS_Interval
<1>3. Cardinality(page) <= m
  <2> DEFINE rank == [i \in page |-> RankIn(i, S, order)]
  <2>1. rank \in [page -> ranks]
    BY DEF PageOf
  <2>2. \A i, j \in page : i # j => rank[i] # rank[j]
    BY <1>1, RanksDiffer
  <2> HIDE DEF page, ranks, rank
  <2>3. ~(Cardinality(ranks) < Cardinality(page))
    BY <1>1, <1>2, <2>1, <2>2, FS_PigeonHole
  <2> QED
    BY <1>1, <1>2, <2>3
<1>4. ASSUME NEW i \in S, RankIn(i, S, order) >= at + m
      PROVE  Cardinality(page) >= m
  <2>1. RankIn(i, S, order) \in Nat /\ RankIn(i, S, order) < Cardinality(S) /\ Cardinality(S) \in Nat
    BY RanksFollow, FS_CardinalityType
  <2>2. \A k \in ranks : k \in Nat /\ k < Cardinality(S)
    BY <1>4, <2>1
  <2>3. \A k \in ranks : \E j \in S : RankIn(j, S, order) = k
    BY <2>2, RanksAreFilled
  <2> DEFINE at1 == [k \in ranks |-> CHOOSE j \in page : RankIn(j, S, order) = k]
  <2>4. \A k \in ranks : \E j \in page : RankIn(j, S, order) = k
    BY <2>3 DEF PageOf
  <2>5. \A k \in ranks : at1[k] \in page /\ RankIn(at1[k], S, order) = k
    BY <2>4
  <2>6. at1 \in [ranks -> page] /\ \A k, l \in ranks : k # l => at1[k] # at1[l]
    BY <2>5
  <2> HIDE DEF page, ranks, at1
  <2>7. ~(Cardinality(page) < Cardinality(ranks))
    BY <1>1, <1>2, <2>6, FS_PigeonHole
  <2> QED
    BY <1>1, <1>2, <2>7
<1> HIDE DEF page
<1>5. Cardinality(page) \in 0..m /\ \A i \in S : RankIn(i, S, order) >= at + m => Cardinality(page) = m
  BY <1>1, <1>3, <1>4
<1> QED
  BY <1>5 DEF page
===============================================================================
