----------------------------- MODULE RetainProofs -----------------------------
(* What Retain returns, for every sequence and every set.                  *)
EXTENDS Retain, FiniteSetTheorems, TLAPS

(* p lists the elements of at in ascending order.                          *)
Enumerates(p, m, at) ==
  /\ p \in [1..m -> at]
  /\ \A a, b \in 1..m : a < b => p[a] < p[b]
  /\ \A k \in at : \E n \in 1..m : p[n] = k

(* How many elements of at are not above k.                                *)
Rank(at, k) == Cardinality({j \in at : j <= k})

LEMMA RankGrows ==
  ASSUME NEW at \in SUBSET Nat, IsFiniteSet(at), NEW j \in at, NEW k \in at, j < k
  PROVE  Rank(at, j) < Rank(at, k)
<1> DEFINE low == {i \in at : i <= j}
           high == {i \in at : i <= k}
<1>1. IsFiniteSet(high) /\ low \in SUBSET high /\ k \in high /\ k \notin low
  <2>1. high \in SUBSET at
    OBVIOUS
  <2>2. IsFiniteSet(high)
    BY <2>1, FS_Subset
  <2>3. ASSUME NEW i \in at, i <= j PROVE i <= k
    <3>1. i \in Nat /\ j \in Nat /\ k \in Nat
      OBVIOUS
    <3> QED
      BY <2>3, <3>1
  <2>4. k <= k /\ ~(k <= j)
    OBVIOUS
  <2> QED
    BY <2>2, <2>3, <2>4
<1>2. Cardinality(low) <= Cardinality(high) /\ Cardinality(high) # Cardinality(low)
  BY <1>1, FS_Subset
<1>3. IsFiniteSet(low) /\ Cardinality(low) \in Nat /\ Cardinality(high) \in Nat
  BY <1>1, FS_Subset, FS_CardinalityType
<1> QED
  BY <1>2, <1>3 DEF Rank

LEMMA RankInjects ==
  ASSUME NEW at \in SUBSET Nat, IsFiniteSet(at), NEW j \in at, NEW k \in at,
         Rank(at, j) = Rank(at, k)
  PROVE  j = k
<1>1. Rank(at, j) \in Nat
  <2>1. {i \in at : i <= j} \in SUBSET at
    OBVIOUS
  <2> QED
    BY <2>1, FS_Subset, FS_CardinalityType DEF Rank
<1>2. j < k \/ k < j \/ j = k
  OBVIOUS
<1> QED
  BY <1>1, <1>2, RankGrows

(* Ranks are the numbers from one to the size.                             *)
LEMMA RankCovers ==
  ASSUME NEW at \in SUBSET Nat, IsFiniteSet(at)
  PROVE  /\ Cardinality(at) \in Nat
         /\ \A k \in at : Rank(at, k) \in 1..Cardinality(at)
         /\ \A n \in 1..Cardinality(at) : \E k \in at : Rank(at, k) = n
<1> DEFINE m == Cardinality(at)
           rank == [k \in at |-> Rank(at, k)]
<1>1. m \in Nat
  BY FS_CardinalityType
<1>2. ASSUME NEW k \in at PROVE Rank(at, k) \in 1..m
  <2> DEFINE low == {i \in at : i <= k}
  <2>1. low \in SUBSET at /\ k \in low
    OBVIOUS
  <2>2. IsFiniteSet(low) /\ Cardinality(low) <= m
    BY <2>1, FS_Subset
  <2>3. Cardinality(low) \in Nat
    BY <2>2, FS_CardinalityType
  <2>4. Cardinality(low) # 0
    BY <2>1, <2>2, FS_EmptySet
  <2> QED
    BY <1>1, <2>2, <2>3, <2>4 DEF Rank
<1>3. rank \in Injection(at, 1..m)
  <2>1. rank \in [at -> 1..m]
    BY <1>2
  <2>2. \A j, k \in at : rank[j] = rank[k] => j = k
    BY RankInjects
  <2> QED
    BY <2>1, <2>2 DEF Injection, IsInjective
<1>4. IsFiniteSet(1..m) /\ Cardinality(1..m) = m
  BY <1>1, FS_Interval
<1>5. rank \in Surjection(at, 1..m)
  BY <1>3, <1>4, FS_Injection
<1> QED
  BY <1>1, <1>2, <1>5 DEF Surjection

LEMMA PlacesFinite ==
  ASSUME NEW T, NEW s \in Seq(T), NEW S
  PROVE  Places(s, S) \in SUBSET (1..Len(s)) /\ IsFiniteSet(Places(s, S))
<1>1. Len(s) \in Nat /\ IsFiniteSet(1..Len(s))
  BY FS_Interval
<1>2. Places(s, S) \in SUBSET (1..Len(s))
  BY DEF Places
<1> QED
  BY <1>1, <1>2, FS_Subset

(* Retain keeps exactly the elements in S, in their order.                 *)
THEOREM RetainKeeps ==
  ASSUME NEW T, NEW s \in Seq(T), NEW S
  PROVE  /\ Retain(s, S) \in Seq(T)
         /\ Len(Retain(s, S)) <= Len(s)
         /\ \E p : /\ Enumerates(p, Len(Retain(s, S)), Places(s, S))
                   /\ \A n \in 1..Len(Retain(s, S)) : Retain(s, S)[n] = s[p[n]]
<1> DEFINE at == Places(s, S)
           m == Cardinality(at)
           p == [n \in 1..m |-> CHOOSE k \in at : Rank(at, k) = n]
<1> USE PlacesFinite
<1>1. at \in SUBSET Nat /\ IsFiniteSet(at) /\ \A k \in at : k \in 1..Len(s)
  OBVIOUS
<1>2. m \in Nat /\ \A k \in at : Rank(at, k) \in 1..m
  BY <1>1, RankCovers
<1>3. \A n \in 1..m : \E k \in at : Rank(at, k) = n
  BY <1>1, RankCovers
<1>4. \A n \in 1..m : p[n] \in at /\ Rank(at, p[n]) = n
  BY <1>3
<1>5. Retain(s, S) = [n \in 1..m |-> s[p[n]]]
  BY DEF Retain, Rank
<1>6. m <= Len(s)
  <2>1. Len(s) \in Nat
    OBVIOUS
  <2>2. IsFiniteSet(1..Len(s)) /\ Cardinality(1..Len(s)) = Len(s)
    BY <2>1, FS_Interval
  <2> QED
    BY <1>1, <2>2, FS_Subset
<1>7. Retain(s, S) \in Seq(T) /\ Len(Retain(s, S)) = m
  <2>1. \A n \in 1..m : s[p[n]] \in T
    BY <1>1, <1>4
  <2>2. Retain(s, S) \in [1..m -> T]
    BY <1>5, <2>1
  <2> QED
    BY <1>2, <2>2
<1>8. Enumerates(p, m, at)
  <2>1. p \in [1..m -> at]
    BY <1>4
  <2>2. ASSUME NEW a \in 1..m, NEW b \in 1..m, a < b PROVE p[a] < p[b]
    <3>1. p[a] \in at /\ p[b] \in at /\ Rank(at, p[a]) = a /\ Rank(at, p[b]) = b
      BY <1>4
    <3>2. p[a] # p[b]
      BY <2>2, <3>1
    <3>3. ~(p[b] < p[a])
      BY <1>1, <1>2, <2>2, <3>1, RankGrows
    <3> QED
      BY <1>1, <3>1, <3>2, <3>3
  <2>3. ASSUME NEW k \in at PROVE \E n \in 1..m : p[n] = k
    <3>1. Rank(at, k) \in 1..m
      BY <1>2
    <3>2. p[Rank(at, k)] = k
      BY <1>1, <1>4, <3>1, RankInjects
    <3> QED
      BY <3>1, <3>2
  <2> QED
    BY <2>1, <2>2, <2>3 DEF Enumerates
<1>9. \A n \in 1..m : Retain(s, S)[n] = s[p[n]]
  BY <1>5
<1> QED
  <2> HIDE DEF p, m
  <2> QED
    BY <1>6, <1>7, <1>8, <1>9
==============================================================================
