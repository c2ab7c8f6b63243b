------------------------ MODULE GPUAllocatorProofs ------------------------
(* The allocator never reserves an index it does not have, nor one index for
   two environments: proved for every node and every sequence of requests. *)
EXTENDS GPUAllocator, FiniteSetTheorems, TLAPS

(* What Allocate picks is free: neither reserved nor foreign to the node. *)
LEMMA PicksFree ==
  ASSUME NEW n
  PROVE  /\ LowestFree(n) \subseteq GPUs
         /\ \A e \in Envs : LowestFree(n) \cap allocated[e] = {}
BY DEF LowestFree, Free, Used

(* The conjunction is inductive as it stands. *)
Inv == TypeOK /\ AllocatedDisjoint

LEMMA AllocateKeepsInv ==
  ASSUME Inv, NEW e \in Envs, NEW n \in Counts, Allocate(e, n)
  PROVE  Inv'
<1>1. /\ LowestFree(n) \subseteq GPUs
      /\ \A f \in Envs : LowestFree(n) \cap allocated[f] = {}
  BY PicksFree
<1>2. allocated' = [allocated EXCEPT ![e] = LowestFree(n)]
  BY DEF Allocate
<1>3. TypeOK'
  BY <1>1, <1>2 DEF Inv, TypeOK
<1>4. ASSUME NEW f \in Envs, NEW g \in Envs, f # g
      PROVE  allocated'[f] \cap allocated'[g] = {}
  <2>1. CASE f = e
    BY <1>1, <1>2, <1>4, <2>1 DEF Inv, TypeOK
  <2>2. CASE g = e
    BY <1>1, <1>2, <1>4, <2>2 DEF Inv, TypeOK
  <2>3. CASE f # e /\ g # e
    BY <1>2, <1>4, <2>3 DEF Inv, TypeOK, AllocatedDisjoint
  <2> QED BY <2>1, <2>2, <2>3
<1> QED BY <1>3, <1>4 DEF Inv, AllocatedDisjoint

(* Whatever Allocate, Release and a new process do, reservations stay within
   the node's GPUs and no index is reserved twice (allocator.go). *)
THEOREM AllocatorSafe == Spec => [](TypeOK /\ AllocatedDisjoint)
<1>1. Init => Inv
  BY DEF Init, Empty, Inv, TypeOK, AllocatedDisjoint
<1>2. Inv /\ [Next]_allocated => Inv'
  <2> SUFFICES ASSUME Inv, [Next]_allocated
               PROVE  Inv'
    OBVIOUS
  <2>1. CASE NewGPUAllocator
    BY <2>1 DEF NewGPUAllocator, Empty, Inv, TypeOK, AllocatedDisjoint
  <2>2. ASSUME NEW e \in Envs, NEW n \in Counts, Allocate(e, n)
        PROVE  Inv'
    BY <2>2, AllocateKeepsInv
  <2>3. ASSUME NEW e \in Envs, Release(e)
        PROVE  Inv'
    BY <2>3 DEF Release, Inv, TypeOK, AllocatedDisjoint
  <2>4. CASE UNCHANGED allocated
    BY <2>4 DEF Inv, TypeOK, AllocatedDisjoint
  <2> QED BY <2>1, <2>2, <2>3, <2>4 DEF Next
<1> QED BY <1>1, <1>2, PTL DEF Spec, Inv
-----------------------------------------------------------------------------
(***************************************************************************)
(* How many indices Allocate picks.  The rank of an index, the number of   *)
(* members of S below it, maps a finite set S one to one onto              *)
(* 0..Cardinality(S)-1, so exactly n members have a rank below n.          *)
(***************************************************************************)
LEMMA RankBijective ==
  ASSUME NEW S \in SUBSET Int, IsFiniteSet(S)
  PROVE  [g \in S |-> Cardinality({h \in S : h < g})]
            \in Bijection(S, 0..(Cardinality(S) - 1))
<1> DEFINE Below(g) == {h \in S : h < g}
           k == Cardinality(S)
           rank == [g \in S |-> Cardinality(Below(g))]
<1>1. k \in Nat
  BY FS_CardinalityType
<1>2. ASSUME NEW g \in S
      PROVE  /\ IsFiniteSet(Below(g))
             /\ Cardinality(Below(g)) \in 0..(k - 1)
  <2>1. Below(g) \in SUBSET S /\ Below(g) # S
    OBVIOUS
  <2>2. /\ IsFiniteSet(Below(g))
        /\ Cardinality(Below(g)) <= k
        /\ Cardinality(Below(g)) # k
    BY <2>1, FS_Subset
  <2>3. Cardinality(Below(g)) \in Nat
    BY <2>2, FS_CardinalityType
  <2> QED BY <1>1, <2>2, <2>3
<1>3. ASSUME NEW g \in S, NEW h \in S, h < g
      PROVE  Cardinality(Below(h)) # Cardinality(Below(g))
  <2>1. \A i \in S : i < h => i < g
    BY <1>3, S \in SUBSET Int
  <2>2. Below(h) \in SUBSET Below(g)
    BY <2>1
  <2>3. h \in Below(g) /\ h \notin Below(h)
    BY <1>3
  <2> QED BY <1>2, <2>2, <2>3, FS_Subset
<1>4. rank \in Injection(S, 0..(k - 1))
  <2>1. rank \in [S -> 0..(k - 1)]
    BY <1>2
  <2>2. ASSUME NEW g \in S, NEW h \in S, rank[g] = rank[h]
        PROVE  g = h
    <3>1. Cardinality(Below(g)) = Cardinality(Below(h))
      BY <2>2
    <3>2. g < h \/ h < g \/ g = h
      BY S \in SUBSET Int
    <3> QED BY <1>3, <3>1, <3>2
  <2> QED BY <2>1, <2>2 DEF Injection, IsInjective
<1>5. IsFiniteSet(0..(k - 1)) /\ Cardinality(0..(k - 1)) = k
  BY <1>1, FS_Interval
<1>6. rank \in Surjection(S, 0..(k - 1))
  BY <1>4, <1>5, FS_Injection
<1> QED BY <1>4, <1>6 DEF Bijection

LEMMA LowestCount ==
  ASSUME NEW S \in SUBSET Int, IsFiniteSet(S),
         NEW n \in Nat, n <= Cardinality(S)
  PROVE  Cardinality({g \in S : Cardinality({h \in S : h < g}) < n}) = n
<1> DEFINE k == Cardinality(S)
           Rank(g) == Cardinality({h \in S : h < g})
           rank == [g \in S |-> Rank(g)]
           low == {g \in S : Rank(g) < n}
           lowRank == [g \in low |-> rank[g]]
<1>1. k \in Nat
  BY FS_CardinalityType
<1>2. rank \in Bijection(S, 0..(k - 1))
  BY RankBijective
<1>3. /\ rank \in [S -> 0..(k - 1)]
      /\ \A g, h \in S : rank[g] = rank[h] => g = h
      /\ \A i \in 0..(k - 1) : \E g \in S : rank[g] = i
  BY <1>2 DEF Bijection, Injection, IsInjective, Surjection
<1>4. \A g \in S : rank[g] = Rank(g)
  OBVIOUS
<1> HIDE DEF rank, k, Rank
<1>5. lowRank \in [low -> 0..(n - 1)]
  <2>1. ASSUME NEW g \in low
        PROVE  rank[g] \in 0..(n - 1)
    <3>1. rank[g] \in 0..(k - 1) /\ rank[g] < n
      BY <1>3, <1>4, <2>1
    <3> QED BY <3>1, <1>1
  <2> QED BY <2>1
<1>6. \A g, h \in low : lowRank[g] = lowRank[h] => g = h
  BY <1>3
<1>7. ASSUME NEW i \in 0..(n - 1)
      PROVE  \E g \in low : lowRank[g] = i
  <2>1. i \in 0..(k - 1) /\ i < n
    BY <1>1 DEF k
  <2>2. PICK g \in S : rank[g] = i
    BY <1>3, <2>1
  <2>3. g \in low
    BY <1>4, <2>1, <2>2
  <2> QED BY <2>2, <2>3
<1>8. lowRank \in Bijection(low, 0..(n - 1))
  BY <1>5, <1>6, <1>7 DEF Bijection, Injection, IsInjective, Surjection
<1>9. IsFiniteSet(low)
  BY FS_Subset
<1>10. Cardinality(0..(n - 1)) = Cardinality(low)
  BY <1>8, <1>9, FS_Bijection DEF ExistsBijection
<1>11. Cardinality(0..(n - 1)) = n
  BY FS_Interval
<1> QED BY <1>10, <1>11 DEF Rank

(* Members of a lower rank are lower. *)
LEMMA LowestBelow ==
  ASSUME NEW S \in SUBSET Int, IsFiniteSet(S), NEW n \in Nat,
         NEW g \in S, Cardinality({x \in S : x < g}) < n,
         NEW h \in S, ~(Cardinality({x \in S : x < h}) < n)
  PROVE  g < h
<1> DEFINE Below(x) == {y \in S : y < x}
<1> SUFFICES ASSUME ~(g < h) PROVE FALSE
  OBVIOUS
<1>1. \A y \in S : y < h => y < g
  BY S \in SUBSET Int
<1>2. Below(h) \in SUBSET Below(g)
  BY <1>1
<1>3. Below(g) \in SUBSET S
  OBVIOUS
<1>4. /\ IsFiniteSet(Below(g)) /\ IsFiniteSet(Below(h))
      /\ Cardinality(Below(h)) <= Cardinality(Below(g))
  BY <1>2, <1>3, FS_Subset
<1>5. Cardinality(Below(g)) \in Nat /\ Cardinality(Below(h)) \in Nat
  BY <1>4, FS_CardinalityType
<1>6. Cardinality(Below(g)) < n /\ ~(Cardinality(Below(h)) < n)
  OBVIOUS
<1> QED
  <2> HIDE DEF Below
  <2> QED BY <1>4, <1>5, <1>6

(* The rank of the i-th member of an ascending list of S is i - 1. *)
LEMMA ListRank ==
  ASSUME NEW S \in SUBSET Int, IsFiniteSet(S),
         NEW list \in [1..Cardinality(S) -> S],
         \A i, j \in 1..Cardinality(S) : i < j => list[i] < list[j]
  PROVE  /\ \A g \in S : \E i \in 1..Cardinality(S) : g = list[i]
         /\ \A i \in 1..Cardinality(S) :
               Cardinality({h \in S : h < list[i]}) = i - 1
<1> DEFINE k == Cardinality(S)
<1>1. k \in Nat
  BY FS_CardinalityType
<1>2. /\ list \in [1..k -> S]
      /\ \A i, j \in 1..k : i < j => list[i] < list[j]
  OBVIOUS
<1> HIDE DEF k
<1>3. \A i, j \in 1..k : list[i] < list[j] <=> i < j
  <2> SUFFICES ASSUME NEW i \in 1..k, NEW j \in 1..k, list[i] < list[j]
               PROVE  i < j
    BY <1>2
  <2>1. list[i] \in Int /\ list[j] \in Int
    BY <1>2
  <2>2. ~(j < i) /\ i # j
    BY <1>2, <2>1
  <2> QED BY <1>1, <2>2
<1>4. list \in Injection(1..k, S)
  <2>1. ASSUME NEW i \in 1..k, NEW j \in 1..k, list[i] = list[j]
        PROVE  i = j
    <3>1. list[i] \in Int /\ list[j] \in Int
      BY <1>2
    <3>2. ~(i < j) /\ ~(j < i)
      BY <1>2, <2>1, <3>1
    <3> QED BY <1>1, <3>2
  <2> QED BY <1>2, <2>1 DEF Injection, IsInjective
<1>5. IsFiniteSet(1..k) /\ Cardinality(1..k) = k
  BY <1>1, FS_Interval
<1>6. list \in Surjection(1..k, S)
  BY <1>4, <1>5, FS_Injection DEF k
<1>7. \A g \in S : \E i \in 1..k : g = list[i]
  BY <1>6 DEF Surjection
<1>8. ASSUME NEW i \in 1..k
      PROVE  Cardinality({h \in S : h < list[i]}) = i - 1
  <2> DEFINE below == {h \in S : h < list[i]}
             part == [j \in 1..(i - 1) |-> list[j]]
  <2>0. i - 1 \in Nat /\ \A j : j \in 1..(i - 1) <=> j \in 1..k /\ j < i
    BY <1>1
  <2>1. part \in [1..(i - 1) -> below]
    BY <1>2, <1>3, <2>0
  <2>2. \A j, l \in 1..(i - 1) : part[j] = part[l] => j = l
    BY <1>4, <2>0 DEF Injection, IsInjective
  <2>3. \A h \in below : \E j \in 1..(i - 1) : part[j] = h
    BY <1>3, <1>7, <2>0
  <2>4. part \in Bijection(1..(i - 1), below)
    BY <2>1, <2>2, <2>3 DEF Bijection, Injection, IsInjective, Surjection
  <2>5. IsFiniteSet(1..(i - 1)) /\ Cardinality(1..(i - 1)) = i - 1
    BY <2>0, FS_Interval
  <2>6. Cardinality(1..(i - 1)) = Cardinality(below)
    BY <2>4, <2>5, FS_Bijection DEF ExistsBijection
  <2> QED BY <2>5, <2>6
<1> QED BY <1>7, <1>8 DEF k

(* The indices Allocate picks are the first n of the list of free indices in
   ascending order. *)
LEMMA LowestAreFirst == TypeOK => PicksLowest
<1> DEFINE last == Cardinality(Free)
<1> SUFFICES ASSUME TypeOK, NEW list \in [1..last -> Free],
                    \A i, j \in 1..last : i < j => list[i] < list[j],
                    NEW n \in 0..last
             PROVE  LowestFree(n) = {list[i] : i \in 1..n}
  BY DEF PicksLowest
<1>1. Free \in SUBSET Int /\ IsFiniteSet(Free) /\ last \in Nat
  <2>1. Free \in SUBSET GPUs
    BY DEF Free
  <2> QED BY <2>1, GPUsAssumption, FS_Subset, FS_CardinalityType
<1>2. /\ \A g \in Free : \E i \in 1..last : g = list[i]
      /\ \A i \in 1..last : Cardinality({h \in Free : h < list[i]}) = i - 1
  BY <1>1, ListRank
<1> HIDE DEF last
<1>3. \A i \in 1..last : list[i] \in LowestFree(n) <=> i \in 1..n
  BY <1>1, <1>2 DEF LowestFree
<1>4. \A g \in LowestFree(n) : \E i \in 1..last : g = list[i]
  BY <1>2 DEF LowestFree
<1>5. \A i \in 1..n : i \in 1..last
  BY <1>1
<1> QED BY <1>3, <1>4, <1>5

(* Allocate grants as many GPUs as it was asked for, and the lowest of the free
   ones, or none when so many are not free: free[:count] of the sorted list
   (allocator.go).  The two facts leave no other choice. *)
THEOREM GrantsWhatIsAsked ==
  ASSUME TypeOK, NEW e \in Envs, NEW n \in Counts, Allocate(e, n)
  PROVE  /\ Cardinality(allocated'[e]) = n /\ allocated'[e] \subseteq Free
         /\ \A g \in allocated'[e], h \in Free \ allocated'[e] : g < h
         /\ \A f \in Envs \ {e} : allocated'[f] = allocated[f]
<1>1. /\ Free \in SUBSET Int /\ IsFiniteSet(Free) /\ n \in Nat
      /\ Cardinality(Free) \in Nat
  <2>1. Free \in SUBSET GPUs
    BY DEF Free
  <2> QED BY <2>1, GPUsAssumption, CountsAssumption, FS_Subset,
             FS_CardinalityType
<1>2. n <= Cardinality(Free)
  BY <1>1 DEF Allocate, Insufficient
<1>3. Cardinality(LowestFree(n)) = n
  BY <1>1, <1>2, LowestCount DEF LowestFree
<1>4. \A g \in LowestFree(n), h \in Free \ LowestFree(n) : g < h
  BY <1>1, LowestBelow DEF LowestFree
<1> QED BY <1>3, <1>4 DEF Allocate, TypeOK, LowestFree
=============================================================================
