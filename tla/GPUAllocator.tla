---------------------------- MODULE GPUAllocator ----------------------------
(***************************************************************************)
(* The agent's GPU reservations: internal/envlifecycle/allocator.go.       *)
(*                                                                         *)
(* Every method takes the allocator's mutex for its whole body, so each is *)
(* one atomic step.  The map "allocated" is a total function here: an      *)
(* environment with no entry and one whose entry is an empty slice reserve *)
(* the same thing, nothing.  The sorted slices of indices are sets; their  *)
(* order matters only in which indices Allocate picks (the lowest ones),   *)
(* and LowestFree keeps that.                                              *)
(*                                                                         *)
(* This module is also the abstract specification of what the agent's      *)
(* command handlers may do to the reservations: see EnvDispatcher.         *)
(***************************************************************************)
EXTENDS GPUPool

VARIABLE allocated  \* environment -> the indices reserved for it

(***************************************************************************)
(* The indices reserved for anyone, the caller's own earlier reservation   *)
(* included, and the ones left.                                            *)
(***************************************************************************)
Used == UNION {allocated[e] : e \in Envs}

(* Mutated form of Free: reserved indices are not skipped. *)
FreeForgetsUsed == GPUs

Free == GPUs \ Used

(* Mutated form of LowestFree: positions in the list taken for indices. *)
LowestFreePositions(n) == {i \in 1..n : n <= Cardinality(Free)}

(* Mutated form of LowestFree: one index too many. *)
LowestFreeOneMore(n) ==
    {g \in Free : Cardinality({h \in Free : h < g}) <= n}

(* The n lowest free indices: free[:count] of the sorted free list. *)
LowestFree(n) == {g \in Free : Cardinality({h \in Free : h < g}) < n}

Empty == [e \in Envs |-> {}]

-----------------------------------------------------------------------------
(* A new agent process makes a new, empty allocator. *)
NewGPUAllocator == allocated' = Empty

(* A request that does not fit leaves the reservations as they are. *)
Insufficient(n) == n > 0 /\ Cardinality(Free) < n

(* Allocate overwrites the caller's entry; n = 0 reserves nothing. *)
Allocate(e, n) ==
    /\ ~Insufficient(n)
    /\ allocated' = [allocated EXCEPT ![e] = LowestFree(n)]

Release(e) == allocated' = [allocated EXCEPT ![e] = {}]

(***************************************************************************)
(* The map RestoreFromDocker leaves: the entries of the environments that  *)
(* have a dev container, taken from the gpu_indices labels.  labels[e] is  *)
(* the set of indices e's label lists.  No program calls it (the agent     *)
(* command builds a new allocator and nothing else), so it is no step.     *)
(***************************************************************************)
RestoreFromDocker(labels) ==
    [e \in Envs |-> IF e \in DOMAIN labels THEN labels[e] ELSE allocated[e]]

-----------------------------------------------------------------------------
Init == allocated = Empty

Next == \/ NewGPUAllocator
        \/ \E e \in Envs, n \in Counts : Allocate(e, n)
        \/ \E e \in Envs : Release(e)

Spec == Init /\ [][Next]_allocated

-----------------------------------------------------------------------------
TypeOK == allocated \in [Envs -> SUBSET GPUs]

(* Allocate picks what the code's list operations pick: for the list of the
   free indices in ascending order, its first n elements, free[:count]. *)
PicksLowest ==
    LET last == Cardinality(Free) IN
    \A list \in [1..last -> Free] :
        (\A i, j \in 1..last : i < j => list[i] < list[j])
          => \A n \in 0..last : LowestFree(n) = {list[i] : i \in 1..n}

(* No GPU index is reserved for two environments. *)
AllocatedDisjoint ==
    \A e, f \in Envs : e # f => allocated[e] \cap allocated[f] = {}
=============================================================================
