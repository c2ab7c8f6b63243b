------------------------------ MODULE GPUPool ------------------------------
(***************************************************************************)
(* The GPUs of a node and what may be asked of them, for the allocator and *)
(* for the handlers that use it.                                           *)
(***************************************************************************)
EXTENDS Integers, FiniteSets

CONSTANTS Envs,     \* environment ids
          GPUs,     \* the node's GPU indices (GPUAllocator.total)
          Counts    \* the sizes of request the allocator is asked for

ASSUME GPUsAssumption == GPUs \subseteq Int /\ IsFiniteSet(GPUs)
ASSUME CountsAssumption == Counts \subseteq Nat
=============================================================================
