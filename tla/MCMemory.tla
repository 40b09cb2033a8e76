------------------------------ MODULE MCMemory ------------------------------
(* Memory for TLC: init and two programs, which are alike; arenas of two   *)
(* blocks.                                                                 *)
EXTENDS Memory, TLC

CONSTANTS init, p, q, s

MCBlocksPerArena == [c \in Classes |-> 2]

Symmetry == Permutations({p, q})
=============================================================================
