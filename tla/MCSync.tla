------------------------------- MODULE MCSync -------------------------------
(* Sync with the boot thread, a kernel thread and a user process, and the  *)
(* shortest time slices.                                                   *)
EXTENDS Sync
CONSTANTS main, idle, a, b, none

MCPriority == [t \in {main, idle, a, b} |-> IF t = a THEN 1 ELSE 0]
=============================================================================
