---------------------------- MODULE MCScheduler ----------------------------
(* A small instance of Scheduler: main, idle and the other threads, with   *)
(* short time slices.                                                      *)
EXTENDS Scheduler
CONSTANTS main, idle, a, b

MCPriority == [t \in {main, idle, a, b} |-> IF t = a THEN 2 ELSE 1]
=============================================================================
