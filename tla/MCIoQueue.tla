----------------------------- MODULE MCIoQueue ------------------------------
(* Small instances of IoQueue.                                             *)
EXTENDS IoQueue
CONSTANTS main, idle, a, b, none

MCPriority == [t \in Threads \cup {Idle} |-> 0]
=============================================================================
