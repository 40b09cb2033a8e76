---------------------------- MODULE MCKeyboard -----------------------------
(* Small instances of Keyboard: with no more keys than the queue holds, and *)
(* with enough to fill it.                                                 *)
EXTENDS Keyboard
CONSTANTS main, idle, a, b, none

MCPriority == [t \in Threads \cup {Idle} |-> 0]
MCTasks == Threads \cup {Idle}
=============================================================================
