------------------------------- MODULE MCIde --------------------------------
(* Small instances of Ide.                                                  *)
EXTENDS Ide
CONSTANTS main, idle, a, none

MCPriority == [t \in Threads \cup {Idle} |-> 0]
=============================================================================
