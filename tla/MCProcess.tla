----------------------------- MODULE MCProcess -----------------------------
(* A small instance of Process: init, the shell and one more PCB.           *)
EXTENDS Process
CONSTANTS init, idle, a, b, c

MCPriority == [t \in Threads \cup {Idle} |-> 0]

\* The theorems of ProcessProofs are about instances like this one: there is a
\* pid for each task and failed fork, and a third nested fork fails its ASSERT.
ASSUME Hypotheses == RoomForPids /\ NameRoom <= 14
=============================================================================
