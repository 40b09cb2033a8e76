------------------------------ MODULE MCTyping ------------------------------
EXTENDS Typing

Key(code) == [ext |-> FALSE, code |-> code]

\* u, Backspace, Enter, the space bar, both shifts, both Ctrls, caps lock
MCKeys == {Key(c) : c \in {\h16, \h0E, \h1C, \h39, \h2A, \h36, \h1D, \h3A}}
          \cup {[ext |-> TRUE, code |-> \h1D]}
=============================================================================
