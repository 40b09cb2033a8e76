---------------------------- MODULE MCFileBlocks ----------------------------
(* FileBlocks for TLC: files of up to four blocks, two of them direct.     *)
EXTENDS FileBlocks, TLC

CONSTANTS f, g

Symmetry == Permutations(Files)
=============================================================================
