---------------------------- MODULE MCFindOffset -----------------------------
(***************************************************************************)
(* FindOffset for TLC: shards of seven rows and four iterations, so that the *)
(* largest chunk just fits (seven is 2^3 - 1).  A row only matters by        *)
(* whether it starts at or before the program counter.                      *)
(***************************************************************************)
EXTENDS FindOffset

const_Pow2 == [k \in 0..MaxBinarySearchDepth |-> 2^k]
=============================================================================
