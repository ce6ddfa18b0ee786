------------------------------ MODULE MCDeque ------------------------------
(***************************************************************************)
(* Instances of DequeHistory: two values, alike, and indices on both sides *)
(* of the bounds of a deque.                                               *)
(***************************************************************************)
EXTENDS DequeHistory, TLC

MCIndex == -1..2

Values == Permutations(Value)
=============================================================================
