--------------------------- MODULE MCCollections ---------------------------
(***************************************************************************)
(* Collections for TLC: heaps of three pairs, which is enough for a list   *)
(* that shares its tail with another, for a cycle of one, two or three     *)
(* pairs, and for one that begins behind the head.                         *)
(***************************************************************************)
EXTENDS Collections

CONSTANTS a, b
=============================================================================
