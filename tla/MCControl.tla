----------------------------- MODULE MCControl ------------------------------
(***************************************************************************)
(* Control for TLC: two values, and one declared result type, which has    *)
(* one of them.                                                            *)
(***************************************************************************)
EXTENDS Control

MCValue      == {"in", "out"}
MCResultType == {{"in"}}
=============================================================================
