------------------------------ MODULE MCTable ------------------------------
(***************************************************************************)
(* Tables for TLC: three contents, two of which have hashes that differ    *)
(* only in their sign, and three rows, one of which stays empty.           *)
(***************************************************************************)
EXTENDS Table, TLC

CONSTANTS c1, c2, c3, k1, k2, k3

MCHash == c1 :> -4 @@ c2 :> 4 @@ c3 :> 2
MCFixed == k1 :> c1 @@ k2 :> c2 @@ k3 :> c3
=============================================================================
