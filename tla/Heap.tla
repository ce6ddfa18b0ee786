------------------------------- MODULE Heap -------------------------------
(***************************************************************************)
(* Pairs on a heap (list.c): what the lists of the interpreter and of its  *)
(* programs are made of, and may share.                                    *)
(*                                                                         *)
(* A heap is a sequence of pairs.  An object is Nil, the empty list; the   *)
(* number of a pair; or an element, which is neither.                      *)
(***************************************************************************)
EXTENDS Integers, Sequences

CONSTANT Element

ASSUME ElementAssumption == Element \cap Nat = {}

Nil == 0
Object == Nat \cup Element
Pair == [car : Object, cdr : Object]

PAIRP(h, x) == x \in DOMAIN h
EMPTYLISTP(x) == x = Nil
CAR(h, x) == h[x].car
CDR(h, x) == h[x].cdr
=============================================================================
