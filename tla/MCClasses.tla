----------------------------- MODULE MCClasses ------------------------------
(***************************************************************************)
(* Classes for TLC: a class has no slots, or x, or y and the each-subclass *)
(* slot e.  The names are alike.                                           *)
(***************************************************************************)
EXTENDS Classes

Of(g, each) == [getter |-> g, each |-> each]

MCSlotLists == {<<>>, <<Of("x", FALSE)>>, <<Of("y", FALSE), Of("e", TRUE)>>}
Names == Permutations(Name)
=============================================================================
