----------------------------- MODULE MCDispatch -----------------------------
(***************************************************************************)
(* Instances of Dispatch for TLC: one generic function of two arguments,   *)
(* over the classes <b> < <a> < <r> < <object>.                            *)
(***************************************************************************)
EXTENDS Dispatch

\* Methods, named after their specializers; oo2 has those of oo and replaces it, or is
\* replaced by it.
CONSTANTS oo, oo2, aa, ba, ab

MCClass == {"object", "integer", "small", "r", "a", "b"}
MCCPL   == [object  |-> <<"object">>,
            integer |-> <<"integer", "object">>,
            small   |-> <<"small", "integer", "object">>,
            r       |-> <<"r", "object">>,
            a       |-> <<"a", "r", "object">>,
            b       |-> <<"b", "a", "r", "object">>]

Of2(c, d) == <<ClassType(c), ClassType(d)>>

ClassSpecs ==
  [m \in Method |-> CASE m = aa -> Of2("a", "a")
                      [] m = ab -> Of2("a", "b")
                      [] m = ba -> Of2("b", "a")
                      [] OTHER  -> Of2("object", "object")]

Direct(c) == [cls |-> c, n |-> 1]

\* Two <b>s, for which ab and ba are unordered, and two <r>s, to which only oo applies.
ClassArgs == {<<Direct("b"), Direct("b")>>, <<Direct("r"), Direct("r")>>}

MCGFSpecs == [g \in GF |-> Of2("object", "object")]

-----------------------------------------------------------------------------
(* One argument, a <b>.  ba is for that object alone; aa and ab are both for <a>: one      *)
(* replaces the other; oo is for an <r> or 0 or 1.  OneGFSpecs: g1 takes an <a>, so that   *)
(* it rejects oo.                                                                          *)

CONSTANTS g1, g2

OneSpecs   ==
  [m \in Method |->
     CASE m \in {oo, oo2} -> <<Union({ClassType("r"), LimitedInt(0, 1, 1)}, 2)>>
       [] m = ba          -> <<Singleton(Direct("b"), 3)>>
       [] OTHER           -> <<ClassType("a")>>]
OneArgs    == {<<Direct("b")>>}
OneGFSpecs == [g \in GF |-> IF g = g1 THEN <<ClassType("a")>> ELSE <<ClassType("object")>>]

=============================================================================
