------------------------------- MODULE Types -------------------------------
(***************************************************************************)
(* The types of Marlais as values, and the two relations on them that the  *)
(* whole interpreter rests on: instance and subtype (class.c).             *)
(*                                                                         *)
(* A value is a record [cls, n]: its direct class and what tells it apart  *)
(* from the other direct instances of that class (for a small integer,     *)
(* its value).  A type is a class, a singleton, a limited integer type or  *)
(* a union.  `id' is the address of a type object that is not a class: two *)
(* singletons of one value are two objects.                                *)
(***************************************************************************)
EXTENDS Integers, Sequences

CONSTANTS
  Class,         \* the classes
  CPL,           \* CPL[c]: the class precedence list of c, c first
  SmallInteger,  \* <small-integer>, the direct class of the integers
  IntegerClass   \* <integer>, the class a limited integer type falls into

ClassType(c)          == [kind |-> "class", cls |-> c]
Singleton(v, id)      == [kind |-> "singleton", val |-> v, id |-> id]
LimitedInt(lo, hi, id) == [kind |-> "limited", lo |-> lo, hi |-> hi, id |-> id]
Union(S, id)          == [kind |-> "union", of |-> S, id |-> id]

objectclass(v) == v.cls

\* Walking CLASSSUPERS from c reaches exactly the classes of its precedence list.
Subclass(c, d) == \E i \in DOMAIN CPL[c] : CPL[c][i] = d

\* A member of a union is never itself a union: make_union_type flattens them.
SimpleInstance(v, t) ==
  \/ t.kind = "singleton" /\ v = t.val
  \/ t.kind = "limited" /\ v.cls = SmallInteger /\ t.lo <= v.n /\ v.n <= t.hi
  \/ t.kind = "class" /\ Subclass(v.cls, t.cls)

instance(v, t) ==
  \/ t.kind # "union" /\ SimpleInstance(v, t)
  \/ t.kind = "union" /\ \E u \in t.of : SimpleInstance(v, u)

\* A class below a type: no class is below a singleton or a limited type.
ClassSubtype(c, t) ==
  \/ t.kind = "class" /\ Subclass(c, t.cls)
  \/ t.kind = "union" /\ \E u \in t.of : u.kind = "class" /\ Subclass(c, u.cls)

SimpleSubtype(s, t) ==
  \/ s = t
  \/ s.kind = "singleton" /\ instance(s.val, t)
  \/ /\ s.kind = "limited" /\ t.kind = "limited"
     /\ t.lo <= s.lo /\ s.hi <= t.hi
  \/ s.kind = "limited" /\ t.kind # "limited" /\ ClassSubtype(IntegerClass, t)
  \/ s.kind = "class" /\ ClassSubtype(s.cls, t)

subtype(s, t) ==
  \/ s = t
  \/ s.kind # "union" /\ SimpleSubtype(s, t)
  \/ s.kind = "union" /\ \A u \in s.of : SimpleSubtype(u, t)

\* broad_class: the class a specializer falls into, and whether class c is below it.
SimpleBroad(t) ==
  CASE t.kind = "singleton" -> objectclass(t.val)
    [] t.kind = "limited"   -> IntegerClass
    [] OTHER                -> t.cls

BelowBroadClass(c, t) ==
  \/ t.kind # "union" /\ Subclass(c, SimpleBroad(t))
  \/ t.kind = "union" /\ \E u \in t.of : Subclass(c, SimpleBroad(u))
=============================================================================
