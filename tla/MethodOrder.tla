---------------------------- MODULE MethodOrder ----------------------------
(***************************************************************************)
(* How function.c orders the methods of a generic function for a call:     *)
(* applicability, the comparison handed to qsort, what qsort may return    *)
(* for it, and the two lists read off the sorted vector, the groups of a   *)
(* cache entry (build_sorted_handles) and the chain before the first       *)
(* ambiguity (split_sorted_methods).                                       *)
(*                                                                         *)
(* An argument list is reduced to its Arity required arguments.            *)
(***************************************************************************)
EXTENDS Types, FiniteSets

CONSTANTS
  Method,  \* the method objects a program makes
  Arity,   \* required arguments of every generic function
  Specs,   \* Specs[m][i]: the type method m requires of argument i
  Args     \* the argument lists a program passes, each a function of the positions

ASSUME ArityAssumption == Arity \in Nat \ {0}

ASSUME MethodAssumption == IsFiniteSet(Method)

ArgPos == 1..Arity

\* The key of the method cache: the direct classes of the arguments.
ClassVector(args) == [i \in ArgPos |-> objectclass(args[i])]
Key == {ClassVector(args) : args \in Args}

applicable_method_p(m, args) == \A i \in ArgPos : instance(args[i], Specs[m][i])

possible_method(m, key) == \A i \in ArgPos : BelowBroadClass(key[i], Specs[m][i])

\* The first of two classes met in the precedence list of the argument.
Earlier(c, d, cpl) ==
  \E i \in DOMAIN cpl : cpl[i] = c /\ \A j \in 1..i : cpl[j] # d

\* What one argument says of two specializers: "less", "greater", "same"
\* (no help) or "unordered" (the comparison stops there with 0).
SpecVerdict(s, t, arg) ==
  IF s = t THEN "same"
  ELSE IF subtype(s, t) THEN "less"
  ELSE IF subtype(t, s) THEN "greater"
  ELSE IF s.kind = "class" /\ t.kind = "class"
       THEN CASE Earlier(s.cls, t.cls, CPL[objectclass(arg)]) -> "less"
              [] Earlier(t.cls, s.cls, CPL[objectclass(arg)]) -> "greater"
              [] OTHER -> "same"
  ELSE IF instance(arg, s) /\ instance(arg, t) THEN "unordered"
  ELSE "same"

specializer_compare(m, p, args) ==
  LET said == {SpecVerdict(Specs[m][i], Specs[p][i], args[i]) : i \in ArgPos}
  IN  IF "unordered" \in said \/ {"less", "greater"} \subseteq said THEN 0
      ELSE IF "less" \in said THEN -1
      ELSE IF "greater" \in said THEN 1
      ELSE 0

\* same_specializers: one object, or two singletons of one value.
same_specializers(m, p) ==
  \A i \in ArgPos :
    \/ Specs[m][i] = Specs[p][i]
    \/ /\ Specs[m][i].kind = "singleton" /\ Specs[p][i].kind = "singleton"
       /\ Specs[m][i].val = Specs[p][i].val

\* qsort has compared any two neighbours of what it returns, and left neither
\* before one that is less.  The comparison is no total preorder, so that is all
\* the C library promises: each such arrangement is a possible outcome.
Arrangements(S) ==
  {s \in [1..Cardinality(S) -> S] : \A i, j \in DOMAIN s : i # j => s[i] # s[j]}

sort_methods(S, args) ==
  {s \in Arrangements(S) :
     \A i \in 2..Cardinality(S) : specializer_compare(s[i-1], s[i], args) <= 0}

\* build_sorted_handles: a method joins the group of its left neighbour when the
\* two compare 0.  starts: this position opens a group.
Grouped(s, args) ==
  [i \in DOMAIN s |->
     [meth   |-> s[i],
      starts |-> i = 1 \/ specializer_compare(s[i-1], s[i], args) # 0]]

\* split_sorted_methods: the chain ends before the first two neighbours that compare 0.
Unambiguous(s, args) ==
  LET n    == Len(s)
      cuts == {i \in 1..(n-1) : specializer_compare(s[i], s[i+1], args) = 0}
  IN  IF cuts = {} THEN s
      ELSE SubSeq(s, 1, (CHOOSE i \in cuts : \A j \in cuts : i <= j) - 1)
=============================================================================
