------------------------------- MODULE Lists -------------------------------
(***************************************************************************)
(* Lists (list.c; list.dyl in init.dylan): pairs on a heap, which lists    *)
(* may share.  An operation is an operator of the heap before and of its   *)
(* arguments; its value is [heap, val], the heap after and the result.     *)
(*                                                                         *)
(* A tail may be any object (a dotted list).  The operations with          *)
(* EMPTYLISTP in their loops are only given proper lists.  test: is ==,    *)
(* what it is by default.                                                  *)
(*                                                                         *)
(* A loop along a list is a fold of its pairs from the left, an operation  *)
(* that calls itself with the tail a fold of them from the right.          *)
(***************************************************************************)
EXTENDS Heap, SequencesExt

CONSTANTS
  False,        \* #f
  Failed        \* the result of an operation that ends in an error

ASSUME FailedAssumption == Failed \notin Object

Fresh(h) == Len(h) + 1
Returns(h, val) == [heap |-> h, val |-> val]

\* What is behind n pairs of l; where a list ends a walk stays.
Tail_n(h, l, n) ==
  LET rest[i \in 0..n] ==
        IF i = 0 THEN l
        ELSE LET x == rest[i - 1] IN IF PAIRP(h, x) THEN CDR(h, x) ELSE x
  IN  rest[n]

\* Of no more pairs than there are.
Endless(h, l) == \A n \in 0..Len(h) : PAIRP(h, Tail_n(h, l, n))
Proper(h, l)  == \E n \in 0..Len(h) : Tail_n(h, l, n) = Nil
Pairs(h, l)   == {Tail_n(h, l, n) : n \in 0..Len(h)} \cap DOMAIN h

\* The length of a list that has an end.
size(h, l) == Cardinality({n \in 0..Len(h) - 1 : PAIRP(h, Tail_n(h, l, n))})

\* Its pairs, and what they hold.
Spine(h, l)    == [i \in 1..size(h, l) |-> Tail_n(h, l, i - 1)]
Contents(h, l) == [i \in 1..size(h, l) |-> CAR(h, Tail_n(h, l, i - 1))]

----------------------------------------------------------------------------
(* Constructors.                                                           *)

cons(h, a, d) == Returns(Append(h, [car |-> a, cdr |-> d]), Fresh(h))

\* cons of a to the result of an operation.
consTo(a, r) == cons(r.heap, a, r.val)

\* make_list_driver
make_list(h, n, fill) ==
  FoldLeft(LAMBDA r, i : consTo(fill, r), Returns(h, Nil), [i \in 1..n |-> i])

\* Each pair anew; a dotted end is dropped.
copy_list(h, l) ==
  FoldRight(LAMBDA x, r : consTo(CAR(h, x), r), Spine(h, l), Returns(h, Nil))

append(h, l1, l2) ==
  FoldRight(LAMBDA x, r : consTo(CAR(h, x), r), Spine(h, l1), Returns(h, l2))

concatenate(h, l, more) == FoldLeft(LAMBDA r, m : append(r.heap, r.val, m), Returns(h, l), more)

\* Element by element into a list there is, until one of the two ends.
transfer(h, from, to) ==
  FoldLeft(LAMBDA g, i : [g EXCEPT ![Spine(h, to)[i]].car = CAR(g, Spine(h, from)[i])], h,
           [i \in 1..Min({size(h, from), size(h, to)}) |-> i])

\* Slip: a copy from the start is the list itself.
copy_sequenceShares(h, l, start, finish) ==
  IF start = 0 THEN Returns(h, l)
  ELSE LET new == make_list(h, finish - start, False)
       IN  Returns(transfer(new.heap, Tail_n(h, l, start), new.val), new.val)

\* copy-sequence of sequences, which lists have no method of their own for.
copy_sequence(h, l, start, finish) ==
  IF finish > size(h, l) THEN Returns(h, Failed)
  ELSE LET new == make_list(h, finish - start, False)
       IN  Returns(transfer(new.heap, Tail_n(h, l, start), new.val), new.val)

copy(h, l) == copy_sequence(h, l, 0, size(h, l))

add(h, l, el) == consTo(el, copy(h, l))
addX(h, l, el) == cons(h, el, l)

list_map1(h, f, l) ==
  FoldRight(LAMBDA x, r : consTo(f[CAR(h, x)], r), Spine(h, l), Returns(h, Nil))

----------------------------------------------------------------------------
(* Searching.                                                              *)

member_p(h, obj, l) == \E i \in DOMAIN Spine(h, l) : CAR(h, Spine(h, l)[i]) = obj

list_element(h, l, i, default) ==
  LET x == Tail_n(h, l, i) IN IF x = Nil THEN default ELSE CAR(h, x)

list_last(h, l, default) ==
  IF l = Nil THEN default ELSE CAR(h, Spine(h, l)[size(h, l)])

\* From some pair on the two are one list, and up to there they hold the same.
list_equal(h, l1, l2) ==
  \E n \in 0..Len(h) :
    /\ Tail_n(h, l1, n) = Tail_n(h, l2, n)
    /\ \A k \in 0..n - 1 :
         LET x == Tail_n(h, l1, k)
             y == Tail_n(h, l2, k)
         IN  PAIRP(h, x) /\ PAIRP(h, y) /\ CAR(h, x) = CAR(h, y)

\* With a function that records what it is given, after what it has given before.
list_reduce(h, init, l) ==
  FoldLeft(LAMBDA so_far, x : Append(so_far, CAR(h, x)), init, Spine(h, l))

----------------------------------------------------------------------------
(* Lists from lists.                                                       *)

add_new(h, l, el)  == IF member_p(h, el, l) THEN Returns(h, l) ELSE add(h, l, el)
add_newX(h, l, el) == IF member_p(h, el, l) THEN Returns(h, l) ELSE addX(h, l, el)

\* help of remove, and of remove!, which is the same: when it comes to the i-th pair it has
\* left out c elements, of at most count; a count of 0 stands for #f.
remove(h, l, el, count) ==
  LET s == Spine(h, l)
      c(i) == Cardinality({j \in 1..i - 1 : CAR(h, s[j]) = el})
      help(i, r) == IF CAR(h, s[i]) # el THEN consTo(CAR(h, s[i]), r)
                    ELSE IF count # 0 /\ count <= c(i) THEN copy(h, s[i]) ELSE r
  IN  FoldRightDomain(help, s, Returns(h, Nil))

choose(h, pred, l) ==
  FoldRight(LAMBDA x, r : IF CAR(h, x) \in pred THEN consTo(CAR(h, x), r) ELSE r,
            Spine(h, l), Returns(h, Nil))

\* Failed where one of the lists ends before the other, before there is a new pair.
choose_by(h, pred, tests, vals) ==
  LET s == Spine(h, tests)
      t == Spine(h, vals)
  IN  IF Len(s) # Len(t) THEN Returns(h, Failed)
      ELSE FoldRightDomain(LAMBDA i, r : IF CAR(h, s[i]) \in pred THEN consTo(CAR(h, t[i]), r) ELSE r,
                           s, Returns(h, Nil))

\* The elements of l1 that pass are put in front of what is there already.
intersection(h, l1, l2) ==
  FoldLeft(LAMBDA r, x : IF member_p(h, CAR(h, x), l2) THEN consTo(CAR(h, x), r) ELSE r,
           Returns(h, Nil), Spine(h, l1))

union(h, l1, l2) ==
  FoldLeft(LAMBDA r, x : add_newX(r.heap, r.val, CAR(h, x)), Returns(h, l2), Spine(h, l1))

remove_duplicates(h, l) ==
  FoldRight(LAMBDA x, r : IF member_p(h, CAR(h, x), CDR(h, x)) THEN r ELSE consTo(CAR(h, x), r),
            Spine(h, l), Returns(h, Nil))

list_reverse(h, l) ==
  FoldLeft(LAMBDA r, x : consTo(CAR(h, x), r), Returns(h, Nil), Spine(h, l))

----------------------------------------------------------------------------
(* Lists changed in place.                                                 *)

set_car(h, l, obj) == Returns([h EXCEPT ![l].car = obj], obj)

list_reverse_bang(h, l) ==
  FoldLeft(LAMBDA r, x : Returns([r.heap EXCEPT ![x].cdr = r.val], x), Returns(h, Nil), Spine(h, l))

\* An element that is there already is not added again; otherwise the last tail, or the
\* list itself, becomes the new pair.
add_new_at_end(h, l, el) ==
  LET new == cons(h, el, Nil)
  IN  IF member_p(h, el, l) THEN Returns(h, l)
      ELSE IF ~PAIRP(h, l) THEN new
      ELSE Returns([new.heap EXCEPT ![Spine(h, l)[size(h, l)]].cdr = new.val], l)

\* Failed where the index is not in the list.
list_element_setter(h, l, i, obj) ==
  LET x == Tail_n(h, l, i) IN IF PAIRP(h, x) THEN set_car(h, x, obj) ELSE Returns(h, Failed)
=============================================================================
