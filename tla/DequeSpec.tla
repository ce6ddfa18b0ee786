----------------------------- MODULE DequeSpec -----------------------------
(***************************************************************************)
(* What a <deque> promises: a sequence of values that grows and shrinks at *)
(* both ends.  Deque.tla has the entries and links deque.c keeps instead.  *)
(*                                                                         *)
(* out is the last operation and what it gave its caller.  Operations that *)
(* are given a default return "default" where the others signal an error;  *)
(* an error leaves the deque as it is.                                     *)
(***************************************************************************)
EXTENDS Integers, Sequences

CONSTANTS
  Value,      \* what a deque may hold
  Index,      \* what element is asked for: small integers, negative ones too
  MaxMade     \* the largest size a program gives to make

VARIABLES items, out

vars == <<items, out>>

\* What is given for an element that is not there.
Absent(default) == IF default THEN "default" ELSE "error"

Init ==
  /\ \E n \in 0..MaxMade, fill \in Value : items = [k \in 1..n |-> fill]
  /\ out = <<"make", "deque">>

Push(new) ==
  /\ items' = <<new>> \o items
  /\ out' = <<"push", "deque">>

PushLast(new) ==
  /\ items' = Append(items, new)
  /\ out' = <<"push-last", "deque">>

Pop ==
  \/ /\ items = <<>>
     /\ out' = <<"pop", "error">>
     /\ UNCHANGED items
  \/ /\ items # <<>>
     /\ out' = <<"pop", Head(items)>>
     /\ items' = Tail(items)

PopLast ==
  \/ /\ items = <<>>
     /\ out' = <<"pop-last", "error">>
     /\ UNCHANGED items
  \/ /\ items # <<>>
     /\ out' = <<"pop-last", items[Len(items)]>>
     /\ items' = SubSeq(items, 1, Len(items) - 1)

\* The element at index i, if there is one.
At(i, default) == IF i + 1 \in DOMAIN items THEN items[i + 1] ELSE Absent(default)

Element(i, default) ==
  /\ out' = <<"element", At(i, default)>>
  /\ UNCHANGED items

First(default) ==
  /\ out' = <<"first", At(0, default)>>
  /\ UNCHANGED items

Last(default) ==
  /\ out' = <<"last", At(Len(items) - 1, default)>>
  /\ UNCHANGED items

ElementSetter(i, new) ==
  \/ /\ i + 1 \in DOMAIN items
     /\ items' = [items EXCEPT ![i + 1] = new]
     /\ out' = <<"element-setter", "unspecified">>
  \/ /\ i + 1 \notin DOMAIN items
     /\ out' = <<"element-setter", "error">>
     /\ UNCHANGED items

\* An iteration assigns the element it stands on, or one that has been
\* popped since it came there.
CurrentElementSetter(new) ==
  /\ \/ \E k \in DOMAIN items : items' = [items EXCEPT ![k] = new]
     \/ UNCHANGED items
  /\ out' = <<"current-element-setter", new>>

Next ==
  \/ \E new \in Value : Push(new) \/ PushLast(new) \/ CurrentElementSetter(new)
  \/ Pop \/ PopLast
  \/ \E default \in BOOLEAN : First(default) \/ Last(default)
  \/ \E i \in Index, default \in BOOLEAN : Element(i, default)
  \/ \E i \in Index, new \in Value : ElementSetter(i, new)

Spec == Init /\ [][Next]_vars
=============================================================================
