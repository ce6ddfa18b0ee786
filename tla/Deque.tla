------------------------------- MODULE Deque -------------------------------
(***************************************************************************)
(* One <deque> of deque.c with the methods init.dylan defines on it: a     *)
(* doubly linked list of entries, and one iteration over it.               *)
(*                                                                         *)
(* Entries are numbered in the order they are made and never reused: the   *)
(* collector keeps what an iteration still stands on.  The number 0 stands *)
(* for #() in a link and for #f in the state of the iteration.             *)
(*                                                                         *)
(* A primitive runs to its end before anything else, so each is a step.    *)
(* Only the loop of element and element-setter is taken apart: one step    *)
(* for each time round, in which no other operation happens.               *)
(*                                                                         *)
(* What programs do: they ask finished-state? before they go on with an    *)
(* iteration, and ask for no element of an empty deque -- deque_element    *)
(* reads the value field of #() there, whatever that is.                   *)
(***************************************************************************)
EXTENDS Integers, Sequences

CONSTANTS
  Value,
  Index,
  MaxMade,
  MaxEntries,    \* bound of the entries ever made
  LastOfEmptied  \* TRUE: last and final-state are used on a deque that pop
                 \* has emptied, too

ASSUME DequeAssumption ==
  /\ Index \subseteq Int
  /\ MaxMade \in Nat /\ MaxEntries \in Nat
  /\ LastOfEmptied \in BOOLEAN

VARIABLES
  entry,  \* the entries, by number: [prev, value, next]
  first,  \* DEQUEFIRST
  last,   \* DEQUELAST
  state,  \* the state of the iteration: [head, tail], an entry and its key
  walk,   \* the loop under way; its el is 0 when there is none
  out     \* the last operation and what it has returned

vars == <<entry, first, last, state, walk, out>>

NoWalk == [op |-> "none", i |-> 0, el |-> 0, arg |-> "none"]

\* What is given for an element that is not there.
Absent(default) == IF default THEN "default" ELSE "error"

\* Slip: the last entry is not closed.
InitOpen ==
  /\ \E n \in 0..MaxMade, fill \in Value :
       /\ entry = [k \in 1..n |-> [prev |-> k - 1, value |-> fill, next |-> k + 1]]
       /\ first = IF n = 0 THEN 0 ELSE 1
       /\ last = n
  /\ state = [head |-> 0, tail |-> 0]
  /\ walk = NoWalk
  /\ out = <<"make", "deque">>

\* make(<deque>, size: n, fill: fill).
Init ==
  /\ \E n \in 0..MaxMade, fill \in Value :
       /\ entry = [k \in 1..n |-> [prev |-> k - 1, value |-> fill,
                                   next |-> IF k = n THEN 0 ELSE k + 1]]
       /\ first = IF n = 0 THEN 0 ELSE 1
       /\ last = n
  /\ state = [head |-> 0, tail |-> 0]
  /\ walk = NoWalk
  /\ out = <<"make", "deque">>

----------------------------------------------------------------------------
(* The two ends.                                                           *)

\* The entry that is made next.
New == Len(entry) + 1

\* Slip: what was the first has no entry before it.
PushOneWay(new) ==
  /\ walk.el = 0 /\ New <= MaxEntries
  /\ entry' = Append(entry, [prev |-> 0, value |-> new, next |-> first])
  /\ last' = IF first = 0 THEN New ELSE last
  /\ first' = New
  /\ out' = <<"push", "deque">>
  /\ UNCHANGED <<state, walk>>

Push(new) ==
  /\ walk.el = 0 /\ New <= MaxEntries
  /\ \/ /\ first = 0
        /\ entry' = Append(entry, [prev |-> 0, value |-> new, next |-> 0])
        /\ last' = New
     \/ /\ first # 0
        /\ entry' = Append([entry EXCEPT ![first].prev = New],
                           [prev |-> 0, value |-> new, next |-> first])
        /\ UNCHANGED last
  /\ first' = New
  /\ out' = <<"push", "deque">>
  /\ UNCHANGED <<state, walk>>

\* The previous entry of the new one is DEQUELAST, also when the deque is
\* empty.
PushLast(new) ==
  /\ walk.el = 0 /\ New <= MaxEntries
  /\ \/ /\ first = 0
        /\ entry' = Append(entry, [prev |-> last, value |-> new, next |-> 0])
        /\ first' = New
     \/ /\ first # 0
        /\ entry' = Append([entry EXCEPT ![last].next = New],
                           [prev |-> last, value |-> new, next |-> 0])
        /\ UNCHANGED first
  /\ last' = New
  /\ out' = <<"push-last", "deque">>
  /\ UNCHANGED <<state, walk>>

\* pop and pop-last of an empty deque.
PopEmpty ==
  /\ walk.el = 0 /\ first = 0
  /\ \E op \in {"pop", "pop-last"} : out' = <<op, "error">>
  /\ UNCHANGED <<entry, first, last, state, walk>>

\* DEQUELAST stays as it is, also when the deque is empty now.
Pop ==
  /\ walk.el = 0 /\ first # 0
  /\ LET next == entry[first].next
     IN  /\ first' = next
         /\ entry' = IF next = 0 THEN entry ELSE [entry EXCEPT ![next].prev = 0]
  /\ out' = <<"pop", entry[first].value>>
  /\ UNCHANGED <<last, state, walk>>

\* Slip: the new last entry leads on to the one that is popped.
PopLastLinked ==
  /\ walk.el = 0 /\ first # 0
  /\ IF first = last THEN first' = 0 /\ last' = 0
                     ELSE first' = first /\ last' = entry[last].prev
  /\ out' = <<"pop-last", entry[last].value>>
  /\ UNCHANGED <<entry, state, walk>>

PopLast ==
  /\ walk.el = 0 /\ first # 0
  /\ \/ /\ first = last
        /\ first' = 0 /\ last' = 0
        /\ UNCHANGED entry
     \/ /\ first # last
        /\ LET prev == entry[last].prev
           IN  /\ last' = prev
               /\ entry' = IF prev = 0 THEN entry ELSE [entry EXCEPT ![prev].next = 0]
        /\ UNCHANGED first
  /\ out' = <<"pop-last", entry[last].value>>
  /\ UNCHANGED <<state, walk>>

First(default) ==
  /\ walk.el = 0
  /\ out' = <<"first", IF first = 0 THEN Absent(default) ELSE entry[first].value>>
  /\ UNCHANGED <<entry, first, last, state, walk>>

\* May DEQUELAST be looked at?
LastIsAsked == first # 0 \/ last = 0 \/ LastOfEmptied

Last(default) ==
  /\ walk.el = 0 /\ LastIsAsked
  /\ out' = <<"last", IF last = 0 THEN Absent(default) ELSE entry[last].value>>
  /\ UNCHANGED <<entry, first, last, state, walk>>

----------------------------------------------------------------------------
(* element and element-setter: i is what is left of the index, el the      *)
(* entry reached, arg the value to set or what is given where there is no  *)
(* element.  A negative index is counted down until the deque ends.        *)

StartElement(i, default) ==
  /\ walk.el = 0 /\ first # 0
  /\ walk' = [op |-> "element", i |-> i, el |-> first, arg |-> Absent(default)]
  /\ UNCHANGED <<entry, first, last, state, out>>

StartElementSetter(i, new) ==
  /\ walk.el = 0
  /\ \/ /\ first = 0
        /\ out' = <<"element-setter", "error">>
        /\ UNCHANGED walk
     \/ /\ first # 0
        /\ walk' = [op |-> "element-setter", i |-> i, el |-> first, arg |-> new]
        /\ UNCHANGED out
  /\ UNCHANGED <<entry, first, last, state>>

\* Slip: the index is looked at after the first time round.
StepFirst ==
  /\ walk.el # 0
  /\ LET next == entry[walk.el].next
     IN  \/ /\ next # 0
            /\ walk' = [walk EXCEPT !.i = @ - 1, !.el = next]
            /\ UNCHANGED out
         \/ /\ next = 0
            /\ walk' = NoWalk
            /\ out' = <<walk.op, IF walk.op = "element" THEN walk.arg ELSE "error">>
  /\ UNCHANGED <<entry, first, last, state>>

\* Once round the loop.
Step ==
  /\ walk.el # 0 /\ walk.i # 0
  /\ LET next == entry[walk.el].next
     IN  \/ /\ next # 0
            /\ walk' = [walk EXCEPT !.i = @ - 1, !.el = next]
            /\ UNCHANGED out
         \/ /\ next = 0
            /\ walk' = NoWalk
            /\ out' = <<walk.op, IF walk.op = "element" THEN walk.arg ELSE "error">>
  /\ UNCHANGED <<entry, first, last, state>>

\* The loop has ended at the entry.
Arrive ==
  /\ walk.el # 0 /\ walk.i = 0
  /\ \/ /\ walk.op = "element-setter"
        /\ entry' = [entry EXCEPT ![walk.el].value = walk.arg]
        /\ out' = <<walk.op, "unspecified">>
     \/ /\ walk.op = "element"
        /\ out' = <<walk.op, entry[walk.el].value>>
        /\ UNCHANGED entry
  /\ walk' = NoWalk
  /\ UNCHANGED <<first, last, state>>

----------------------------------------------------------------------------
(* The iteration protocol.  next-state and previous-state change the state *)
(* they are given.                                                         *)

InitialState ==
  /\ walk.el = 0
  /\ state' = [head |-> first, tail |-> 0]
  /\ UNCHANGED <<entry, first, last, walk, out>>

\* What size counts: the entries from DEQUEFIRST on.
Size ==
  LET after[n \in 0..Len(entry)] ==
        IF n = 0 THEN first
        ELSE IF after[n - 1] = 0 THEN 0 ELSE entry[after[n - 1]].next
  IN  CHOOSE n \in 0..Len(entry) :
        after[n] = 0 /\ \A m \in 0..(n - 1) : after[m] # 0

\* Slip: the key of the last element is taken for the size.
FinalStateAtSize ==
  /\ walk.el = 0 /\ LastIsAsked
  /\ state' = [head |-> last, tail |-> Size]
  /\ UNCHANGED <<entry, first, last, walk, out>>

FinalState ==
  /\ walk.el = 0 /\ LastIsAsked
  /\ state' = [head |-> last, tail |-> Size - 1]
  /\ UNCHANGED <<entry, first, last, walk, out>>

NextState ==
  /\ walk.el = 0 /\ state.head # 0
  /\ state' = [head |-> entry[state.head].next, tail |-> state.tail + 1]
  /\ UNCHANGED <<entry, first, last, walk, out>>

PreviousState ==
  /\ walk.el = 0 /\ state.head # 0
  /\ state' = [head |-> entry[state.head].prev, tail |-> state.tail - 1]
  /\ UNCHANGED <<entry, first, last, walk, out>>

CurrentElementSetter(new) ==
  /\ walk.el = 0 /\ state.head # 0
  /\ entry' = [entry EXCEPT ![state.head].value = new]
  /\ out' = <<"current-element-setter", new>>
  /\ UNCHANGED <<first, last, state, walk>>

Next ==
  \/ \E new \in Value : Push(new) \/ PushLast(new) \/ CurrentElementSetter(new)
  \/ PopEmpty \/ Pop \/ PopLast
  \/ \E default \in BOOLEAN : First(default) \/ Last(default)
  \/ \E i \in Index, default \in BOOLEAN : StartElement(i, default)
  \/ \E i \in Index, new \in Value : StartElementSetter(i, new)
  \/ Step \/ Arrive
  \/ InitialState \/ FinalState \/ NextState \/ PreviousState

Spec == Init /\ [][Next]_vars
=============================================================================
