---------------------------- MODULE DequeHistory ----------------------------
(***************************************************************************)
(* Deque with two history variables, which no operation looks at: the      *)
(* entries a deque should consist of, and how far the front has moved      *)
(* since the iteration began.  They are what the links, the results and    *)
(* the keys of Deque are held against.                                     *)
(***************************************************************************)
EXTENDS Deque, Functions

VARIABLES
  ids,   \* the entries pushed and not popped, from the first to the last
  shift  \* entries pushed in front since the iteration began, less those
         \* popped from there

hvars == <<vars, ids, shift>>

HInit ==
  /\ Init
  /\ ids = [k \in 1..Len(entry) |-> k]
  /\ shift = 0

\* Steps that change the entries the deque consists of.
Reshape ==
  \/ /\ \E new \in Value : Push(new)
     /\ ids' = <<New>> \o ids
     /\ shift' = shift + 1
  \/ /\ \E new \in Value : PushLast(new)
     /\ ids' = Append(ids, New)
     /\ UNCHANGED shift
  \/ /\ Pop
     /\ ids' = SubSeq(ids, 2, Len(ids))
     /\ shift' = shift - 1
  \/ /\ PopLast
     /\ ids' = SubSeq(ids, 1, Len(ids) - 1)
     /\ UNCHANGED shift

\* Steps that begin an iteration.
Begin ==
  /\ InitialState \/ FinalState
  /\ shift' = 0
  /\ UNCHANGED ids

\* All other steps.
Use ==
  /\ \/ PopEmpty
     \/ \E default \in BOOLEAN : First(default) \/ Last(default)
     \/ \E i \in Index, default \in BOOLEAN : StartElement(i, default)
     \/ \E i \in Index, new \in Value : StartElementSetter(i, new)
     \/ Step \/ Arrive
     \/ NextState \/ PreviousState
     \/ \E new \in Value : CurrentElementSetter(new)
  /\ UNCHANGED <<ids, shift>>

HNext == Reshape \/ Begin \/ Use

HSpec == HInit /\ [][HNext]_hvars

----------------------------------------------------------------------------
(* Properties.                                                             *)

Operation == {"none", "make", "push", "push-last", "pop", "pop-last", "first", "last",
              "element", "element-setter", "current-element-setter"}
Outcome == Value \cup {"none", "deque", "unspecified", "default", "error"}

\* Every variable has its type.
TypeOK ==
  /\ entry \in Seq([prev : 0..Len(entry), value : Value, next : 0..Len(entry)])
  /\ first \in 0..Len(entry) /\ last \in 0..Len(entry)
  /\ state \in [head : 0..Len(entry), tail : Int]
  /\ walk \in [op : Operation, i : Int, el : 0..Len(entry), arg : Outcome]
  /\ out \in Operation \X Outcome
  /\ ids \in Seq(1..Len(entry)) /\ shift \in Int

\* The links lead through the entries pushed and not popped, and through no
\* others, from the first to the last and back: whatever has been pushed and
\* popped at the two ends before (deque.c:143-204).  Only in front of the
\* first there may be an entry left over, one that is no longer part of the
\* deque.
Linked ==
  /\ IsInjective(ids)
  /\ first = IF ids = <<>> THEN 0 ELSE ids[1]
  /\ ids # <<>> => last = ids[Len(ids)]
  /\ \A k \in DOMAIN ids :
       /\ entry[ids[k]].next = IF k = Len(ids) THEN 0 ELSE ids[k + 1]
       /\ IF k = 1 THEN \A l \in DOMAIN ids : entry[ids[1]].prev # ids[l]
                   ELSE entry[ids[k]].prev = ids[k - 1]

\* The key of an iteration that stands on an element of the deque is the
\* index of this element, but for what has been pushed and popped in front
\* since it began: no operation at the ends makes an iteration lose count,
\* also when the entry it stood on has been popped meanwhile
\* (init.dylan:2176-2199).
CurrentKey ==
  \A k \in DOMAIN ids : state.head = ids[k] => k - 1 = state.tail + shift

\* A loop of element or element-setter is at an entry of the deque, and what
\* is left to count leads to an index that was asked for (deque.c:232-275).
Walking ==
  walk.el # 0 => \E k \in DOMAIN ids :
    /\ walk.el = ids[k]
    /\ walk.i + k - 1 \in Index
    /\ walk.i < 0 => walk.i + k - 1 < 0

\* The deque does what DequeSpec promises: its operations give and change
\* what the same operations on a sequence of values do.
Items == [k \in DOMAIN ids |-> entry[ids[k]].value]

Promise == INSTANCE DequeSpec WITH items <- Items

Implements == Promise!Spec
=============================================================================
