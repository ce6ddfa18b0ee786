----------------------------- MODULE ListCalls -----------------------------
(***************************************************************************)
(* A program that calls one operation on lists, and what it then finds.    *)
(* The operations are those of Lists, in one step each, and the length of  *)
(* a list of ListLength, in the steps of its loops.                        *)
(*                                                                         *)
(* The program starts from any heap, whatever pairs share tails or form    *)
(* cycles: head-setter and tail-setter can make every one.                 *)
(***************************************************************************)
EXTENDS Lists, ListLength

CONSTANTS
  Datum,          \* what the pairs of a heap hold to begin with
  MaxPairs,
  First           \* the lists that are given as the first argument

ASSUME DatumAssumption == False \in Element /\ Datum \subseteq Element
ASSUME FirstAssumption == MaxPairs \in Nat /\ First \subseteq 0..MaxPairs

VARIABLES
  call,           \* history: the operation and its arguments
  val             \* its result

listVars == <<lvars, call, val>>

NoCall == [op |-> "none"]

Heaps == [1..MaxPairs -> [car : Datum, cdr : {Nil} \cup 1..MaxPairs \cup Datum]]

ListsInit ==
  /\ heap \in Heaps /\ before = heap
  /\ lst = Nil /\ fore = Nil /\ back = Nil /\ len = 0 /\ phase = "idle"
  /\ call = NoCall /\ val = Nil

----------------------------------------------------------------------------
(* Calls that work on pairs.                                               *)

AnyList == {Nil} \cup DOMAIN heap
TheLists == {l \in First : Proper(heap, l)}
Called == call = NoCall /\ Len(heap) > 0

\* f is given a call; c is a set of calls.
OnPairs(c, f(_)) ==
  /\ Called
  /\ \E k \in c :
       /\ call' = k
       /\ heap' = f(k).heap /\ val' = f(k).val
  /\ before' = heap
  /\ UNCHANGED <<lst, fore, back, len, phase>>

With(op, m, el, n) == [op : {op}, l : TheLists, m : m, el : el, n : n]
One(op) == With(op, {Nil}, {False}, {0})

CallLength ==
  /\ Called
  /\ \E l \in First : Short(l) \/ Begin(l)
  /\ call' = [op |-> "size"]
  /\ UNCHANGED val

StepLength == LengthStep /\ UNCHANGED <<call, val>>

CopyList ==
  OnPairs([op : {"copy_list"}, l : {l \in First : ~Endless(heap, l)}, m : {Nil},
           el : {False}, n : {0}],
          LAMBDA k : copy_list(heap, k.l))
CopySequence ==
  OnPairs({k \in With("copy-sequence", 0..MaxPairs, {False}, 0..MaxPairs) :
             k.m <= k.n /\ k.n <= size(heap, k.l)},
          LAMBDA k : copy_sequence(heap, k.l, k.m, k.n))
ConcatenateLists ==
  OnPairs(With("concatenate", AnyList, {False}, {0}),
          LAMBDA k : concatenate(heap, k.l, <<k.m>>))
MapList ==
  OnPairs(With("map", {Nil}, [Datum -> Datum], {0}), LAMBDA k : list_map1(heap, k.el, k.l))
ReduceList == OnPairs(One("reduce"), LAMBDA k : Returns(heap, list_reduce(heap, <<>>, k.l)))
ReverseList == OnPairs(One("reverse"), LAMBDA k : list_reverse(heap, k.l))
ReverseListX == OnPairs(One("reverse!"), LAMBDA k : list_reverse_bang(heap, k.l))
RemoveDuplicates ==
  OnPairs(One("remove-duplicates"), LAMBDA k : remove_duplicates(heap, k.l))
AddToList == OnPairs(With("add", {Nil}, Datum, {0}), LAMBDA k : add(heap, k.l, k.el))
AddToListX == OnPairs(With("add!", {Nil}, Datum, {0}), LAMBDA k : addX(heap, k.l, k.el))
AddNew == OnPairs(With("add-new", {Nil}, Datum, {0}), LAMBDA k : add_new(heap, k.l, k.el))
AddNewX == OnPairs(With("add-new!", {Nil}, Datum, {0}), LAMBDA k : add_newX(heap, k.l, k.el))
AddAtEnd ==
  OnPairs(With("add_new_at_end", {Nil}, Datum, {0}),
          LAMBDA k : add_new_at_end(heap, k.l, k.el))
MemberOfList ==
  OnPairs(With("member?", {Nil}, Datum, {0}),
          LAMBDA k : Returns(heap, member_p(heap, k.el, k.l)))
LastOfList ==
  OnPairs(One("last"), LAMBDA k : Returns(heap, list_last(heap, k.l, False)))
ElementAt ==
  OnPairs(With("element", {Nil}, {False}, 0..MaxPairs),
          LAMBDA k : Returns(heap, list_element(heap, k.l, k.n, False)))
ElementSetter ==
  OnPairs(With("element-setter", {Nil}, Datum, 0..MaxPairs),
          LAMBDA k : list_element_setter(heap, k.l, k.n, k.el))
RemoveFromList ==
  OnPairs(With("remove", {Nil}, Datum, 0..MaxPairs),
          LAMBDA k : remove(heap, k.l, k.el, k.n))
ChooseFromList ==
  OnPairs(With("choose", {Nil}, Datum, {0}), LAMBDA k : choose(heap, {k.el}, k.l))

TwoLists(op) == {k \in With(op, AnyList, {False}, {0}) : Proper(heap, k.m)}

EqualLists ==
  OnPairs(TwoLists("="), LAMBDA k : Returns(heap, list_equal(heap, k.l, k.m)))
IntersectionOfLists ==
  OnPairs(TwoLists("intersection"), LAMBDA k : intersection(heap, k.l, k.m))
UnionOfLists == OnPairs(TwoLists("union"), LAMBDA k : union(heap, k.l, k.m))
ChooseBy ==
  OnPairs({k \in With("choose-by", AnyList, Datum, {0}) : Proper(heap, k.m)},
          LAMBDA k : choose_by(heap, {k.el}, k.l, k.m))

ListsNext ==
  \/ CallLength \/ StepLength
  \/ CopyList \/ CopySequence \/ ConcatenateLists \/ MapList \/ ReduceList
  \/ ReverseList \/ ReverseListX \/ RemoveDuplicates \/ RemoveFromList
  \/ AddToList \/ AddToListX \/ AddNew \/ AddNewX \/ AddAtEnd
  \/ MemberOfList \/ LastOfList \/ ElementAt \/ ElementSetter \/ EqualLists
  \/ ChooseFromList \/ ChooseBy \/ IntersectionOfLists \/ UnionOfLists

ListsSpec == ListsInit /\ [][ListsNext]_listVars

----------------------------------------------------------------------------
(* What the calls promise.                                                 *)

\* What s holds at the places of P, in order.
Kept(s, P) ==
  LET kept[i \in 0..Len(s)] ==
        IF i = 0 THEN <<>> ELSE IF i \in P THEN Append(kept[i - 1], s[i]) ELSE kept[i - 1]
  IN  kept[Len(s)]

\* s[i] is there for the n-th time.
NthTime(s, i) == Cardinality({j \in 1..i : s[j] = s[i]})

\* The sequence that a call should give, of the sequences s and t it is about.
Expected(c, s, t) ==
  CASE c.op = "copy_list"                -> s
    [] c.op = "copy-sequence"            -> SubSeq(s, c.m + 1, c.n)
    [] c.op = "concatenate"              -> s \o t
    [] c.op = "map"                      -> [i \in DOMAIN s |-> c.el[s[i]]]
    [] c.op \in {"reverse", "reverse!"}  -> Reverse(s)
    [] c.op \in {"add", "add!"}          -> <<c.el>> \o s
    [] c.op \in {"add-new", "add-new!"}  -> IF c.el \in ToSet(s) THEN s ELSE <<c.el>> \o s
    [] c.op = "add_new_at_end"           -> IF c.el \in ToSet(s) THEN s ELSE Append(s, c.el)
    [] c.op = "remove"    -> Kept(s, {i \in DOMAIN s : s[i] # c.el \/ (c.n # 0 /\ NthTime(s, i) > c.n)})
    [] c.op = "choose"    -> Kept(s, {i \in DOMAIN s : s[i] = c.el})
    [] c.op = "choose-by" -> Kept(t, {i \in DOMAIN t : s[i] = c.el})
    [] c.op = "remove-duplicates" -> Kept(s, {i \in DOMAIN s : \A j \in i + 1..Len(s) : s[j] # s[i]})
    [] c.op = "intersection" -> Reverse(Kept(s, {i \in DOMAIN s : s[i] \in ToSet(t)}))
    [] c.op = "union" ->
         Reverse(Kept(s, {i \in DOMAIN s : s[i] \notin ToSet(t) /\ NthTime(s, i) = 1})) \o t

\* Lists: a call gives the sequence, the element or the answer that the operation is named
\* for, as a list that ends; intersection and union give what they find in the opposite order.
\* The length of a list is that of its elements, -1 if these have no end.
ListsAnswer ==
  LET c == call
      s == Contents(before, c.l)
      t == Contents(before, c.m)
  IN  Len(before) > 0 /\ c # NoCall =>
        CASE c.op = "size"    -> phase = "done" =>
               len = IF Endless(before, lst) THEN -1 ELSE Len(Contents(before, lst))
          [] c.op = "reduce"  -> val = s
          [] c.op = "member?" -> val = (c.el \in ToSet(s))
          [] c.op = "last"    -> val = IF s = <<>> THEN False ELSE s[Len(s)]
          [] c.op = "element" -> val = IF c.n < Len(s) THEN s[c.n + 1] ELSE False
          [] c.op = "="       -> val = (s = t)
          [] c.op = "element-setter" ->
               IF c.n < Len(s) THEN Contents(heap, c.l) = [s EXCEPT ![c.n + 1] = c.el]
               ELSE val = Failed /\ heap = before
          [] c.op = "choose-by" /\ Len(s) # Len(t) -> val = Failed
          [] c.op = "concatenate" /\ Endless(before, c.m) -> Endless(heap, val)
          [] OTHER ->
               /\ Contents(heap, val) = Expected(c, s, t)
               /\ (c.op = "concatenate" => Proper(before, c.m)) => Proper(heap, val)

\* The pairs there were that a call may change, and that its result may be made of.
Changed(c) ==
  IF c.op \in {"reverse!", "add_new_at_end", "element-setter"} THEN Pairs(before, c.l) ELSE {}

Shared(c) ==
  CASE c.op \in {"add!", "add-new!", "reverse!", "add_new_at_end"} -> Pairs(before, c.l)
    [] c.op = "add-new" /\ val = c.l      -> Pairs(before, c.l)
    [] c.op \in {"concatenate", "union"}  -> Pairs(before, c.m)
    [] OTHER -> {}

\* A list that a call was not to change is what it was, whatever it shares with those that it
\* was given, and a new list shares its pairs with no other but those that it says: the last
\* of those joined, and the one that elements are put in front of.
OthersKept ==
  Len(before) > 0 /\ call \notin {NoCall, [op |-> "size"]} =>
    /\ \A p \in DOMAIN before \ Changed(call) : heap[p] = before[p]
    /\ call.op \notin {"reduce", "member?", "last", "element", "element-setter", "="} =>
         Pairs(heap, val) \cap DOMAIN before \subseteq Shared(call)

\* Every call for a length comes to an end, with a list that has none too.
LengthEnds == (phase \in {"forth", "back"}) ~> (phase = "done")
=============================================================================
