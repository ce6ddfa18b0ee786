---------------------------- MODULE Collections ----------------------------
(***************************************************************************)
(* A program that calls one operation on lists, a vector, a range or an    *)
(* array, and what it then finds: ListCalls, and the operations of         *)
(* Vectors, Ranges and Arrays, in one step each.                           *)
(***************************************************************************)
EXTENDS ListCalls

CONSTANTS
  MaxSize,        \* of vectors
  Keys,           \* of the records in vectors
  Bound           \* of the numbers in ranges

V == INSTANCE Vectors
R == INSTANCE Ranges
A == INSTANCE Arrays

VARIABLE vec      \* the vector, <<>> for a program with lists

vars == <<listVars, vec>>

Records(n) == {[i \in 0..n - 1 |-> [key |-> k[i], at |-> i]] : k \in [0..n - 1 -> Keys]}
Vector == UNION {Records(n) : n \in 0..MaxSize}

Init ==
  \/ ListsInit /\ vec = <<>>
  \/ /\ heap = <<>> /\ before = <<>>
     /\ lst = Nil /\ fore = Nil /\ back = Nil /\ len = 0 /\ phase = "idle"
     /\ call = NoCall /\ val = Nil
     /\ vec \in Vector

ListsSteps == ListsNext /\ UNCHANGED vec
LengthSteps == StepLength /\ UNCHANGED vec

----------------------------------------------------------------------------
(* Calls on a vector, on a range, on an array.                             *)

OnVector(c, f(_)) ==
  /\ call = NoCall /\ Len(heap) = 0
  /\ \E k \in c :
       /\ call' = k
       /\ val' = f(k)
  /\ UNCHANGED <<lvars, vec>>

Places == {p \in (0..V!sizeOf(vec)) \X (0..V!sizeOf(vec)) : p[1] <= p[2]}
Other == {V!make_vector(n, [key |-> 0, at |-> -1]) : n \in 0..2}

Sort ==
  OnVector([op : {"sort!"}, stable : BOOLEAN], LAMBDA k : V!sortX(vec, k.stable))
ReverseVector == OnVector([op : {"reverse"}], LAMBDA k : V!reverse(vec))
ReverseVectorX == OnVector([op : {"reverse!"}], LAMBDA k : V!reverseX(vec))
CopyVector ==
  OnVector([op : {"copy-sequence"}, p : Places], LAMBDA k : V!copyOf(vec, k.p[1], k.p[2]))
ConcatenateVectors ==
  OnVector([op : {"concatenate"}, w : Other], LAMBDA k : V!concatenate2(vec, k.w))
ReplaceSubsequence ==
  OnVector([op : {"replace-subsequence!"}, w : Other, p : Places],
           LAMBDA k : V!replace_subsequenceX(vec, k.w, k.p[1], k.p[2]))

\* Calls that are not about the vector.
OnOthers(c, f(_)) == vec = <<>> /\ OnVector(c, f)

\* Ranges that step, with a bound, a size, both or neither.
Number == -Bound..Bound
Option(S) == {{}} \cup {{n} : n \in S}
Stepping ==
  {R!range(0, by, t, {}, {}, s) : by \in Number \ {0}, t \in Option(Number), s \in Option(0..Bound)}
Bounded == {r \in Stepping : r.size # {}}
Filled == {r \in Bounded : r.size # {0}}

RangeElements == OnOthers([op : {"range"}, r : Bounded], LAMBDA k : R!elements(k.r))
ReverseRange == OnOthers([op : {"reverse range"}, r : Filled], LAMBDA k : R!elements(R!reverse(k.r)))
ReverseRangeX == OnOthers([op : {"reverse range"}, r : Filled], LAMBDA k : R!elements(R!reverseX(k.r)))
RangeMember ==
  OnOthers([op : {"range member?"}, r : Stepping, x : Number], LAMBDA k : R!member(k.r, k.x))
CopyRange ==
  OnOthers({k \in [op : {"copy range"}, r : {r \in Filled : r.to # {}}, start : 0..Bound,
                  finish : Option(0..Bound)] :
             \A s \in k.r.size : \A f \in {s - 1} \cup k.finish : k.start <= f /\ f < s},
          LAMBDA k : R!elements(R!copy_sequence(k.r, k.start, k.finish)))

\* Arrays of up to three dimensions, and the indices of one dimension too much or too large.
Dims == UNION {[1..n -> 1..3] : n \in 1..3}
Indices == UNION {[1..n -> 0..3] : n \in 1..3}

ArefSetter ==
  OnOthers([op : {"aref-setter"}, dims : Dims, at : Indices],
          LAMBDA k : A!array_ref_setter(A!array_make(k.dims, 0), k.at, 1))

VectorCalls ==
  \/ Sort \/ ReverseVector \/ ReverseVectorX \/ CopyVector \/ ConcatenateVectors
  \/ ReplaceSubsequence \/ RangeElements \/ ReverseRange
  \/ ReverseRangeX \/ RangeMember \/ CopyRange \/ ArefSetter

Next == ListsSteps \/ VectorCalls

\* A walk begun goes on: nothing else runs while it does.
FairSpec == Init /\ [][Next]_vars /\ WF_vars(LengthSteps)

----------------------------------------------------------------------------
AsSeq(v) == [i \in 1..V!sizeOf(v) |-> v[i - 1]]

Sorted(s, t, stable) ==
  /\ ToSet(t) = ToSet(s) /\ Len(t) = Len(s)
  /\ \A i, j \in DOMAIN t : i < j =>
       /\ t[i].key <= t[j].key
       /\ stable /\ t[i].key = t[j].key => t[i].at < t[j].at

\* Between the bounds lies a whole number of steps, or at least one.
Spans(r) == \A to \in r.to : LET d == to - r.from IN d * r.by >= 0 \/ d * d >= r.by * r.by

Through(r, x) == (x - r.from) * r.by >= 0 /\ (x - r.from) % (IF r.by < 0 THEN -r.by ELSE r.by) = 0

InDims(at, dims) == Len(at) = Len(dims) /\ \A k \in DOMAIN at : at[k] < dims[k]

\* Vectors, ranges and arrays: a sort gives the same elements, in order, and those with equal keys as
\* they were where stable: asks for it; a range holds the numbers of its steps up to its
\* bound; an element of an array has a place of its own; the others give the sequence that
\* they are named for.
SequencesAnswer ==
  LET c == call
      s == AsSeq(vec)
      x == R!elements(c.r)
  IN  Len(before) = 0 /\ c # NoCall =>
        CASE c.op = "sort!" ->
               IF s = <<>> /\ ~c.stable THEN val = Failed ELSE Sorted(s, AsSeq(val), c.stable)
          [] c.op \in {"reverse", "reverse!"} -> AsSeq(val) = Reverse(s)
          [] c.op = "copy-sequence" -> AsSeq(val) = SubSeq(s, c.p[1] + 1, c.p[2])
          [] c.op = "concatenate"   -> AsSeq(val) = s \o AsSeq(c.w)
          [] c.op = "replace-subsequence!" ->
               AsSeq(val) = SubSeq(s, 1, c.p[1]) \o AsSeq(c.w) \o SubSeq(s, c.p[2] + 1, Len(s))
          [] c.op = "range" /\ Spans(c.r) ->
               /\ \A i \in DOMAIN val : val[i] = c.r.from + c.r.by * (i - 1)
               /\ \A to \in c.r.to : ToSet(val) = {n \in Number : Through(c.r, n) /\ (to - n) * c.r.by >= 0}
               /\ c.r.to = {} => c.r.size = {Len(val)}
          [] c.op = "range member?" ->
               val = IF c.r.size = {} THEN Through(c.r, c.x) ELSE c.x \in ToSet(x)
          [] c.op = "reverse range" -> val = Reverse(x)
          [] c.op = "copy range" ->
               val = SubSeq(x, c.start + 1, IF c.finish = {} THEN Len(x) ELSE CHOOSE f \in c.finish : TRUE)
          [] c.op = "aref-setter" ->
               IF val = Failed THEN ~ InDims(c.at, c.dims)
               ELSE \A at \in Indices :
                      A!array_ref(val, at) =
                        IF ~ InDims(at, c.dims) THEN Failed ELSE IF at = c.at THEN 1 ELSE 0
          [] OTHER -> TRUE
=============================================================================
