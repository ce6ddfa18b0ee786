------------------------------- MODULE Ranges -------------------------------
(***************************************************************************)
(* Ranges (init.dylan:1704): sequences that are computed, of which some    *)
(* have no end.  An attribute is {} for #f and {n} for n.  default stands  *)
(* for the element that is not there.                                      *)
(***************************************************************************)
LOCAL INSTANCE Integers
LOCAL INSTANCE FiniteSetsExt
LOCAL INSTANCE Sequences

NoElement == {}

\* truncate/
Truncated(a, b) ==
  LET q == (IF a < 0 THEN -a ELSE a) \div (IF b < 0 THEN -b ELSE b)
  IN  IF (a < 0) = (b < 0) THEN q ELSE -q

bmax(x, y) == IF x = {} THEN {y} ELSE {Max(x \cup {y})}

initialize(r) ==
  LET span(bound) == Truncated((CHOOSE b \in bound : TRUE) - r.from, r.by)
      withTo == IF r.to = {} THEN r.size ELSE {span(r.to) + 1}
      withAbove == IF r.above = {} THEN withTo
                   ELSE IF r.by < 0 THEN bmax(withTo, span(r.above)) ELSE {0}
      withBelow == IF r.below = {} THEN withAbove
                   ELSE IF r.by > 0 THEN bmax(withAbove, span(r.below)) ELSE {0}
  IN  [r EXCEPT !.size = IF r.by = 0 THEN {} ELSE {Max({s, 0}) : s \in withBelow}]

range(from, by, to, above, below, size) ==
  initialize([from |-> from, by |-> by, to |-> to, above |-> above, below |-> below, size |-> size])

element(r, index) ==
  IF index < 0 \/ \E s \in r.size : index >= s THEN NoElement ELSE {r.from + r.by * index}

member(r, value) == element(r, Truncated(value - r.from, r.by)) = {value}

copy_sequence(r, start, finish) ==
  LET from == CHOOSE x \in element(r, start) : TRUE
  IN  IF finish = {} THEN range(from, r.by, r.to, r.above, r.below, {})
      ELSE LET end == element(r, CHOOSE f \in finish : TRUE)
           IN  IF r.by < 0 THEN range(from, r.by, {}, end, {}, {}) ELSE range(from, r.by, {}, {}, end, {})

\* last of a range of some size; the attributes are dropped, the size is kept.
last(r) == r.from + r.by * ((CHOOSE s \in r.size : TRUE) - 1)
reverse(r) == range(last(r), -r.by, {}, {}, {}, r.size)
reverseX(r) == [r EXCEPT !.from = last(r), !.by = -r.by, !.above = {}, !.to = {}, !.below = {}]

\* What a loop over the range goes through, from a state on.
RECURSIVE walk(_, _)
walk(r, state) ==
  LET x == element(r, state)
  IN  IF x = NoElement THEN <<>> ELSE <<CHOOSE e \in x : TRUE>> \o walk(r, state + 1)

elements(r) == walk(r, 0)
=============================================================================
