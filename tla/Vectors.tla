------------------------------ MODULE Vectors ------------------------------
(***************************************************************************)
(* Vectors (vector.c, vector.dyl) and the operations of sequences written  *)
(* in Dylan (init.dylan:802), for those that are vectors: functions from   *)
(* 0..size-1.  A vector holds records, and test: looks at their keys.      *)
(***************************************************************************)
LOCAL INSTANCE Integers
LOCAL INSTANCE FiniteSets
LOCAL INSTANCE FiniteSetsExt

CONSTANT Failed

sizeOf(v) == Cardinality(DOMAIN v)
make_vector(n, fill) == [i \in 0..n - 1 |-> fill]
Swapped(v, i, j) == [v EXCEPT ![i] = v[j], ![j] = v[i]]
test(x, y) == x.key < y.key

----------------------------------------------------------------------------
(* sort!                                                                   *)

\* Slip: equal elements pass each other.
insertedBefore(a, i) ==
  LET j == Max({-1} \cup {k \in 0..i - 1 : test(a[k], a[i])})
  IN  [k \in DOMAIN a |-> IF k = j + 1 THEN a[i] ELSE IF k \in j + 2..i THEN a[k - 1] ELSE a[k]]

\* a[i] moves in front of the elements before it that it is smaller than, up to the first
\* that it is not.
inserted(a, i) ==
  LET j == Max({-1} \cup {k \in 0..i - 1 : ~test(a[i], a[k])})
  IN  [k \in DOMAIN a |-> IF k = j + 1 THEN a[i] ELSE IF k \in j + 2..i THEN a[k - 1] ELSE a[k]]

RECURSIVE insertion_sort(_, _)
insertion_sort(a, i) ==
  IF i < sizeOf(a) THEN insertion_sort(inserted(a, i), i + 1) ELSE a

\* until (i > j): both ends move to elements that are on the wrong side of x, and these
\* change places.
RECURSIVE partition(_, _, _, _)
partition(a, i, j, x) ==
  IF i > j THEN [a |-> a, i |-> i, j |-> j]
  ELSE LET i1 == Min({k \in i..sizeOf(a) - 1 : ~test(a[k], x)})
           j1 == Max({k \in 0..j : ~test(x, a[k])})
       IN  IF i1 <= j1 THEN partition(Swapped(a, i1, j1), i1 + 1, j1 - 1, x)
           ELSE partition(a, i1, j1, x)

RECURSIVE sort_partition(_, _, _)
sort_partition(a, l, r) ==
  LET p    == partition(a, l, r, a[(l + r) \div 2])
      left == IF l < p.j THEN sort_partition(p.a, l, p.j) ELSE p.a
  IN  IF p.i < r THEN sort_partition(left, p.i, r) ELSE left

\* A vector without elements has no element in its middle.
quicksort(a) ==
  IF sizeOf(a) = 0 THEN Failed ELSE sort_partition(a, 0, sizeOf(a) - 1)

sortX(a, stable) ==
  IF stable THEN insertion_sort(a, 1) ELSE quicksort(a)

----------------------------------------------------------------------------
(* The others.                                                             *)

RECURSIVE reversed(_, _)
reversed(v, i) ==
  IF i < sizeOf(v) \div 2 THEN reversed(Swapped(v, i, sizeOf(v) - i - 1), i + 1) ELSE v

reverseX(v) == reversed(v, 0)
reverse(v) == [i \in DOMAIN v |-> v[sizeOf(v) - i - 1]]

copyOf(v, start, finish) ==
  IF finish > sizeOf(v) THEN Failed ELSE [i \in 0..finish - start - 1 |-> v[start + i]]

concatenate2(v, w) ==
  [i \in 0..sizeOf(v) + sizeOf(w) - 1 |-> IF i < sizeOf(v) THEN v[i] ELSE w[i - sizeOf(v)]]

\* What is behind limit moves by delta; of the same size, the vector itself is changed.
replace_subsequenceX(v, w, start, limit) ==
  LET delta == sizeOf(w) - (limit - start)
  IN  [i \in 0..sizeOf(v) + delta - 1 |->
         IF i < start THEN v[i]
         ELSE IF i < start + sizeOf(w) THEN w[i - start] ELSE v[i - delta]]
=============================================================================
