------------------------------- MODULE Arrays -------------------------------
(***************************************************************************)
(* Arrays (array.c): elements in one block, found by row.  An array is     *)
(* [dims, els]; an index that is not one of the array is Failed.           *)
(***************************************************************************)
LOCAL INSTANCE Integers
LOCAL INSTANCE Sequences
LOCAL INSTANCE SequencesExt

CONSTANT Failed

\* marlais_make_array_entry
array_make(dims, fill) ==
  [dims |-> dims,
   els  |-> [i \in 0..FoldLeft(LAMBDA n, d : n * d, 1, dims) - 1 |-> fill]]

\* From the last index to the first, each by the size of what is behind it.
array_index(arr, indices) ==
  IF \/ Len(indices) # Len(arr.dims)
     \/ \E k \in DOMAIN indices : indices[k] \notin 0..arr.dims[k] - 1
  THEN Failed
  ELSE FoldRight(LAMBDA k, r : [offset |-> r.offset + indices[k] * r.stride,
                                stride |-> r.stride * arr.dims[k]],
                 [k \in DOMAIN indices |-> k], [offset |-> 0, stride |-> 1]).offset

array_ref(arr, indices) ==
  LET i == array_index(arr, indices) IN IF i = Failed THEN Failed ELSE arr.els[i]

array_ref_setter(arr, indices, val) ==
  LET i == array_index(arr, indices) IN IF i = Failed THEN Failed ELSE [arr EXCEPT !.els[i] = val]
=============================================================================
