---------------------------- MODULE ListProofs ----------------------------
(***************************************************************************)
(* Theorems about lists, of every heap.  A call gives the sequence or the  *)
(* answer its operation is named for (ListsAnswer); it changes and shares  *)
(* no pair but those it may (OthersKept); and list_length leaves the heap  *)
(* as it found it (HeapRestored), though it turns the tails round.         *)
(*                                                                         *)
(* An operation on lists is a fold over the places of its argument.  Made  *)
(* says what such a fold does to a heap: it adds the pairs of a list, and  *)
(* leaves those there are alone.  What each operation makes follows from   *)
(* lemmas about Made and about what is kept of a sequence; the ones that   *)
(* change pairs there are, and list_length, have lemmas of their own.      *)
(***************************************************************************)
EXTENDS ListCalls, NatFacts, SequenceTheorems

----------------------------------------------------------------------------
(* Heaps and tails.                                                        *)

\* A heap of lists: what a pair holds is an element, its tail a pair of the heap, the empty
\* list or an element.
Ref(h)   == 0..Len(h) \cup Element
Cell(n)  == [car : Element, cdr : 0..n \cup Element]
Sound(h) == h \in Seq(Cell(Len(h)))

\* A step along a list.
Behind(h, x) == IF PAIRP(h, x) THEN CDR(h, x) ELSE x

\* What every pair of a sound heap is.
LEMMA SoundHeap ==
  ASSUME NEW h, Sound(h)
  PROVE  /\ Len(h) \in Nat /\ DOMAIN h = 1..Len(h)
         /\ \A x \in DOMAIN h : /\ x \in Ref(h) /\ CAR(h, x) \in Element /\ CDR(h, x) \in Ref(h)
                                /\ h[x] = [car |-> CAR(h, x), cdr |-> CDR(h, x)]
         /\ \A x : PAIRP(h, x) <=> x \in 1..Len(h)
         /\ Nil \in Ref(h) /\ ~PAIRP(h, Nil)
<1>1. Len(h) \in Nat /\ DOMAIN h = 1..Len(h) /\ \A x \in 1..Len(h) : h[x] \in Cell(Len(h))
  BY LenProperties, ElementOfSeq DEF Sound
<1> QED
  BY <1>1 DEF Cell, CAR, CDR, PAIRP, Nil, Ref

\* A step along a list leads to an object of the heap.
LEMMA BehindRef ==
  ASSUME NEW h, Sound(h), NEW x \in Ref(h)
  PROVE  Behind(h, x) \in Ref(h)
BY SoundHeap DEF Behind, PAIRP

\* Tail_n goes along a list step by step.
LEMMA TailIs ==
  ASSUME NEW h, Sound(h), NEW l \in Ref(h), NEW n \in Nat
  PROVE  \E f \in [0..n -> Ref(h)] :
           /\ f[0] = l /\ \A i \in 1..n : f[i] = Behind(h, f[i-1])
           /\ f[n] = Tail_n(h, l, n)
<1> DEFINE After(f) == [i \in 0..n |-> IF i = 0 THEN l ELSE Behind(h, f[i-1])]
           rest == CHOOSE f : f = After(f)
<1>1. PICK g \in [0..n -> Ref(h)] : g[0] = l /\ \A i \in 1..n : g[i] = Behind(h, g[i-1])
  <2> DEFINE step == [a \in (1..n) \X Ref(h) |-> Behind(h, a[2])]
  <2>1. step \in [(1..n) \X Ref(h) -> Ref(h)]
    BY BehindRef
  <2>2. PICK g : g \in Iteration(n, Ref(h), l, step)
    <3> HIDE DEF step
    <3> QED BY <2>1, Iterates
  <2>3. \A i \in 1..n : g[i-1] \in Ref(h)
    BY <2>2 DEF Iteration
  <2>4. \A i \in 1..n : step[<<i, g[i-1]>>] = Behind(h, g[i-1])
    BY <2>3
  <2> HIDE DEF step
  <2> QED BY <2>2, <2>4 DEF Iteration
<1>2. g = After(g)
  <2>1. \A i \in 0..n : g[i] = IF i = 0 THEN l ELSE Behind(h, g[i-1])
    <3> \A i \in 0..n : i = 0 \/ i \in 1..n
      OBVIOUS
    <3> QED BY <1>1
  <2>2. g = [i \in 0..n |-> g[i]]
    BY <1>1
  <2> HIDE DEF Behind
  <2> QED BY <2>1, <2>2
<1>3. rest = After(rest)
  <2> HIDE DEF After
  <2> QED BY <1>2
<1>4. Tail_n(h, l, n) = rest[n]
  BY DEF Tail_n, Behind
<1> HIDE DEF rest
<1>5. rest[0] = l /\ \A i \in 1..n : rest[i] = Behind(h, rest[i-1])
  <2>1. 0 \in 0..n /\ \A i \in 1..n : i \in 0..n /\ i # 0
    OBVIOUS
  <2> HIDE DEF Behind
  <2> QED BY <1>3, <2>1
<1>6. AlikeUpTo(n, g, rest)
  <2> HIDE DEF After
  <2>1. GoAlike(n, g, rest)
    BY <1>1, <1>5 DEF GoAlike
  <2> QED BY <2>1, Alike
<1>7. g[n] = rest[n]
  BY <1>6 DEF AlikeUpTo
<1> QED BY <1>1, <1>4, <1>7

\* Tail_n by its steps, which is how the proofs use it.
LEMMA TailSteps ==
  ASSUME NEW h, Sound(h), NEW l \in Ref(h)
  PROVE  /\ Tail_n(h, l, 0) = l
         /\ \A n \in Nat : /\ Tail_n(h, l, n) \in Ref(h)
                           /\ Tail_n(h, l, n + 1) = Behind(h, Tail_n(h, l, n))
<1>1. Tail_n(h, l, 0) = l
  <2>0. 0 \in Nat
    OBVIOUS
  <2>1. \E f \in [0..0 -> Ref(h)] :
          f[0] = l /\ (\A i \in 1..0 : f[i] = Behind(h, f[i-1])) /\ f[0] = Tail_n(h, l, 0)
    BY <2>0, TailIs, ZenonT(30)
  <2> PICK f \in [0..0 -> Ref(h)] : f[0] = l /\ f[0] = Tail_n(h, l, 0)
    BY <2>1, ZenonT(30)
  <2> QED OBVIOUS
<1>2. ASSUME NEW n \in Nat
      PROVE  Tail_n(h, l, n) \in Ref(h) /\ Tail_n(h, l, n + 1) = Behind(h, Tail_n(h, l, n))
  <2>1. PICK f \in [0..n -> Ref(h)] : /\ f[0] = l /\ \A i \in 1..n : f[i] = Behind(h, f[i-1])
                                      /\ f[n] = Tail_n(h, l, n)
    BY TailIs
  <2>2. PICK g \in [0..n+1 -> Ref(h)] : /\ g[0] = l /\ \A i \in 1..n+1 : g[i] = Behind(h, g[i-1])
                                        /\ g[n+1] = Tail_n(h, l, n+1)
    <3> DEFINE m == n + 1
    <3>1. m \in Nat
      OBVIOUS
    <3> HIDE DEF m
    <3>2. \E g \in [0..m -> Ref(h)] : /\ g[0] = l /\ \A i \in 1..m : g[i] = Behind(h, g[i-1])
                                     /\ g[m] = Tail_n(h, l, m)
      BY <3>1, TailIs
    <3> QED BY <3>2 DEF m
  <2>3. AlikeUpTo(n, f, g)
    <3>1. GoAlike(n, f, g)
      BY <2>1, <2>2 DEF GoAlike
    <3> QED BY <3>1, Alike
  <2>4. f[n] = g[n]
    BY <2>3 DEF AlikeUpTo
  <2>5. g[n+1] = Behind(h, g[n])
    <3> n+1 \in 1..n+1 /\ (n+1)-1 = n
      OBVIOUS
    <3> QED BY <2>2
  <2> QED BY <2>1, <2>2, <2>4, <2>5
<1> QED BY <1>1, <1>2

\* Any walk is this one.
LEMMA TailUnique ==
  ASSUME NEW h, Sound(h), NEW l \in Ref(h), NEW n \in Nat, NEW f,
         f[0] = l, \A i \in 1..n : f[i] = Behind(h, f[i-1])
  PROVE  \A i \in 0..n : f[i] = Tail_n(h, l, i)
<1> DEFINE g == [i \in 0..n |-> Tail_n(h, l, i)]
<1>1. g[0] = l /\ \A i \in 1..n : g[i] = Behind(h, g[i-1])
  <2>1. 0 \in 0..n /\ \A i \in 1..n : i \in 0..n /\ i-1 \in 0..n /\ i-1 \in Nat /\ (i-1)+1 = i
    OBVIOUS
  <2> HIDE DEF Behind
  <2> QED BY <2>1, TailSteps
<1>2. AlikeUpTo(n, f, g)
  <2>1. GoAlike(n, f, g)
    <3> HIDE DEF g
    <3> QED BY <1>1 DEF GoAlike
  <2> QED BY <2>1, Alike
<1> QED BY <1>2 DEF AlikeUpTo

\* m tails and then n are m + n tails.
LEMMA TailAdds ==
  ASSUME NEW h, Sound(h), NEW l \in Ref(h), NEW m \in Nat, NEW n \in Nat
  PROVE  Tail_n(h, Tail_n(h, l, m), n) = Tail_n(h, l, m + n)
<1> DEFINE f == [i \in 0..n |-> Tail_n(h, l, m + i)]
<1>1. Tail_n(h, l, m) \in Ref(h)
  BY TailSteps
<1>2. f[0] = Tail_n(h, l, m)
  BY 0 \in 0..n /\ m + 0 = m
<1>3. \A i \in 1..n : f[i] = Behind(h, f[i-1])
  <2>1. \A i \in 1..n : i \in 0..n /\ i-1 \in 0..n /\ m+(i-1) \in Nat /\ (m+(i-1))+1 = m+i
    OBVIOUS
  <2> HIDE DEF Behind
  <2> QED BY <2>1, TailSteps
<1> HIDE DEF f
<1>4. f[n] = Tail_n(h, Tail_n(h, l, m), n)
  BY <1>1, <1>2, <1>3, TailUnique
<1> QED BY <1>4 DEF f

\* Behind its end a list goes no further.
LEMMA TailStays ==
  ASSUME NEW h, Sound(h), NEW l \in Ref(h), NEW m \in Nat, NEW n \in Nat, m <= n,
         ~PAIRP(h, Tail_n(h, l, m))
  PROVE  Tail_n(h, l, n) = Tail_n(h, l, m)
<1> DEFINE x == Tail_n(h, l, m)
           f == [i \in 0..n |-> x]
<1>1. x \in Ref(h) /\ n - m \in 0..n /\ m + (n - m) = n /\ n - m \in Nat
  BY TailSteps
<1>2. f[0] = x /\ \A i \in 1..n : f[i] = Behind(h, f[i-1])
  BY DEF Behind
<1> HIDE DEF f
<1>3. f[n - m] = Tail_n(h, x, n - m)
  BY <1>1, <1>2, TailUnique
<1>4. Tail_n(h, x, n - m) = Tail_n(h, l, n)
  BY <1>1, TailAdds
<1> QED BY <1>1, <1>3, <1>4 DEF f

(* Lists that end.                                                         *)

\* l has k pairs; all that follows is its end.
Ends(h, l, k) ==
  /\ k \in 0..Len(h)
  /\ \A n \in 0..k-1 : PAIRP(h, Tail_n(h, l, n))
  /\ ~PAIRP(h, Tail_n(h, l, k))

\* The operators about lists, of one whose end is found: no other has been.
LEMMA EndsHave ==
  ASSUME NEW h, Sound(h), NEW l \in Ref(h), NEW k, Ends(h, l, k)
  PROVE  /\ size(h, l) = k /\ ~Endless(h, l)
         /\ Pairs(h, l) = {Tail_n(h, l, n) : n \in 0..k-1}
         /\ Proper(h, l) <=> Tail_n(h, l, k) = Nil
         /\ Spine(h, l) = [i \in 1..k |-> Tail_n(h, l, i - 1)]
         /\ Contents(h, l) = [i \in 1..k |-> CAR(h, Tail_n(h, l, i - 1))]
<1> DEFINE T(n) == Tail_n(h, l, n)
<1>1. Len(h) \in Nat /\ k \in 0..Len(h) /\ k \in Nat /\ ~PAIRP(h, T(k)) /\ \A n \in 0..k-1 : PAIRP(h, T(n))
  BY SoundHeap DEF Ends
<1>2. \A n \in Nat : n >= k => T(n) = T(k)
  BY <1>1, TailStays
<1> HIDE DEF T
<1>3. size(h, l) = k
  <2>1. {n \in 0..Len(h) - 1 : PAIRP(h, T(n))} = 0..k-1
    <3>1. \A n \in 0..Len(h)-1 : n \in 0..k-1 \/ n >= k
      BY <1>1
    <3>2. \A n \in 0..k-1 : n \in 0..Len(h)-1
      BY <1>1
    <3> QED BY <1>1, <1>2, <3>1, <3>2
  <2>2. Cardinality(0..k-1) = k
    BY <1>1, FS_Interval
  <2> QED BY <2>1, <2>2 DEF size, T
<1>4. ~Endless(h, l)
  BY <1>1 DEF Endless, T
<1>5. Pairs(h, l) = {T(n) : n \in 0..k-1}
  <2>1. \A n \in 0..Len(h) : n \in 0..k-1 \/ n >= k
    BY <1>1
  <2>2. \A n \in 0..k-1 : n \in 0..Len(h)
    BY <1>1
  <2> QED BY <1>1, <1>2, <2>1, <2>2 DEF Pairs, T, PAIRP
<1>6. Proper(h, l) <=> T(k) = Nil
  <2>1. ASSUME NEW n \in 0..Len(h), T(n) = Nil PROVE T(k) = Nil
    <3>1. ~PAIRP(h, T(n))
      BY <2>1, SoundHeap
    <3>2. n >= k
      BY <1>1, <3>1
    <3> QED BY <1>2, <2>1, <3>2
  <2> QED BY <1>1, <2>1 DEF Proper, T
<1> QED BY <1>3, <1>4, <1>5, <1>6 DEF Spine, Contents, T

\* A list that is not endless has an end, behind its size.
LEMMA EndFound ==
  ASSUME NEW h, Sound(h), NEW l \in Ref(h), ~Endless(h, l)
  PROVE  Ends(h, l, size(h, l))
<1> DEFINE S == {n \in 0..Len(h) : ~PAIRP(h, Tail_n(h, l, n))}
<1>1. S # {} /\ S \subseteq Nat
  BY SoundHeap DEF Endless
<1>2. PICK k \in S : \A j \in S : k <= j
  <2> HIDE DEF S
  <2> QED BY <1>1, MinExists
<1>3. Ends(h, l, k)
  <2>1. \A n \in 0..k-1 : n \in 0..Len(h) /\ ~(k <= n)
    BY SoundHeap
  <2> QED BY <1>2, <2>1 DEF Ends
<1> QED BY <1>3, EndsHave

\* No pair of a list that ends is there twice.
LEMMA TailsDiffer ==
  ASSUME NEW h, Sound(h), NEW l \in Ref(h), NEW k, Ends(h, l, k), NEW i \in 0..k-1, NEW j \in 0..k-1,
         Tail_n(h, l, i) = Tail_n(h, l, j)
  PROVE  i = j
<1> SUFFICES ASSUME NEW m \in 0..k-1, NEW n \in 0..k-1, m < n, Tail_n(h, l, m) = Tail_n(h, l, n)
             PROVE  FALSE
  <2> i \in Nat /\ j \in Nat
    OBVIOUS
  <2> QED OBVIOUS
<1>1. k \in Nat /\ m \in Nat /\ n \in Nat /\ k - n \in Nat /\ n + (k - n) = k
  BY SoundHeap DEF Ends
<1>2. Tail_n(h, l, m + (k - n)) = Tail_n(h, l, k)
  <2> DEFINE d == k - n
  <2>1. d \in Nat /\ n + d = k
    BY <1>1
  <2> HIDE DEF d
  <2>2. Tail_n(h, Tail_n(h, l, m), d) = Tail_n(h, l, m + d)
    BY <1>1, <2>1, TailAdds
  <2>3. Tail_n(h, Tail_n(h, l, n), d) = Tail_n(h, l, n + d)
    BY <1>1, <2>1, TailAdds
  <2> QED BY <2>1, <2>2, <2>3 DEF d
<1>3. m + (k - n) \in 0..k-1
  BY <1>1
<1> QED BY <1>2, <1>3 DEF Ends

\* All of a list that ends.
LEMMA SpineOf ==
  ASSUME NEW h, Sound(h), NEW l \in Ref(h), ~Endless(h, l)
  PROVE  /\ size(h, l) \in Nat
         /\ Spine(h, l) \in Seq(DOMAIN h) /\ Len(Spine(h, l)) = size(h, l)
         /\ Contents(h, l) \in Seq(Element) /\ Len(Contents(h, l)) = size(h, l)
         /\ Pairs(h, l) = {Spine(h, l)[i] : i \in 1..size(h, l)}
         /\ \A i \in 1..size(h, l) : /\ Spine(h, l)[i] = Tail_n(h, l, i - 1)
                                     /\ Contents(h, l)[i] = CAR(h, Spine(h, l)[i])
                                     /\ CDR(h, Spine(h, l)[i]) = Tail_n(h, l, i)
         /\ \A i, j \in 1..size(h, l) : Spine(h, l)[i] = Spine(h, l)[j] => i = j
<1> DEFINE k == size(h, l)
<1>1. Ends(h, l, k)
  BY EndFound
<1>2. k \in Nat /\ \A i \in 1..k : i - 1 \in 0..k-1 /\ (i-1)+1 = i /\ i-1 \in Nat
  BY <1>1, SoundHeap DEF Ends
<1>3. \A i \in 1..k : PAIRP(h, Tail_n(h, l, i-1))
  BY <1>1, <1>2 DEF Ends
<1>4. \A i \in 1..k : CDR(h, Tail_n(h, l, i-1)) = Tail_n(h, l, i)
  BY <1>2, <1>3, TailSteps DEF Behind
<1>5. Spine(h, l) = [i \in 1..k |-> Tail_n(h, l, i-1)] /\ Contents(h, l) = [i \in 1..k |-> CAR(h, Tail_n(h, l, i-1))]
      /\ Pairs(h, l) = {Tail_n(h, l, n) : n \in 0..k-1}
  BY <1>1, EndsHave
<1>6. \A i, j \in 1..k : Tail_n(h, l, i-1) = Tail_n(h, l, j-1) => i = j
  <2> SUFFICES ASSUME NEW i \in 1..k, NEW j \in 1..k, Tail_n(h, l, i-1) = Tail_n(h, l, j-1) PROVE i = j
    OBVIOUS
  <2>1. i - 1 = j - 1
    BY <1>1, <1>2, TailsDiffer
  <2> QED BY <2>1
<1> HIDE DEF k
<1>7. \A i \in 1..k : Tail_n(h, l, i-1) \in DOMAIN h /\ CAR(h, Tail_n(h, l, i-1)) \in Element
  BY <1>3, SoundHeap DEF PAIRP
<1>8. Spine(h, l) \in [1..k -> DOMAIN h] /\ Contents(h, l) \in [1..k -> Element]
  BY <1>5, <1>7
<1>9. Spine(h, l) \in Seq(DOMAIN h) /\ Len(Spine(h, l)) = k /\ Contents(h, l) \in Seq(Element) /\ Len(Contents(h, l)) = k
  BY <1>2, <1>8
<1>10. Pairs(h, l) = {Spine(h, l)[i] : i \in 1..k}
  <2>1. \A n \in 0..k-1 : n + 1 \in 1..k /\ (n + 1) - 1 = n
    BY <1>2
  <2>2. \A n \in 0..k-1 : Tail_n(h, l, n) = Spine(h, l)[n+1]
    BY <1>5, <2>1
  <2>3. \A i \in 1..k : Spine(h, l)[i] = Tail_n(h, l, i-1)
    BY <1>5
  <2>4. {Tail_n(h, l, n) : n \in 0..k-1} = {Spine(h, l)[i] : i \in 1..k}
    <3>1. ASSUME NEW n \in 0..k-1 PROVE Tail_n(h, l, n) \in {Spine(h, l)[i] : i \in 1..k}
      BY <2>1, <2>2
    <3>2. ASSUME NEW i \in 1..k PROVE Spine(h, l)[i] \in {Tail_n(h, l, n) : n \in 0..k-1}
      BY <1>2, <2>3
    <3> QED BY <3>1, <3>2
  <2> QED BY <1>5, <2>4
<1>11. \A i \in 1..k : /\ Spine(h, l)[i] = Tail_n(h, l, i - 1)
                       /\ Contents(h, l)[i] = CAR(h, Spine(h, l)[i])
                       /\ CDR(h, Spine(h, l)[i]) = Tail_n(h, l, i)
  BY <1>4, <1>5
<1>12. \A i, j \in 1..k : Spine(h, l)[i] = Spine(h, l)[j] => i = j
  BY <1>6, <1>11
<1> QED BY <1>2, <1>9, <1>10, <1>11, <1>12 DEF k

----------------------------------------------------------------------------
(* Folds.                                                                  *)

\* The first and the last of a row of places.
LEMMA EndsOfRow ==
  ASSUME NEW n \in Nat, NEW i \in 1..n
  PROVE  /\ Min(i..n) = i /\ (i..n) \ {i} = i+1..n
         /\ Max(1..i) = i /\ (1..i) \ {i} = 1..i-1
         /\ i..n # {} /\ 1..i # {}
<1>1. i \in i..n /\ i \in 1..i /\ (\A j \in i..n : i <= j) /\ \A j \in 1..i : i >= j
  OBVIOUS
<1>2. \A m \in i..n : (\A j \in i..n : m <= j) => m = i
  BY <1>1
<1>3. \A m \in 1..i : (\A j \in 1..i : m >= j) => m = i
  BY <1>1
<1>4. Min(i..n) = i
  <2> HIDE DEF Min
  <2>1. Min(i..n) = CHOOSE x \in i..n : \A y \in i..n : x =< y
    BY DEF Min
  <2> QED BY <1>1, <1>2, <2>1
<1>5. Max(1..i) = i
  <2>1. Max(1..i) = CHOOSE x \in 1..i : \A y \in 1..i : x >= y
    BY DEF Max
  <2> QED BY <1>1, <1>3, <2>1
<1> QED BY <1>1, <1>4, <1>5

\* Min and Max of a set of places.
LEMMA MinMaxIn ==
  ASSUME NEW n \in Nat, NEW s \in SUBSET (1..n), s # {}
  PROVE  Min(s) \in s /\ Max(s) \in s
<1>1. s \subseteq Nat
  OBVIOUS
<1>2. \E x \in s : \A y \in s : x =< y
  BY <1>1, MinExists
<1>3. \E x \in s : \A y \in s : x >= y
  <2> DEFINE t == {n - x : x \in s}
  <2>0. PICK x \in s : TRUE
    OBVIOUS
  <2>1. t \subseteq Nat /\ t # {}
    <3>1. n - x \in t
      BY <2>0
    <3>2. \A y \in s : n - y \in Nat
      OBVIOUS
    <3> QED BY <3>1, <3>2
  <2>2. PICK m \in t : \A j \in t : m <= j
    <3> HIDE DEF t
    <3> QED BY <2>1, MinExists
  <2>3. PICK z \in s : m = n - z
    BY <2>2
  <2>4. \A y \in s : n - z <= n - y
    BY <2>2, <2>3
  <2>5. \A y \in s : z >= y
    <3>1. \A y \in s : y \in Nat
      OBVIOUS
    <3>2. z \in Nat
      BY <3>1
    <3> HIDE DEF t
    <3> QED BY <2>4, <3>1, <3>2
  <2> QED BY <2>5
<1> QED BY <1>2, <1>3 DEF Min, Max

\* A fold of the places 1..n that takes them as pick says.
Folds(n, base, step, pick, F) ==
  \A s \in SUBSET (1..n) : F[s] = IF s = {} THEN base ELSE step[<<pick[s], F[s \ {pick[s]}]>>]
\* pick takes a place of every set of them.
Picks(n, pick) == \A s \in SUBSET (1..n) : s # {} => pick[s] \in s

\* There is such a fold, whatever the order: what the recursive function of a fold is
\* chosen from.
LEMMA FoldExists ==
  ASSUME NEW n \in Nat, NEW D, NEW base \in D, NEW step \in [(1..n) \X D -> D],
         NEW pick, Picks(n, pick)
  PROVE  \E F \in [SUBSET (1..n) -> D] : Folds(n, base, step, pick, F)
<1> DEFINE B == SUBSET (1..n)
           E == [B -> D]
           More(g) == [s \in B |-> IF s = {} THEN base ELSE step[<<pick[s], g[s \ {pick[s]}]>>]]
           first == [s \in B |-> base]
           m == n + 1
<1>0. \A s \in B : s # {} => pick[s] \in s
  BY DEF Picks
<1>1. \A g \in E : More(g) \in E
  <2> SUFFICES ASSUME NEW g \in E, NEW s \in B, s # {} PROVE step[<<pick[s], g[s \ {pick[s]}]>>] \in D
    OBVIOUS
  <2>1. pick[s] \in 1..n /\ s \ {pick[s]} \in B
    BY <1>0
  <2>2. g[s \ {pick[s]}] \in D
    BY <2>1
  <2> QED BY <2>1, <2>2
<1>2. first \in E /\ m \in Nat
  OBVIOUS
<1> DEFINE next == [a \in (1..m) \X E |-> More(a[2])]
<1>3. next \in [(1..m) \X E -> E]
  <2> HIDE DEF More, E
  <2> QED BY <1>1
<1>4. PICK g : g \in Iteration(m, E, first, next)
  <2>1. first \in E /\ m \in Nat /\ next \in [(1..m) \X E -> E]
    BY <1>2, <1>3
  <2> HIDE DEF next, E, first, m
  <2>2. Iteration(m, E, first, next) # {}
    BY <2>1, Iterates
  <2> QED BY <2>2
<1>5. g \in [0..m -> E] /\ g[0] = first /\ \A i \in 1..m : g[i] = More(g[i-1])
  <2>1. g \in [0..m -> E] /\ g[0] = first /\ \A i \in 1..m : g[i] = next[<<i, g[i-1]>>]
    BY <1>4 DEF Iteration
  <2>2. \A i \in 1..m : i-1 \in 0..m
    OBVIOUS
  <2>3. \A i \in 1..m : g[i-1] \in E
    <3> HIDE DEF E
    <3> QED BY <2>1, <2>2
  <2> HIDE DEF More, E, first
  <2> QED BY <2>1, <2>3
<1>6. \A s \in B : IsFiniteSet(s) /\ Cardinality(s) \in 0..n
  <2> TAKE s \in B
  <2>1. IsFiniteSet(1..n) /\ Cardinality(1..n) = n
    BY FS_Interval
  <2> HIDE DEF B
  <2>3. s \subseteq 1..n
    BY DEF B
  <2>2. IsFiniteSet(s) /\ Cardinality(s) <= Cardinality(1..n)
    BY <2>1, <2>3, FS_Subset
  <2>4. Cardinality(s) \in Nat
    BY <2>2, FS_CardinalityType
  <2> QED BY <2>1, <2>2, <2>4
<1>7. \A s \in B : s # {} => Cardinality(s \ {pick[s]}) = Cardinality(s) - 1
  BY <1>0, <1>6, FS_RemoveElement
<1> DEFINE Settled(i) == \A s \in B : Cardinality(s) <= i => g[i][s] = g[i+1][s]
           t == [i \in 0..n |-> Settled(i)]
<1>8. t[0] \in {TRUE}
  <2>1. \A s \in B : Cardinality(s) <= 0 => s = {}
    <3> SUFFICES ASSUME NEW s \in B, Cardinality(s) <= 0 PROVE s = {}
      OBVIOUS
    <3> HIDE DEF B
    <3>1. IsFiniteSet(s) /\ Cardinality(s) = 0
      BY <1>6
    <3> QED BY <3>1, FS_EmptySet
  <2>2. g[1] = More(g[0])
    <3>1. 1 \in 1..m /\ 1-1 = 0
      OBVIOUS
    <3> HIDE DEF More, m
    <3> QED BY <1>5, <3>1
  <2>3. g[0][{}] = base /\ g[1][{}] = base
    <3> {} \in B
      OBVIOUS
    <3> QED BY <1>5, <2>2
  <2>4. 0 \in 0..n /\ 0+1 = 1
    OBVIOUS
  <2> HIDE DEF B
  <2> QED BY <2>1, <2>3, <2>4
<1>9. ASSUME NEW i \in 0+1..n, t[i-1] \in {TRUE} PROVE t[i] \in {TRUE}
  <2>1. i \in 0..n /\ i-1 \in 0..n /\ (i-1)+1 = i /\ i \in 1..m /\ i+1 \in 1..m /\ (i+1)-1 = i /\ i \in Nat
    OBVIOUS
  <2>2. Settled(i-1)
    BY <1>9, <2>1
  <2>3. g[i] = More(g[i-1]) /\ g[i+1] = More(g[i])
    <3> HIDE DEF More, m
    <3> QED BY <1>5, <2>1
  <2>4. ASSUME NEW s \in B, Cardinality(s) <= i PROVE g[i][s] = g[i+1][s]
    <3>1. CASE s = {}
      BY <2>3, <3>1
    <3>2. CASE s # {}
      <4> DEFINE u == s \ {pick[s]}
      <4>1. u \in B /\ Cardinality(u) <= i-1
        <5>1. u \in B
          OBVIOUS
        <5>2. Cardinality(u) = Cardinality(s) - 1 /\ Cardinality(s) \in 0..n
          BY <1>6, <1>7, <3>2
        <5> HIDE DEF B, u
        <5> QED BY <2>1, <2>4, <5>1, <5>2
      <4>2. g[i-1][u] = g[i][u]
        BY <2>1, <2>2, <4>1
      <4>3. g[i][s] = step[<<pick[s], g[i-1][u]>>] /\ g[i+1][s] = step[<<pick[s], g[i][u]>>]
        BY <2>3, <3>2
      <4> QED BY <4>2, <4>3
    <3> QED BY <3>1, <3>2
  <2>5. Settled(i)
    BY <2>4
  <2> HIDE DEF Settled
  <2> QED BY <2>1, <2>5
<1>10. t[n] \in {TRUE}
  <2>1. n \in 0..n
    OBVIOUS
  <2> HIDE DEF t
  <2> QED BY <1>8, <1>9, <2>1, Onwards
<1>11. Settled(n)
  <2> HIDE DEF Settled
  <2> QED BY <1>10
<1>12. g[n] = g[m]
  <2>1. n \in 0..m /\ m \in 0..m
    OBVIOUS
  <2>2. g[n] \in E /\ g[m] \in E
    <3> HIDE DEF E
    <3> QED BY <1>5, <2>1
  <2>3. \A s \in B : g[n][s] = g[m][s]
    BY <1>6, <1>11
  <2> QED BY <2>2, <2>3
<1>13. g[m] = More(g[n])
  <2>1. m \in 1..m /\ m-1 = n
    OBVIOUS
  <2> HIDE DEF More, m
  <2> QED BY <1>5, <2>1
<1>14. g[n] \in E
  BY <1>5, n \in 0..m
<1>15. \A s \in B : g[n][s] = IF s = {} THEN base ELSE step[<<pick[s], g[n][s \ {pick[s]}]>>]
  <2>1. g[n] = More(g[n])
    BY <1>12, <1>13
  <2> DEFINE F == g[n]
  <2>2. F = More(F)
    BY <2>1
  <2> HIDE DEF F
  <2>3. \A s \in B : F[s] = IF s = {} THEN base ELSE step[<<pick[s], F[s \ {pick[s]}]>>]
    BY <2>2
  <2> QED BY <2>3 DEF F
<1> QED BY <1>14, <1>15 DEF Folds

\* A fold that takes the last of the places first, and one that takes the first.
FoldedLeft(n, base, step, F) ==
  \A s \in SUBSET (1..n) : F[s] = IF s = {} THEN base ELSE step[<<Max(s), F[s \ {Max(s)}]>>]

\* There is one that takes the last place first, ...
LEMMA FoldsLeft ==
  ASSUME NEW n \in Nat, NEW D, NEW base \in D, NEW step \in [(1..n) \X D -> D]
  PROVE  \E F \in [SUBSET (1..n) -> D] : FoldedLeft(n, base, step, F)
<1> DEFINE pick == [s \in SUBSET (1..n) |-> Max(s)]
<1>1. \A s \in SUBSET (1..n) : pick[s] = Max(s)
  OBVIOUS
<1>2. \A s \in SUBSET (1..n) : s # {} => pick[s] \in s
  BY <1>1, MinMaxIn
<1> HIDE DEF pick
<1>3. PICK F \in [SUBSET (1..n) -> D] : \A s \in SUBSET (1..n) :
           F[s] = IF s = {} THEN base ELSE step[<<pick[s], F[s \ {pick[s]}]>>]
  <2>1. Picks(n, pick)
    BY <1>2 DEF Picks
  <2>2. \E F \in [SUBSET (1..n) -> D] : Folds(n, base, step, pick, F)
    BY <2>1, FoldExists
  <2> QED BY <2>2 DEF Folds
<1>4. \A s \in SUBSET (1..n) : F[s] = IF s = {} THEN base ELSE step[<<Max(s), F[s \ {Max(s)}]>>]
  BY <1>1, <1>3
<1> QED BY <1>4 DEF FoldedLeft

\* The first of the places first.
FoldedRight(n, base, step, F) ==
  \A s \in SUBSET (1..n) : F[s] = IF s = {} THEN base ELSE step[<<Min(s), F[s \ {Min(s)}]>>]

\* ... and one that takes the first.
LEMMA FoldsRight ==
  ASSUME NEW n \in Nat, NEW D, NEW base \in D, NEW step \in [(1..n) \X D -> D]
  PROVE  \E F \in [SUBSET (1..n) -> D] : FoldedRight(n, base, step, F)
<1> DEFINE pick == [s \in SUBSET (1..n) |-> Min(s)]
<1>1. \A s \in SUBSET (1..n) : pick[s] = Min(s)
  OBVIOUS
<1>2. \A s \in SUBSET (1..n) : s # {} => pick[s] \in s
  BY <1>1, MinMaxIn
<1> HIDE DEF pick
<1>3. PICK F \in [SUBSET (1..n) -> D] : \A s \in SUBSET (1..n) :
           F[s] = IF s = {} THEN base ELSE step[<<pick[s], F[s \ {pick[s]}]>>]
  <2>1. Picks(n, pick)
    BY <1>2 DEF Picks
  <2>2. \E F \in [SUBSET (1..n) -> D] : Folds(n, base, step, pick, F)
    BY <2>1, FoldExists
  <2> QED BY <2>2 DEF Folds
<1>4. \A s \in SUBSET (1..n) : F[s] = IF s = {} THEN base ELSE step[<<Min(s), F[s \ {Min(s)}]>>]
  BY <1>1, <1>3
<1> QED BY <1>4 DEF FoldedRight

(* The elements kept of a sequence.                                        *)

\* f[i] is what is kept of the first i.
Keeps(s, P, f) ==
  /\ f[0] = <<>>
  /\ \A i \in 1..Len(s) : f[i] = IF i \in P THEN Append(f[i-1], s[i]) ELSE f[i-1]

\* Kept by its steps.
LEMMA KeptIs ==
  ASSUME NEW S, NEW s \in Seq(S), NEW P
  PROVE  \E f \in [0..Len(s) -> Seq(S)] : Keeps(s, P, f) /\ f[Len(s)] = Kept(s, P)
<1> DEFINE n == Len(s)
           Step(r, i) == IF i \in P THEN Append(r, s[i]) ELSE r
           After(f) == [i \in 0..n |-> IF i = 0 THEN <<>> ELSE Step(f[i-1], i)]
           kept == CHOOSE f : f = After(f)
<1>1. n \in Nat /\ (\A i \in 1..n : s[i] \in S) /\ <<>> \in Seq(S)
  BY LenProperties, ElementOfSeq, EmptySeq
<1>2. PICK g \in [0..n -> Seq(S)] : g[0] = <<>> /\ \A i \in 1..n : g[i] = Step(g[i-1], i)
  <2> DEFINE step == [a \in (1..n) \X Seq(S) |-> Step(a[2], a[1])]
  <2>1. step \in [(1..n) \X Seq(S) -> Seq(S)]
    <3> SUFFICES ASSUME NEW i \in 1..n, NEW r \in Seq(S) PROVE Step(r, i) \in Seq(S)
      OBVIOUS
    <3> QED BY <1>1, AppendProperties
  <2>2. PICK g : g \in Iteration(n, Seq(S), <<>>, step)
    <3> HIDE DEF step, n
    <3> QED BY <1>1, <2>1, Iterates
  <2>3. \A i \in 1..n : g[i-1] \in Seq(S)
    <3> \A i \in 1..n : i-1 \in 0..n
      BY <1>1
    <3> QED BY <2>2 DEF Iteration
  <2>4. \A i \in 1..n : step[<<i, g[i-1]>>] = Step(g[i-1], i)
    BY <2>3
  <2> HIDE DEF step
  <2> QED BY <2>2, <2>4 DEF Iteration
<1>3. g = After(g)
  <2>1. \A i \in 0..n : i = 0 \/ i \in 1..n
    BY <1>1
  <2> HIDE DEF Step
  <2>2. \A i \in 0..n : g[i] = IF i = 0 THEN <<>> ELSE Step(g[i-1], i)
    BY <1>2, <2>1
  <2>3. g = [i \in 0..n |-> g[i]]
    BY <1>2
  <2> QED BY <2>2, <2>3
<1>4. kept = After(kept)
  <2> HIDE DEF After
  <2> QED BY <1>3
<1>5. Kept(s, P) = kept[n]
  BY DEF Kept
<1> HIDE DEF kept
<1>6. kept[0] = <<>> /\ \A i \in 1..n : kept[i] = Step(kept[i-1], i)
  <2>1. 0 \in 0..n /\ \A i \in 1..n : i \in 0..n /\ i # 0
    BY <1>1
  <2> HIDE DEF Step
  <2> QED BY <1>4, <2>1
<1>7. AlikeUpTo(n, g, kept)
  <2>1. GoAlike(n, g, kept)
    BY <1>2, <1>6 DEF GoAlike
  <2> HIDE DEF n
  <2> QED BY <1>1, <2>1, Alike
<1>8. g[n] = kept[n]
  BY <1>1, <1>7 DEF AlikeUpTo
<1> QED BY <1>2, <1>5, <1>8 DEF Keeps

\* Whatever goes by these steps ends in what is kept.
LEMMA KeptUnique ==
  ASSUME NEW S, NEW s \in Seq(S), NEW P, NEW f, Keeps(s, P, f)
  PROVE  f[Len(s)] = Kept(s, P) /\ Kept(s, P) \in Seq(S)
<1>0. Len(s) \in Nat
  BY LenProperties
<1>1. PICK g \in [0..Len(s) -> Seq(S)] : Keeps(s, P, g) /\ g[Len(s)] = Kept(s, P)
  BY KeptIs
<1>2. AlikeUpTo(Len(s), f, g)
  <2>1. GoAlike(Len(s), f, g)
    BY <1>1 DEF GoAlike, Keeps
  <2> QED BY <1>0, <2>1, Alike
<1> QED BY <1>0, <1>1, <1>2 DEF AlikeUpTo

\* Nothing and all.
LEMMA KeptNone ==
  ASSUME NEW S, NEW s \in Seq(S), NEW P, P \cap 1..Len(s) = {}
  PROVE  Kept(s, P) = <<>>
<1> DEFINE f == [i \in 0..Len(s) |-> <<>>]
<1>0. Len(s) \in Nat
  BY LenProperties
<1>1. Keeps(s, P, f) /\ f[Len(s)] = <<>>
  BY <1>0 DEF Keeps
<1> HIDE DEF f
<1> QED BY <1>1, KeptUnique

\* All is kept.
LEMMA KeptAll ==
  ASSUME NEW S, NEW s \in Seq(S), NEW P, 1..Len(s) \subseteq P
  PROVE  Kept(s, P) = s
<1> DEFINE f == [i \in 0..Len(s) |-> SubSeq(s, 1, i)]
<1>0. Len(s) \in Nat /\ \A i \in 1..Len(s) : s[i] \in S
  BY LenProperties, ElementOfSeq
<1>1. f[0] = <<>>
  BY <1>0, SubSeqEmpty
<1>2. ASSUME NEW i \in 1..Len(s) PROVE f[i] = Append(f[i-1], s[i])
  <2>1. i-1 \in 0..Len(s) /\ i \in 0..Len(s) /\ 1 \in 1..Len(s) /\ i \in Nat
    BY <1>0
  <2>2. SubSeq(s, 1, i) = SubSeq(s, 1, i-1) \o <<s[i]>>
    BY <2>1, SubSeqRecursiveSecond
  <2>3. SubSeq(s, 1, i-1) \in Seq(S)
    BY <1>0, <2>1, SubSeqProperties
  <2>4. Append(SubSeq(s, 1, i-1), s[i]) = SubSeq(s, 1, i-1) \o <<s[i]>>
    BY <1>0, <2>3, AppendIsConcat
  <2> QED BY <2>1, <2>2, <2>4
<1>3. Keeps(s, P, f)
  <2> HIDE DEF f
  <2> QED BY <1>1, <1>2 DEF Keeps
<1>4. f[Len(s)] = s
  BY <1>0, SubSeqFull
<1> HIDE DEF f
<1> QED BY <1>3, <1>4, KeptUnique

\* One more place behind the others, and before them.
LEMMA KeptLast ==
  ASSUME NEW S, NEW s \in Seq(S), NEW i \in 1..Len(s), NEW P \in SUBSET (1..i-1)
  PROVE  Kept(s, P \cup {i}) = Append(Kept(s, P), s[i])
<1> DEFINE n == Len(s)
<1>0. n \in Nat
  BY LenProperties
<1>1. PICK f \in [0..n -> Seq(S)] : Keeps(s, P, f) /\ f[n] = Kept(s, P)
  BY KeptIs
<1> DEFINE g == [j \in 0..n |-> IF j < i THEN f[j] ELSE Append(f[j], s[i])]
           t == [j \in 0..n |-> j >= i - 1 => f[j] = f[i-1]]
<1>2. \A j \in i..n : f[j] = f[i-1]
  <2>1. t[i-1] \in {TRUE}
    BY <1>0, i-1 \in 0..n
  <2>2. ASSUME NEW j \in (i-1)+1..n, t[j-1] \in {TRUE} PROVE t[j] \in {TRUE}
    <3>1. j \in 1..n /\ j \notin P /\ j-1 \in 0..n /\ j \in 0..n /\ j-1 >= i-1
      BY <1>0
    <3>2. f[j] = f[j-1]
      BY <1>1, <3>1 DEF Keeps
    <3> QED BY <2>2, <3>1, <3>2
  <2>3. \A j \in i-1..n : t[j] \in {TRUE}
    <3>1. i-1 \in Nat
      BY <1>0
    <3> HIDE DEF t, n
    <3> QED BY <1>0, <2>1, <2>2, <3>1, Onwards
  <2>4. \A j \in i..n : j \in i-1..n /\ j \in 0..n /\ j >= i-1
    BY <1>0
  <2> QED BY <2>3, <2>4
<1>3. Keeps(s, P \cup {i}, g)
  <2>1. g[0] = <<>>
    BY <1>0, <1>1 DEF Keeps
  <2>2. ASSUME NEW j \in 1..n PROVE g[j] = IF j \in P \cup {i} THEN Append(g[j-1], s[j]) ELSE g[j-1]
    <3>1. j \in 0..n /\ j-1 \in 0..n
      BY <1>0
    <3>2. f[j] = IF j \in P THEN Append(f[j-1], s[j]) ELSE f[j-1]
      BY <1>1 DEF Keeps
    <3>3. CASE j < i
      BY <3>1, <3>2, <3>3
    <3>4. CASE j = i
      <4>1. i \notin P /\ g[i-1] = f[i-1] /\ g[i] = Append(f[i], s[i])
        BY <3>1, <3>4
      <4> QED BY <3>2, <3>4, <4>1
    <3>5. CASE j > i
      <4>1. j \notin P \cup {i} /\ g[j-1] = Append(f[j-1], s[i]) /\ g[j] = Append(f[j], s[i])
        BY <3>1, <3>5
      <4> QED BY <3>2, <4>1
    <3> QED BY <3>3, <3>4, <3>5
  <2> HIDE DEF g
  <2> QED BY <2>1, <2>2 DEF Keeps
<1>4. g[n] = Append(f[n], s[i])
  BY <1>0, n \in 0..n
<1> HIDE DEF g
<1> QED BY <1>1, <1>3, <1>4, KeptUnique

\* Append to the second of two sequences joined.
LEMMA AppendBehind ==
  ASSUME NEW S, NEW a \in Seq(S), NEW b \in Seq(S), NEW x \in S
  PROVE  a \o Append(b, x) = Append(a \o b, x)
<1> DEFINE u == a \o Append(b, x)
           v == Append(a \o b, x)
<1>1. Len(a) \in Nat /\ Len(b) \in Nat
  BY LenProperties
<1>2. a \o b \in Seq(S) /\ Append(b, x) \in Seq(S) /\ Len(a \o b) = Len(a) + Len(b) /\ Len(Append(b, x)) = Len(b) + 1
  BY ConcatProperties, AppendProperties
<1>3. u \in Seq(S) /\ v \in Seq(S) /\ Len(u) = Len(a) + Len(b) + 1 /\ Len(v) = Len(a) + Len(b) + 1
  BY <1>1, <1>2, ConcatProperties, AppendProperties
<1>4. ASSUME NEW i \in 1..Len(u) PROVE u[i] = v[i]
  <2>1. i \in 1..Len(a) + Len(b) \/ i = Len(a) + Len(b) + 1
    BY <1>1, <1>3
  <2> QED BY <1>1, <1>2, <2>1, ConcatProperties, AppendProperties
<1> HIDE DEF u, v
<1>5. u = v
  BY <1>3, <1>4, SeqEqual
<1> QED BY <1>5 DEF u, v

\* One more place before the others.
LEMMA KeptFirst ==
  ASSUME NEW S, NEW s \in Seq(S), NEW i \in 1..Len(s), NEW P \in SUBSET (i+1..Len(s))
  PROVE  Kept(s, P \cup {i}) = <<s[i]>> \o Kept(s, P)
<1> DEFINE n == Len(s)
           b == <<s[i]>>
<1>0. n \in Nat /\ (\A j \in 1..n : s[j] \in S) /\ b \in Seq(S) /\ <<>> \in Seq(S)
  BY LenProperties, ElementOfSeq
<1>1. PICK f \in [0..n -> Seq(S)] : Keeps(s, P, f) /\ f[n] = Kept(s, P)
  BY KeptIs
<1> DEFINE g == [j \in 0..n |-> IF j < i THEN <<>> ELSE b \o f[j]]
           t == [j \in 0..n |-> j <= i => f[j] = <<>>]
<1>2. \A j \in 0..i : f[j] = <<>>
  <2>1. t[0] \in {TRUE}
    BY <1>0, <1>1, 0 \in 0..n DEF Keeps
  <2>2. ASSUME NEW j \in 0+1..n, t[j-1] \in {TRUE} PROVE t[j] \in {TRUE}
    <3>1. j \in 1..n /\ j-1 \in 0..n /\ j \in 0..n /\ (j <= i => j \notin P /\ j-1 <= i)
      BY <1>0
    <3>2. j <= i => f[j] = f[j-1]
      BY <1>1, <3>1 DEF Keeps
    <3> QED BY <2>2, <3>1, <3>2
  <2>3. \A j \in 0..n : t[j] \in {TRUE}
    <3> HIDE DEF t, n
    <3> QED BY <1>0, <2>1, <2>2, Onwards
  <2>4. \A j \in 0..i : j \in 0..n /\ j <= i
    BY <1>0
  <2> QED BY <2>3, <2>4
<1>3. Keeps(s, P \cup {i}, g)
  <2>1. g[0] = <<>>
    BY <1>0
  <2>2. ASSUME NEW j \in 1..n PROVE g[j] = IF j \in P \cup {i} THEN Append(g[j-1], s[j]) ELSE g[j-1]
    <3>0. j \in 0..n /\ j-1 \in 0..n /\ s[j] \in S
      BY <1>0
    <3>1. j \in 0..n /\ j-1 \in 0..n /\ f[j-1] \in Seq(S) /\ s[j] \in S
      <4> HIDE DEF n
      <4> QED BY <1>1, <3>0
    <3>2. f[j] = IF j \in P THEN Append(f[j-1], s[j]) ELSE f[j-1]
      BY <1>1 DEF Keeps
    <3>3. CASE j < i
      <4>1. j \notin P \cup {i}
        BY <3>3
      <4> QED BY <3>1, <3>3, <4>1
    <3>4. CASE j = i
      <4>1. g[i-1] = <<>> /\ g[i] = b \o f[i] /\ f[i] = <<>>
        BY <1>0, <1>2, <3>1, <3>4
      <4>2. b \o <<>> = b /\ Append(<<>>, s[i]) = b
        BY <1>0, ConcatEmptySeq
      <4> QED BY <3>4, <4>1, <4>2
    <3>5. CASE j > i
      <4>1. g[j-1] = b \o f[j-1] /\ g[j] = b \o f[j] /\ j # i
        BY <3>1, <3>5
      <4>2. b \o Append(f[j-1], s[j]) = Append(b \o f[j-1], s[j])
        BY <1>0, <3>1, AppendBehind
      <4> QED BY <3>2, <4>1, <4>2
    <3> QED BY <3>3, <3>4, <3>5
  <2> HIDE DEF g
  <2> QED BY <2>1, <2>2 DEF Keeps
<1>4. g[n] = b \o f[n]
  BY <1>0, n \in 0..n
<1> HIDE DEF g
<1> QED BY <1>1, <1>3, <1>4, KeptUnique

----------------------------------------------------------------------------
(* Pairs made in front of a list there is.                                 *)

\* r is a heap h with the pairs of a list added that holds s and goes on with d.
Made(h, r, s, d) ==
  /\ Sound(r.heap) /\ Len(r.heap) = Len(h) + Len(s)
  /\ \A p \in 1..Len(h) : r.heap[p] = h[p]
  /\ \A j \in 1..Len(s) :
       r.heap[Len(h) + j] = [car |-> s[Len(s) + 1 - j], cdr |-> IF j = 1 THEN d ELSE Len(h) + j - 1]
  /\ r.val = IF Len(s) = 0 THEN d ELSE Len(r.heap)

\* No pair added.
LEMMA MadeNone ==
  ASSUME NEW h, Sound(h), NEW d \in Ref(h)
  PROVE  Made(h, Returns(h, d), <<>>, d)
<1>1. Len(<<>>) = 0 /\ Len(h) \in Nat
  BY SoundHeap, EmptySeq
<1> DEFINE r == Returns(h, d)
<1>2. r.heap = h /\ r.val = d
  BY DEF Returns
<1> HIDE DEF r
<1>3. 1..Len(<<>>) = {} /\ Len(h) + Len(<<>>) = Len(h)
  BY <1>1
<1> DEFINE e == <<>>
<1>4. Len(e) = 0 /\ 1..Len(e) = {} /\ Len(h) + Len(e) = Len(h)
  BY <1>1, <1>3
<1> HIDE DEF e
<1>5. Made(h, r, e, d)
  BY <1>2, <1>4 DEF Made
<1> QED BY <1>5 DEF e, r

\* cons leaves the pairs there were alone.
LEMMA ConsHeap ==
  ASSUME NEW h, Sound(h), NEW a \in Element, NEW d \in Ref(h)
  PROVE  /\ Sound(cons(h, a, d).heap) /\ Len(cons(h, a, d).heap) = Len(h) + 1
         /\ \A p \in 1..Len(h) : cons(h, a, d).heap[p] = h[p]
         /\ cons(h, a, d).heap[Len(h) + 1] = [car |-> a, cdr |-> d]
         /\ cons(h, a, d).val = Len(h) + 1
<1> DEFINE n == Len(h)
           x == [car |-> a, cdr |-> d]
           g == Append(h, x)
<1>1. n \in Nat /\ h \in Seq(Cell(n))
  BY SoundHeap DEF Sound
<1>2. Cell(n) \subseteq Cell(n+1) /\ x \in Cell(n+1)
  <2>1. 0..n \subseteq 0..n+1
    BY <1>1
  <2>2. d \in 0..n \cup Element
    BY DEF Ref
  <2> HIDE DEF n
  <2> QED BY <2>1, <2>2 DEF Cell
<1>3. h \in Seq(Cell(n+1))
  <2> HIDE DEF n
  <2> QED BY <1>1, <1>2, SeqMonotonic
<1> HIDE DEF x
<1>4. g \in Seq(Cell(n+1)) /\ Len(g) = n + 1 /\ (\A p \in 1..n : g[p] = h[p]) /\ g[n+1] = x
  BY <1>1, <1>2, <1>3, AppendProperties
<1>5. cons(h, a, d).heap = g /\ cons(h, a, d).val = n + 1
  BY DEF cons, Returns, Fresh, x
<1> HIDE DEF g, n
<1> QED BY <1>4, <1>5 DEF Sound, n, x

\* The pair made last is behind the others.
LEMMA MadeOne ==
  ASSUME NEW h, Sound(h), NEW d \in Ref(h), NEW s \in Seq(Element), NEW r, Made(h, r, s, d),
         NEW a \in Element
  PROVE  Made(h, consTo(a, r), <<a>> \o s, d)
<1> DEFINE n == Len(h)
           k == Len(s)
           q == cons(r.heap, a, r.val)
           t == <<a>> \o s
<1>1. n \in Nat /\ k \in Nat /\ \A i \in 1..k : s[i] \in Element
  BY SoundHeap, LenProperties, ElementOfSeq
<1>2. Sound(r.heap) /\ Len(r.heap) = n + k /\ r.val \in Ref(r.heap)
  <2>1. d \in 0..n \cup Element /\ 0..n \subseteq 0..n+k /\ n+k \in 0..n+k
    BY <1>1 DEF Ref
  <2> HIDE DEF n, k
  <2> QED BY <2>1 DEF Made, Ref, n, k
<1>3. /\ Sound(q.heap) /\ Len(q.heap) = n + k + 1 /\ q.val = n + k + 1
      /\ \A p \in 1..n+k : q.heap[p] = r.heap[p]
      /\ q.heap[n+k+1] = [car |-> a, cdr |-> r.val]
  <2> HIDE DEF q, n, k
  <2> QED BY <1>2, ConsHeap DEF q
<1>4. Len(t) = k + 1 /\ t[1] = a /\ \A i \in 1..k : t[i+1] = s[i]
  BY <1>1
<1>5. \A p \in 1..n : q.heap[p] = h[p]
  <2>1. \A p \in 1..n : p \in 1..n+k
    BY <1>1
  <2> HIDE DEF q, k
  <2> QED BY <1>3, <2>1 DEF Made
<1>6. ASSUME NEW j \in 1..k+1
      PROVE  q.heap[n + j] = [car |-> t[k + 1 + 1 - j], cdr |-> IF j = 1 THEN d ELSE n + j - 1]
  <2>1. CASE j = k + 1
    <3>1. k + 1 + 1 - j = 1 /\ n + j = n + k + 1
      BY <2>1, <1>1
    <3>2. r.val = IF j = 1 THEN d ELSE n + j - 1
      <4>1. (k = 0) <=> (j = 1)
        BY <2>1, <1>1
      <4>2. n + k = n + j - 1
        BY <2>1, <1>1
      <4> HIDE DEF n, k
      <4> QED BY <1>2, <4>1, <4>2 DEF Made, k
    <3> HIDE DEF q, t, n, k
    <3> QED BY <1>3, <1>4, <3>1, <3>2
  <2>2. CASE j # k + 1
    <3>1. j \in 1..k /\ n + j \in 1..n+k /\ k + 1 - j \in 1..k /\ k + 1 + 1 - j = (k + 1 - j) + 1
      BY <2>2, <1>1
    <3>2. r.heap[n + j] = [car |-> s[k + 1 - j], cdr |-> IF j = 1 THEN d ELSE n + j - 1]
      BY <3>1 DEF Made
    <3>3. t[k + 1 + 1 - j] = s[k + 1 - j]
      BY <1>4, <3>1
    <3>4. q.heap[n + j] = r.heap[n + j]
      BY <1>3, <3>1
    <3> HIDE DEF q, t, n, k
    <3> QED BY <3>2, <3>3, <3>4
  <2> QED BY <2>1, <2>2
<1>7. Len(q.heap) = n + (k + 1) /\ k + 1 # 0
  BY <1>1, <1>3
<1>8. consTo(a, r) = q
  BY DEF consTo
<1> HIDE DEF q, t, k, n
<1> QED BY <1>3, <1>4, <1>5, <1>6, <1>7, <1>8 DEF Made, n, t, k

(* What the pairs made are as a list.                                      *)

\* Where the pairs of a heap keep their tails, so do its lists.
LEMMA TailsStay ==
  ASSUME NEW h, Sound(h), NEW g, Sound(g), Len(h) <= Len(g),
         \A x \in 1..Len(h) : CDR(g, x) = CDR(h, x)
  PROVE  /\ Ref(h) \subseteq Ref(g)
         /\ \A x \in Ref(h) : (PAIRP(g, x) <=> PAIRP(h, x)) /\ Behind(g, x) = Behind(h, x)
         /\ \A l \in Ref(h) : \A n \in Nat : Tail_n(g, l, n) = Tail_n(h, l, n)
<1>1. Len(h) \in Nat /\ Len(g) \in Nat
  BY SoundHeap
<1>2. Ref(h) \subseteq Ref(g)
  BY <1>1 DEF Ref
<1>3. \A x \in Ref(h) : PAIRP(g, x) <=> PAIRP(h, x)
  <2> TAKE x \in Ref(h)
  <2>1. CASE x \in Element
    <3>1. x \notin Nat
      BY <2>1, ElementAssumption
    <3>2. x \notin 1..Len(h) /\ x \notin 1..Len(g)
      BY <3>1
    <3> QED BY <3>2, SoundHeap
  <2>2. CASE x \in 0..Len(h)
    <3>1. x \in 1..Len(h) <=> x \in 1..Len(g)
      BY <1>1, <2>2
    <3> QED BY <3>1, SoundHeap
  <2> QED BY <2>1, <2>2 DEF Ref
<1>4. \A x \in Ref(h) : Behind(g, x) = Behind(h, x)
  <2> TAKE x \in Ref(h)
  <2>1. PAIRP(h, x) => CDR(g, x) = CDR(h, x)
    BY SoundHeap
  <2> QED BY <1>3, <2>1 DEF Behind
<1>5. ASSUME NEW l \in Ref(h), NEW n \in Nat PROVE Tail_n(g, l, n) = Tail_n(h, l, n)
  <2>1. PICK f \in [0..n -> Ref(h)] : /\ f[0] = l /\ \A i \in 1..n : f[i] = Behind(h, f[i-1])
                                      /\ f[n] = Tail_n(h, l, n)
    BY TailIs
  <2>2. \A i \in 1..n : f[i-1] \in Ref(h)
    OBVIOUS
  <2>3. \A i \in 1..n : f[i] = Behind(g, f[i-1])
    BY <1>4, <2>1, <2>2
  <2>4. f[n] = Tail_n(g, l, n)
    BY <1>2, <2>1, <2>3, TailUnique
  <2> QED BY <2>1, <2>4
<1> QED BY <1>2, <1>3, <1>4, <1>5

\* What there was stays as it was.
LEMMA MadeStays ==
  ASSUME NEW h, Sound(h), NEW d \in Ref(h), NEW s \in Seq(Element), NEW r, Made(h, r, s, d)
  PROVE  /\ Sound(r.heap) /\ Len(h) <= Len(r.heap) /\ r.val \in Ref(r.heap)
         /\ Ref(h) \subseteq Ref(r.heap)
         /\ \A x \in 1..Len(h) : /\ CDR(r.heap, x) = CDR(h, x) /\ CAR(r.heap, x) = CAR(h, x)
                                 /\ r.heap[x] = h[x]
         /\ \A x \in Ref(h) : (PAIRP(r.heap, x) <=> PAIRP(h, x)) /\ Behind(r.heap, x) = Behind(h, x)
         /\ \A l \in Ref(h) : \A n \in Nat : Tail_n(r.heap, l, n) = Tail_n(h, l, n)
<1>1. Len(h) \in Nat /\ Len(s) \in Nat
  BY SoundHeap, LenProperties
<1>2. Sound(r.heap) /\ Len(r.heap) = Len(h) + Len(s)
  BY DEF Made
<1>3. Len(h) <= Len(r.heap) /\ 0..Len(h) \subseteq 0..Len(r.heap) /\ Len(r.heap) \in 0..Len(r.heap)
  BY <1>1, <1>2
<1>4. r.val \in Ref(r.heap)
  <2>1. r.val = IF Len(s) = 0 THEN d ELSE Len(r.heap)
    BY DEF Made
  <2> QED BY <1>3, <2>1 DEF Ref
<1>5. \A x \in 1..Len(h) : CDR(r.heap, x) = CDR(h, x) /\ CAR(r.heap, x) = CAR(h, x) /\ r.heap[x] = h[x]
  BY DEF Made, CDR, CAR
<1>6. \A x \in 1..Len(h) : CDR(r.heap, x) = CDR(h, x)
  BY <1>5
<1>7. /\ Ref(h) \subseteq Ref(r.heap)
      /\ \A x \in Ref(h) : (PAIRP(r.heap, x) <=> PAIRP(h, x)) /\ Behind(r.heap, x) = Behind(h, x)
      /\ \A l \in Ref(h) : \A n \in Nat : Tail_n(r.heap, l, n) = Tail_n(h, l, n)
  BY <1>2, <1>3, <1>6, TailsStay
<1> QED BY <1>2, <1>3, <1>4, <1>5, <1>7

\* Where the tails of the new list lead.
LEMMA MadeTails ==
  ASSUME NEW h, Sound(h), NEW d \in Ref(h), NEW s \in Seq(Element), NEW r, Made(h, r, s, d)
  PROVE  \A n \in Nat :
           Tail_n(r.heap, r.val, n) =
             IF n < Len(s) THEN Len(h) + Len(s) - n ELSE Tail_n(h, d, n - Len(s))
<1> DEFINE m == Len(h)
           k == Len(s)
           T(n) == IF n < k THEN m + k - n ELSE Tail_n(h, d, n - k)
<1>1. m \in Nat /\ k \in Nat /\ Sound(r.heap) /\ r.val \in Ref(r.heap) /\ Len(r.heap) = m + k
  BY SoundHeap, LenProperties, MadeStays DEF Made
<1>2. T(0) = r.val
  <2>1. CASE k = 0
    <3>1. 0 - k = 0 /\ ~(0 < k)
      BY <2>1
    <3>2. Tail_n(h, d, 0) = d
      BY TailSteps
    <3>3. r.val = d
      BY <2>1 DEF Made
    <3> HIDE DEF k
    <3> QED BY <3>1, <3>2, <3>3
  <2>2. CASE k # 0
    <3>1. r.val = m + k
      BY <1>1, <2>2 DEF Made
    <3>2. 0 < k /\ m + k - 0 = m + k
      BY <1>1, <2>2
    <3> HIDE DEF k, m
    <3> QED BY <3>1, <3>2
  <2> QED BY <2>1, <2>2
<1>3. ASSUME NEW i \in Nat, i > 0 PROVE T(i) = Behind(r.heap, T(i-1))
  <2>1. CASE i - 1 < k
    <3> DEFINE j == k - (i-1)
    <3>1. j \in 1..k /\ m + j \in 1..m+k /\ T(i-1) = m + j
      BY <1>1, <1>3, <2>1
    <3>2. PAIRP(r.heap, m + j)
      BY <1>1, <3>1, SoundHeap
    <3>3. r.heap[m + j] = [car |-> s[k + 1 - j], cdr |-> IF j = 1 THEN d ELSE m + j - 1]
      BY <3>1 DEF Made
    <3>4. CDR(r.heap, m + j) = IF j = 1 THEN d ELSE m + j - 1
      BY <3>3 DEF CDR
    <3>5. Behind(r.heap, T(i-1)) = IF j = 1 THEN d ELSE m + j - 1
      <4> HIDE DEF j, T
      <4> QED BY <3>1, <3>2, <3>4 DEF Behind
    <3>6. CASE j = 1
      <4>1. i - k = 0 /\ ~(i < k)
        BY <1>1, <3>6
      <4>2. T(i) = Tail_n(h, d, 0)
        <5> HIDE DEF k
        <5> QED BY <4>1
      <4>3. Tail_n(h, d, 0) = d
        BY TailSteps
      <4> QED BY <3>5, <3>6, <4>2, <4>3
    <3>7. CASE j # 1
      <4>1. i < k /\ m + k - i = m + j - 1
        BY <1>1, <3>1, <3>7
      <4>2. T(i) = m + j - 1
        BY <4>1
      <4> QED BY <3>5, <3>7, <4>2
    <3> QED BY <3>6, <3>7
  <2>2. CASE ~(i - 1 < k)
    <3> DEFINE n == i - 1 - k
    <3>1. n \in Nat /\ i - k = n + 1 /\ ~(i < k)
      BY <1>1, <1>3, <2>2
    <3>2. T(i) = Tail_n(h, d, n + 1) /\ T(i-1) = Tail_n(h, d, n)
      <4> HIDE DEF k
      <4> QED BY <2>2, <3>1
    <3>3. Tail_n(h, d, n) \in Ref(h) /\ Tail_n(h, d, n+1) = Behind(h, Tail_n(h, d, n))
      <4> HIDE DEF n
      <4> QED BY <3>1, TailSteps
    <3>4. Behind(r.heap, Tail_n(h, d, n)) = Behind(h, Tail_n(h, d, n))
      <4> HIDE DEF n
      <4> QED BY <3>3, MadeStays
    <3> QED BY <3>2, <3>3, <3>4
  <2> QED BY <2>1, <2>2
<1>4. ASSUME NEW n \in Nat PROVE Tail_n(r.heap, r.val, n) = T(n)
  <2> DEFINE f == [i \in 0..n |-> T(i)]
  <2>1. f[0] = r.val
    <3> 0 \in 0..n
      OBVIOUS
    <3> HIDE DEF T
    <3> QED BY <1>2
  <2>2. \A i \in 1..n : f[i] = Behind(r.heap, f[i-1])
    <3>1. \A i \in 1..n : i \in 0..n /\ i-1 \in 0..n /\ i \in Nat /\ i > 0
      OBVIOUS
    <3> HIDE DEF T, Behind
    <3> QED BY <1>3, <3>1
  <2> HIDE DEF f
  <2>3. f[n] = Tail_n(r.heap, r.val, n)
    <3>1. \A i \in 0..n : f[i] = Tail_n(r.heap, r.val, i)
      <4>1. Sound(r.heap) /\ r.val \in Ref(r.heap)
        BY <1>1
      <4> HIDE DEF T
      <4> DEFINE g == r.heap
                 l == r.val
      <4>2. Sound(g) /\ l \in Ref(g) /\ f[0] = l /\ \A i \in 1..n : f[i] = Behind(g, f[i-1])
        BY <4>1, <2>1, <2>2
      <4> HIDE DEF g, l
      <4>3. \A i \in 0..n : f[i] = Tail_n(g, l, i)
        BY <4>2, TailUnique
      <4> QED BY <4>3 DEF g, l
    <3>2. n \in 0..n
      OBVIOUS
    <3> QED BY <3>1, <3>2
  <2>4. f[n] = T(n)
    <3> n \in 0..n
      OBVIOUS
    <3> HIDE DEF T
    <3> QED BY DEF f
  <2> HIDE DEF T
  <2> QED BY <2>3, <2>4
<1> QED BY <1>4

\* It holds s and what d does, shares its old pairs with d, and ends as d does.
LEMMA MadeList ==
  ASSUME NEW h, Sound(h), NEW d \in Ref(h), NEW s \in Seq(Element), NEW r, Made(h, r, s, d)
  PROVE  /\ Pairs(r.heap, r.val) \cap DOMAIN h \subseteq Pairs(h, d)
         /\ Endless(h, d) => Endless(r.heap, r.val)
         /\ ~Endless(h, d) => /\ ~Endless(r.heap, r.val)
                              /\ Contents(r.heap, r.val) = s \o Contents(h, d)
                              /\ Proper(r.heap, r.val) <=> Proper(h, d)
<1> DEFINE m == Len(h)
           k == Len(s)
           T(n) == Tail_n(r.heap, r.val, n)
           D(n) == Tail_n(h, d, n)
<1>1. /\ m \in Nat /\ k \in Nat /\ Sound(r.heap) /\ r.val \in Ref(r.heap) /\ Len(r.heap) = m + k
      /\ DOMAIN h = 1..m /\ DOMAIN r.heap = 1..m+k
  BY SoundHeap, LenProperties, MadeStays DEF Made
<1>2. \A n \in Nat : n < k => T(n) = m + k - n
  BY MadeTails
<1>3. \A n \in Nat : ~(n < k) => T(n) = D(n - k)
  BY MadeTails
<1>4. \A n \in Nat : D(n) \in Ref(h) /\ (PAIRP(r.heap, D(n)) <=> PAIRP(h, D(n)))
  BY TailSteps, MadeStays
<1>5. \A n \in Nat : PAIRP(r.heap, T(n)) <=> (n < k \/ PAIRP(h, D(n - k)))
  <2> TAKE n \in Nat
  <2>1. CASE n < k
    <3>1. T(n) \in 1..m+k
      <4>1. m + k - n \in 1..m+k
        BY <1>1, <2>1
      <4> HIDE DEF T, k, m
      <4> QED BY <1>2, <2>1, <4>1
    <3> HIDE DEF T
    <3> QED BY <1>1, <2>1, <3>1, SoundHeap
  <2>2. CASE ~(n < k)
    <3>1. n - k \in Nat
      BY <1>1, <2>2
    <3> HIDE DEF T, D, k
    <3> QED BY <1>3, <1>4, <2>2, <3>1
  <2> QED BY <2>1, <2>2
<1>6. Pairs(r.heap, r.val) \cap DOMAIN h \subseteq Pairs(h, d)
  <2> SUFFICES ASSUME NEW n \in 0..m+k, T(n) \in 1..m PROVE T(n) \in Pairs(h, d)
    BY <1>1 DEF Pairs
  <2>1. n \in Nat
    BY <1>1
  <2>2. ~(n < k)
    <3> HIDE DEF T
    <3> SUFFICES ASSUME n < k PROVE FALSE
      OBVIOUS
    <3> QED BY <1>1, <1>2, <2>1
  <2>3. n - k \in 0..m
    BY <1>1, <2>1, <2>2
  <2>4. T(n) = D(n - k)
    <3> HIDE DEF T, D
    <3> QED BY <1>3, <2>1, <2>2
  <2> QED BY <1>1, <2>3, <2>4 DEF Pairs
<1>7. ASSUME Endless(h, d) PROVE Endless(r.heap, r.val)
  <2> SUFFICES ASSUME NEW n \in 0..m+k PROVE PAIRP(r.heap, T(n))
    BY <1>1 DEF Endless
  <2>1. n \in Nat /\ (n < k \/ n - k \in 0..m)
    BY <1>1
  <2>2. n - k \in 0..m => PAIRP(h, D(n - k))
    BY <1>7 DEF Endless
  <2> HIDE DEF T, D, m, k
  <2> QED BY <1>5, <2>1, <2>2
<1>8. ASSUME ~Endless(h, d)
      PROVE  /\ ~Endless(r.heap, r.val)
             /\ Contents(r.heap, r.val) = s \o Contents(h, d)
             /\ Proper(r.heap, r.val) <=> Proper(h, d)
  <2> DEFINE e == size(h, d)
  <2>1. Ends(h, d, e) /\ e \in 0..m /\ ~PAIRP(h, D(e)) /\ \A n \in 0..e-1 : PAIRP(h, D(n))
    BY <1>8, EndFound DEF Ends
  <2>0. e \in Nat /\ k + e \in Nat /\ k + e \in 0..m+k /\ ~(k + e < k) /\ (k + e) - k = e
    BY <1>1, <2>1
  <2> HIDE DEF T, D, e, m, k
  <2>2. \A n \in 0..k+e-1 : PAIRP(r.heap, T(n))
    <3>1. \A n \in 0..k+e-1 : n \in Nat /\ (n < k \/ n - k \in 0..e-1)
      BY <1>1, <2>0
    <3> QED BY <1>5, <2>1, <3>1
  <2>3. ~PAIRP(r.heap, T(k + e)) /\ T(k + e) = D(e)
    BY <1>3, <1>5, <2>0, <2>1
  <2>4. Ends(r.heap, r.val, k + e)
    BY <1>1, <2>0, <2>2, <2>3 DEF Ends, T
  <2>5. /\ ~Endless(r.heap, r.val)
        /\ Contents(r.heap, r.val) = [i \in 1..k+e |-> CAR(r.heap, T(i-1))]
        /\ Proper(r.heap, r.val) <=> T(k + e) = Nil
    BY <1>1, <2>4, EndsHave DEF T
  <2>6. Contents(h, d) = [i \in 1..e |-> CAR(h, D(i-1))] /\ (Proper(h, d) <=> D(e) = Nil)
    BY <2>1, EndsHave DEF D
  <2>7. [i \in 1..k+e |-> CAR(r.heap, T(i-1))] = s \o [i \in 1..e |-> CAR(h, D(i-1))]
    <3> DEFINE c == [i \in 1..e |-> CAR(h, D(i-1))]
               b == [i \in 1..k+e |-> CAR(r.heap, T(i-1))]
    <3>1. c \in Seq(Element) /\ Len(c) = e
      <4>1. \A i \in 1..e : CAR(h, D(i-1)) \in Element
        <5>1. \A i \in 1..e : i-1 \in 0..e-1
          BY <2>0
        <5> QED BY <2>1, <5>1, SoundHeap DEF PAIRP
      <4> QED BY <2>0, <4>1
    <3>2. s \o c \in Seq(Element) /\ Len(s \o c) = k + e
      BY <3>1, ConcatProperties, ZenonT(60) DEF k
    <3>3. ASSUME NEW i \in 1..k+e PROVE CAR(r.heap, T(i-1)) = (s \o c)[i] /\ CAR(r.heap, T(i-1)) \in Element
      <4>0. i - 1 \in Nat /\ (i \in 1..k \/ (i > k /\ i - k \in 1..e /\ ~(i-1 < k) /\ (i-1)-k = (i-k)-1 /\ (i-1)-k \in 0..e-1))
        BY <1>1, <2>0
      <4>1. CASE i \in 1..k
        <5> DEFINE j == k + 1 - i
        <5>1. j \in 1..k /\ m + k - (i-1) = m + j /\ k + 1 - j = i /\ i - 1 < k
          BY <1>1, <4>1
        <5>2. T(i-1) = m + j
          BY <1>2, <4>0, <5>1
        <5>3. r.heap[m + j] = [car |-> s[k + 1 - j], cdr |-> IF j = 1 THEN d ELSE m + j - 1]
          BY <5>1 DEF Made, m, k
        <5>4. CAR(r.heap, m + j) = s[i]
          BY <5>1, <5>3 DEF CAR
        <5>5. (s \o c)[i] = s[i] /\ s[i] \in Element
          BY <4>1, <3>1, <1>1, ElementOfSeq, ConcatProperties DEF k
        <5> QED BY <5>2, <5>4, <5>5
      <4>2. CASE ~(i \in 1..k)
        <5> DEFINE j == (i-1)-k
        <5>1. T(i-1) = D(j) /\ j = (i-k)-1 /\ j \in 0..e-1
          BY <1>3, <4>0, <4>2
        <5>2. PAIRP(h, D(j))
          BY <2>1, <5>1
        <5>3. CAR(r.heap, D(j)) = CAR(h, D(j)) /\ CAR(h, D(j)) \in Element
          BY <5>2, SoundHeap, MadeStays DEF PAIRP
        <5>4. (s \o c)[i] = c[i-k]
          BY <4>0, <4>2, <3>1, <1>1, <2>0, ConcatProperties DEF k
        <5>5. c[i-k] = CAR(h, D(j))
          BY <4>0, <4>2, <5>1
        <5> QED BY <5>1, <5>3, <5>4, <5>5
      <4> QED BY <4>1, <4>2
    <3>4. b \in Seq(Element) /\ Len(b) = k + e /\ \A i \in 1..k+e : b[i] = (s \o c)[i]
      <4> DEFINE N == k + e
                 w(i) == CAR(r.heap, T(i-1))
      <4>1. N \in Nat /\ \A i \in 1..N : w(i) \in Element
        BY <2>0, <3>3
      <4>2. \A i \in 1..N : w(i) = (s \o c)[i]
        BY <3>3
      <4>3. b = [i \in 1..N |-> w(i)]
        OBVIOUS
      <4> HIDE DEF c, N, w, b
      <4>4. b \in Seq(Element) /\ Len(b) = N /\ \A i \in 1..N : b[i] = (s \o c)[i]
        <5>1. b \in [1..N -> Element] /\ N \in Nat
          BY <4>1, <4>3
        <5>2. \A i \in 1..N : b[i] = (s \o c)[i]
          BY <4>2, <4>3
        <5>3. b \in Seq(Element) /\ Len(b) = N
          BY <5>1
        <5> QED BY <5>2, <5>3
      <4> QED BY <4>4 DEF N
    <3> HIDE DEF b, c
    <3>5. b = s \o c
      BY <3>2, <3>4, SeqEqual
    <3> QED BY <3>5 DEF b, c
  <2> QED BY <2>3, <2>5, <2>6, <2>7
<1> QED BY <1>6, <1>7, <1>8

\* The empty list.
LEMMA NilList ==
  ASSUME NEW h, Sound(h)
  PROVE  /\ Nil \in Ref(h) /\ ~Endless(h, Nil) /\ Proper(h, Nil) /\ Pairs(h, Nil) = {}
         /\ Contents(h, Nil) = <<>> /\ size(h, Nil) = 0 /\ Spine(h, Nil) = <<>>
<1>1. Nil \in Ref(h) /\ ~PAIRP(h, Nil) /\ Len(h) \in Nat
  BY SoundHeap
<1>2. Tail_n(h, Nil, 0) = Nil
  BY <1>1, TailSteps
<1>3. Ends(h, Nil, 0)
  BY <1>1, <1>2 DEF Ends
<1>4. 1..0 = {} /\ 0..0-1 = {}
  OBVIOUS
<1>5. /\ size(h, Nil) = 0 /\ ~Endless(h, Nil)
      /\ Pairs(h, Nil) = {Tail_n(h, Nil, n) : n \in 0..0-1}
      /\ (Proper(h, Nil) <=> Tail_n(h, Nil, 0) = Nil)
      /\ Spine(h, Nil) = [i \in 1..0 |-> Tail_n(h, Nil, i - 1)]
      /\ Contents(h, Nil) = [i \in 1..0 |-> CAR(h, Tail_n(h, Nil, i - 1))]
  BY <1>1, <1>3, EndsHave
<1> QED BY <1>1, <1>2, <1>4, <1>5

----------------------------------------------------------------------------
(* Lists picked from a list: the folds that make new pairs.                *)

\* What the operations return.
Result == [heap : Seq(Pair), val : Object]

\* The results are such that a fold has values in one set.
LEMMA SoundResult ==
  ASSUME NEW h, Sound(h), NEW d \in Ref(h)
  PROVE  Returns(h, d) \in Result
<1>1. Len(h) \in Nat
  BY SoundHeap
<1>2. Cell(Len(h)) \subseteq Pair /\ Ref(h) \subseteq Object
  <2>1. 0..Len(h) \subseteq Nat
    BY <1>1
  <2> QED BY <2>1 DEF Cell, Pair, Object, Ref
<1>3. h \in Seq(Pair)
  BY <1>2, SeqMonotonic DEF Sound
<1> QED BY <1>2, <1>3 DEF Result, Returns

\* Of a pair put in front as well.
LEMMA ConsResult ==
  ASSUME NEW r \in Result, NEW a \in Element
  PROVE  consTo(a, r) \in Result
<1> DEFINE x == [car |-> a, cdr |-> r.val]
<1>1. r.heap \in Seq(Pair) /\ r.val \in Object
  BY DEF Result
<1>2. x \in Pair
  BY <1>1 DEF Pair, Object
<1>3. Append(r.heap, x) \in Seq(Pair) /\ Len(r.heap) + 1 \in Nat
  <2> HIDE DEF x
  <2> QED BY <1>1, <1>2, AppendProperties, LenProperties
<1>4. consTo(a, r) = [heap |-> Append(r.heap, x), val |-> Len(r.heap) + 1]
  BY DEF consTo, cons, Returns, Fresh
<1> HIDE DEF x
<1> QED BY <1>3, <1>4 DEF Result, Object

\* Elements of v at the places of P, in front of d: with the last one first, and the first.
PickRight(h, d, v, P, F) ==
  [s \in SUBSET (1..Len(v)) |->
     IF s = {} THEN Returns(h, d)
     ELSE IF Min(s) \in P THEN consTo(v[Min(s)], F[s \ {Min(s)}]) ELSE F[s \ {Min(s)}]]
PickLeft(h, d, v, P, F) ==
  [s \in SUBSET (1..Len(v)) |->
     IF s = {} THEN Returns(h, d)
     ELSE IF Max(s) \in P THEN consTo(v[Max(s)], F[s \ {Max(s)}]) ELSE F[s \ {Max(s)}]]

\* There are such folds.
LEMMA PicksExist ==
  ASSUME NEW h, Sound(h), NEW d \in Ref(h), NEW v \in Seq(Element), NEW P
  PROVE  (\E F : F = PickRight(h, d, v, P, F)) /\ (\E F : F = PickLeft(h, d, v, P, F))
<1> DEFINE n == Len(v)
           base == Returns(h, d)
           step == [a \in (1..n) \X Result |-> IF a[1] \in P THEN consTo(v[a[1]], a[2]) ELSE a[2]]
<1>1. n \in Nat /\ base \in Result /\ \A i \in 1..n : v[i] \in Element
  BY LenProperties, SoundResult, ElementOfSeq
<1>2. \A i \in 1..n : \A r \in Result : step[<<i, r>>] = IF i \in P THEN consTo(v[i], r) ELSE r
  OBVIOUS
<1>3. step \in [(1..n) \X Result -> Result]
  <2> HIDE DEF n
  <2> QED BY <1>1, ConsResult
<1> HIDE DEF step, base
<1>4. \E F : F = PickRight(h, d, v, P, F)
  <2>0. PICK F \in [SUBSET (1..n) -> Result] : FoldedRight(n, base, step, F)
    <3> HIDE DEF n
    <3> QED BY <1>1, <1>3, FoldsRight
  <2>1. \A s \in SUBSET (1..n) : F[s] = IF s = {} THEN base ELSE step[<<Min(s), F[s \ {Min(s)}]>>]
    BY <2>0 DEF FoldedRight
  <2>2. ASSUME NEW s \in SUBSET (1..n), s # {}
        PROVE  F[s] = IF Min(s) \in P THEN consTo(v[Min(s)], F[s \ {Min(s)}]) ELSE F[s \ {Min(s)}]
    <3>1. Min(s) \in 1..n /\ s \ {Min(s)} \in SUBSET (1..n)
      BY <1>1, <2>2, MinMaxIn
    <3>2. F[s \ {Min(s)}] \in Result
      BY <3>1
    <3> QED BY <1>2, <2>1, <2>2, <3>1, <3>2
  <2>3. F = [s \in SUBSET (1..n) |-> F[s]]
    OBVIOUS
  <2>4. F = PickRight(h, d, v, P, F)
    BY <2>1, <2>2, <2>3 DEF PickRight, base
  <2> QED BY <2>4
<1>5. \E F : F = PickLeft(h, d, v, P, F)
  <2>0. PICK F \in [SUBSET (1..n) -> Result] : FoldedLeft(n, base, step, F)
    <3> HIDE DEF n
    <3> QED BY <1>1, <1>3, FoldsLeft
  <2>1. \A s \in SUBSET (1..n) : F[s] = IF s = {} THEN base ELSE step[<<Max(s), F[s \ {Max(s)}]>>]
    BY <2>0 DEF FoldedLeft
  <2>2. ASSUME NEW s \in SUBSET (1..n), s # {}
        PROVE  F[s] = IF Max(s) \in P THEN consTo(v[Max(s)], F[s \ {Max(s)}]) ELSE F[s \ {Max(s)}]
    <3>1. Max(s) \in 1..n /\ s \ {Max(s)} \in SUBSET (1..n)
      BY <1>1, <2>2, MinMaxIn
    <3>2. F[s \ {Max(s)}] \in Result
      BY <3>1
    <3> QED BY <1>2, <2>1, <2>2, <3>1, <3>2
  <2>3. F = [s \in SUBSET (1..n) |-> F[s]]
    OBVIOUS
  <2>4. F = PickLeft(h, d, v, P, F)
    BY <2>1, <2>2, <2>3 DEF PickLeft, base
  <2> QED BY <2>4
<1> QED BY <1>4, <1>5

\* An element put in front, and behind.
Prefixed(a, s) == <<a>> \o s
Extended(s, a) == Append(s, a)

\* One place more is kept.
LEMMA KeptMore ==
  ASSUME NEW v \in Seq(Element), NEW P \in SUBSET (1..Len(v)), NEW i \in 1..Len(v)
  PROVE  /\ Kept(v, P) \in Seq(Element)
         /\ i \in P => /\ Kept(v, P \cap i..Len(v)) = Prefixed(v[i], Kept(v, P \cap i+1..Len(v)))
                       /\ Kept(v, P \cap 1..i) = Extended(Kept(v, P \cap 1..i-1), v[i])
         /\ i \notin P => /\ Kept(v, P \cap i..Len(v)) = Kept(v, P \cap i+1..Len(v))
                          /\ Kept(v, P \cap 1..i) = Kept(v, P \cap 1..i-1)
<1> DEFINE n == Len(v)
<1>1. n \in Nat
  BY LenProperties
<1>2. i..n = {i} \cup i+1..n /\ 1..i = {i} \cup 1..i-1
  BY <1>1
<1>3. P \cap i..n = IF i \in P THEN (P \cap i+1..n) \cup {i} ELSE P \cap i+1..n
  BY <1>2
<1>4. P \cap 1..i = IF i \in P THEN (P \cap 1..i-1) \cup {i} ELSE P \cap 1..i-1
  BY <1>2
<1>5. Kept(v, (P \cap i+1..n) \cup {i}) = Prefixed(v[i], Kept(v, P \cap i+1..n))
  BY KeptFirst DEF Prefixed
<1>6. Kept(v, (P \cap 1..i-1) \cup {i}) = Extended(Kept(v, P \cap 1..i-1), v[i])
  BY KeptLast DEF Extended
<1>7. Kept(v, P) \in Seq(Element)
  BY KeptIs, <1>1
<1> QED BY <1>3, <1>4, <1>5, <1>6, <1>7

\* What is kept is a sequence of elements.
LEMMA KeptSeq ==
  ASSUME NEW v \in Seq(Element), NEW P
  PROVE  Kept(v, P) \in Seq(Element)
<1>1. Len(v) \in Nat
  BY LenProperties
<1>2. PICK f \in [0..Len(v) -> Seq(Element)] : f[Len(v)] = Kept(v, P)
  BY KeptIs
<1> QED BY <1>1, <1>2

\* The opposite order of one element more.
LEMMA ReverseMore ==
  ASSUME NEW S, NEW s \in Seq(S), NEW a \in S
  PROVE  Reverse(s) \in Seq(S) /\ Reverse(Append(s, a)) = <<a>> \o Reverse(s) /\ Len(Reverse(s)) = Len(s)
<1> DEFINE n == Len(s)
           t == Append(s, a)
<1>1. n \in Nat /\ (\A i \in 1..n : s[i] \in S) /\ Len(t) = n + 1 /\ t[n+1] = a /\ \A i \in 1..n : t[i] = s[i]
  BY LenProperties, ElementOfSeq, AppendProperties
<1>2. Reverse(s) \in Seq(S) /\ Len(Reverse(s)) = n /\ \A i \in 1..n : Reverse(s)[i] = s[n - i + 1]
  <2>1. \A i \in 1..n : n - i + 1 \in 1..n
    BY <1>1
  <2>2. Reverse(s) \in [1..n -> S]
    BY <1>1, <2>1 DEF Reverse
  <2>3. \A i \in 1..n : Reverse(s)[i] = s[n - i + 1]
    BY DEF Reverse
  <2> HIDE DEF n
  <2> QED BY <1>1, <2>2, <2>3
<1> DEFINE u == <<a>> \o Reverse(s)
<1>3. u \in Seq(S) /\ Len(u) = n + 1 /\ u[1] = a /\ \A i \in 2..n+1 : u[i] = Reverse(s)[i-1]
  <2>1. <<a>> \in Seq(S) /\ Len(<<a>>) = 1 /\ <<a>>[1] = a
    OBVIOUS
  <2> HIDE DEF n
  <2> QED BY <1>1, <1>2, <2>1, ConcatProperties
<1>4. Reverse(t) = [i \in 1..n+1 |-> t[(n+1) - i + 1]]
  BY <1>1 DEF Reverse
<1>5. \A i \in 1..n+1 : t[(n+1) - i + 1] = u[i]
  <2> HIDE DEF t, u
  <2> SUFFICES ASSUME NEW i \in 1..n+1 PROVE t[(n+1) - i + 1] = u[i]
    OBVIOUS
  <2>1. CASE i = 1
    BY <1>1, <1>3, <2>1
  <2>2. CASE i # 1
    <3>1. i \in 2..n+1 /\ i-1 \in 1..n /\ n - (i-1) + 1 = (n+1) - i + 1 /\ (n+1) - i + 1 \in 1..n
      BY <1>1, <2>2
    <3> HIDE DEF n
    <3> QED BY <1>1, <1>2, <1>3, <3>1
  <2> QED BY <2>1, <2>2
<1>6. Reverse(t) = u
  <2>1. u = [i \in 1..n+1 |-> u[i]]
    <3> HIDE DEF u, n
    <3> QED BY <1>1, <1>3, LenProperties
  <2> HIDE DEF u, t
  <2> QED BY <1>4, <1>5, <2>1
<1> QED BY <1>2, <1>6

\* Such a fold gives the elements at the places of P, in order.
LEMMA PickedRight ==
  ASSUME NEW h, Sound(h), NEW d \in Ref(h), NEW v \in Seq(Element), NEW P \in SUBSET (1..Len(v)),
         NEW F, F = PickRight(h, d, v, P, F)
  PROVE  Made(h, F[1..Len(v)], Kept(v, P), d)
<1> DEFINE n == Len(v)
           K(i) == Kept(v, P \cap i..n)
           t == [j \in 0..n |-> Made(h, F[n+1-j..n], K(n+1-j), d)]
<1>0. n \in Nat /\ (\A i \in 1..n : v[i] \in Element) /\ n+1..n = {}
  BY LenProperties, ElementOfSeq
<1>1. F[{}] = Returns(h, d)
  BY DEF PickRight
<1>2. ASSUME NEW i \in 1..n
      PROVE  F[i..n] = IF i \in P THEN consTo(v[i], F[i+1..n]) ELSE F[i+1..n]
  <2>1. i..n \in SUBSET (1..n) /\ i..n # {} /\ Min(i..n) = i /\ (i..n) \ {i} = i+1..n
    <3>1. i..n \in SUBSET (1..n)
      BY <1>0
    <3> HIDE DEF n
    <3> QED BY <1>0, <3>1, EndsOfRow
  <2> HIDE DEF n
  <2> QED BY <2>1 DEF PickRight, n
<1>3. t[0] \in {TRUE}
  <2>1. 0 \in 0..n /\ n+1-0 = n+1 /\ P \cap n+1..n = {}
    BY <1>0
  <2>2. K(n+1) = <<>>
    BY <1>0, KeptNone
  <2>3. Made(h, F[n+1..n], K(n+1), d)
    <3>1. Made(h, Returns(h, d), <<>>, d)
      BY MadeNone
    <3> HIDE DEF K
    <3> QED BY <1>0, <1>1, <2>2, <3>1
  <2> HIDE DEF K, n
  <2> QED BY <2>1, <2>3
<1>4. ASSUME NEW j \in 0+1..n, t[j-1] \in {TRUE} PROVE t[j] \in {TRUE}
  <2> DEFINE i == n+1-j
  <2>1. j \in 0..n /\ j-1 \in 0..n /\ n+1-(j-1) = i+1 /\ i \in 1..n
    BY <1>0
  <2>2. Made(h, F[i+1..n], K(i+1), d)
    <3> HIDE DEF K, i, n
    <3> QED BY <1>4, <2>1
  <2>3. K(i) = (IF i \in P THEN Prefixed(v[i], K(i+1)) ELSE K(i+1)) /\ K(i+1) \in Seq(Element)
    <3> HIDE DEF i
    <3>1. i \in 1..Len(v)
      BY <2>1
    <3> HIDE DEF n
    <3>2. K(i) = (IF i \in P THEN Prefixed(v[i], K(i+1)) ELSE K(i+1))
      BY <3>1, KeptMore DEF n
    <3>3. K(i+1) \in Seq(Element)
      BY KeptSeq
    <3> QED BY <3>2, <3>3
  <2>4. i \in P => Made(h, consTo(v[i], F[i+1..n]), Prefixed(v[i], K(i+1)), d)
    <3> HIDE DEF K, i, n
    <3> QED BY <1>0, <2>1, <2>2, <2>3, MadeOne DEF Prefixed
  <2>5. Made(h, F[i..n], K(i), d)
    <3> HIDE DEF K, i, n
    <3> QED BY <1>2, <2>1, <2>2, <2>3, <2>4
  <2> HIDE DEF K, n
  <2> QED BY <2>1, <2>5
<1>5. t[n] \in {TRUE}
  <2>1. n \in 0..n /\ 0 \in Nat
    BY <1>0
  <2> HIDE DEF t, n
  <2> QED BY <1>0, <1>3, <1>4, <2>1, Onwards
<1>6. n \in 0..n /\ n+1-n = 1 /\ P \cap 1..n = P
  <2>1. P \cap 1..n = P
    OBVIOUS
  <2> HIDE DEF n
  <2> QED BY <1>0, <2>1
<1>7. Made(h, F[1..n], K(1), d)
  <2> HIDE DEF K, n
  <2> QED BY <1>5, <1>6
<1> QED BY <1>6, <1>7

\* Such a fold gives them in the opposite order.
LEMMA PickedLeft ==
  ASSUME NEW h, Sound(h), NEW d \in Ref(h), NEW v \in Seq(Element), NEW P \in SUBSET (1..Len(v)),
         NEW F, F = PickLeft(h, d, v, P, F)
  PROVE  Made(h, F[1..Len(v)], Reverse(Kept(v, P)), d)
<1> DEFINE n == Len(v)
           K(i) == Reverse(Kept(v, P \cap 1..i))
           t == [j \in 0..n |-> Made(h, F[1..j], K(j), d)]
<1>0. n \in Nat /\ (\A i \in 1..n : v[i] \in Element) /\ 1..0 = {}
  BY LenProperties, ElementOfSeq
<1>1. F[{}] = Returns(h, d)
  BY DEF PickLeft
<1>2. ASSUME NEW i \in 1..n
      PROVE  F[1..i] = IF i \in P THEN consTo(v[i], F[1..i-1]) ELSE F[1..i-1]
  <2>1. 1..i \in SUBSET (1..n) /\ 1..i # {} /\ Max(1..i) = i /\ (1..i) \ {i} = 1..i-1
    <3>1. 1..i \in SUBSET (1..n)
      BY <1>0
    <3> HIDE DEF n
    <3> QED BY <1>0, <3>1, EndsOfRow
  <2> HIDE DEF n
  <2> QED BY <2>1 DEF PickLeft, n
<1>3. t[0] \in {TRUE}
  <2>1. 0 \in 0..n /\ P \cap 1..0 = {} /\ (P \cap 1..0) \cap 1..n = {}
    BY <1>0
  <2>2. Kept(v, P \cap 1..0) = <<>>
    BY <2>1, KeptNone
  <2>3. K(0) = <<>>
    BY <2>2, EmptySeq DEF Reverse
  <2>4. Made(h, F[1..0], K(0), d)
    <3>1. Made(h, Returns(h, d), <<>>, d)
      BY MadeNone
    <3> HIDE DEF K
    <3> QED BY <1>0, <1>1, <2>3, <3>1
  <2> HIDE DEF K, n
  <2> QED BY <2>1, <2>4
<1>4. ASSUME NEW j \in 0+1..n, t[j-1] \in {TRUE} PROVE t[j] \in {TRUE}
  <2>1. j \in 0..n /\ j-1 \in 0..n /\ j \in 1..n
    BY <1>0
  <2>2. Made(h, F[1..j-1], K(j-1), d)
    <3> HIDE DEF K, n
    <3> QED BY <1>4, <2>1
  <2>3. Kept(v, P \cap 1..j) = (IF j \in P THEN Extended(Kept(v, P \cap 1..j-1), v[j]) ELSE Kept(v, P \cap 1..j-1))
        /\ Kept(v, P \cap 1..j-1) \in Seq(Element)
    <3>1. j \in 1..Len(v)
      BY <2>1
    <3>2. Kept(v, P \cap 1..j) = (IF j \in P THEN Extended(Kept(v, P \cap 1..j-1), v[j]) ELSE Kept(v, P \cap 1..j-1))
      BY <3>1, KeptMore
    <3>3. Kept(v, P \cap 1..j-1) \in Seq(Element)
      BY KeptSeq
    <3> QED BY <3>2, <3>3
  <2>4. K(j) = (IF j \in P THEN Prefixed(v[j], K(j-1)) ELSE K(j-1)) /\ K(j-1) \in Seq(Element)
    BY <1>0, <2>1, <2>3, ReverseMore DEF Prefixed, Extended
  <2>5. j \in P => Made(h, consTo(v[j], F[1..j-1]), Prefixed(v[j], K(j-1)), d)
    <3> HIDE DEF K, n
    <3> QED BY <1>0, <2>1, <2>2, <2>4, MadeOne DEF Prefixed
  <2>6. Made(h, F[1..j], K(j), d)
    <3> HIDE DEF K, n
    <3> QED BY <1>2, <2>1, <2>2, <2>4, <2>5
  <2> HIDE DEF K, n
  <2> QED BY <2>1, <2>6
<1>5. t[n] \in {TRUE}
  <2>1. n \in 0..n /\ 0 \in Nat
    BY <1>0
  <2> HIDE DEF t, n
  <2> QED BY <1>0, <1>3, <1>4, <2>1, Onwards
<1>6. n \in 0..n /\ P \cap 1..n = P
  <2>1. P \cap 1..n = P
    OBVIOUS
  <2> HIDE DEF n
  <2> QED BY <1>0, <2>1
<1>7. Made(h, F[1..n], K(n), d)
  <2> HIDE DEF K, n
  <2> QED BY <1>5, <1>6
<1> QED BY <1>6, <1>7

----------------------------------------------------------------------------
(* The rest of a list, and what is in one.                                 *)

\* The i-th tail of a list.
LEMMA RestOf ==
  ASSUME NEW h, Sound(h), NEW l \in Ref(h), ~Endless(h, l), NEW i \in 0..size(h, l)
  PROVE  LET t == Tail_n(h, l, i)
         IN  /\ t \in Ref(h) /\ ~Endless(h, t) /\ size(h, t) = size(h, l) - i
             /\ \A j \in 1..size(h, l) - i : /\ Spine(h, t)[j] = Spine(h, l)[i + j]
                                             /\ Contents(h, t)[j] = Contents(h, l)[i + j]
<1> DEFINE t == Tail_n(h, l, i)
           k == size(h, l)
           m == k - i
<1>1. Ends(h, l, k) /\ k \in 0..Len(h) /\ Len(h) \in Nat
  BY EndFound, SoundHeap DEF Ends
<1>2. k \in Nat /\ i \in Nat /\ m \in Nat /\ m \in 0..Len(h) /\ i + m = k
  <2> HIDE DEF k
  <2>1. i \in 0..k
    BY DEF k
  <2> QED BY <1>1, <2>1
<1>3. t \in Ref(h)
  BY <1>2, TailSteps
<1>4. \A n \in Nat : Tail_n(h, t, n) = Tail_n(h, l, i + n)
  BY <1>2, TailAdds
<1> HIDE DEF t, k, m
<1>5. Ends(h, t, m)
  <2>1. \A n \in 0..m-1 : i + n \in 0..k-1 /\ n \in Nat
    BY <1>2
  <2> QED BY <1>1, <1>2, <1>4, <2>1 DEF Ends
<1>6. size(h, t) = m /\ ~Endless(h, t)
  BY <1>3, <1>5, EndsHave
<1>7. ASSUME NEW j \in 1..m
      PROVE  Spine(h, t)[j] = Spine(h, l)[i + j] /\ Contents(h, t)[j] = Contents(h, l)[i + j]
  <2>1. j - 1 \in Nat /\ i + j \in 1..k /\ i + (j - 1) = i + j - 1
    BY <1>2
  <2>2. Spine(h, t)[j] = Tail_n(h, t, j - 1) /\ Contents(h, t)[j] = CAR(h, Spine(h, t)[j])
    BY <1>3, <1>6, SpineOf
  <2>3. Spine(h, l)[i + j] = Tail_n(h, l, i + j - 1) /\ Contents(h, l)[i + j] = CAR(h, Spine(h, l)[i + j])
    BY <2>1, SpineOf DEF k
  <2>4. Tail_n(h, t, j - 1) = Tail_n(h, l, i + j - 1)
    BY <1>4, <2>1
  <2> QED BY <2>2, <2>3, <2>4
<1> QED BY <1>3, <1>6, <1>7 DEF t, k, m

\* member_p finds what is in the list.
LEMMA MemberIs ==
  ASSUME NEW h, Sound(h), NEW l \in Ref(h), ~Endless(h, l), NEW x
  PROVE  /\ member_p(h, x, l) = (x \in ToSet(Contents(h, l)))
         /\ x \in ToSet(Contents(h, l)) <=> \E i \in 1..Len(Contents(h, l)) : Contents(h, l)[i] = x
<1> DEFINE w == Spine(h, l)
           v == Contents(h, l)
<1>1. v \in Seq(Element) /\ DOMAIN v = 1..Len(v) /\ DOMAIN w = 1..Len(v) /\ \A i \in 1..Len(v) : CAR(h, w[i]) = v[i]
  BY SpineOf, LenProperties
<1> HIDE DEF w, v
<1>2. member_p(h, x, l) = \E i \in DOMAIN w : CAR(h, w[i]) = x
  BY DEF member_p, w
<1>3. x \in ToSet(v) <=> \E i \in 1..Len(v) : v[i] = x
  BY <1>1 DEF ToSet
<1>4. (\E i \in DOMAIN w : CAR(h, w[i]) = x) = (x \in ToSet(v))
  <2>1. (\E i \in DOMAIN w : CAR(h, w[i]) = x) <=> (x \in ToSet(v))
    BY <1>1, <1>3
  <2> DEFINE a == \E i \in DOMAIN w : CAR(h, w[i]) = x
             b == x \in ToSet(v)
  <2>2. a \in BOOLEAN /\ b \in BOOLEAN /\ (a <=> b)
    BY <2>1
  <2> HIDE DEF a, b
  <2>3. a = b
    BY <2>2
  <2> QED BY <2>3 DEF a, b
<1> QED BY <1>2, <1>3, <1>4 DEF v

\* The first and the last of some places are places.
LEMMA MinPlace ==
  ASSUME NEW n \in Nat, NEW s \in SUBSET (1..n), s # {}
  PROVE  Min(s) \in 1..n /\ Max(s) \in 1..n
<1>1. Min(s) \in s /\ Max(s) \in s
  BY MinMaxIn
<1> QED BY <1>1

(* What the operations make.                                               *)

\* copy_list.
LEMMA CopyListMade ==
  ASSUME NEW h, Sound(h), NEW l \in Ref(h), ~Endless(h, l)
  PROVE  Made(h, copy_list(h, l), Contents(h, l), Nil)
<1> DEFINE w == Spine(h, l)
           v == Contents(h, l)
           P == 1..Len(v)
           After(f) == [s \in SUBSET DOMAIN w |->
                          IF s = {} THEN Returns(h, Nil) ELSE consTo(CAR(h, w[Min(s)]), f[s \ {Min(s)}])]
           g == CHOOSE f : f = After(f)
<1>1. v \in Seq(Element) /\ Len(v) \in Nat /\ DOMAIN w = 1..Len(v) /\ \A i \in 1..Len(v) : CAR(h, w[i]) = v[i]
  BY SpineOf, LenProperties
<1> HIDE DEF w, v
<1>2. \A f : After(f) = PickRight(h, Nil, v, P, f)
  BY <1>1, MinPlace, SMTT(30) DEF PickRight
<1>3. Nil \in Ref(h)
  BY NilList
<1>4. \E f : f = After(f)
  <2> HIDE DEF After
  <2> QED BY <1>1, <1>2, <1>3, PicksExist
<1>5. g = After(g)
  <2> HIDE DEF After
  <2> QED BY <1>4
<1>6. Made(h, g[1..Len(v)], Kept(v, P), Nil)
  <2> HIDE DEF g, After
  <2> QED BY <1>1, <1>2, <1>3, <1>5, PickedRight
<1>7. copy_list(h, l) = g[1..Len(v)]
  <2>1. copy_list(h, l) = g[DOMAIN w]
    BY DEF copy_list, FoldRight, MapThenFoldSet, w
  <2> HIDE DEF g
  <2> QED BY <1>1, <2>1
<1>8. Kept(v, P) = v
  BY <1>1, KeptAll
<1> HIDE DEF g, P
<1> QED BY <1>6, <1>7, <1>8 DEF v

\* append, which copies its first argument and shares the second.
LEMMA AppendMade ==
  ASSUME NEW h, Sound(h), NEW l \in Ref(h), ~Endless(h, l),
         NEW d \in Ref(h)
  PROVE  Made(h, append(h, l, d), Contents(h, l), d)
<1> DEFINE w == Spine(h, l)
           v == Contents(h, l)
           P == 1..Len(v)
           After(f) == [s \in SUBSET DOMAIN w |->
                          IF s = {} THEN Returns(h, d) ELSE consTo(CAR(h, w[Min(s)]), f[s \ {Min(s)}])]
           g == CHOOSE f : f = After(f)
<1>1. v \in Seq(Element) /\ Len(v) \in Nat /\ DOMAIN w = 1..Len(v) /\ \A i \in 1..Len(v) : CAR(h, w[i]) = v[i]
  BY SpineOf, LenProperties
<1> HIDE DEF w, v
<1>2. \A f : After(f) = PickRight(h, d, v, P, f)
  BY <1>1, MinPlace, SMTT(30) DEF PickRight
<1>3. d \in Ref(h)
  BY NilList
<1>4. \E f : f = After(f)
  <2> HIDE DEF After
  <2> QED BY <1>1, <1>2, <1>3, PicksExist
<1>5. g = After(g)
  <2> HIDE DEF After
  <2> QED BY <1>4
<1>6. Made(h, g[1..Len(v)], Kept(v, P), d)
  <2> HIDE DEF g, After
  <2> QED BY <1>1, <1>2, <1>3, <1>5, PickedRight
<1>7. append(h, l, d) = g[1..Len(v)]
  <2>1. append(h, l, d) = g[DOMAIN w]
    BY DEF append, FoldRight, MapThenFoldSet, w
  <2> HIDE DEF g
  <2> QED BY <1>1, <2>1
<1>8. Kept(v, P) = v
  BY <1>1, KeptAll
<1> HIDE DEF g, P
<1> QED BY <1>6, <1>7, <1>8 DEF v

\* list_reverse.
LEMMA ReverseMade ==
  ASSUME NEW h, Sound(h), NEW l \in Ref(h), ~Endless(h, l)
  PROVE  Made(h, list_reverse(h, l), Reverse(Contents(h, l)), Nil)
<1> DEFINE w == Spine(h, l)
           v == Contents(h, l)
           P == 1..Len(v)
           After(f) == [s \in SUBSET DOMAIN w |->
                          IF s = {} THEN Returns(h, Nil) ELSE consTo(CAR(h, w[Max(s)]), f[s \ {Max(s)}])]
           g == CHOOSE f : f = After(f)
<1>1. v \in Seq(Element) /\ Len(v) \in Nat /\ DOMAIN w = 1..Len(v) /\ \A i \in 1..Len(v) : CAR(h, w[i]) = v[i]
  BY SpineOf, LenProperties
<1> HIDE DEF w, v
<1>2. \A f : After(f) = PickLeft(h, Nil, v, P, f)
  BY <1>1, MinPlace DEF PickLeft
<1>3. Nil \in Ref(h)
  BY NilList
<1>4. \E f : f = After(f)
  <2> HIDE DEF After
  <2> QED BY <1>1, <1>2, <1>3, PicksExist
<1>5. g = After(g)
  <2> HIDE DEF After
  <2> QED BY <1>4
<1>6. Made(h, g[1..Len(v)], Reverse(Kept(v, P)), Nil)
  <2> HIDE DEF g, After
  <2> QED BY <1>1, <1>2, <1>3, <1>5, PickedLeft
<1>7. list_reverse(h, l) = g[1..Len(v)]
  <2>1. list_reverse(h, l) = g[DOMAIN w]
    BY DEF list_reverse, FoldLeft, MapThenFoldSet, w
  <2> HIDE DEF g
  <2> QED BY <1>1, <2>1
<1>8. Reverse(Kept(v, P)) = Reverse(v)
  BY <1>1, KeptAll
<1> HIDE DEF g, P
<1> QED BY <1>6, <1>7, <1>8 DEF v

\* choose.
LEMMA ChooseMade ==
  ASSUME NEW h, Sound(h), NEW l \in Ref(h), ~Endless(h, l), NEW pred
  PROVE  Made(h, choose(h, pred, l), Kept(Contents(h, l), {i \in 1..Len(Contents(h, l)) : Contents(h, l)[i] \in pred}), Nil)
<1> DEFINE w == Spine(h, l)
           v == Contents(h, l)
           P == {i \in 1..Len(v) : v[i] \in pred}
           After(f) == [s \in SUBSET DOMAIN w |->
                          IF s = {} THEN Returns(h, Nil) ELSE IF CAR(h, w[Min(s)]) \in pred THEN consTo(CAR(h, w[Min(s)]), f[s \ {Min(s)}])
                               ELSE f[s \ {Min(s)}]]
           g == CHOOSE f : f = After(f)
<1>1. v \in Seq(Element) /\ Len(v) \in Nat /\ DOMAIN w = 1..Len(v) /\ \A i \in 1..Len(v) : CAR(h, w[i]) = v[i]
  BY SpineOf, LenProperties
<1> HIDE DEF w, v
<1>2. \A f : After(f) = PickRight(h, Nil, v, P, f)
  BY <1>1, MinPlace, SMTT(30) DEF PickRight
<1>3. Nil \in Ref(h)
  BY NilList
<1>4. \E f : f = After(f)
  <2> HIDE DEF After
  <2> QED BY <1>1, <1>2, <1>3, PicksExist
<1>5. g = After(g)
  <2> HIDE DEF After
  <2> QED BY <1>4
<1>6. Made(h, g[1..Len(v)], Kept(v, P), Nil)
  <2>1. P \in SUBSET (1..Len(v))
    OBVIOUS
  <2> HIDE DEF g, After, P
  <2> QED BY <2>1, <1>1, <1>2, <1>3, <1>5, PickedRight
<1>7. choose(h, pred, l) = g[1..Len(v)]
  <2>1. choose(h, pred, l) = g[DOMAIN w]
    BY DEF choose, FoldRight, MapThenFoldSet, w
  <2> HIDE DEF g
  <2> QED BY <1>1, <2>1
<1>8. Kept(v, P) = Kept(v, P)
  OBVIOUS
<1> HIDE DEF g, P
<1> QED BY <1>6, <1>7, <1>8 DEF v, P

\* list_map1.
LEMMA MapMade ==
  ASSUME NEW h, Sound(h), NEW l \in Ref(h), ~Endless(h, l),
         NEW S, \A i \in 1..Len(Contents(h, l)) : Contents(h, l)[i] \in S,
         NEW fun \in [S -> Element]
  PROVE  Made(h, list_map1(h, fun, l), [i \in DOMAIN Contents(h, l) |-> fun[Contents(h, l)[i]]], Nil)
<1> DEFINE w == Spine(h, l)
           c == Contents(h, l)
           v == [i \in DOMAIN c |-> fun[c[i]]]
           P == 1..Len(v)
           After(f) == [s \in SUBSET DOMAIN w |->
                          IF s = {} THEN Returns(h, Nil) ELSE consTo(fun[CAR(h, w[Min(s)])], f[s \ {Min(s)}])]
           g == CHOOSE f : f = After(f)
<1>1. /\ v \in Seq(Element) /\ Len(v) \in Nat /\ DOMAIN w = 1..Len(v)
      /\ \A i \in 1..Len(v) : fun[CAR(h, w[i])] = v[i]
  <2>1. c \in Seq(Element) /\ DOMAIN c = 1..Len(c) /\ Len(c) \in Nat /\ DOMAIN w = 1..Len(c)
        /\ \A i \in 1..Len(c) : CAR(h, w[i]) = c[i] /\ c[i] \in S
    BY SpineOf, LenProperties
  <2> HIDE DEF c, w
  <2>2. v \in [1..Len(c) -> Element] /\ \A i \in 1..Len(c) : v[i] = fun[c[i]]
    BY <2>1
  <2> HIDE DEF v
  <2>3. v \in Seq(Element) /\ Len(v) = Len(c)
    BY <2>1, <2>2
  <2> QED BY <2>1, <2>2, <2>3
<1> HIDE DEF w, v, c
<1>2. \A f : After(f) = PickRight(h, Nil, v, P, f)
  BY <1>1, MinPlace, SMTT(30) DEF PickRight
<1>3. Nil \in Ref(h)
  BY NilList
<1>4. \E f : f = After(f)
  <2> HIDE DEF After
  <2> QED BY <1>1, <1>2, <1>3, PicksExist
<1>5. g = After(g)
  <2> HIDE DEF After
  <2> QED BY <1>4
<1>6. Made(h, g[1..Len(v)], Kept(v, P), Nil)
  <2> HIDE DEF g, After
  <2> QED BY <1>1, <1>2, <1>3, <1>5, PickedRight
<1>7. list_map1(h, fun, l) = g[1..Len(v)]
  <2>1. list_map1(h, fun, l) = g[DOMAIN w]
    BY DEF list_map1, FoldRight, MapThenFoldSet, w
  <2> HIDE DEF g
  <2> QED BY <1>1, <2>1
<1>8. Kept(v, P) = v
  BY <1>1, KeptAll
<1> HIDE DEF g, P
<1> QED BY <1>6, <1>7, <1>8 DEF v, c

\* intersection, in the opposite order.
LEMMA IntersectionMade ==
  ASSUME NEW h, Sound(h), NEW l \in Ref(h), ~Endless(h, l),
         NEW m \in Ref(h), ~Endless(h, m)
  PROVE  Made(h, intersection(h, l, m), Reverse(Kept(Contents(h, l), {i \in 1..Len(Contents(h, l)) : Contents(h, l)[i] \in ToSet(Contents(h, m))})), Nil)
<1> DEFINE w == Spine(h, l)
           v == Contents(h, l)
           P == {i \in 1..Len(v) : v[i] \in ToSet(Contents(h, m))}
           After(f) == [s \in SUBSET DOMAIN w |->
                          IF s = {} THEN Returns(h, Nil) ELSE IF member_p(h, CAR(h, w[Max(s)]), m) THEN consTo(CAR(h, w[Max(s)]), f[s \ {Max(s)}])
                               ELSE f[s \ {Max(s)}]]
           g == CHOOSE f : f = After(f)
<1>1. /\ v \in Seq(Element) /\ Len(v) \in Nat /\ DOMAIN w = 1..Len(v)
      /\ \A i \in 1..Len(v) : CAR(h, w[i]) = v[i]
      /\ \A i \in 1..Len(v) : member_p(h, CAR(h, w[i]), m) <=> i \in P
  <2>1. v \in Seq(Element) /\ Len(v) \in Nat /\ DOMAIN w = 1..Len(v) /\ \A i \in 1..Len(v) : CAR(h, w[i]) = v[i]
    BY SpineOf, LenProperties
  <2> HIDE DEF v, w
  <2>2. \A i \in 1..Len(v) : member_p(h, v[i], m) <=> v[i] \in ToSet(Contents(h, m))
    BY MemberIs
  <2> QED BY <2>1, <2>2
<1> HIDE DEF w, v
<1>2. \A f : After(f) = PickLeft(h, Nil, v, P, f)
  BY <1>1, MinPlace DEF PickLeft
<1>3. Nil \in Ref(h)
  BY NilList
<1>4. \E f : f = After(f)
  <2> HIDE DEF After
  <2> QED BY <1>1, <1>2, <1>3, PicksExist
<1>5. g = After(g)
  <2> HIDE DEF After
  <2> QED BY <1>4
<1>6. Made(h, g[1..Len(v)], Reverse(Kept(v, P)), Nil)
  <2>1. P \in SUBSET (1..Len(v))
    OBVIOUS
  <2> HIDE DEF g, After, P
  <2> QED BY <2>1, <1>1, <1>2, <1>3, <1>5, PickedLeft
<1>7. intersection(h, l, m) = g[1..Len(v)]
  <2>1. intersection(h, l, m) = g[DOMAIN w]
    BY DEF intersection, FoldLeft, MapThenFoldSet, w
  <2> HIDE DEF g
  <2> QED BY <1>1, <2>1
<1>8. Reverse(Kept(v, P)) = Reverse(Kept(v, P))
  OBVIOUS
<1> HIDE DEF g, P
<1> QED BY <1>6, <1>7, <1>8 DEF v, P

\* remove_duplicates keeps the last of equal elements.
LEMMA NoDuplicatesMade ==
  ASSUME NEW h, Sound(h), NEW l \in Ref(h), ~Endless(h, l)
  PROVE  Made(h, remove_duplicates(h, l), Kept(Contents(h, l), {i \in 1..Len(Contents(h, l)) :
                    \A j \in i+1..Len(Contents(h, l)) : Contents(h, l)[j] # Contents(h, l)[i]}), Nil)
<1> DEFINE w == Spine(h, l)
           v == Contents(h, l)
           P == {i \in 1..Len(v) : \A j \in i+1..Len(v) : v[j] # v[i]}
           After(f) == [s \in SUBSET DOMAIN w |->
                          IF s = {} THEN Returns(h, Nil) ELSE IF member_p(h, CAR(h, w[Min(s)]), CDR(h, w[Min(s)])) THEN f[s \ {Min(s)}]
                               ELSE consTo(CAR(h, w[Min(s)]), f[s \ {Min(s)}])]
           g == CHOOSE f : f = After(f)
<1>1. /\ v \in Seq(Element) /\ Len(v) \in Nat /\ DOMAIN w = 1..Len(v)
      /\ \A i \in 1..Len(v) : CAR(h, w[i]) = v[i]
      /\ \A i \in 1..Len(v) : member_p(h, CAR(h, w[i]), CDR(h, w[i])) <=> i \notin P
  <2>1. v \in Seq(Element) /\ Len(v) \in Nat /\ DOMAIN w = 1..Len(v) /\ size(h, l) = Len(v)
        /\ \A i \in 1..Len(v) : CAR(h, w[i]) = v[i] /\ CDR(h, w[i]) = Tail_n(h, l, i)
    BY SpineOf, LenProperties
  <2>2. ASSUME NEW i \in 1..Len(v) PROVE member_p(h, v[i], Tail_n(h, l, i)) <=> i \notin P
    <3> DEFINE t == Tail_n(h, l, i)
               u == Contents(h, t)
    <3>1. i \in 0..size(h, l)
      BY <2>1
    <3>2. /\ t \in Ref(h) /\ ~Endless(h, t) /\ size(h, t) = Len(v) - i
          /\ \A j \in 1..Len(v) - i : u[j] = v[i + j]
      BY <2>1, <3>1, RestOf
    <3> HIDE DEF t
    <3>3. Len(u) = Len(v) - i
      BY <3>2, SpineOf
    <3>4. member_p(h, v[i], t) <=> \E j \in 1..Len(u) : u[j] = v[i]
      <4>1. member_p(h, v[i], t) = (v[i] \in ToSet(u))
        BY <3>2, MemberIs
      <4>2. v[i] \in ToSet(u) <=> \E j \in 1..Len(u) : u[j] = v[i]
        BY <3>2, MemberIs
      <4> QED BY <4>1, <4>2
    <3> HIDE DEF u, v
    <3>5. (\E j \in 1..Len(u) : u[j] = v[i]) <=> \E j \in i+1..Len(v) : v[j] = v[i]
      <4>1. \A j \in 1..Len(u) : i + j \in i+1..Len(v)
        BY <2>1, <3>3
      <4>2. \A j \in i+1..Len(v) : j - i \in 1..Len(u) /\ i + (j - i) = j
        BY <2>1, <3>3
      <4> QED BY <3>2, <3>3, <4>1, <4>2, ZenonT(60)
    <3> QED BY <3>4, <3>5 DEF t
  <2> HIDE DEF v, w, P
  <2> QED BY <2>1, <2>2
<1> HIDE DEF w, v
<1>2. \A f : After(f) = PickRight(h, Nil, v, P, f)
  BY <1>1, MinPlace, SMTT(30) DEF PickRight
<1>3. Nil \in Ref(h)
  BY NilList
<1>4. \E f : f = After(f)
  <2> HIDE DEF After
  <2> QED BY <1>1, <1>2, <1>3, PicksExist
<1>5. g = After(g)
  <2> HIDE DEF After
  <2> QED BY <1>4
<1>6. Made(h, g[1..Len(v)], Kept(v, P), Nil)
  <2>1. P \in SUBSET (1..Len(v))
    OBVIOUS
  <2> HIDE DEF g, After, P
  <2> QED BY <2>1, <1>1, <1>2, <1>3, <1>5, PickedRight
<1>7. remove_duplicates(h, l) = g[1..Len(v)]
  <2>1. remove_duplicates(h, l) = g[DOMAIN w]
    BY DEF remove_duplicates, FoldRight, MapThenFoldSet, w
  <2> HIDE DEF g
  <2> QED BY <1>1, <2>1
<1>8. Kept(v, P) = Kept(v, P)
  OBVIOUS
<1> HIDE DEF g, P
<1> QED BY <1>6, <1>7, <1>8 DEF v, P

\* choose_by, of two lists as long as each other.
LEMMA ChooseByMade ==
  ASSUME NEW h, Sound(h), NEW l \in Ref(h), ~Endless(h, l), NEW pred,
         NEW m \in Ref(h), ~Endless(h, m), Len(Contents(h, l)) = Len(Contents(h, m))
  PROVE  Made(h, choose_by(h, pred, l, m), Kept(Contents(h, m), {i \in 1..Len(Contents(h, m)) : Contents(h, l)[i] \in pred}), Nil)
<1> DEFINE z == Spine(h, l)
           x == Spine(h, m)
           w == [i \in DOMAIN z |-> i]
           c == Contents(h, l)
           v == Contents(h, m)
           P == {i \in 1..Len(v) : c[i] \in pred}
           After(f) == [s \in SUBSET DOMAIN w |->
                          IF s = {} THEN Returns(h, Nil) ELSE IF CAR(h, z[w[Min(s)]]) \in pred THEN consTo(CAR(h, x[w[Min(s)]]), f[s \ {Min(s)}])
                               ELSE f[s \ {Min(s)}]]
           g == CHOOSE f : f = After(f)
<1>1. /\ v \in Seq(Element) /\ Len(v) \in Nat /\ DOMAIN w = 1..Len(v) /\ Len(z) = Len(x)
      /\ \A i \in 1..Len(v) : w[i] = i /\ CAR(h, z[i]) = c[i] /\ CAR(h, x[i]) = v[i]
  BY SpineOf, LenProperties
<1> HIDE DEF z, x, v, w, c
<1>2. \A f : After(f) = PickRight(h, Nil, v, P, f)
  BY <1>1, MinPlace, SMTT(30) DEF PickRight
<1>3. Nil \in Ref(h)
  BY NilList
<1>4. \E f : f = After(f)
  <2> HIDE DEF After
  <2> QED BY <1>1, <1>2, <1>3, PicksExist
<1>5. g = After(g)
  <2> HIDE DEF After
  <2> QED BY <1>4
<1>6. Made(h, g[1..Len(v)], Kept(v, P), Nil)
  <2>1. P \in SUBSET (1..Len(v))
    OBVIOUS
  <2> HIDE DEF g, After, P
  <2> QED BY <2>1, <1>1, <1>2, <1>3, <1>5, PickedRight
<1>7. choose_by(h, pred, l, m) = g[1..Len(v)]
  <2>1. choose_by(h, pred, l, m) = g[DOMAIN w]
    <3>1. Len(z) = Len(x)
      BY <1>1
    <3> QED BY <3>1 DEF choose_by, FoldRightDomain, FoldRight, MapThenFoldSet, w, z, x
  <2> HIDE DEF g
  <2> QED BY <1>1, <2>1
<1>8. Kept(v, P) = Kept(v, P)
  OBVIOUS
<1> HIDE DEF g, P
<1> QED BY <1>6, <1>7, <1>8 DEF v, P, c

\* make_list.
LEMMA MakeListMade ==
  ASSUME NEW h, Sound(h), NEW n \in Nat, NEW fill \in Element
  PROVE  Made(h, make_list(h, n, fill), [i \in 1..n |-> fill], Nil)
<1> DEFINE w == [i \in 1..n |-> i]
           v == [i \in 1..n |-> fill]
           P == 1..Len(v)
           After(f) == [s \in SUBSET DOMAIN w |->
                          IF s = {} THEN Returns(h, Nil) ELSE consTo(fill, f[s \ {Max(s)}])]
           g == CHOOSE f : f = After(f)
<1>1. v \in Seq(Element) /\ Len(v) = n /\ DOMAIN w = 1..Len(v) /\ \A i \in 1..n : v[i] = fill
  <2>1. v \in [1..n -> Element] /\ DOMAIN w = 1..n /\ \A i \in 1..n : v[i] = fill
    OBVIOUS
  <2> HIDE DEF v, w
  <2> QED BY <2>1
<1> HIDE DEF w, v
<1>2. \A f : After(f) = PickLeft(h, Nil, v, P, f)
  BY <1>1, MinPlace DEF PickLeft
<1>3. Nil \in Ref(h)
  BY NilList
<1>4. \E f : f = After(f)
  <2> HIDE DEF After
  <2> QED BY <1>1, <1>2, <1>3, PicksExist
<1>5. g = After(g)
  <2> HIDE DEF After
  <2> QED BY <1>4
<1>6. Made(h, g[1..Len(v)], Reverse(Kept(v, P)), Nil)
  <2> HIDE DEF g, After
  <2> QED BY <1>1, <1>2, <1>3, <1>5, PickedLeft
<1>7. make_list(h, n, fill) = g[1..Len(v)]
  <2>1. make_list(h, n, fill) = g[DOMAIN w]
    BY DEF make_list, FoldLeft, MapThenFoldSet, w
  <2> HIDE DEF g
  <2> QED BY <1>1, <2>1
<1>8. Reverse(Kept(v, P)) = v
  <2>1. Kept(v, P) = v
    BY <1>1, KeptAll
  <2>2. Reverse(v) = v
    <3>1. \A i \in 1..n : v[(Len(v) - i) + 1] = v[i]
      <4> \A i \in 1..n : (n - i) + 1 \in 1..n
        OBVIOUS
      <4> QED BY <1>1
    <3>2. v = [i \in 1..n |-> v[i]]
      BY <1>1, LenProperties
    <3> QED BY <1>1, <3>1, <3>2 DEF Reverse
  <2> QED BY <2>1, <2>2
<1> HIDE DEF g, P
<1> QED BY <1>6, <1>7, <1>8 DEF v

(* copy-sequence, which fills a list it has made.                          *)

\* An element of a new list set.
LEMMA MadeSet ==
  ASSUME NEW h, Sound(h), NEW d \in Ref(h), NEW s \in Seq(Element), NEW r, Made(h, r, s, d),
         NEW i \in 1..Len(s), NEW a \in Element, NEW p, p = Len(h) + Len(s) + 1 - i
  PROVE  Made(h, Returns([r.heap EXCEPT ![p].car = a], r.val), [s EXCEPT ![i] = a], d)
<1> DEFINE m == Len(h)
           k == Len(s)
           g == [r.heap EXCEPT ![p].car = a]
           t == [s EXCEPT ![i] = a]
<1>1. m \in Nat /\ k \in Nat /\ (\A j \in 1..k : s[j] \in Element) /\ Sound(r.heap) /\ Len(r.heap) = m + k
  BY SoundHeap, LenProperties, ElementOfSeq DEF Made
<1>2. t \in Seq(Element) /\ Len(t) = k /\ \A j \in 1..k : t[j] = IF j = i THEN a ELSE s[j]
  BY ExceptSeq
<1>3. DOMAIN r.heap = 1..m+k /\ \A j \in 1..m+k : r.heap[j] = [car |-> CAR(r.heap, j), cdr |-> CDR(r.heap, j)]
  BY <1>1, SoundHeap
<1>4. p \in m+1..m+k
  BY <1>1
<1>5. DOMAIN g = 1..m+k /\ g[p] = [car |-> a, cdr |-> CDR(r.heap, p)] /\ \A j \in 1..m+k : j # p => g[j] = r.heap[j]
  <2>1. p \in 1..m+k
    BY <1>1, <1>4
  <2>2. g[p] = [r.heap[p] EXCEPT !.car = a]
    BY <1>3, <2>1
  <2>3. r.heap[p] = [car |-> CAR(r.heap, p), cdr |-> CDR(r.heap, p)]
    BY <1>3, <2>1
  <2>4. g[p] = [car |-> a, cdr |-> CDR(r.heap, p)]
    BY <2>2, <2>3
  <2>5. DOMAIN g = DOMAIN r.heap /\ \A j \in DOMAIN r.heap : j # p => g[j] = r.heap[j]
    OBVIOUS
  <2> HIDE DEF m, k, g
  <2> QED BY <1>3, <2>4, <2>5
<1>6. Sound(g) /\ Len(g) = m + k
  <2>1. \A j \in 1..m+k : r.heap[j] \in Cell(m + k)
    BY <1>1, ElementOfSeq DEF Sound
  <2>2. g[p] \in Cell(m + k)
    <3>1. p \in 1..m+k
      BY <1>1, <1>4
    <3>2. CDR(r.heap, p) \in 0..m+k \cup Element
      BY <2>1, <3>1 DEF Cell, CDR
    <3> HIDE DEF g, m, k
    <3> QED BY <1>5, <3>2 DEF Cell
  <2>3. \A j \in 1..m+k : g[j] \in Cell(m + k)
    <3> HIDE DEF g, m, k
    <3> QED BY <1>5, <2>1, <2>2
  <2> DEFINE C == Cell(m + k)
             N == m + k
  <2>4. g = [j \in 1..N |-> g[j]] /\ N \in Nat
    <3>1. g = [j \in DOMAIN g |-> g[j]]
      OBVIOUS
    <3> HIDE DEF m, k, g
    <3> QED BY <1>1, <1>5, <3>1
  <2>5. g \in [1..N -> C]
    <3> HIDE DEF g, m, k
    <3> QED BY <2>3, <2>4
  <2>6. g \in Seq(C) /\ Len(g) = N
    <3> HIDE DEF C, g, N
    <3> QED BY <2>4, <2>5
  <2> HIDE DEF g, m, k
  <2> QED BY <2>6 DEF Sound
<1>7. \A j \in 1..m : g[j] = h[j]
  <2>1. \A j \in 1..m : j \in 1..m+k /\ j # p
    BY <1>1, <1>4
  <2> HIDE DEF g
  <2> QED BY <1>5, <2>1 DEF Made
<1>8. ASSUME NEW j \in 1..k PROVE g[m + j] = [car |-> t[k + 1 - j], cdr |-> IF j = 1 THEN d ELSE m + j - 1]
  <2>1. r.heap[m + j] = [car |-> s[k + 1 - j], cdr |-> IF j = 1 THEN d ELSE m + j - 1]
    BY DEF Made
  <2>2. m + j \in 1..m+k /\ k + 1 - j \in 1..k /\ (m + j = p <=> k + 1 - j = i)
    BY <1>1
  <2> HIDE DEF g, t, m, k
  <2>3. CASE m + j = p
    <3>1. CDR(r.heap, p) = IF j = 1 THEN d ELSE m + j - 1
      BY <2>1, <2>3 DEF CDR
    <3> QED BY <1>2, <1>5, <2>2, <2>3, <3>1
  <2>4. CASE m + j # p
    BY <1>2, <1>5, <2>1, <2>2, <2>4
  <2> QED BY <2>3, <2>4
<1>9. r.val = IF k = 0 THEN d ELSE m + k
  BY <1>1 DEF Made
<1> DEFINE q == Returns(g, r.val)
<1>10. q.heap = g /\ q.val = r.val
  BY DEF Returns
<1> HIDE DEF q, g, t
<1>11. Made(h, q, t, d)
  BY <1>2, <1>6, <1>7, <1>8, <1>9, <1>10 DEF Made
<1> QED BY <1>11 DEF q, g, t

\* The list made by make_list, of which the first i elements are filled.
Filled(v, a, k, i) == [j \in 1..k |-> IF j <= i THEN v[a + j] ELSE False]

\* copy_sequence fills the list that make_list made.
LEMMA CopySequenceMade ==
  ASSUME NEW h, Sound(h), NEW l \in Ref(h), ~Endless(h, l), NEW a \in Nat, NEW b \in Nat,
         a <= b, b <= size(h, l)
  PROVE  /\ Made(h, copy_sequence(h, l, a, b), SubSeq(Contents(h, l), a + 1, b), Nil)
         /\ copy_sequence(h, l, a, b) \in Result
<1> DEFINE k == b - a
           m == Len(h)
           v == Contents(h, l)
           new == make_list(h, k, False)
           g0 == new.heap
           from == Tail_n(h, l, a)
           x == Spine(g0, from)
           y == Spine(g0, new.val)
           w == [i \in 1..Min({size(g0, from), size(g0, new.val)}) |-> i]
           S(i) == Filled(v, a, k, i)
           Put(g, i) == [g EXCEPT ![y[i]].car = CAR(g, x[i])]
<1>0. False \in Element
  BY DatumAssumption
<1>1. k \in Nat /\ m \in Nat /\ v \in Seq(Element) /\ Len(v) = size(h, l) /\ size(h, l) \in Nat /\ from \in Ref(h)
  <2>1. v \in Seq(Element) /\ Len(v) = size(h, l) /\ size(h, l) \in Nat
    BY SpineOf
  <2>2. m \in Nat /\ from \in Ref(h)
    BY SoundHeap, TailSteps
  <2>3. k \in Nat
    BY <2>1
  <2> QED BY <2>1, <2>2, <2>3
<1>2. Made(h, new, S(0), Nil)
  <2>1. S(0) = [i \in 1..k |-> False]
    <3>1. \A j \in 1..k : ~(j <= 0)
      OBVIOUS
    <3> QED BY <3>1 DEF Filled
  <2> HIDE DEF k
  <2> QED BY <1>0, <1>1, <2>1, MakeListMade
<1>3. \A i \in Nat : S(i) \in Seq(Element) /\ Len(S(i)) = k
  <2> SUFFICES ASSUME NEW i \in Nat PROVE S(i) \in Seq(Element) /\ Len(S(i)) = k
    OBVIOUS
  <2>1. \A j \in 1..k : a + j \in 1..Len(v)
    BY <1>1
  <2>2. \A j \in 1..k : v[a + j] \in Element
    <3> HIDE DEF v, k
    <3> QED BY <1>1, <2>1, ElementOfSeq
  <2>3. S(i) \in [1..k -> Element]
    <3> HIDE DEF v, k
    <3> QED BY <1>0, <2>2 DEF Filled
  <2> HIDE DEF k, S
  <2> QED BY <1>1, <2>3
<1>4. /\ Sound(g0) /\ Len(g0) = m + k /\ from \in Ref(g0) /\ new.val \in Ref(g0)
      /\ \A z \in Ref(h) : PAIRP(g0, z) <=> PAIRP(h, z)
      /\ \A n \in Nat : Tail_n(g0, from, n) = Tail_n(h, from, n)
      /\ ~Endless(g0, new.val) /\ Contents(g0, new.val) = S(0)
  <2>1. Nil \in Ref(h) /\ ~Endless(h, Nil) /\ Contents(h, Nil) = <<>>
    BY NilList
  <2>2. S(0) \in Seq(Element) /\ Len(S(0)) = k
    BY <1>3
  <2> HIDE DEF new, S, from
  <2>3. S(0) \o <<>> = S(0)
    BY <2>2, ConcatEmptySeq
  <2> HIDE DEF k
  <2>4. ~Endless(g0, new.val) /\ Contents(g0, new.val) = S(0) \o <<>>
    BY <1>2, <2>1, <2>2, MadeList
  <2>5. /\ Sound(g0) /\ Ref(h) \subseteq Ref(g0) /\ new.val \in Ref(g0)
        /\ \A z \in Ref(h) : PAIRP(g0, z) <=> PAIRP(h, z)
        /\ \A z \in Ref(h) : \A n \in Nat : Tail_n(g0, z, n) = Tail_n(h, z, n)
    BY <1>2, <2>1, <2>2, MadeStays
  <2>6. Len(g0) = m + k
    BY <1>2, <2>2 DEF Made
  <2> QED BY <1>1, <2>3, <2>4, <2>5, <2>6
<1>5. ~Endless(h, from) /\ size(h, from) = size(h, l) - a /\ \A j \in 1..size(h, l) - a : Contents(h, from)[j] = v[a + j]
  <2>1. a \in 0..size(h, l)
    BY <1>1
  <2> QED BY <2>1, RestOf
<1>6. Ends(g0, from, size(h, l) - a)
  <2> DEFINE c == size(h, l) - a
  <2>1. Ends(h, from, c)
    BY <1>1, <1>5, EndFound
  <2>2. \A n \in Nat : Tail_n(h, from, n) \in Ref(h)
    BY <1>1, TailSteps
  <2>3. c \in Nat /\ c \in 0..m /\ c \in 0..m+k /\ \A n \in 0..c-1 : n \in Nat
    <3> HIDE DEF c, k
    <3> QED BY <1>1, <2>1 DEF Ends
  <2> HIDE DEF new, from, c, k, m
  <2>4. \A n \in Nat : PAIRP(g0, Tail_n(g0, from, n)) <=> PAIRP(h, Tail_n(h, from, n))
    BY <1>4, <2>2
  <2>5. c \in 0..Len(g0)
    BY <1>4, <2>3
  <2>6. (\A n \in 0..c-1 : PAIRP(h, Tail_n(h, from, n))) /\ ~PAIRP(h, Tail_n(h, from, c))
    BY <2>1 DEF Ends
  <2>7. (\A n \in 0..c-1 : PAIRP(g0, Tail_n(g0, from, n))) /\ ~PAIRP(g0, Tail_n(g0, from, c))
    BY <2>3, <2>4, <2>6
  <2>8. Ends(g0, from, c)
    BY <2>5, <2>7 DEF Ends
  <2> QED BY <2>8 DEF c
<1>7. /\ \A i \in 1..size(h, l) - a : x[i] = Tail_n(h, from, i - 1) /\ x[i] \in 1..m /\ CAR(h, x[i]) = v[a + i]
      /\ size(g0, from) = size(h, l) - a
  <2>1. size(g0, from) = size(h, l) - a /\ ~Endless(g0, from)
    <3> HIDE DEF new, from
    <3> QED BY <1>4, <1>6, EndsHave
  <2>2. \A i \in 1..size(h, l) - a : x[i] = Tail_n(g0, from, i - 1)
    <3> HIDE DEF new, from
    <3> QED BY <1>4, <2>1, SpineOf, SMTT(30)
  <2>3. \A i \in 1..size(h, l) - a : Spine(h, from)[i] = Tail_n(h, from, i - 1) /\ CAR(h, Spine(h, from)[i]) = v[a + i] /\ Spine(h, from)[i] \in 1..m
    <3> HIDE DEF from, v
    <3> DEFINE e == size(h, l) - a
               q == Spine(h, from)
    <3>1. q \in Seq(DOMAIN h) /\ Len(q) = e
      BY <1>1, <1>5, SpineOf
    <3>2. \A i \in 1..e : q[i] = Tail_n(h, from, i - 1) /\ Contents(h, from)[i] = CAR(h, q[i])
      BY <1>1, <1>5, SpineOf
    <3>3. \A i \in 1..e : q[i] \in DOMAIN h
      <4> HIDE DEF q, e
      <4> QED BY <3>1, ElementOfSeq
    <3>4. DOMAIN h = 1..m
      BY SoundHeap
    <3>5. \A i \in 1..e : Contents(h, from)[i] = v[a + i]
      BY <1>5
    <3>6. \A i \in 1..e : q[i] = Tail_n(h, from, i - 1) /\ CAR(h, q[i]) = v[a + i] /\ q[i] \in 1..m
      <4> HIDE DEF q, m, e
      <4> QED BY <3>2, <3>3, <3>4, <3>5
    <3> QED BY <3>6
  <2>4. \A i \in 1..size(h, l) - a : i - 1 \in Nat
    BY <1>1
  <2> HIDE DEF x, new, from, v
  <2> QED BY <1>4, <2>1, <2>2, <2>3, <2>4
<1>8. size(g0, new.val) = k /\ \A i \in 1..k : y[i] = m + k + 1 - i
  <2>1. size(g0, new.val) = k
    <3>1. Len(S(0)) = k
      BY <1>3
    <3> HIDE DEF new, S
    <3> QED BY <1>4, <3>1, SpineOf
  <2>2. ASSUME NEW i \in 1..k PROVE y[i] = m + k + 1 - i
    <3>1. y[i] = Tail_n(g0, new.val, i - 1)
      <4> HIDE DEF new, k
      <4> QED BY <1>4, <2>1, SpineOf
    <3>2. i - 1 \in Nat /\ i - 1 < k /\ m + k - (i - 1) = m + k + 1 - i
      BY <1>1
    <3>3. Tail_n(g0, new.val, i - 1) = m + k - (i - 1)
      <4>1. Nil \in Ref(h)
        BY NilList
      <4>2. S(0) \in Seq(Element) /\ Len(S(0)) = k
        BY <1>3
      <4> HIDE DEF new, S, k
      <4>3. \A n \in Nat : Tail_n(g0, new.val, n) = IF n < Len(S(0)) THEN Len(h) + Len(S(0)) - n ELSE Tail_n(h, Nil, n - Len(S(0)))
        BY <1>2, <4>1, <4>2, MadeTails
      <4> QED BY <3>2, <4>2, <4>3
    <3> QED BY <3>1, <3>2, <3>3
  <2> QED BY <2>1, <2>2
<1>9. Min({size(g0, from), size(g0, new.val)}) = k
  <2>1. k <= size(h, l) - a /\ size(h, l) - a \in Nat
    BY <1>1
  <2> DEFINE e == size(h, l) - a
  <2> HIDE DEF new, from, k, e
  <2>2. Min({e, k}) = CHOOSE z \in {e, k} : \A u \in {e, k} : z =< u
    BY DEF Min
  <2>3. k \in {e, k} /\ (\A u \in {e, k} : k =< u) /\ \A z \in {e, k} : (\A u \in {e, k} : z =< u) => z = k
    BY <1>1, <2>1 DEF e
  <2>4. Min({e, k}) = k
    BY <2>2, <2>3
  <2> QED BY <1>7, <1>8, <2>4 DEF e
\* The fold.
<1> DEFINE D == {g \in Seq(Pair) : Len(g) = m + k}
           After(f) == [s \in SUBSET DOMAIN w |-> IF s = {} THEN g0 ELSE Put(f[s \ {Max(s)}], w[Max(s)])]
           F == CHOOSE f : f = After(f)
<1>10. DOMAIN w = 1..k /\ \A i \in 1..k : w[i] = i
  <2> HIDE DEF new, from, k
  <2> QED BY <1>9
<1>11. g0 \in D /\ \A i \in 1..k : \A g \in D : Put(g, i) \in D
  <2>1. g0 \in Seq(Pair)
    <3>1. Returns(g0, new.val) \in Result
      <4> HIDE DEF new
      <4> QED BY <1>4, SoundResult
    <3> QED BY <3>1 DEF Returns, Result
  <2>2. ASSUME NEW i \in 1..k, NEW g \in D PROVE Put(g, i) \in D
    <3>1. y[i] \in 1..m+k /\ x[i] \in 1..m+k
      <4>1. y[i] = m + k + 1 - i /\ m + k + 1 - i \in 1..m+k
        BY <1>1, <1>8
      <4>2. x[i] \in 1..m
        <5>1. i \in 1..size(h, l) - a
          BY <1>1
        <5> HIDE DEF x
        <5> QED BY <1>7, <5>1
      <4> HIDE DEF x, y
      <4> QED BY <1>1, <4>1, <4>2
    <3> DEFINE p == y[i]
               q == x[i]
    <3> HIDE DEF x, y, p, q, k, m
    <3>2. p \in 1..Len(g) /\ q \in 1..Len(g) /\ g \in Seq(Pair) /\ Len(g) = m + k
      BY <3>1 DEF p, q
    <3>3. g[p] \in Pair /\ g[q] \in Pair /\ DOMAIN g = 1..Len(g)
      BY <3>2, ElementOfSeq, LenProperties
    <3>4. [g[p] EXCEPT !.car = g[q].car] \in Pair
      BY <3>3 DEF Pair
    <3>5. [g EXCEPT ![p] = [g[p] EXCEPT !.car = g[q].car]] \in Seq(Pair) /\ Len([g EXCEPT ![p] = [g[p] EXCEPT !.car = g[q].car]]) = Len(g)
      <4> DEFINE z == [g[p] EXCEPT !.car = g[q].car]
      <4>1. z \in Pair
        BY <3>4
      <4> HIDE DEF z
      <4>2. [g EXCEPT ![p] = z] \in Seq(Pair) /\ Len([g EXCEPT ![p] = z]) = Len(g)
        BY <3>2, <4>1, ExceptSeq
      <4> QED BY <4>2 DEF z
    <3>6. Put(g, i) = [g EXCEPT ![p] = [g[p] EXCEPT !.car = g[q].car]]
      BY DEF CAR, p, q
    <3> QED BY <3>2, <3>5, <3>6
  <2> HIDE DEF new, Put
  <2> QED BY <1>4, <2>1, <2>2
<1>12. \E f : f = After(f)
  <2> DEFINE step == [z \in (1..k) \X D |-> Put(z[2], z[1])]
  <2>1. step \in [(1..k) \X D -> D] /\ \A i \in 1..k : \A g \in D : step[<<i, g>>] = Put(g, i)
    <3> HIDE DEF Put, D, k
    <3> QED BY <1>11
  <2> HIDE DEF step, Put, D, k, g0
  <2>2. PICK f \in [SUBSET (1..k) -> D] : FoldedLeft(k, g0, step, f)
    BY <1>1, <1>11, <2>1, FoldsLeft
  <2>3. ASSUME NEW s \in SUBSET (1..k), s # {} PROVE f[s] = Put(f[s \ {Max(s)}], w[Max(s)])
    <3>1. Max(s) \in 1..k /\ s \ {Max(s)} \in SUBSET (1..k)
      BY <1>1, <2>3, MinPlace
    <3>2. f[s \ {Max(s)}] \in D /\ w[Max(s)] = Max(s)
      BY <1>10, <3>1
    <3>3. f[s] = step[<<Max(s), f[s \ {Max(s)}]>>]
      BY <2>2, <2>3 DEF FoldedLeft
    <3> HIDE DEF w
    <3> QED BY <2>1, <3>1, <3>2, <3>3
  <2>4. f[{}] = g0
    BY <2>2 DEF FoldedLeft
  <2>5. f = [s \in SUBSET (1..k) |-> f[s]]
    OBVIOUS
  <2> HIDE DEF w
  <2>6. f = After(f)
    BY <1>10, <2>3, <2>4, <2>5
  <2> QED BY <2>6
<1>13. F = After(F)
  <2> HIDE DEF After
  <2> QED BY <1>12
<1>14. transfer(g0, from, new.val) = F[1..k]
  <2>1. transfer(g0, from, new.val) = F[DOMAIN w]
    <3> HIDE DEF from, new, k
    <3> QED BY DEF transfer, FoldLeft, MapThenFoldSet
  <2> HIDE DEF F
  <2> QED BY <1>10, <2>1
<1> HIDE DEF F
<1>15. F[{}] = g0 /\ \A i \in 1..k : F[1..i] = Put(F[1..i-1], i)
  <2> HIDE DEF Put, g0, w
  <2>1. F[{}] = g0
    BY <1>10, <1>13
  <2>2. ASSUME NEW i \in 1..k PROVE F[1..i] = Put(F[1..i-1], i)
    <3>1. 1..i \in SUBSET (1..k)
      BY <1>1
    <3> HIDE DEF k
    <3>2. 1..i # {} /\ Max(1..i) = i /\ (1..i) \ {i} = 1..i-1
      BY <1>1, EndsOfRow
    <3>3. Max(1..i) \in 1..k /\ w[Max(1..i)] = i
      BY <1>10, <3>2
    <3>4. \A s \in SUBSET (1..k) : s # {} => F[s] = Put(F[s \ {Max(s)}], w[Max(s)])
      BY <1>10, <1>13
    <3>5. F[1..i] = Put(F[(1..i) \ {Max(1..i)}], w[Max(1..i)])
      BY <3>1, <3>2, <3>4
    <3> HIDE DEF After
    <3> QED BY <3>2, <3>3, <3>5
  <2> QED BY <2>1, <2>2
<1> DEFINE t == [i \in 0..k |-> Made(h, Returns(F[1..i], new.val), S(i), Nil)]
<1>16. t[0] \in {TRUE}
  <2>1. 0 \in 0..k /\ 1..0 = {}
    BY <1>1
  <2>2. F[1..0] = g0
    BY <1>15, <2>1
  <2>3. Returns(g0, new.val).heap = new.heap /\ Returns(g0, new.val).val = new.val
    BY DEF Returns
  <2> HIDE DEF new, S, k
  <2>4. Made(h, Returns(g0, new.val), S(0), Nil)
    BY <1>2, <2>3 DEF Made
  <2> QED BY <2>1, <2>2, <2>4
<1>17. ASSUME NEW i \in 0+1..k, t[i-1] \in {TRUE} PROVE t[i] \in {TRUE}
  <2>1. i \in 1..k /\ i \in 0..k /\ i-1 \in 0..k /\ i-1 \in Nat /\ i \in 1..size(h, l) - a /\ i \in Nat
    BY <1>1
  <2> DEFINE r == Returns(F[1..i-1], new.val)
             p == m + k + 1 - i
  <2>2. Made(h, r, S(i-1), Nil)
    <3> HIDE DEF new, S, k
    <3> QED BY <1>17, <2>1
  <2>3. S(i-1) \in Seq(Element) /\ Len(S(i-1)) = k /\ Nil \in Ref(h)
    BY <1>3, <2>1, NilList
  <2>4. CAR(F[1..i-1], x[i]) = v[a + i] /\ v[a + i] \in Element
    <3>1. r.heap = F[1..i-1]
      BY DEF Returns
    <3>2. x[i] \in 1..m /\ CAR(h, x[i]) = v[a + i]
      <4> HIDE DEF x, v, k
      <4> QED BY <1>7, <2>1
    <3>3. F[1..i-1][x[i]] = h[x[i]]
      <4> HIDE DEF r, x, S
      <4> QED BY <2>2, <3>1, <3>2 DEF Made
    <3>4. h[x[i]].car \in Element
      <4> HIDE DEF x
      <4> QED BY <3>2, SoundHeap DEF CAR
    <3> HIDE DEF x, v
    <3> QED BY <3>2, <3>3, <3>4 DEF CAR
  <2>5. Put(F[1..i-1], i) = [r.heap EXCEPT ![p].car = v[a + i]]
    <3>1. y[i] = p
      BY <1>8, <2>1
    <3>2. r.heap = F[1..i-1]
      BY DEF Returns
    <3> HIDE DEF x, y, v, r, p
    <3> QED BY <2>4, <3>1, <3>2
  <2>6. S(i) = [S(i-1) EXCEPT ![i] = v[a + i]]
    <3>1. \A j \in 1..k : j <= i <=> (j = i \/ j <= i-1)
      BY <2>1
    <3> HIDE DEF v, k
    <3> QED BY <2>1, <3>1 DEF Filled
  <2>7. Made(h, Returns([r.heap EXCEPT ![p].car = v[a + i]], r.val), [S(i-1) EXCEPT ![i] = v[a + i]], Nil)
    <3>1. i \in 1..Len(S(i-1)) /\ p = Len(h) + Len(S(i-1)) + 1 - i
      BY <2>1, <2>3
    <3> HIDE DEF r, S, v, p, k, m
    <3> QED BY <2>2, <2>3, <2>4, <3>1, MadeSet
  <2>8. r.val = new.val
    BY DEF Returns
  <2>9. Made(h, Returns(F[1..i], new.val), S(i), Nil)
    <3>1. F[1..i] = [r.heap EXCEPT ![p].car = v[a + i]]
      BY <1>15, <2>1, <2>5
    <3> HIDE DEF r, S, v, p, new
    <3> QED BY <2>6, <2>7, <2>8, <3>1
  <2> HIDE DEF S, new, k
  <2> QED BY <2>1, <2>9
<1>18. t[k] \in {TRUE}
  <2>1. k \in 0..k /\ 0 \in Nat
    BY <1>1
  <2> HIDE DEF t, k
  <2> QED BY <1>1, <1>16, <1>17, <2>1, Onwards
<1>19. Made(h, Returns(F[1..k], new.val), S(k), Nil)
  <2>1. k \in 0..k
    BY <1>1
  <2> HIDE DEF S, k, new
  <2> QED BY <1>18, <2>1
<1>20. S(k) = SubSeq(v, a + 1, b)
  <2>1. SubSeq(v, a + 1, b) = [i \in 1..(1 + b - (a + 1)) |-> v[(a + 1) + i - 1]]
    <3>1. SubSeq(v, a + 1, b) = [i \in 1..k |-> v[a + i]]
      <4>1. a + 1 \in Int /\ b \in Int /\ (\A i \in a+1..b : v[i] \in Element)
        <5>1. \A i \in a+1..b : i \in 1..Len(v)
          BY <1>1
        <5> HIDE DEF v
        <5> QED BY <1>1, <5>1, ElementOfSeq
      <4> DEFINE u == SubSeq(v, a + 1, b)
      <4>2. u \in Seq(Element) /\ Len(u) = k /\ \A i \in 1..k : u[i] = v[a + i]
        <5> HIDE DEF v
        <5> QED BY <1>1, <4>1, SubSeqProperties
      <4> HIDE DEF u, k, v
      <4>3. u = [i \in 1..k |-> u[i]]
        BY <4>2, LenProperties
      <4>4. u = [i \in 1..k |-> v[a + i]]
        BY <4>2, <4>3
      <4> QED BY <4>4 DEF u
    <3>2. (1 + b - (a + 1)) = k /\ \A i \in 1..k : (a + 1) + i - 1 = a + i
      OBVIOUS
    <3> HIDE DEF k, v
    <3> QED BY <3>1, <3>2
  <2>2. (1 + b - (a + 1)) = k /\ \A i \in 1..k : (a + 1) + i - 1 = a + i /\ i <= k
    BY <1>1
  <2> HIDE DEF k, v
  <2> QED BY <2>1, <2>2 DEF Filled
<1>21. copy_sequence(h, l, a, b) = Returns(F[1..k], new.val)
  <2>1. ~(b > size(h, l))
    BY <1>1
  <2>2. copy_sequence(h, l, a, b) = Returns(transfer(g0, from, new.val), new.val)
    BY <2>1 DEF copy_sequence
  <2> QED BY <1>14, <2>2
<1>22. Returns(F[1..k], new.val) \in Result
  <2>1. Nil \in Ref(h) /\ S(k) \in Seq(Element)
    BY <1>1, <1>3, NilList
  <2> DEFINE r == Returns(F[1..k], new.val)
  <2>2. Sound(r.heap) /\ r.val \in Ref(r.heap)
    <3> HIDE DEF r, S
    <3> QED BY <1>19, <2>1, MadeStays DEF r
  <2>3. r = Returns(r.heap, r.val)
    BY DEF Returns
  <2> HIDE DEF r
  <2> QED BY <2>2, <2>3, SoundResult DEF r
<1> HIDE DEF S, new, k
<1> QED BY <1>19, <1>20, <1>21, <1>22

\* copy.
LEMMA CopyMade ==
  ASSUME NEW h, Sound(h), NEW l \in Ref(h), ~Endless(h, l)
  PROVE  Made(h, copy(h, l), Contents(h, l), Nil) /\ copy(h, l) \in Result
<1> DEFINE k == size(h, l)
<1>1. k \in Nat /\ Contents(h, l) \in Seq(Element) /\ Len(Contents(h, l)) = k
  BY SpineOf
<1>2. SubSeq(Contents(h, l), 0 + 1, k) = Contents(h, l)
  <2> DEFINE v == Contents(h, l)
  <2>1. 0 + 1 = 1
    OBVIOUS
  <2>2. v \in Seq(Element) /\ Len(v) = k
    BY <1>1
  <2> HIDE DEF v, k
  <2>3. SubSeq(v, 1, Len(v)) = v
    BY <2>2, SubSeqFull
  <2>4. SubSeq(v, 0 + 1, k) = v
    BY <2>1, <2>2, <2>3
  <2> QED BY <2>4 DEF v
<1>3. 0 \in Nat /\ 0 <= k /\ k <= size(h, l)
  BY <1>1
<1>4. copy(h, l) = copy_sequence(h, l, 0, k)
  BY DEF copy
<1> DEFINE r == copy_sequence(h, l, 0, k)
<1>5. Made(h, r, SubSeq(Contents(h, l), 0 + 1, k), Nil) /\ r \in Result
  <2> HIDE DEF k
  <2> QED BY <1>1, <1>3, CopySequenceMade DEF k
<1> HIDE DEF k, r
<1> QED BY <1>2, <1>4, <1>5 DEF r

\* add copies the list, ...
LEMMA AddMade ==
  ASSUME NEW h, Sound(h), NEW l \in Ref(h), ~Endless(h, l), NEW el \in Element
  PROVE  Made(h, add(h, l, el), Prefixed(el, Contents(h, l)), Nil)
<1>1. Nil \in Ref(h) /\ Contents(h, l) \in Seq(Element)
  BY NilList, SpineOf
<1>2. Made(h, consTo(el, copy(h, l)), <<el>> \o Contents(h, l), Nil)
  BY <1>1, CopyMade, MadeOne
<1> QED BY <1>2 DEF add, Prefixed

\* ... add! shares it.
LEMMA AddXMade ==
  ASSUME NEW h, Sound(h), NEW l \in Ref(h), NEW el \in Element
  PROVE  Made(h, addX(h, l, el), <<el>>, l)
<1> DEFINE e == <<>>
           r == Returns(h, l)
<1>1. e \in Seq(Element) /\ <<el>> \o e = <<el>>
  OBVIOUS
<1>2. Made(h, r, e, l)
  BY MadeNone
<1>3. consTo(el, r) = addX(h, l, el)
  BY DEF consTo, addX, Returns
<1> HIDE DEF e, r
<1>4. Made(h, consTo(el, r), <<el>> \o e, l)
  BY <1>1, <1>2, MadeOne
<1> QED BY <1>1, <1>3, <1>4

(* remove, which counts, and copies what is behind the last one it leaves  *)
(* out.                                                                    *)

\* That an element is there for the first time, for more than the n-th time.
LEMMA NthIs ==
  ASSUME NEW v \in Seq(Element), NEW i \in 1..Len(v)
  PROVE  LET T == {j \in 1..i-1 : v[j] = v[i]}
         IN  /\ Cardinality(T) \in Nat /\ NthTime(v, i) = Cardinality(T) + 1
             /\ NthTime(v, i) = 1 <=> \A j \in 1..i-1 : v[j] # v[i]
<1> DEFINE T == {j \in 1..i-1 : v[j] = v[i]}
<1>0. Len(v) \in Nat
  BY LenProperties
<1>1. T \subseteq 1..i-1 /\ i - 1 \in Nat
  BY <1>0
<1>2. IsFiniteSet(T)
  <2>1. IsFiniteSet(1..i-1)
    BY <1>1, FS_Interval
  <2> HIDE DEF T
  <2> QED BY <1>1, <2>1, FS_Subset
<1>3. {j \in 1..i : v[j] = v[i]} = T \cup {i} /\ i \notin T
  BY <1>0
<1>4. Cardinality(T \cup {i}) = Cardinality(T) + 1 /\ Cardinality(T) \in Nat
  <2> HIDE DEF T
  <2> QED BY <1>2, <1>3, FS_AddElement, FS_CardinalityType
<1>5. NthTime(v, i) = Cardinality(T) + 1
  BY <1>3, <1>4 DEF NthTime
<1>6. Cardinality(T) = 0 <=> T = {}
  <2> HIDE DEF T
  <2> QED BY <1>2, FS_EmptySet
<1>7. T = {} <=> \A j \in 1..i-1 : v[j] # v[i]
  OBVIOUS
<1> HIDE DEF T
<1> QED BY <1>4, <1>5, <1>6, <1>7 DEF T

\* All from a place on is kept.
LEMMA KeptRest ==
  ASSUME NEW S, NEW v \in Seq(S), NEW P, NEW i \in 1..Len(v), i..Len(v) \subseteq P
  PROVE  Kept(v, P \cap i..Len(v)) = SubSeq(v, i, Len(v))
<1> DEFINE n == Len(v)
           Q == P \cap i..n
           f == [j \in 0..n |-> IF j < i THEN <<>> ELSE SubSeq(v, i, j)]
<1>0. n \in Nat /\ \A j \in 1..n : v[j] \in S
  BY LenProperties, ElementOfSeq
<1>1. f[0] = <<>>
  BY <1>0
<1>2. ASSUME NEW j \in 1..n PROVE f[j] = IF j \in Q THEN Append(f[j-1], v[j]) ELSE f[j-1]
  <2>1. j \in 0..n /\ j-1 \in 0..n /\ (j \in Q <=> ~(j < i))
    BY <1>0
  <2>2. CASE j < i
    <3>1. f[j] = <<>> /\ f[j-1] = <<>>
      BY <2>1, <2>2
    <3> QED BY <2>1, <2>2, <3>1
  <2>3. CASE j >= i
    <3>1. j \in i..n
      BY <2>3
    <3>2. SubSeq(v, i, j) = SubSeq(v, i, j-1) \o <<v[j]>>
      BY <3>1, SubSeqRecursiveSecond
    <3>3. SubSeq(v, i, j-1) \in Seq(S)
      <4>1. \A a \in i..j-1 : v[a] \in S
        BY <1>0
      <4>2. i \in Int /\ j-1 \in Int
        OBVIOUS
      <4> QED BY <4>1, <4>2, SubSeqProperties
    <3>4. Append(SubSeq(v, i, j-1), v[j]) = SubSeq(v, i, j-1) \o <<v[j]>>
      BY <1>0, <3>3, AppendIsConcat
    <3>5. f[j-1] = SubSeq(v, i, j-1)
      <4>1. CASE j = i
        <5>1. SubSeq(v, i, j-1) = <<>>
          BY <4>1, SubSeqEmpty
        <5> QED BY <2>1, <4>1, <5>1
      <4>2. CASE j # i
        BY <2>1, <2>3, <4>2
      <4> QED BY <4>1, <4>2
    <3>6. f[j] = SubSeq(v, i, j) /\ j \in Q
      BY <2>1, <2>3
    <3> HIDE DEF f, Q
    <3> QED BY <3>2, <3>4, <3>5, <3>6
  <2> QED BY <2>1, <2>2, <2>3
<1>3. Keeps(v, Q, f)
  <2> HIDE DEF f, Q
  <2> QED BY <1>1, <1>2 DEF Keeps
<1>4. f[n] = SubSeq(v, i, n)
  <2>1. n \in 0..n /\ ~(n < i)
    BY <1>0
  <2> QED BY <2>1
<1>5. f[n] = Kept(v, Q)
  <2> HIDE DEF f, Q
  <2> QED BY <1>3, KeptUnique
<1> HIDE DEF f
<1> QED BY <1>4, <1>5

\* What the list from the i-th pair on holds.
LEMMA RestContents ==
  ASSUME NEW h, Sound(h), NEW l \in Ref(h), ~Endless(h, l), NEW i \in 1..size(h, l)
  PROVE  LET x == Spine(h, l)[i]
             v == Contents(h, l)
         IN  x \in Ref(h) /\ ~Endless(h, x) /\ Contents(h, x) = SubSeq(v, i, Len(v))
<1> DEFINE x == Tail_n(h, l, i - 1)
           v == Contents(h, l)
           n == Len(v)
           u == Contents(h, x)
<1>1. v \in Seq(Element) /\ n = size(h, l) /\ n \in Nat /\ Spine(h, l)[i] = x
  BY SpineOf
<1>2. i \in 1..n /\ i - 1 \in 0..size(h, l) /\ n - (i - 1) = n - i + 1 /\ n - i + 1 \in Nat
  BY <1>1
<1>3. /\ x \in Ref(h) /\ ~Endless(h, x) /\ size(h, x) = n - i + 1
      /\ \A j \in 1..n - i + 1 : u[j] = v[i - 1 + j]
  <2>1. /\ x \in Ref(h) /\ ~Endless(h, x) /\ size(h, x) = size(h, l) - (i - 1)
        /\ \A j \in 1..size(h, l) - (i - 1) : u[j] = v[i - 1 + j]
    BY <1>2, RestOf
  <2> HIDE DEF x, u, v, n
  <2> QED BY <1>1, <1>2, <2>1
<1>4. u \in Seq(Element) /\ Len(u) = n - i + 1
  <2> HIDE DEF x
  <2> QED BY <1>3, SpineOf
<1> DEFINE z == SubSeq(v, i, n)
<1>5. z \in Seq(Element) /\ Len(z) = n - i + 1 /\ \A j \in 1..n - i + 1 : z[j] = v[i + j - 1]
  <2>1. \A j \in i..n : v[j] \in Element
    <3>1. \A j \in i..n : j \in 1..n
      BY <1>2
    <3> HIDE DEF v
    <3> QED BY <1>1, <3>1, ElementOfSeq
  <2> HIDE DEF v, n
  <2> QED BY <1>1, <1>2, <2>1, SubSeqProperties
<1>6. \A j \in 1..n - i + 1 : u[j] = z[j]
  <2>1. \A j \in 1..n - i + 1 : i - 1 + j = i + j - 1
    BY <1>2
  <2> HIDE DEF u, z, v, n
  <2> QED BY <1>3, <1>5, <2>1
<1>7. u = z
  <2> HIDE DEF u, z, n
  <2> QED BY <1>4, <1>5, <1>6, SeqEqual
<1> HIDE DEF x, u, z, v, n
<1> QED BY <1>1, <1>3, <1>7 DEF u, z, v, n

\* remove, with a count or without.
LEMMA RemoveMade ==
  ASSUME NEW h, Sound(h), NEW l \in Ref(h), ~Endless(h, l), NEW el, NEW count \in Nat
  PROVE  LET v == Contents(h, l)
         IN  Made(h, remove(h, l, el, count),
                  Kept(v, {i \in 1..Len(v) : v[i] # el \/ (count # 0 /\ NthTime(v, i) > count)}), Nil)
<1> DEFINE y == Spine(h, l)
           v == Contents(h, l)
           n == Len(v)
           P == {i \in 1..n : v[i] # el \/ (count # 0 /\ NthTime(v, i) > count)}
           w == [i \in DOMAIN y |-> i]
           c(i) == Cardinality({j \in 1..i - 1 : CAR(h, y[j]) = el})
           Help(i, r) == IF CAR(h, y[i]) # el THEN consTo(CAR(h, y[i]), r)
                         ELSE IF count # 0 /\ count <= c(i) THEN copy(h, y[i]) ELSE r
           After(f) == [s \in SUBSET DOMAIN w |->
                          IF s = {} THEN Returns(h, Nil) ELSE Help(w[Min(s)], f[s \ {Min(s)}])]
           F == CHOOSE f : f = After(f)
           K(i) == Kept(v, P \cap i..n)
<1>1. /\ v \in Seq(Element) /\ n \in Nat /\ DOMAIN w = 1..n
      /\ \A i \in 1..n : w[i] = i /\ CAR(h, y[i]) = v[i] /\ v[i] \in Element
  <2>1. v \in Seq(Element) /\ n \in Nat /\ DOMAIN w = 1..n /\ \A i \in 1..n : w[i] = i /\ CAR(h, y[i]) = v[i]
    BY SpineOf, LenProperties
  <2> HIDE DEF v, y
  <2> QED BY <2>1, ElementOfSeq
<1>2. \A i \in 1..n : /\ y[i] \in Ref(h) /\ ~Endless(h, y[i]) /\ Contents(h, y[i]) = SubSeq(v, i, n)
                      /\ Made(h, copy(h, y[i]), SubSeq(v, i, n), Nil) /\ copy(h, y[i]) \in Result
  <2> SUFFICES ASSUME NEW i \in 1..n
      PROVE  /\ y[i] \in Ref(h) /\ ~Endless(h, y[i]) /\ Contents(h, y[i]) = SubSeq(v, i, n)
             /\ Made(h, copy(h, y[i]), SubSeq(v, i, n), Nil) /\ copy(h, y[i]) \in Result
    OBVIOUS
  <2>1. i \in 1..size(h, l)
    BY SpineOf
  <2>2. y[i] \in Ref(h) /\ ~Endless(h, y[i]) /\ Contents(h, y[i]) = SubSeq(v, i, n)
    BY <2>1, RestContents
  <2> HIDE DEF y, v, n
  <2>3. Made(h, copy(h, y[i]), Contents(h, y[i]), Nil) /\ copy(h, y[i]) \in Result
    BY <2>2, CopyMade
  <2> QED BY <2>2, <2>3
<1>3. Nil \in Ref(h) /\ Returns(h, Nil) \in Result
  BY NilList, SoundResult
\* The fold.
<1>4. \E f : f = After(f)
  <2> DEFINE step == [z \in (1..n) \X Result |-> Help(z[1], z[2])]
  <2>1. \A i \in 1..n : \A r \in Result : Help(i, r) \in Result
    <3> HIDE DEF v, y, c, n
    <3> QED BY <1>1, <1>2, ConsResult
  <2>2. step \in [(1..n) \X Result -> Result] /\ \A i \in 1..n : \A r \in Result : step[<<i, r>>] = Help(i, r)
    <3> HIDE DEF Help, n
    <3> QED BY <2>1
  <2> HIDE DEF step, Help, n, w
  <2>3. PICK f \in [SUBSET (1..n) -> Result] : FoldedRight(n, Returns(h, Nil), step, f)
    <3> DEFINE b == Returns(h, Nil)
    <3>1. b \in Result
      BY <1>3
    <3> HIDE DEF b
    <3>2. \E f \in [SUBSET (1..n) -> Result] : FoldedRight(n, b, step, f)
      BY <1>1, <3>1, <2>2, FoldsRight
    <3> QED BY <3>2 DEF b
  <2>4. ASSUME NEW s \in SUBSET (1..n), s # {} PROVE f[s] = Help(w[Min(s)], f[s \ {Min(s)}])
    <3>1. Min(s) \in 1..n /\ s \ {Min(s)} \in SUBSET (1..n)
      BY <1>1, <2>4, MinPlace
    <3>2. f[s \ {Min(s)}] \in Result /\ w[Min(s)] = Min(s)
      BY <1>1, <3>1
    <3>3. f[s] = step[<<Min(s), f[s \ {Min(s)}]>>]
      BY <2>3, <2>4 DEF FoldedRight
    <3> QED BY <2>2, <3>1, <3>2, <3>3
  <2>5. f[{}] = Returns(h, Nil)
    BY <2>3 DEF FoldedRight
  <2>6. f = [s \in SUBSET (1..n) |-> f[s]]
    OBVIOUS
  <2>7. f = After(f)
    BY <1>1, <2>4, <2>5, <2>6
  <2> QED BY <2>7
<1>5. F = After(F)
  <2> HIDE DEF After
  <2> QED BY <1>4
<1>6. remove(h, l, el, count) = F[1..n]
  <2>1. remove(h, l, el, count) = F[DOMAIN w]
    BY DEF remove, FoldRightDomain, FoldRight, MapThenFoldSet
  <2> HIDE DEF F
  <2> QED BY <1>1, <2>1
<1> HIDE DEF F
<1>7. F[{}] = Returns(h, Nil) /\ \A i \in 1..n : F[i..n] = Help(i, F[i+1..n])
  <2> HIDE DEF Help, w, n
  <2>1. F[{}] = Returns(h, Nil)
    BY <1>1, <1>5
  <2>2. ASSUME NEW i \in 1..n PROVE F[i..n] = Help(i, F[i+1..n])
    <3>1. i..n \in SUBSET (1..n)
      BY <1>1
    <3>2. i..n # {} /\ Min(i..n) = i /\ (i..n) \ {i} = i+1..n
      BY <1>1, EndsOfRow
    <3>3. \A s \in SUBSET (1..n) : s # {} => F[s] = Help(w[Min(s)], F[s \ {Min(s)}])
      BY <1>1, <1>5
    <3>4. F[i..n] = Help(w[Min(i..n)], F[(i..n) \ {Min(i..n)}])
      BY <3>1, <3>2, <3>3
    <3>5. w[Min(i..n)] = i
      BY <1>1, <3>2
    <3> HIDE DEF After
    <3> QED BY <3>2, <3>4, <3>5
  <2> QED BY <2>1, <2>2
\* When the count is reached, all that is behind stays.
<1>8. ASSUME NEW i \in 1..n, v[i] = el PROVE (i \in P) <=> (count # 0 /\ count <= c(i))
  <2>1. {j \in 1..i - 1 : CAR(h, y[j]) = el} = {j \in 1..i - 1 : v[j] = v[i]}
    <3> \A j \in 1..i - 1 : j \in 1..n
      BY <1>1
    <3> HIDE DEF y, v, n
    <3> QED BY <1>1, <1>8
  <2>2. NthTime(v, i) = c(i) + 1 /\ c(i) \in Nat
    <3> HIDE DEF v, y
    <3> QED BY <1>1, <2>1, NthIs
  <2> HIDE DEF c, v, y, n
  <2> QED BY <1>8, <2>2 DEF n
<1>9. ASSUME NEW i \in 1..n, count # 0, count <= c(i) PROVE i..n \subseteq P
  <2> SUFFICES ASSUME NEW j \in i..n, v[j] = el PROVE j \in P
    <3>1. \A j \in i..n : j \in 1..n
      BY <1>1
    <3> HIDE DEF v, n
    <3> QED BY <3>1
  <2>1. j \in 1..n
    BY <1>1
  <2>2. c(i) <= c(j) /\ c(i) \in Nat /\ c(j) \in Nat
    <3> DEFINE A == {a \in 1..i - 1 : CAR(h, y[a]) = el}
               B == {a \in 1..j - 1 : CAR(h, y[a]) = el}
    <3>1. A \subseteq B /\ B \subseteq 1..j-1 /\ j-1 \in Nat
      BY <1>1
    <3>2. IsFiniteSet(B)
      <4>1. IsFiniteSet(1..j-1)
        BY <3>1, FS_Interval
      <4> HIDE DEF B
      <4> QED BY <3>1, <4>1, FS_Subset
    <3> HIDE DEF A, B
    <3>3. IsFiniteSet(A) /\ Cardinality(A) <= Cardinality(B)
      BY <3>1, <3>2, FS_Subset
    <3>4. Cardinality(A) \in Nat /\ Cardinality(B) \in Nat
      BY <3>2, <3>3, FS_CardinalityType
    <3> QED BY <3>3, <3>4 DEF A, B
  <2> HIDE DEF c, v, P, n
  <2>3. count <= c(j)
    BY <1>9, <2>2
  <2> QED BY <1>8, <1>9, <2>1, <2>3
\* The pairs there are when the fold has come to the i-th.
<1> DEFINE t == [j \in 0..n |-> Made(h, F[n+1-j..n], K(n+1-j), Nil)]
<1>10. t[0] \in {TRUE}
  <2>1. 0 \in 0..n /\ n+1-0 = n+1 /\ P \cap n+1..n = {} /\ n+1..n = {}
    BY <1>1
  <2>2. K(n+1) = <<>>
    <3>1. (P \cap n+1..n) \cap 1..Len(v) = {}
      BY <2>1
    <3> HIDE DEF v
    <3> QED BY <1>1, <3>1, KeptNone
  <2>3. Made(h, F[n+1..n], K(n+1), Nil)
    <3>1. Made(h, Returns(h, Nil), <<>>, Nil)
      BY <1>3, MadeNone
    <3> HIDE DEF K, n
    <3> QED BY <1>7, <2>1, <2>2, <3>1
  <2> HIDE DEF K, n
  <2> QED BY <2>1, <2>3
<1>11. ASSUME NEW j \in 0+1..n, t[j-1] \in {TRUE} PROVE t[j] \in {TRUE}
  <2> DEFINE i == n+1-j
  <2>1. j \in 0..n /\ j-1 \in 0..n /\ n+1-(j-1) = i+1 /\ i \in 1..n
    BY <1>1
  <2>2. Made(h, F[i+1..n], K(i+1), Nil)
    <3> HIDE DEF K, i, n
    <3> QED BY <1>11, <2>1
  <2> HIDE DEF i
  <2>3. K(i+1) \in Seq(Element)
    BY <1>1, KeptSeq
  <2>4. (i \in P => K(i) = Prefixed(v[i], K(i+1))) /\ (i \notin P => K(i) = K(i+1))
    <3>1. P \in SUBSET (1..Len(v)) /\ i \in 1..Len(v)
      BY <2>1
    <3> HIDE DEF v, P
    <3> QED BY <1>1, <3>1, KeptMore
  <2>5. Made(h, F[i..n], K(i), Nil)
    <3>1. CASE v[i] # el
      <4>1. i \in P
        BY <2>1, <3>1
      <4>2. F[i..n] = consTo(v[i], F[i+1..n])
        <5>1. Help(i, F[i+1..n]) = consTo(v[i], F[i+1..n])
          BY <1>1, <2>1, <3>1
        <5> HIDE DEF Help, n, v
        <5> QED BY <1>7, <2>1, <5>1
      <4>3. Made(h, consTo(v[i], F[i+1..n]), <<v[i]>> \o K(i+1), Nil)
        <5> HIDE DEF K, n, v
        <5> QED BY <1>1, <1>3, <2>1, <2>2, <2>3, MadeOne
      <4> HIDE DEF K, n, v, P
      <4> QED BY <2>4, <4>1, <4>2, <4>3 DEF Prefixed
    <3>2. CASE v[i] = el /\ count # 0 /\ count <= c(i)
      <4>1. F[i..n] = copy(h, y[i])
        <5>1. Help(i, F[i+1..n]) = copy(h, y[i])
          <6> HIDE DEF y, v, c, n
          <6> QED BY <1>1, <2>1, <3>2
        <5> HIDE DEF Help, n, v, y
        <5> QED BY <1>7, <2>1, <5>1
      <4>2. i..n \subseteq P
        <5> HIDE DEF v, y, c, n, P
        <5> QED BY <1>9, <2>1, <3>2
      <4>3. K(i) = SubSeq(v, i, n)
        <5> HIDE DEF v, P
        <5> QED BY <1>1, <2>1, <4>2, KeptRest
      <4> HIDE DEF K, n, v, y
      <4> QED BY <1>2, <2>1, <4>1, <4>3
    <3>3. CASE v[i] = el /\ ~(count # 0 /\ count <= c(i))
      <4>1. F[i..n] = F[i+1..n]
        <5>1. Help(i, F[i+1..n]) = F[i+1..n]
          <6> HIDE DEF y, v, c, n
          <6> QED BY <1>1, <2>1, <3>3
        <5> HIDE DEF Help, n, v, y
        <5> QED BY <1>7, <2>1, <5>1
      <4>2. i \notin P
        <5> HIDE DEF v, y, c, n, P
        <5> QED BY <1>8, <2>1, <3>3
      <4> HIDE DEF K, n, v, P
      <4> QED BY <2>2, <2>4, <4>1, <4>2
    <3> HIDE DEF v, c, K, n
    <3> QED BY <3>1, <3>2, <3>3
  <2>6. n+1-j = i
    BY DEF i
  <2> HIDE DEF K, n
  <2> QED BY <2>1, <2>5, <2>6
<1>12. t[n] \in {TRUE}
  <2>1. n \in 0..n /\ 0 \in Nat
    BY <1>1
  <2> HIDE DEF t, n
  <2> QED BY <1>1, <1>10, <1>11, <2>1, Onwards
<1>13. n \in 0..n /\ n+1-n = 1 /\ P \cap 1..n = P
  <2>1. P \cap 1..n = P
    OBVIOUS
  <2> HIDE DEF n, P
  <2> QED BY <1>1, <2>1
<1>14. Made(h, F[1..n], K(1), Nil)
  <2> HIDE DEF K, n
  <2> QED BY <1>12, <1>13
<1>15. K(1) = Kept(v, P)
  <2> HIDE DEF P, n
  <2> QED BY <1>13
<1> HIDE DEF K, P, v, n
<1> QED BY <1>6, <1>14, <1>15 DEF P, v, n

(* union, whose test depends on what it has made already.                  *)

\* What is in two sequences joined, and in one with an element in front.
LEMMA InJoined ==
  ASSUME NEW S, NEW a \in Seq(S), NEW b \in Seq(S), NEW x
  PROVE  x \in ToSet(a \o b) <=> x \in ToSet(a) \/ x \in ToSet(b)
<1> DEFINE c == a \o b
<1>1. Len(a) \in Nat /\ Len(b) \in Nat /\ DOMAIN a = 1..Len(a) /\ DOMAIN b = 1..Len(b)
  BY LenProperties
<1>2. /\ c \in Seq(S) /\ Len(c) = Len(a) + Len(b) /\ DOMAIN c = 1..Len(a) + Len(b)
      /\ \A i \in 1..Len(a) + Len(b) : c[i] = IF i <= Len(a) THEN a[i] ELSE b[i - Len(a)]
  <2>1. c \in Seq(S) /\ Len(c) = Len(a) + Len(b)
    BY ConcatProperties
  <2>2. DOMAIN c = 1..Len(a) + Len(b)
    <3> HIDE DEF c
    <3> QED BY <2>1, LenProperties
  <2> QED BY <2>1, <2>2, ConcatProperties
<1> HIDE DEF c
<1>3. \A i \in 1..Len(a) : c[i] = a[i] /\ i \in DOMAIN c
  BY <1>1, <1>2
<1>4. \A i \in 1..Len(b) : c[i + Len(a)] = b[i] /\ i + Len(a) \in DOMAIN c
  BY <1>1, <1>2
<1>5. \A i \in DOMAIN c : (i \in 1..Len(a) /\ c[i] = a[i]) \/ (i - Len(a) \in 1..Len(b) /\ c[i] = b[i - Len(a)])
  BY <1>1, <1>2
<1>6. x \in ToSet(c) => x \in ToSet(a) \/ x \in ToSet(b)
  <2> SUFFICES ASSUME NEW i \in DOMAIN c, x = c[i] PROVE x \in ToSet(a) \/ x \in ToSet(b)
    BY DEF ToSet
  <2> QED BY <1>1, <1>5 DEF ToSet
<1>7. x \in ToSet(a) => x \in ToSet(c)
  <2> SUFFICES ASSUME NEW i \in DOMAIN a, x = a[i] PROVE x \in ToSet(c)
    BY DEF ToSet
  <2> QED BY <1>1, <1>3 DEF ToSet
<1>8. x \in ToSet(b) => x \in ToSet(c)
  <2> SUFFICES ASSUME NEW i \in DOMAIN b, x = b[i] PROVE x \in ToSet(c)
    BY DEF ToSet
  <2> QED BY <1>1, <1>4 DEF ToSet
<1> QED BY <1>6, <1>7, <1>8 DEF c

\* In one with an element in front.
LEMMA InPrefixed ==
  ASSUME NEW S, NEW s \in Seq(S), NEW a \in S, NEW x
  PROVE  x \in ToSet(Prefixed(a, s)) <=> x = a \/ x \in ToSet(s)
<1> DEFINE b == <<a>>
<1>1. b \in Seq(S) /\ (x \in ToSet(b) <=> x = a)
  BY DEF ToSet
<1> HIDE DEF b
<1>2. x \in ToSet(b \o s) <=> x \in ToSet(b) \/ x \in ToSet(s)
  BY <1>1, InJoined
<1> QED BY <1>1, <1>2 DEF Prefixed, b

\* union puts what is new in front of its second argument.
LEMMA UnionMade ==
  ASSUME NEW h, Sound(h), NEW l \in Ref(h), ~Endless(h, l), NEW m \in Ref(h), ~Endless(h, m)
  PROVE  LET v == Contents(h, l)
             z == Contents(h, m)
         IN  Made(h, union(h, l, m),
                  Reverse(Kept(v, {i \in 1..Len(v) : v[i] \notin ToSet(z) /\ NthTime(v, i) = 1})), m)
<1> DEFINE w == Spine(h, l)
           v == Contents(h, l)
           z == Contents(h, m)
           n == Len(v)
           P == {i \in 1..n : v[i] \notin ToSet(z) /\ NthTime(v, i) = 1}
           Put(r, x) == add_newX(r.heap, r.val, CAR(h, x))
           After(f) == [s \in SUBSET DOMAIN w |->
                          IF s = {} THEN Returns(h, m) ELSE Put(f[s \ {Max(s)}], w[Max(s)])]
           F == CHOOSE f : f = After(f)
           K(i) == Reverse(Kept(v, P \cap 1..i))
<1>1. /\ v \in Seq(Element) /\ z \in Seq(Element) /\ n \in Nat /\ DOMAIN w = 1..n
      /\ \A i \in 1..n : CAR(h, w[i]) = v[i] /\ v[i] \in Element
  <2>1. v \in Seq(Element) /\ z \in Seq(Element) /\ n \in Nat /\ DOMAIN w = 1..n /\ \A i \in 1..n : CAR(h, w[i]) = v[i]
    BY SpineOf, LenProperties
  <2> HIDE DEF v, w
  <2> QED BY <2>1, ElementOfSeq
<1>2. Returns(h, m) \in Result
  BY SoundResult
\* The fold.
<1>3. \E f : f = After(f)
  <2> DEFINE step == [a \in (1..n) \X Result |-> Put(a[2], w[a[1]])]
             base == Returns(h, m)
  <2>1. \A i \in 1..n : \A r \in Result : Put(r, w[i]) \in Result
    <3> SUFFICES ASSUME NEW i \in 1..n, NEW r \in Result PROVE Put(r, w[i]) \in Result
      OBVIOUS
    <3>1. Returns(r.heap, r.val) \in Result
      BY DEF Returns, Result
    <3>2. consTo(CAR(h, w[i]), r) \in Result
      <4> HIDE DEF w, v, n
      <4> QED BY <1>1, ConsResult
    <3>3. addX(r.heap, r.val, CAR(h, w[i])) = consTo(CAR(h, w[i]), r)
      BY DEF addX, consTo
    <3> HIDE DEF w
    <3> QED BY <3>1, <3>2, <3>3 DEF add_newX
  <2>2. step \in [(1..n) \X Result -> Result] /\ \A i \in 1..n : \A r \in Result : step[<<i, r>>] = Put(r, w[i])
    <3> HIDE DEF Put, n, w
    <3> QED BY <2>1
  <2> HIDE DEF step, Put, n, w, base
  <2>3. PICK f \in [SUBSET (1..n) -> Result] : FoldedLeft(n, base, step, f)
    <3>1. base \in Result
      BY <1>2 DEF base
    <3>2. \E f \in [SUBSET (1..n) -> Result] : FoldedLeft(n, base, step, f)
      BY <1>1, <3>1, <2>2, FoldsLeft
    <3> QED BY <3>2
  <2>4. ASSUME NEW s \in SUBSET (1..n), s # {} PROVE f[s] = Put(f[s \ {Max(s)}], w[Max(s)])
    <3>1. Max(s) \in 1..n /\ s \ {Max(s)} \in SUBSET (1..n)
      BY <1>1, <2>4, MinPlace
    <3>2. f[s \ {Max(s)}] \in Result
      BY <3>1
    <3>3. f[s] = step[<<Max(s), f[s \ {Max(s)}]>>]
      BY <2>3, <2>4 DEF FoldedLeft
    <3> QED BY <2>2, <3>1, <3>2, <3>3
  <2>5. f[{}] = base
    BY <2>3 DEF FoldedLeft
  <2>6. f = [s \in SUBSET (1..n) |-> f[s]]
    OBVIOUS
  <2>7. f = After(f)
    BY <1>1, <2>4, <2>5, <2>6 DEF base
  <2> QED BY <2>7
<1>4. F = After(F)
  <2> HIDE DEF After
  <2> QED BY <1>3
<1>5. union(h, l, m) = F[1..n]
  <2>1. union(h, l, m) = F[DOMAIN w]
    BY DEF union, FoldLeft, MapThenFoldSet
  <2> HIDE DEF F
  <2> QED BY <1>1, <2>1
<1> HIDE DEF F
<1>6. F[{}] = Returns(h, m) /\ \A i \in 1..n : F[1..i] = Put(F[1..i-1], w[i])
  <2> HIDE DEF Put, w, n
  <2>1. F[{}] = Returns(h, m)
    BY <1>1, <1>4
  <2>2. ASSUME NEW i \in 1..n PROVE F[1..i] = Put(F[1..i-1], w[i])
    <3>1. 1..i \in SUBSET (1..n)
      BY <1>1
    <3>2. 1..i # {} /\ Max(1..i) = i /\ (1..i) \ {i} = 1..i-1
      BY <1>1, EndsOfRow
    <3>3. \A s \in SUBSET (1..n) : s # {} => F[s] = Put(F[s \ {Max(s)}], w[Max(s)])
      BY <1>1, <1>4
    <3>4. F[1..i] = Put(F[(1..i) \ {Max(1..i)}], w[Max(1..i)])
      BY <3>1, <3>2, <3>3
    <3> HIDE DEF After
    <3> QED BY <3>2, <3>4
  <2> QED BY <2>1, <2>2
\* What there is after i elements: the new pairs, and in the list these elements and those of m.
<1> DEFINE Had(i) == \A x : (x \in ToSet(K(i)) \/ x \in ToSet(z)) <=> (x \in ToSet(z) \/ \E j \in 1..i : v[j] = x)
           t == [j \in 0..n |-> Made(h, F[1..j], K(j), m) /\ Had(j)]
<1>7. t[0] \in {TRUE}
  <2>1. 0 \in 0..n /\ (P \cap 1..0) \cap 1..n = {} /\ 1..0 = {}
    BY <1>1
  <2>2. Kept(v, P \cap 1..0) = <<>>
    <3>1. (P \cap 1..0) \cap 1..Len(v) = {}
      BY <2>1
    <3> HIDE DEF v, P
    <3> QED BY <1>1, <3>1, KeptNone
  <2>3. K(0) = <<>>
    BY <2>2, EmptySeq DEF Reverse
  <2>4. Made(h, F[1..0], K(0), m)
    <3>1. Made(h, Returns(h, m), <<>>, m)
      BY MadeNone
    <3> HIDE DEF K, n
    <3> QED BY <1>6, <2>1, <2>3, <3>1
  <2>5. Had(0)
    <3>1. \A x : x \notin ToSet(<<>>)
      BY DEF ToSet
    <3> HIDE DEF K, v, z
    <3> QED BY <2>1, <2>3, <3>1
  <2> HIDE DEF K, n, Had
  <2> QED BY <2>1, <2>4, <2>5
<1>8. ASSUME NEW j \in 0+1..n, t[j-1] \in {TRUE} PROVE t[j] \in {TRUE}
  <2>1. j \in 0..n /\ j-1 \in 0..n /\ j \in 1..n /\ j-1 \in Nat
    BY <1>1
  <2>2. Made(h, F[1..j-1], K(j-1), m) /\ Had(j-1)
    <3> HIDE DEF K, n, Had
    <3> QED BY <1>8, <2>1
  <2>3. Kept(v, P \cap 1..j-1) \in Seq(Element) /\ K(j-1) \in Seq(Element)
    <3>1. Kept(v, P \cap 1..j-1) \in Seq(Element)
      BY <1>1, KeptSeq
    <3> DEFINE q == Kept(v, P \cap 1..j-1)
    <3>2. q \in Seq(Element)
      BY <3>1
    <3> HIDE DEF q
    <3>3. PICK a \in Element : TRUE
      BY DatumAssumption
    <3>4. Reverse(q) \in Seq(Element)
      BY <3>2, <3>3, ReverseMore
    <3> QED BY <3>1, <3>4 DEF q
  <2>4. (j \in P => K(j) = Prefixed(v[j], K(j-1))) /\ (j \notin P => K(j) = K(j-1))
    <3>1. P \in SUBSET (1..Len(v)) /\ j \in 1..Len(v)
      BY <2>1
    <3>2. v \in Seq(Element) /\ v[j] \in Element
      BY <1>1, <2>1
    <3> HIDE DEF v, P
    <3>3. j \in P => Kept(v, P \cap 1..j) = Extended(Kept(v, P \cap 1..j-1), v[j])
      BY <3>1, <3>2, KeptMore
    <3>4. j \notin P => Kept(v, P \cap 1..j) = Kept(v, P \cap 1..j-1)
      BY <3>1, <3>2, KeptMore
    <3>5. Reverse(Extended(Kept(v, P \cap 1..j-1), v[j])) = Prefixed(v[j], K(j-1))
      BY <2>3, <3>2, ReverseMore DEF Extended, Prefixed
    <3> QED BY <3>3, <3>4, <3>5
  <2> DEFINE r == F[1..j-1]
  <2>5. /\ Sound(r.heap) /\ r.val \in Ref(r.heap) /\ ~Endless(r.heap, r.val)
        /\ Contents(r.heap, r.val) = K(j-1) \o z
    <3>1. Made(h, r, K(j-1), m)
      BY <2>2
    <3> DEFINE k == K(j-1)
    <3>2. k \in Seq(Element)
      BY <2>3
    <3> HIDE DEF r, k
    <3>3. Sound(r.heap) /\ r.val \in Ref(r.heap)
      BY <3>1, <3>2, MadeStays DEF k
    <3>4. ~Endless(r.heap, r.val) /\ Contents(r.heap, r.val) = k \o z
      BY <3>1, <3>2, MadeList DEF k
    <3> QED BY <3>3, <3>4 DEF k
  <2>6. member_p(r.heap, v[j], r.val) <=> v[j] \in ToSet(K(j-1)) \/ v[j] \in ToSet(z)
    <3>1. member_p(r.heap, v[j], r.val) = (v[j] \in ToSet(Contents(r.heap, r.val)))
      <4> HIDE DEF r, v
      <4> QED BY <2>5, MemberIs
    <3>2. v[j] \in ToSet(K(j-1) \o z) <=> v[j] \in ToSet(K(j-1)) \/ v[j] \in ToSet(z)
      <4> HIDE DEF K, v, z
      <4> QED BY <1>1, <2>3, InJoined
    <3> HIDE DEF r, K, v, z
    <3> QED BY <2>5, <3>1, <3>2
  <2>7. j \in P <=> ~member_p(r.heap, v[j], r.val)
    <3>1. NthTime(v, j) = 1 <=> \A i \in 1..j-1 : v[i] # v[j]
      <4> HIDE DEF v
      <4> QED BY <1>1, <2>1, NthIs
    <3>2. (v[j] \in ToSet(K(j-1)) \/ v[j] \in ToSet(z)) <=> (v[j] \in ToSet(z) \/ \E i \in 1..j-1 : v[i] = v[j])
      <4> HIDE DEF K, v, z
      <4> QED BY <2>2
    <3> HIDE DEF K, v, z, n, r
    <3> QED BY <2>1, <2>6, <3>1, <3>2
  <2>8. F[1..j] = IF j \in P THEN consTo(v[j], r) ELSE Returns(r.heap, r.val)
    <3>1. F[1..j] = add_newX(r.heap, r.val, v[j])
      <4> HIDE DEF w, v, n
      <4> QED BY <1>1, <1>6, <2>1
    <3>2. addX(r.heap, r.val, v[j]) = consTo(v[j], r)
      BY DEF addX, consTo
    <3> HIDE DEF v, P, r
    <3> QED BY <2>7, <3>1, <3>2 DEF add_newX
  <2>9. Made(h, F[1..j], K(j), m)
    <3>1. CASE j \in P
      <4>1. Made(h, consTo(v[j], r), <<v[j]>> \o K(j-1), m)
        <5> HIDE DEF K, v, n
        <5> QED BY <1>1, <2>1, <2>2, <2>3, MadeOne
      <4> HIDE DEF K, v, r, P
      <4> QED BY <2>4, <2>8, <3>1, <4>1 DEF Prefixed
    <3>2. CASE j \notin P
      <4> DEFINE q == Returns(r.heap, r.val)
      <4>1. q.heap = r.heap /\ q.val = r.val
        BY DEF Returns
      <4> HIDE DEF q, r, K
      <4>2. Made(h, q, K(j-1), m)
        BY <2>2, <4>1 DEF Made, r
      <4> HIDE DEF P
      <4> QED BY <2>4, <2>8, <3>2, <4>2 DEF q
    <3> QED BY <3>1, <3>2
  <2>10. Had(j)
    <3> SUFFICES ASSUME NEW x
        PROVE (x \in ToSet(K(j)) \/ x \in ToSet(z)) <=> (x \in ToSet(z) \/ \E i \in 1..j : v[i] = x)
      OBVIOUS
    <3>1. (x \in ToSet(K(j-1)) \/ x \in ToSet(z)) <=> (x \in ToSet(z) \/ \E i \in 1..j-1 : v[i] = x)
      <4> HIDE DEF K, v, z
      <4> QED BY <2>2
    <3>2. (\E i \in 1..j : v[i] = x) <=> (x = v[j] \/ \E i \in 1..j-1 : v[i] = x)
      <4> \A i \in 1..j : i = j \/ i \in 1..j-1
        BY <2>1
      <4> HIDE DEF v
      <4> QED BY <2>1
    <3>3. CASE j \in P
      <4>1. x \in ToSet(Prefixed(v[j], K(j-1))) <=> x = v[j] \/ x \in ToSet(K(j-1))
        <5> HIDE DEF K, v, n
        <5> QED BY <1>1, <2>1, <2>3, InPrefixed
      <4> HIDE DEF K, v, z, P
      <4> QED BY <2>4, <3>1, <3>2, <3>3, <4>1
    <3>4. CASE j \notin P
      <4>1. x = v[j] => (x \in ToSet(K(j-1)) \/ x \in ToSet(z))
        <5> HIDE DEF K, v, z, P, r
        <5> QED BY <2>6, <2>7, <3>4
      <4> HIDE DEF K, v, z, P
      <4> QED BY <2>4, <3>1, <3>2, <3>4, <4>1
    <3> QED BY <3>3, <3>4
  <2> HIDE DEF K, n, Had
  <2> QED BY <2>1, <2>9, <2>10
<1>9. t[n] \in {TRUE}
  <2>1. n \in 0..n /\ 0 \in Nat
    BY <1>1
  <2> HIDE DEF t, n
  <2> QED BY <1>1, <1>7, <1>8, <2>1, Onwards
<1>10. n \in 0..n /\ P \cap 1..n = P
  <2>1. P \cap 1..n = P
    OBVIOUS
  <2> HIDE DEF n, P
  <2> QED BY <1>1, <2>1
<1>11. Made(h, F[1..n], K(n), m)
  <2> HIDE DEF K, n, Had
  <2> QED BY <1>9, <1>10
<1>12. K(n) = Reverse(Kept(v, P))
  <2> HIDE DEF P, n
  <2> QED BY <1>10
<1> HIDE DEF K, P, v, n, z
<1> QED BY <1>5, <1>11, <1>12 DEF P, v, n, z

(* Operations that make no pair.                                           *)

\* list_reduce with an operation that collects: every element, in order.
LEMMA ReduceIs ==
  ASSUME NEW h, Sound(h), NEW l \in Ref(h), ~Endless(h, l)
  PROVE  list_reduce(h, <<>>, l) = Contents(h, l)
<1> DEFINE w == Spine(h, l)
           v == Contents(h, l)
           n == Len(v)
           After(f) == [s \in SUBSET DOMAIN w |->
                          IF s = {} THEN <<>> ELSE Append(f[s \ {Max(s)}], CAR(h, w[Max(s)]))]
           F == CHOOSE f : f = After(f)
           S == Seq(Element)
<1>1. v \in S /\ n \in Nat /\ DOMAIN w = 1..n /\ \A i \in 1..n : CAR(h, w[i]) = v[i] /\ v[i] \in Element
  <2>1. v \in S /\ n \in Nat /\ DOMAIN w = 1..n /\ \A i \in 1..n : CAR(h, w[i]) = v[i]
    BY SpineOf, LenProperties
  <2> HIDE DEF v, w
  <2> QED BY <2>1, ElementOfSeq
<1>2. \E f : f = After(f)
  <2> DEFINE step == [a \in (1..n) \X S |-> Append(a[2], CAR(h, w[a[1]]))]
             base == <<>>
  <2>1. \A i \in 1..n : \A r \in S : Append(r, CAR(h, w[i])) \in S
    <3> HIDE DEF w, v, n
    <3> QED BY <1>1, AppendProperties
  <2>2. step \in [(1..n) \X S -> S] /\ \A i \in 1..n : \A r \in S : step[<<i, r>>] = Append(r, CAR(h, w[i]))
    <3> HIDE DEF n, w, S
    <3> QED BY <2>1
  <2>0. base \in S
    OBVIOUS
  <2> HIDE DEF step, n, w, base, S
  <2>3. PICK f \in [SUBSET (1..n) -> S] : FoldedLeft(n, base, step, f)
    BY <1>1, <2>0, <2>2, FoldsLeft
  <2>4. ASSUME NEW s \in SUBSET (1..n), s # {} PROVE f[s] = Append(f[s \ {Max(s)}], CAR(h, w[Max(s)]))
    <3>1. Max(s) \in 1..n /\ s \ {Max(s)} \in SUBSET (1..n)
      BY <1>1, <2>4, MinPlace
    <3>2. f[s \ {Max(s)}] \in S
      BY <3>1
    <3>3. f[s] = step[<<Max(s), f[s \ {Max(s)}]>>]
      BY <2>3, <2>4 DEF FoldedLeft
    <3> QED BY <2>2, <3>1, <3>2, <3>3
  <2>5. f[{}] = base
    BY <2>3 DEF FoldedLeft
  <2>6. f = [s \in SUBSET (1..n) |-> f[s]]
    OBVIOUS
  <2>7. f = After(f)
    BY <1>1, <2>4, <2>5, <2>6 DEF base
  <2> QED BY <2>7
<1>3. F = After(F)
  <2> HIDE DEF After
  <2> QED BY <1>2
<1>4. list_reduce(h, <<>>, l) = F[1..n]
  <2>1. list_reduce(h, <<>>, l) = F[DOMAIN w]
    BY DEF list_reduce, FoldLeft, MapThenFoldSet
  <2> HIDE DEF F
  <2> QED BY <1>1, <2>1
<1> HIDE DEF F
<1>5. F[{}] = <<>> /\ \A i \in 1..n : F[1..i] = Append(F[1..i-1], v[i])
  <2> HIDE DEF w, n, v
  <2>1. F[{}] = <<>>
    BY <1>1, <1>3
  <2>2. ASSUME NEW i \in 1..n PROVE F[1..i] = Append(F[1..i-1], v[i])
    <3>1. 1..i \in SUBSET (1..n)
      BY <1>1
    <3>2. 1..i # {} /\ Max(1..i) = i /\ (1..i) \ {i} = 1..i-1
      BY <1>1, EndsOfRow
    <3>3. \A s \in SUBSET (1..n) : s # {} => F[s] = Append(F[s \ {Max(s)}], CAR(h, w[Max(s)]))
      BY <1>1, <1>3
    <3>4. F[1..i] = Append(F[(1..i) \ {Max(1..i)}], CAR(h, w[Max(1..i)]))
      BY <3>1, <3>2, <3>3
    <3>5. CAR(h, w[Max(1..i)]) = v[i]
      BY <1>1, <3>2
    <3> HIDE DEF After
    <3> QED BY <3>2, <3>4, <3>5
  <2> QED BY <2>1, <2>2
<1> DEFINE g == [i \in 0..n |-> F[1..i]]
<1>6. Keeps(v, 1..n, g)
  <2>1. 0 \in 0..n /\ 1..0 = {} /\ \A i \in 1..n : i \in 0..n /\ i-1 \in 0..n
    BY <1>1
  <2>2. g[0] = <<>>
    <3> HIDE DEF n
    <3> QED BY <1>5, <2>1
  <2>3. \A i \in 1..n : g[i] = Append(g[i-1], v[i])
    <3> HIDE DEF n, v
    <3> QED BY <1>5, <2>1
  <2> HIDE DEF g, v
  <2> QED BY <2>2, <2>3 DEF Keeps
<1>7. g[n] = Kept(v, 1..n)
  <2> HIDE DEF g, v
  <2> QED BY <1>1, <1>6, KeptUnique
<1>8. Kept(v, 1..n) = v
  <2> HIDE DEF v
  <2> QED BY <1>1, KeptAll
<1>9. g[n] = F[1..n]
  <2>1. n \in 0..n
    BY <1>1
  <2> HIDE DEF n
  <2> QED BY <2>1
<1> HIDE DEF g
<1> QED BY <1>4, <1>7, <1>8, <1>9

----------------------------------------------------------------------------
(* Operations that ask about a list.                                       *)

\* A proper list ends, in the empty list.
LEMMA ProperEnds ==
  ASSUME NEW h, Sound(h), NEW l \in Ref(h), Proper(h, l)
  PROVE  ~Endless(h, l) /\ Tail_n(h, l, size(h, l)) = Nil
<1>1. ~Endless(h, l)
  <2>1. PICK n \in 0..Len(h) : Tail_n(h, l, n) = Nil
    BY DEF Proper
  <2>2. ~PAIRP(h, Nil)
    BY SoundHeap
  <2> QED BY <2>1, <2>2 DEF Endless
<1>2. Ends(h, l, size(h, l))
  BY <1>1, EndFound
<1> QED BY <1>1, <1>2, EndsHave

\* Where the i-th element is looked for.
LEMMA PlaceOf ==
  ASSUME NEW h, Sound(h), NEW l \in Ref(h), Proper(h, l), NEW i \in Nat
  PROVE  LET x == Tail_n(h, l, i)
             v == Contents(h, l)
         IN  /\ i < Len(v) => /\ PAIRP(h, x) /\ x # Nil /\ x = Spine(h, l)[i + 1] /\ i + 1 \in 1..Len(v)
                              /\ CAR(h, x) = v[i + 1] /\ x \in Pairs(h, l) /\ x \in 1..Len(h)
             /\ ~(i < Len(v)) => ~PAIRP(h, x) /\ x = Nil
<1> DEFINE x == Tail_n(h, l, i)
           v == Contents(h, l)
           k == size(h, l)
<1>1. ~Endless(h, l) /\ Tail_n(h, l, k) = Nil /\ Ends(h, l, k) /\ Len(v) = k /\ k \in Nat
  BY ProperEnds, EndFound, SpineOf
<1>2. ASSUME i < k
      PROVE  /\ PAIRP(h, x) /\ x # Nil /\ x = Spine(h, l)[i + 1] /\ i + 1 \in 1..k
             /\ CAR(h, x) = v[i + 1] /\ x \in Pairs(h, l) /\ x \in 1..Len(h)
  <2>1. i \in 0..k-1 /\ i + 1 \in 1..k /\ (i + 1) - 1 = i
    BY <1>1, <1>2
  <2>2. PAIRP(h, x)
    BY <1>1, <2>1 DEF Ends
  <2>3. Spine(h, l)[i + 1] = Tail_n(h, l, (i + 1) - 1) /\ v[i + 1] = CAR(h, Spine(h, l)[i + 1])
    BY <1>1, <2>1, SpineOf
  <2>4. x = Spine(h, l)[i + 1] /\ CAR(h, x) = v[i + 1]
    <3> HIDE DEF v
    <3> QED BY <2>1, <2>3
  <2>5. x \in Pairs(h, l)
    <3>1. Pairs(h, l) = {Spine(h, l)[j] : j \in 1..k}
      BY <1>1, SpineOf
    <3> HIDE DEF x, k
    <3> QED BY <2>1, <2>4, <3>1
  <2>6. x \in 1..Len(h) /\ x # Nil
    <3> HIDE DEF x
    <3> QED BY <2>2, SoundHeap
  <2> QED BY <2>1, <2>2, <2>4, <2>5, <2>6
<1>3. ASSUME ~(i < k) PROVE ~PAIRP(h, x) /\ x = Nil
  <2>1. k <= i
    BY <1>1, <1>3
  <2>2. ~PAIRP(h, Tail_n(h, l, k))
    BY <1>1 DEF Ends
  <2> HIDE DEF k
  <2>3. Tail_n(h, l, i) = Tail_n(h, l, k)
    BY <1>1, <2>1, <2>2, TailStays
  <2> QED BY <1>1, <2>2, <2>3
<1> HIDE DEF x, k
<1> QED BY <1>1, <1>2, <1>3 DEF x

\* list_element, list_last and list_equal.
LEMMA ElementIs ==
  ASSUME NEW h, Sound(h), NEW l \in Ref(h), Proper(h, l), NEW i \in Nat, NEW default
  PROVE  list_element(h, l, i, default) =
           IF i < Len(Contents(h, l)) THEN Contents(h, l)[i + 1] ELSE default
<1> DEFINE x == Tail_n(h, l, i)
           v == Contents(h, l)
<1>1. i < Len(v) => x # Nil /\ CAR(h, x) = v[i + 1]
  BY PlaceOf
<1>2. ~(i < Len(v)) => x = Nil
  BY PlaceOf
<1>3. list_element(h, l, i, default) = IF x = Nil THEN default ELSE CAR(h, x)
  BY DEF list_element
<1> HIDE DEF x, v
<1> QED BY <1>1, <1>2, <1>3 DEF v

\* list_last.
LEMMA LastIs ==
  ASSUME NEW h, Sound(h), NEW l \in Ref(h), Proper(h, l), NEW default
  PROVE  list_last(h, l, default) =
           IF Contents(h, l) = <<>> THEN default ELSE Contents(h, l)[Len(Contents(h, l))]
<1> DEFINE v == Contents(h, l)
           k == size(h, l)
<1>1. ~Endless(h, l) /\ v \in Seq(Element) /\ Len(v) = k /\ k \in Nat /\ \A i \in 1..k : CAR(h, Spine(h, l)[i]) = v[i]
  BY ProperEnds, SpineOf
<1>2. v = <<>> <=> k = 0
  <2> HIDE DEF v, k
  <2> QED BY <1>1, EmptySeq
<1>3. Tail_n(h, l, 0) = l
  BY TailSteps
<1>4. l = Nil <=> k = 0
  <2>1. 0 < Len(v) => Tail_n(h, l, 0) # Nil
    BY PlaceOf
  <2>2. ~(0 < Len(v)) => Tail_n(h, l, 0) = Nil
    BY PlaceOf
  <2> HIDE DEF v, k
  <2> QED BY <1>1, <1>3, <2>1, <2>2
<1>5. k # 0 => CAR(h, Spine(h, l)[k]) = v[Len(v)]
  <2> HIDE DEF v, k
  <2> QED BY <1>1
<1>6. list_last(h, l, default) = IF l = Nil THEN default ELSE CAR(h, Spine(h, l)[k])
  BY DEF list_last
<1> HIDE DEF v, k
<1> QED BY <1>2, <1>4, <1>5, <1>6 DEF v

\* list_equal.
LEMMA EqualIs ==
  ASSUME NEW h, Sound(h), NEW l \in Ref(h), Proper(h, l), NEW m \in Ref(h), Proper(h, m)
  PROVE  list_equal(h, l, m) = (Contents(h, l) = Contents(h, m))
<1> DEFINE v == Contents(h, l)
           z == Contents(h, m)
           Same(n) == /\ Tail_n(h, l, n) = Tail_n(h, m, n)
                      /\ \A k \in 0..n - 1 : LET x == Tail_n(h, l, k)
                                                 y == Tail_n(h, m, k)
                                             IN  PAIRP(h, x) /\ PAIRP(h, y) /\ CAR(h, x) = CAR(h, y)
<1>1. /\ ~Endless(h, l) /\ v \in Seq(Element) /\ Len(v) = size(h, l)
      /\ ~Endless(h, m) /\ z \in Seq(Element) /\ Len(z) = size(h, m)
      /\ Len(v) \in Nat /\ Len(z) \in Nat /\ Len(h) \in Nat
  BY ProperEnds, SpineOf, SoundHeap
<1>2. \A i \in Nat : /\ (i < Len(v) => PAIRP(h, Tail_n(h, l, i)) /\ CAR(h, Tail_n(h, l, i)) = v[i + 1])
                     /\ (~(i < Len(v)) => ~PAIRP(h, Tail_n(h, l, i)) /\ Tail_n(h, l, i) = Nil)
                     /\ (i < Len(z) => PAIRP(h, Tail_n(h, m, i)) /\ CAR(h, Tail_n(h, m, i)) = z[i + 1])
                     /\ (~(i < Len(z)) => ~PAIRP(h, Tail_n(h, m, i)) /\ Tail_n(h, m, i) = Nil)
  BY PlaceOf
<1>3. ASSUME v = z PROVE \E n \in 0..Len(h) : Same(n)
  <2> DEFINE n == Len(v)
  <2>1. n \in 0..Len(h)
    <3>1. Ends(h, l, size(h, l))
      BY <1>1, EndFound
    <3> HIDE DEF v
    <3> QED BY <1>1, <3>1 DEF Ends
  <2>2. n = Len(z) /\ n \in Nat /\ ~(n < n) /\ \A k \in 0..n-1 : k \in Nat /\ k < n
    BY <1>1, <1>3
  <2> HIDE DEF v, z, n
  <2>3. Tail_n(h, l, n) = Tail_n(h, m, n)
    BY <1>2, <2>2 DEF n
  <2>4. \A k \in 0..n-1 : /\ PAIRP(h, Tail_n(h, l, k)) /\ PAIRP(h, Tail_n(h, m, k))
                          /\ CAR(h, Tail_n(h, l, k)) = CAR(h, Tail_n(h, m, k))
    BY <1>2, <1>3, <2>2 DEF n
  <2> QED BY <2>1, <2>3, <2>4
<1>4. ASSUME NEW n \in 0..Len(h), Same(n) PROVE v = z
  <2>1. n \in Nat /\ \A k \in 0..n-1 : k \in Nat
    BY <1>1
  <2>2. n <= Len(v) /\ n <= Len(z)
    <3>1. \A k \in 0..n-1 : k < Len(v) /\ k < Len(z)
      <4> HIDE DEF v, z
      <4> QED BY <1>2, <1>4, <2>1
    <3>2. n = 0 \/ n - 1 \in 0..n-1
      BY <2>1
    <3> HIDE DEF v, z
    <3> QED BY <1>1, <2>1, <3>1, <3>2
  <2> DEFINE t == Tail_n(h, l, n)
  <2>3. n \in 0..size(h, l) /\ n \in 0..size(h, m) /\ Tail_n(h, m, n) = t
    <3> HIDE DEF v, z
    <3> QED BY <1>1, <1>4, <2>1, <2>2
  <2>4. size(h, t) = Len(v) - n /\ \A j \in 1..Len(v) - n : Contents(h, t)[j] = v[n + j]
    <3>1. size(h, t) = size(h, l) - n /\ \A j \in 1..size(h, l) - n : Contents(h, t)[j] = v[n + j]
      BY <1>1, <2>3, RestOf
    <3> HIDE DEF v, z, t
    <3> QED BY <1>1, <3>1
  <2>5. size(h, t) = Len(z) - n /\ \A j \in 1..Len(z) - n : Contents(h, t)[j] = z[n + j]
    <3> DEFINE u == Tail_n(h, m, n)
    <3>1. size(h, u) = size(h, m) - n /\ \A j \in 1..size(h, m) - n : Contents(h, u)[j] = z[n + j]
      BY <1>1, <2>3, RestOf
    <3>2. u = t
      BY <2>3
    <3> HIDE DEF v, z, t, u
    <3> QED BY <1>1, <3>1, <3>2
  <2>6. Len(v) = Len(z)
    <3> HIDE DEF v, z, t
    <3> QED BY <1>1, <2>1, <2>4, <2>5
  <2>7. ASSUME NEW i \in 1..Len(v) PROVE v[i] = z[i]
    <3>1. CASE i <= n
      <4>1. i - 1 \in 0..n-1 /\ i - 1 \in Nat /\ i - 1 < Len(v) /\ i - 1 < Len(z) /\ (i - 1) + 1 = i
        <5> HIDE DEF v, z
        <5> QED BY <1>1, <2>6, <2>1, <3>1
      <4>2. CAR(h, Tail_n(h, l, i - 1)) = CAR(h, Tail_n(h, m, i - 1))
        BY <1>4, <4>1
      <4>3. CAR(h, Tail_n(h, l, i - 1)) = v[i]
        <5> HIDE DEF v, z
        <5> QED BY <1>2, <4>1
      <4>4. CAR(h, Tail_n(h, m, i - 1)) = z[i]
        <5> HIDE DEF v, z
        <5> QED BY <1>2, <4>1
      <4> QED BY <4>2, <4>3, <4>4
    <3>2. CASE ~(i <= n)
      <4> DEFINE j == i - n
      <4>1. j \in 1..Len(v) - n /\ j \in 1..Len(z) - n /\ n + j = i
        <5> HIDE DEF v, z
        <5> QED BY <1>1, <2>6, <2>1, <3>2
      <4> HIDE DEF v, z, t, j
      <4> QED BY <2>4, <2>5, <4>1
    <3> QED BY <3>1, <3>2
  <2> HIDE DEF v, z
  <2> QED BY <1>1, <2>6, <2>7, SeqEqual
<1>5. list_equal(h, l, m) = \E n \in 0..Len(h) : Same(n)
  BY DEF list_equal
<1> DEFINE a == \E n \in 0..Len(h) : Same(n)
           b == v = z
<1>6. a \in BOOLEAN /\ b \in BOOLEAN /\ (a <=> b)
  <2> HIDE DEF Same, v, z
  <2> QED BY <1>3, <1>4
<1>7. a = b
  <2> HIDE DEF a, b
  <2> QED BY <1>6
<1> QED BY <1>5, <1>7

(* Pairs that are changed.                                                 *)

\* A pair with its element set, and with its tail set.
LEMMA CarSet ==
  ASSUME NEW h, Sound(h), NEW x \in 1..Len(h), NEW a \in Element
  PROVE  LET g == [h EXCEPT ![x].car = a]
         IN  /\ Sound(g) /\ Len(g) = Len(h) /\ DOMAIN g = 1..Len(h)
             /\ g[x] = [car |-> a, cdr |-> CDR(h, x)]
             /\ \A p \in 1..Len(h) : p # x => g[p] = h[p]
<1> DEFINE n == Len(h)
           C == Cell(n)
           y == [h[x] EXCEPT !.car = a]
           g == [h EXCEPT ![x] = y]
<1>1. h \in Seq(C) /\ h[x] = [car |-> CAR(h, x), cdr |-> CDR(h, x)] /\ CDR(h, x) \in 0..n \cup Element
  <2>1. x \in DOMAIN h
    BY SoundHeap
  <2> QED BY <2>1, SoundHeap DEF Sound, Ref
<1>2. y = [car |-> a, cdr |-> CDR(h, x)]
  BY <1>1
<1>3. y \in C
  <2> HIDE DEF y, n
  <2> QED BY <1>1, <1>2 DEF Cell
<1>4. g \in Seq(C) /\ Len(g) = n /\ \A p \in 1..n : g[p] = IF p = x THEN y ELSE h[p]
  <2> HIDE DEF C, y
  <2> QED BY <1>1, <1>3, ExceptSeq
<1>5. DOMAIN g = 1..n
  <2> HIDE DEF C, g, n
  <2> QED BY <1>4, LenProperties
<1>6. [h EXCEPT ![x].car = a] = g
  OBVIOUS
<1> HIDE DEF g, y, n
<1> QED BY <1>2, <1>4, <1>5, <1>6 DEF Sound, n

\* The pair x with d as its tail.
TailTo(h, x, d) == [h EXCEPT ![x].cdr = d]

\* A pair with its tail set.
LEMMA CdrSet ==
  ASSUME NEW h, Sound(h), NEW x \in 1..Len(h), NEW d \in Ref(h)
  PROVE  LET g == TailTo(h, x, d)
         IN  /\ Sound(g) /\ Len(g) = Len(h) /\ DOMAIN g = 1..Len(h)
             /\ g[x] = [car |-> CAR(h, x), cdr |-> d]
             /\ \A p \in 1..Len(h) : p # x => g[p] = h[p]
<1> DEFINE n == Len(h)
           C == Cell(n)
           y == [h[x] EXCEPT !.cdr = d]
           g == [h EXCEPT ![x] = y]
<1>1. h \in Seq(C) /\ h[x] = [car |-> CAR(h, x), cdr |-> CDR(h, x)] /\ CAR(h, x) \in Element
  <2>1. x \in DOMAIN h
    BY SoundHeap
  <2> QED BY <2>1, SoundHeap DEF Sound
<1>2. y = [car |-> CAR(h, x), cdr |-> d]
  BY <1>1
<1>3. y \in C
  <2>1. d \in 0..n \cup Element
    BY DEF Ref
  <2> HIDE DEF y, n
  <2> QED BY <1>1, <1>2, <2>1 DEF Cell
<1>4. g \in Seq(C) /\ Len(g) = n /\ \A p \in 1..n : g[p] = IF p = x THEN y ELSE h[p]
  <2> HIDE DEF C, y
  <2> QED BY <1>1, <1>3, ExceptSeq
<1>5. DOMAIN g = 1..n
  <2> HIDE DEF C, g, n
  <2> QED BY <1>4, LenProperties
<1>6. TailTo(h, x, d) = g
  BY DEF TailTo
<1> HIDE DEF g, y, n
<1> QED BY <1>2, <1>4, <1>5, <1>6 DEF Sound, n

\* q are the pairs from l on, each the tail of the one before, and e is behind the last.
Chain(g, l, k, q, e) ==
  /\ l = IF k = 0 THEN e ELSE q[1]
  /\ \A j \in 1..k : CDR(g, q[j]) = IF j = k THEN e ELSE q[j + 1]

\* What the first k pairs of q hold, and which they are.
Held(g, q, k) == [j \in 1..k |-> CAR(g, q[j])]
These(q, k)   == {q[j] : j \in 1..k}

\* The pairs of q, each the tail of the one before, are the list that begins with the first.
LEMMA ListIs ==
  ASSUME NEW g, Sound(g), NEW l, NEW k \in 0..Len(g), NEW q \in [1..k -> 1..Len(g)],
         NEW e \in Ref(g), ~PAIRP(g, e),
         Chain(g, l, k, q, e)
  PROVE  /\ l \in Ref(g) /\ ~Endless(g, l) /\ size(g, l) = k /\ Tail_n(g, l, k) = e
         /\ Contents(g, l) = Held(g, q, k)
         /\ Pairs(g, l) = These(q, k)
         /\ Proper(g, l) <=> e = Nil
<1> USE DEF Chain, Held, These
<1> DEFINE T(i) == IF i < k THEN q[i + 1] ELSE e
           f == [i \in 0..k |-> T(i)]
<1>1. Len(g) \in Nat /\ k \in Nat
  BY SoundHeap
<1>2. l \in Ref(g)
  <2>1. k # 0 => q[1] \in 1..Len(g)
    BY <1>1
  <2>2. 1..Len(g) \subseteq Ref(g)
    BY <1>1 DEF Ref
  <2> QED BY <2>1, <2>2
<1>3. f[0] = l
  <2>1. 0 \in 0..k /\ (0 < k <=> k # 0) /\ 0 + 1 = 1
    BY <1>1
  <2> QED BY <2>1
<1>4. ASSUME NEW i \in 1..k PROVE f[i] = Behind(g, f[i-1])
  <2>1. i \in 0..k /\ i-1 \in 0..k /\ i-1 < k /\ (i-1)+1 = i /\ (i < k <=> i # k)
    BY <1>1
  <2>2. f[i-1] = q[i]
    BY <2>1
  <2>3. f[i] = IF i = k THEN e ELSE q[i + 1]
    BY <2>1
  <2>4. PAIRP(g, q[i])
    BY SoundHeap
  <2> HIDE DEF f
  <2> QED BY <2>2, <2>3, <2>4 DEF Behind
<1>5. \A i \in 0..k : Tail_n(g, l, i) = T(i)
  <2>1. \A i \in 0..k : f[i] = Tail_n(g, l, i)
    <3> HIDE DEF f
    <3> QED BY <1>1, <1>2, <1>3, <1>4, TailUnique
  <2> HIDE DEF T
  <2> QED BY <2>1
<1>6. \A i \in 0..k-1 : i \in 0..k /\ i < k /\ i + 1 \in 1..k /\ T(i) = q[i + 1] /\ Tail_n(g, l, i) = q[i + 1]
  <2>1. \A i \in 0..k-1 : i \in 0..k /\ i < k /\ i + 1 \in 1..k
    BY <1>1
  <2> QED BY <1>5, <2>1
<1>7. Tail_n(g, l, k) = e
  <2>1. k \in 0..k /\ ~(k < k)
    BY <1>1
  <2> QED BY <1>5, <2>1
<1>8. Ends(g, l, k)
  <2>1. \A i \in 0..k-1 : PAIRP(g, q[i + 1])
    BY <1>6, SoundHeap
  <2> QED BY <1>6, <1>7, <2>1 DEF Ends
<1>9. /\ size(g, l) = k /\ ~Endless(g, l)
      /\ Pairs(g, l) = {Tail_n(g, l, n) : n \in 0..k-1}
      /\ (Proper(g, l) <=> Tail_n(g, l, k) = Nil)
      /\ Contents(g, l) = [i \in 1..k |-> CAR(g, Tail_n(g, l, i - 1))]
  BY <1>2, <1>8, EndsHave
<1>10. \A j \in 1..k : j - 1 \in 0..k-1 /\ Tail_n(g, l, j - 1) = q[j]
  <2>1. \A j \in 1..k : j - 1 \in 0..k-1 /\ (j - 1) + 1 = j
    BY <1>1
  <2> QED BY <1>6, <2>1
<1>11. Contents(g, l) = [j \in 1..k |-> CAR(g, q[j])]
  BY <1>9, <1>10
<1>12. {Tail_n(g, l, n) : n \in 0..k-1} = {q[j] : j \in 1..k}
  <2>1. ASSUME NEW n \in 0..k-1 PROVE Tail_n(g, l, n) \in {q[j] : j \in 1..k}
    BY <1>6
  <2>2. ASSUME NEW j \in 1..k PROVE q[j] \in {Tail_n(g, l, n) : n \in 0..k-1}
    BY <1>10
  <2> QED BY <2>1, <2>2
<1> QED BY <1>2, <1>7, <1>9, <1>11, <1>12

----------------------------------------------------------------------------
(* Operations that change a list.  The places of its pairs are followed    *)
(* through the steps; what is at no such place stays as it was.            *)

\* The same pairs with other elements.
LEMMA SameTails ==
  ASSUME NEW h, Sound(h), NEW g, Sound(g), Len(g) = Len(h), NEW l \in Ref(h), ~Endless(h, l),
         \A p \in 1..Len(h) : CDR(g, p) = CDR(h, p)
  PROVE  /\ ~Endless(g, l) /\ size(g, l) = size(h, l) /\ (Proper(g, l) <=> Proper(h, l))
         /\ Pairs(g, l) = Pairs(h, l)
         /\ Contents(g, l) = [j \in 1..size(h, l) |-> CAR(g, Spine(h, l)[j])]
<1> DEFINE k == size(h, l)
<1>1. /\ k \in Nat /\ Ends(h, l, k) /\ Len(h) \in Nat /\ k \in 0..Len(h)
      /\ \A j \in 1..k : Spine(h, l)[j] = Tail_n(h, l, j - 1)
  BY EndFound, SpineOf, SoundHeap DEF Ends
<1>2. /\ Ref(h) \subseteq Ref(g) /\ \A x \in Ref(h) : PAIRP(g, x) <=> PAIRP(h, x)
      /\ \A n \in Nat : Tail_n(g, l, n) = Tail_n(h, l, n)
  <2>1. Len(h) <= Len(g)
    BY <1>1
  <2> QED BY <2>1, TailsStay
<1> HIDE DEF k
<1>3. \A n \in Nat : Tail_n(h, l, n) \in Ref(h)
  BY TailSteps
<1>4. Ends(g, l, k)
  <2>1. k \in 0..Len(g) /\ \A n \in 0..k-1 : n \in Nat
    BY <1>1
  <2> QED BY <1>1, <1>2, <1>3, <2>1 DEF Ends
<1>5. /\ size(g, l) = k /\ ~Endless(g, l)
      /\ Pairs(g, l) = {Tail_n(g, l, n) : n \in 0..k-1}
      /\ (Proper(g, l) <=> Tail_n(g, l, k) = Nil)
      /\ Contents(g, l) = [i \in 1..k |-> CAR(g, Tail_n(g, l, i - 1))]
  <2>1. l \in Ref(g)
    BY <1>2
  <2> QED BY <1>4, <2>1, EndsHave
<1>6. Pairs(h, l) = {Tail_n(h, l, n) : n \in 0..k-1} /\ (Proper(h, l) <=> Tail_n(h, l, k) = Nil)
  BY <1>1, EndsHave
<1>7. \A n \in 0..k-1 : Tail_n(g, l, n) = Tail_n(h, l, n)
  <2>1. \A n \in 0..k-1 : n \in Nat
    BY <1>1
  <2> QED BY <1>2, <2>1
<1>8. \A j \in 1..k : Tail_n(g, l, j-1) = Spine(h, l)[j]
  <2>1. \A j \in 1..k : j - 1 \in Nat
    BY <1>1
  <2> QED BY <1>1, <1>2, <2>1
<1>9. Pairs(g, l) = Pairs(h, l)
  BY <1>5, <1>6, <1>7
<1>10. Contents(g, l) = [j \in 1..k |-> CAR(g, Spine(h, l)[j])]
  BY <1>5, <1>8
<1>11. Proper(g, l) <=> Proper(h, l)
  BY <1>1, <1>2, <1>5, <1>6
<1> QED BY <1>5, <1>9, <1>10, <1>11 DEF k

\* list_element_setter changes one element, or fails and changes nothing.
LEMMA ElementSet ==
  ASSUME NEW h, Sound(h), NEW l \in Ref(h), Proper(h, l), NEW i \in Nat, NEW obj \in Element
  PROVE  LET r == list_element_setter(h, l, i, obj)
             v == Contents(h, l)
         IN  /\ i < Len(v) => /\ Sound(r.heap) /\ Len(r.heap) = Len(h)
                              /\ Contents(r.heap, l) = [v EXCEPT ![i + 1] = obj]
                              /\ \A p \in 1..Len(h) : p \notin Pairs(h, l) => r.heap[p] = h[p]
             /\ ~(i < Len(v)) => r.heap = h /\ r.val = Failed
<1> DEFINE r == list_element_setter(h, l, i, obj)
           v == Contents(h, l)
           x == Tail_n(h, l, i)
           k == size(h, l)
           g == [h EXCEPT ![x].car = obj]
<1>1. /\ ~Endless(h, l) /\ v \in Seq(Element) /\ Len(v) = k /\ k \in Nat /\ DOMAIN h = 1..Len(h)
      /\ \A j \in 1..k : v[j] = CAR(h, Spine(h, l)[j]) /\ Spine(h, l)[j] \in 1..Len(h)
      /\ \A j, m \in 1..k : Spine(h, l)[j] = Spine(h, l)[m] => j = m
  <2>1. ~Endless(h, l)
    BY ProperEnds
  <2>2. Spine(h, l) \in Seq(DOMAIN h) /\ Len(Spine(h, l)) = k
    BY <2>1, SpineOf
  <2>3. \A j \in 1..k : Spine(h, l)[j] \in DOMAIN h
    <3> HIDE DEF k
    <3> QED BY <2>2, ElementOfSeq
  <2> QED BY <2>1, <2>3, SpineOf, SoundHeap
<1>2. ASSUME i < Len(v)
      PROVE  /\ Sound(r.heap) /\ Len(r.heap) = Len(h)
             /\ Contents(r.heap, l) = [v EXCEPT ![i + 1] = obj]
             /\ \A p \in 1..Len(h) : p \notin Pairs(h, l) => r.heap[p] = h[p]
  <2>1. PAIRP(h, x) /\ x = Spine(h, l)[i + 1] /\ i + 1 \in 1..k /\ x \in Pairs(h, l) /\ x \in 1..Len(h)
    BY <1>1, <1>2, PlaceOf
  <2>2. r = Returns(g, obj)
    BY <2>1 DEF list_element_setter, set_car
  <2>3. r.heap = g
    BY <2>2 DEF Returns
  <2>4. /\ Sound(g) /\ Len(g) = Len(h)
        /\ g[x] = [car |-> obj, cdr |-> CDR(h, x)]
        /\ \A p \in 1..Len(h) : p # x => g[p] = h[p]
    <3> HIDE DEF x
    <3> QED BY <2>1, CarSet
  <2> HIDE DEF g, x
  <2>5. \A p \in 1..Len(h) : CDR(g, p) = CDR(h, p)
    BY <2>4 DEF CDR
  <2>6. Contents(g, l) = [j \in 1..k |-> CAR(g, Spine(h, l)[j])]
    BY <1>1, <2>4, <2>5, SameTails
  <2>7. ASSUME NEW j \in 1..k PROVE CAR(g, Spine(h, l)[j]) = IF j = i + 1 THEN obj ELSE v[j]
    <3>1. CASE j = i + 1
      BY <2>1, <2>4, <3>1 DEF CAR
    <3>2. CASE j # i + 1
      <4>1. Spine(h, l)[j] # x /\ Spine(h, l)[j] \in 1..Len(h)
        <5> HIDE DEF k, v
        <5> QED BY <1>1, <2>1, <3>2
      <4>2. CAR(g, Spine(h, l)[j]) = CAR(h, Spine(h, l)[j])
        BY <2>4, <4>1 DEF CAR
      <4> QED BY <1>1, <3>2, <4>2
    <3> QED BY <3>1, <3>2
  <2>8. DOMAIN v = 1..k
    <3> HIDE DEF v, k
    <3> QED BY <1>1, LenProperties
  <2>9. [v EXCEPT ![i + 1] = obj] = [j \in 1..k |-> IF j = i + 1 THEN obj ELSE v[j]]
    <3> HIDE DEF v, k
    <3> QED BY <2>8
  <2>10. Contents(g, l) = [v EXCEPT ![i + 1] = obj]
    <3> HIDE DEF v, k
    <3> QED BY <2>6, <2>7, <2>9
  <2>11. \A p \in 1..Len(h) : p \notin Pairs(h, l) => g[p] = h[p]
    BY <2>1, <2>4
  <2> QED BY <2>3, <2>4, <2>10, <2>11
<1>3. ASSUME ~(i < Len(v)) PROVE r.heap = h /\ r.val = Failed
  <2>1. ~PAIRP(h, x)
    BY <1>3, PlaceOf
  <2> QED BY <2>1 DEF list_element_setter, Returns
<1> HIDE DEF r, v
<1> QED BY <1>2, <1>3 DEF r, v

\* A list that the list h ends in has a last pair.
LEMMA SpinePlaces ==
  ASSUME NEW h, Sound(h), NEW l \in Ref(h), ~Endless(h, l)
  PROVE  LET w == Spine(h, l)
             k == size(h, l)
         IN  /\ k \in Nat /\ k \in 0..Len(h) /\ DOMAIN w = 1..k
             /\ \A j \in 1..k : /\ w[j] \in 1..Len(h) /\ w[j] \in Pairs(h, l)
                                /\ CAR(h, w[j]) = Contents(h, l)[j] /\ CAR(h, w[j]) \in Element
             /\ \A i, j \in 1..k : w[i] = w[j] => i = j
             /\ \A j \in 1..k-1 : CDR(h, w[j]) = w[j + 1]
             /\ k # 0 => w[1] = l
             /\ Pairs(h, l) = {w[j] : j \in 1..k}
<1> DEFINE w == Spine(h, l)
           k == size(h, l)
<1>1. /\ k \in Nat /\ w \in Seq(DOMAIN h) /\ Len(w) = k /\ DOMAIN h = 1..Len(h)
      /\ \A i \in 1..k : w[i] = Tail_n(h, l, i - 1) /\ Contents(h, l)[i] = CAR(h, w[i])
                         /\ CDR(h, w[i]) = Tail_n(h, l, i)
      /\ \A i, j \in 1..k : w[i] = w[j] => i = j
      /\ Pairs(h, l) = {w[i] : i \in 1..k}
      /\ k \in 0..Len(h)
  <2>1. k \in 0..Len(h)
    BY EndFound DEF Ends
  <2> QED BY <2>1, SpineOf, SoundHeap
<1>2. DOMAIN w = 1..k /\ \A j \in 1..k : w[j] \in 1..Len(h)
  <2> HIDE DEF w, k
  <2> QED BY <1>1, LenProperties, ElementOfSeq
<1>3. Tail_n(h, l, 0) = l
  BY TailSteps
<1> HIDE DEF w, k
<1>4. k # 0 => w[1] = l
  <2>1. k # 0 => 1 \in 1..k /\ 1 - 1 = 0
    BY <1>1
  <2> QED BY <1>1, <1>3, <2>1
<1>5. \A j \in 1..k-1 : CDR(h, w[j]) = w[j + 1]
  <2>1. \A j \in 1..k-1 : j \in 1..k /\ j + 1 \in 1..k /\ (j + 1) - 1 = j
    BY <1>1
  <2> QED BY <1>1, <2>1
<1>6. \A j \in 1..k : w[j] \in Pairs(h, l)
  BY <1>1
<1>7. \A j \in 1..k : CAR(h, w[j]) \in Element
  BY <1>1, <1>2, SoundHeap
<1> QED BY <1>1, <1>2, <1>4, <1>5, <1>6, <1>7 DEF w, k

\* Such pairs with the empty list behind them.
ProperChain(g, l, k, q) ==
  /\ k = 0 => l = Nil
  /\ k # 0 => l = q[1] /\ CDR(g, q[k]) = Nil
  /\ \A j \in 1..k-1 : CDR(g, q[j]) = q[j + 1]

\* Of a list with the empty list at its end.
LEMMA ProperListIs ==
  ASSUME NEW g, Sound(g), NEW l, NEW k \in 0..Len(g), NEW q \in [1..k -> 1..Len(g)],
         ProperChain(g, l, k, q)
  PROVE  /\ l \in Ref(g) /\ Proper(g, l) /\ size(g, l) = k
         /\ Contents(g, l) = Held(g, q, k)
         /\ Pairs(g, l) = These(q, k)
<1> USE DEF ProperChain
<1>1. Nil \in Ref(g) /\ ~PAIRP(g, Nil) /\ Len(g) \in Nat
  BY SoundHeap
<1>2. l = IF k = 0 THEN Nil ELSE q[1]
  OBVIOUS
<1>3. ASSUME NEW j \in 1..k PROVE CDR(g, q[j]) = IF j = k THEN Nil ELSE q[j + 1]
  <2>1. k # 0 /\ (j = k \/ j \in 1..k-1)
    BY <1>1
  <2> QED BY <2>1
<1>4. Chain(g, l, k, q, Nil)
  BY <1>2, <1>3 DEF Chain
<1> QED BY <1>1, <1>4, ListIs

\* add_new_at_end changes the last tail.
LEMMA AddAtEndIs ==
  ASSUME NEW h, Sound(h), NEW l \in Ref(h), Proper(h, l), NEW el \in Element
  PROVE  LET r == add_new_at_end(h, l, el)
             v == Contents(h, l)
         IN  /\ Sound(r.heap) /\ Len(h) <= Len(r.heap) /\ Proper(r.heap, r.val)
             /\ el \in ToSet(v) => Contents(r.heap, r.val) = v
             /\ el \notin ToSet(v) => Contents(r.heap, r.val) = Append(v, el)
             /\ Pairs(r.heap, r.val) \cap DOMAIN h \subseteq Pairs(h, l)
             /\ \A p \in 1..Len(h) : p \notin Pairs(h, l) => r.heap[p] = h[p]
<1> DEFINE r == add_new_at_end(h, l, el)
           v == Contents(h, l)
           w == Spine(h, l)
           k == size(h, l)
           m == Len(h)
           new == cons(h, el, Nil)
           g == [new.heap EXCEPT ![w[k]].cdr = new.val]
           Good == /\ Sound(r.heap) /\ m <= Len(r.heap) /\ Proper(r.heap, r.val)
                   /\ el \in ToSet(v) => Contents(r.heap, r.val) = v
                   /\ el \notin ToSet(v) => Contents(r.heap, r.val) = Append(v, el)
                   /\ Pairs(r.heap, r.val) \cap DOMAIN h \subseteq Pairs(h, l)
                   /\ \A p \in 1..m : p \notin Pairs(h, l) => r.heap[p] = h[p]
<1>1. /\ ~Endless(h, l) /\ v \in Seq(Element) /\ Len(v) = k /\ m \in Nat /\ Nil \in Ref(h) /\ DOMAIN h = 1..m
      /\ member_p(h, el, l) = (el \in ToSet(v))
      /\ Tail_n(h, l, k) = Nil
  BY ProperEnds, SpineOf, MemberIs, SoundHeap
<1>2. /\ k \in Nat /\ k \in 0..m
      /\ \A j \in 1..k : /\ w[j] \in 1..m /\ w[j] \in Pairs(h, l)
                         /\ CAR(h, w[j]) = v[j] /\ CAR(h, w[j]) \in Element
      /\ \A i, j \in 1..k : w[i] = w[j] => i = j
      /\ \A j \in 1..k-1 : CDR(h, w[j]) = w[j + 1]
      /\ k # 0 => w[1] = l
      /\ Pairs(h, l) = {w[j] : j \in 1..k}
  BY <1>1, SpinePlaces
<1>3. l = Nil <=> k = 0
  <2>1. Tail_n(h, l, 0) = l
    BY TailSteps
  <2>2. k # 0 => l \in 1..m
    BY <1>2
  <2>3. Nil \notin 1..m
    BY DEF Nil
  <2> HIDE DEF k
  <2> QED BY <1>1, <2>1, <2>2, <2>3
<1>4. PAIRP(h, l) <=> k # 0
  <2>1. k # 0 => l \in 1..m
    BY <1>2
  <2>2. PAIRP(h, l) <=> l \in 1..m
    BY SoundHeap
  <2>3. ~PAIRP(h, Nil)
    BY SoundHeap
  <2> HIDE DEF k
  <2> QED BY <1>3, <2>1, <2>2, <2>3
<1>5. ASSUME el \in ToSet(v) PROVE Good
  <2>1. r = Returns(h, l)
    <3>1. member_p(h, el, l)
      BY <1>1, <1>5
    <3> QED BY <3>1 DEF add_new_at_end
  <2>2. r.heap = h /\ r.val = l
    BY <2>1 DEF Returns
  <2> HIDE DEF r, v, m
  <2>3. m <= Len(r.heap)
    BY <1>1, <2>2 DEF m
  <2> QED BY <1>1, <1>5, <2>2, <2>3 DEF v
<1>6. ASSUME el \notin ToSet(v), k = 0 PROVE Good
  <2>1. r = new
    <3>1. ~member_p(h, el, l) /\ ~PAIRP(h, l)
      BY <1>1, <1>4, <1>6
    <3> QED BY <3>1 DEF add_new_at_end
  <2>2. Made(h, r, <<el>>, Nil)
    <3>0. l = Nil
      BY <1>3, <1>6
    <3>1. Made(h, addX(h, l, el), <<el>>, l)
      BY AddXMade
    <3>2. addX(h, l, el) = cons(h, el, l)
      BY DEF addX
    <3> QED BY <2>1, <3>0, <3>1, <3>2
  <2> DEFINE s == <<el>>
  <2>3. s \in Seq(Element) /\ s \o <<>> = s /\ Append(<<>>, el) = s
    OBVIOUS
  <2>4. v = <<>>
    <3> HIDE DEF v, k
    <3> QED BY <1>1, <1>6, EmptySeq
  <2>5. Nil \in Ref(h) /\ ~Endless(h, Nil) /\ Proper(h, Nil) /\ Pairs(h, Nil) = {} /\ Contents(h, Nil) = <<>>
    BY NilList
  <2> HIDE DEF s, r, v
  <2>6. /\ Pairs(r.heap, r.val) \cap DOMAIN h \subseteq Pairs(h, Nil)
        /\ Contents(r.heap, r.val) = s \o <<>> /\ Proper(r.heap, r.val)
    BY <2>2, <2>3, <2>5, MadeList DEF s
  <2>7. Sound(r.heap) /\ m <= Len(r.heap) /\ \A p \in 1..m : r.heap[p] = h[p]
    BY <2>2, <2>3, <2>5, MadeStays DEF s
  <2>8. Contents(r.heap, r.val) = Append(v, el)
    BY <2>3, <2>4, <2>6
  <2> QED BY <1>6, <2>5, <2>6, <2>7, <2>8
<1>7. ASSUME el \notin ToSet(v), k # 0 PROVE Good
  <2>1. r = Returns(g, l)
    <3>1. ~member_p(h, el, l) /\ PAIRP(h, l)
      BY <1>1, <1>4, <1>7
    <3> QED BY <3>1 DEF add_new_at_end
  <2>2. r.heap = g /\ r.val = l
    BY <2>1 DEF Returns
  <2> DEFINE c == new.heap
  <2>3. /\ Sound(c) /\ Len(c) = m + 1 /\ new.val = m + 1
        /\ c[m + 1] = [car |-> el, cdr |-> Nil]
        /\ \A p \in 1..m : c[p] = h[p]
    BY <1>1, ConsHeap
  <2>4. k \in 1..k /\ w[k] \in 1..m /\ w[k] \in 1..m+1 /\ m + 1 \in 0..m+1 /\ 1..m+1 = 1..m \cup {m+1}
    <3>1. k \in 1..k
      <4> HIDE DEF k
      <4> QED BY <1>2, <1>7
    <3>2. w[k] \in 1..m
      BY <1>2, <3>1
    <3> HIDE DEF w, k, m
    <3> QED BY <1>1, <3>1, <3>2
  <2> DEFINE x == w[k]
  <2>5. /\ Sound(g) /\ Len(g) = m + 1
        /\ g[x] = [car |-> CAR(c, x), cdr |-> m + 1]
        /\ \A p \in 1..m+1 : p # x => g[p] = c[p]
    <3> HIDE DEF c, x
    <3>1. m + 1 \in Ref(c) /\ x \in 1..Len(c)
      BY <2>3, <2>4 DEF Ref, x
    <3>2. g = [c EXCEPT ![x].cdr = m + 1]
      BY <2>3 DEF c, x
    <3> DEFINE e == m + 1
    <3> HIDE DEF e, m
    <3> DEFINE f == TailTo(c, x, e)
    <3>3. Sound(f) /\ Len(f) = Len(c) /\ f[x] = [car |-> CAR(c, x), cdr |-> e]
          /\ \A p \in 1..Len(c) : p # x => f[p] = c[p]
      <4>1. e \in Ref(c)
        BY <3>1 DEF e
      <4> QED BY <2>3, <3>1, <4>1, CdrSet
    <3>4. f = g
      BY <3>2 DEF e, TailTo
    <3> HIDE DEF f
    <3> QED BY <2>3, <3>3, <3>4 DEF e
  <2> HIDE DEF g
  <2>6. \A p \in 1..m : p # x => g[p] = h[p]
    BY <2>3, <2>4, <2>5
  <2>7. CAR(g, x) = v[k] /\ CDR(g, x) = m + 1
    <3>1. CAR(c, x) = CAR(h, x)
      BY <2>3, <2>4 DEF CAR
    <3>2. CAR(h, x) = v[k]
      BY <1>2, <2>4
    <3> QED BY <2>5, <3>1, <3>2 DEF CAR, CDR
  <2>8. CAR(g, m + 1) = el /\ CDR(g, m + 1) = Nil
    <3>1. m + 1 # x /\ m + 1 \in 1..m+1
      <4> HIDE DEF w, k, m, x
      <4> QED BY <1>1, <2>4 DEF x
    <3> QED BY <2>3, <2>5, <3>1 DEF CAR, CDR
  <2> DEFINE q == [j \in 1..k+1 |-> IF j = k + 1 THEN m + 1 ELSE w[j]]
  <2>9. q[k + 1] = m + 1 /\ q[1] = l /\ k + 1 \in 0..m+1 /\ k + 1 # 0 /\ k + 1 \in Nat
        /\ \A j \in 1..k : q[j] = w[j] /\ j \in 1..k+1 /\ j # k + 1
    <3> HIDE DEF w, k, m
    <3> QED BY <1>1, <1>2, <1>7, <2>4
  <2>10. q \in [1..k+1 -> 1..m+1]
    <3>1. \A j \in 1..k+1 : j = k + 1 \/ j \in 1..k
      <4> HIDE DEF k
      <4> QED BY <1>2
    <3>2. \A j \in 1..k+1 : q[j] \in 1..m+1
      BY <1>2, <2>4, <2>9, <3>1
    <3> HIDE DEF w, k, m
    <3> QED BY <3>2
  <2>11. ASSUME NEW j \in 1..k+1 PROVE CDR(g, q[j]) = IF j = k + 1 THEN Nil ELSE q[j + 1]
    <3>1. CASE j = k + 1
      BY <2>8, <2>9, <3>1
    <3>2. CASE j = k
      BY <2>4, <2>7, <2>9, <3>2
    <3>3. CASE j # k /\ j # k + 1
      <4>1. j \in 1..k-1 /\ j \in 1..k /\ j + 1 \in 1..k
        <5> HIDE DEF k
        <5> QED BY <1>2, <3>3
      <4>2. w[j] # x /\ w[j] \in 1..m
        BY <1>2, <2>4, <3>3, <4>1
      <4>3. CDR(g, w[j]) = w[j + 1]
        BY <1>2, <2>6, <4>1, <4>2 DEF CDR
      <4> QED BY <2>9, <3>3, <4>1, <4>3
    <3> QED BY <3>1, <3>2, <3>3
  <2>12. ASSUME NEW j \in 1..k PROVE CAR(g, q[j]) = v[j]
    <3>1. CASE j = k
      BY <2>7, <2>9, <3>1
    <3>2. CASE j # k
      <4>1. w[j] # x /\ w[j] \in 1..m
        BY <1>2, <2>4, <3>2
      <4> QED BY <1>2, <2>6, <2>9, <4>1 DEF CAR
    <3> QED BY <3>1, <3>2
  <2> HIDE DEF q
  <2> DEFINE K == k + 1
  <2>13. /\ Contents(g, l) = Held(g, q, K)
         /\ Pairs(g, l) = These(q, K)
         /\ Proper(g, l)
    <3>1. K \in 0..Len(g) /\ q \in [1..K -> 1..Len(g)] /\ Nil \in Ref(g) /\ ~PAIRP(g, Nil)
      BY <2>5, <2>9, <2>10, SoundHeap
    <3>2. K # 0 /\ l = q[1]
      BY <2>9
    <3>3. \A j \in 1..K-1 : j \in 1..K /\ j # K
      BY <2>9
    <3>4. K \in 1..K
      BY <2>9
    <3>5. (\A j \in 1..K-1 : CDR(g, q[j]) = q[j + 1]) /\ CDR(g, q[K]) = Nil
      BY <2>11, <3>3, <3>4
    <3> HIDE DEF K
    <3>6. ProperChain(g, l, K, q)
      BY <3>2, <3>5 DEF ProperChain
    <3> QED BY <2>5, <3>1, <3>6, ProperListIs
  <2>14. Contents(g, l) = Append(v, el)
    <3> DEFINE t == Append(v, el)
    <3>1. t \in Seq(Element) /\ Len(t) = K /\ t[K] = el /\ \A j \in 1..k : t[j] = v[j]
      <4> HIDE DEF v, k
      <4> QED BY <1>1, AppendProperties
    <3>2. t = [j \in 1..K |-> t[j]]
      <4> HIDE DEF t, K
      <4> QED BY <3>1, LenProperties
    <3>3. ASSUME NEW j \in 1..K PROVE t[j] = CAR(g, q[j])
      <4>1. j = K \/ j \in 1..k
        <5> HIDE DEF k
        <5> QED BY <1>2
      <4> HIDE DEF t
      <4> QED BY <2>8, <2>9, <2>12, <3>1, <4>1
    <3> HIDE DEF t, K
    <3>4. t = Contents(g, l)
      BY <2>13, <3>2, <3>3 DEF Held
    <3> QED BY <3>4 DEF t
  <2>15. Pairs(g, l) \cap DOMAIN h \subseteq Pairs(h, l)
    <3> SUFFICES ASSUME NEW p \in Pairs(g, l), p \in DOMAIN h PROVE p \in Pairs(h, l)
      OBVIOUS
    <3>1. PICK j \in 1..K : p = q[j]
      BY <2>13 DEF These
    <3>2. p # m + 1
      <4>1. p \in 1..m
        BY <1>1
      <4> HIDE DEF m
      <4> QED BY <1>1, <4>1
    <3>3. j \in 1..k
      <4>1. j # k + 1
        BY <2>9, <3>1, <3>2
      <4> HIDE DEF k
      <4> QED BY <1>2, <4>1
    <3> QED BY <1>2, <2>9, <3>1, <3>3
  <2>16. \A p \in 1..m : p \notin Pairs(h, l) => g[p] = h[p]
    BY <1>2, <2>4, <2>6
  <2>17. m <= Len(g)
    <3> HIDE DEF m
    <3> QED BY <1>1, <2>5
  <2> HIDE DEF r, v, m
  <2> QED BY <1>7, <2>2, <2>5, <2>13, <2>14, <2>15, <2>16, <2>17
<1>8. Good
  <2> HIDE DEF Good
  <2> QED BY <1>5, <1>6, <1>7
<1> QED BY <1>8

\* The pairs of w up to the i-th turned round.
TurnedUpTo(h, w, i, g) ==
  /\ \A j \in 1..i : g[w[j]] = [car |-> CAR(h, w[j]), cdr |-> IF j = 1 THEN Nil ELSE w[j - 1]]
  /\ \A p \in 1..Len(h) : (\A j \in 1..i : p # w[j]) => g[p] = h[p]

\* One more pair turned round.
LEMMA TurnsOne ==
  ASSUME NEW h, Sound(h), NEW k \in Nat, NEW w \in [1..k -> 1..Len(h)],
         \A i, j \in 1..k : w[i] = w[j] => i = j,
         NEW i \in 1..k, NEW g, Sound(g), Len(g) = Len(h), TurnedUpTo(h, w, i - 1, g),
         NEW d, d = IF i = 1 THEN Nil ELSE w[i - 1]
  PROVE  /\ Sound(TailTo(g, w[i], d)) /\ Len(TailTo(g, w[i], d)) = Len(h)
         /\ TurnedUpTo(h, w, i, TailTo(g, w[i], d))
<1> DEFINE x == w[i]
           f == TailTo(g, x, d)
<1>1. x \in 1..Len(h) /\ x \in 1..Len(g) /\ d \in Ref(g) /\ Len(h) \in Nat
  <2>1. i = 1 \/ i - 1 \in 1..k
    OBVIOUS
  <2>2. Nil \in Ref(g) /\ Len(h) \in Nat
    BY SoundHeap
  <2>3. 1..Len(g) \subseteq Ref(g)
    BY <2>2 DEF Ref
  <2> QED BY <2>1, <2>2, <2>3
<1> HIDE DEF f, x
<1>2. /\ Sound(f) /\ Len(f) = Len(h) /\ f[x] = [car |-> CAR(g, x), cdr |-> d]
      /\ \A p \in 1..Len(h) : p # x => f[p] = g[p]
  BY <1>1, CdrSet DEF f
<1>3. \A j \in 1..i-1 : w[j] # x /\ w[j] \in 1..Len(h) /\ j \in 1..i /\ j # i
  <2>1. \A j \in 1..i-1 : j \in 1..k /\ j # i /\ j \in 1..i
    OBVIOUS
  <2> QED BY <2>1 DEF x
<1>4. CAR(g, x) = CAR(h, x)
  BY <1>1, <1>3 DEF TurnedUpTo, CAR
<1>5. ASSUME NEW j \in 1..i
      PROVE  f[w[j]] = [car |-> CAR(h, w[j]), cdr |-> IF j = 1 THEN Nil ELSE w[j - 1]]
  <2>1. CASE j = i
    BY <1>2, <1>4, <2>1 DEF x
  <2>2. CASE j # i
    <3>1. j \in 1..i-1
      BY <2>2
    <3>2. f[w[j]] = g[w[j]]
      BY <1>2, <1>3, <3>1
    <3> QED BY <3>1, <3>2 DEF TurnedUpTo
  <2> QED BY <2>1, <2>2
<1>6. ASSUME NEW p \in 1..Len(h), \A j \in 1..i : p # w[j] PROVE f[p] = h[p]
  <2>1. p # x /\ \A j \in 1..i-1 : p # w[j]
    BY <1>3, <1>6 DEF x
  <2> QED BY <1>2, <2>1 DEF TurnedUpTo
<1>7. TurnedUpTo(h, w, i, f)
  BY <1>5, <1>6 DEF TurnedUpTo
<1> QED BY <1>2, <1>7 DEF f, x

\* Every pair turned round is the list in the opposite order.
LEMMA AllTurned ==
  ASSUME NEW h, Sound(h), NEW l \in Ref(h), Proper(h, l), NEW g, Sound(g), Len(g) = Len(h),
         TurnedUpTo(h, Spine(h, l), size(h, l), g),
         NEW t, t = IF size(h, l) = 0 THEN Nil ELSE Spine(h, l)[size(h, l)]
  PROVE  /\ Proper(g, t) /\ Contents(g, t) = Reverse(Contents(h, l)) /\ Pairs(g, t) = Pairs(h, l)
         /\ \A p \in 1..Len(h) : p \notin Pairs(h, l) => g[p] = h[p]
<1> DEFINE k == size(h, l)
           w == Spine(h, l)
           v == Contents(h, l)
           q == [j \in 1..k |-> w[k + 1 - j]]
<1>0. ~Endless(h, l) /\ Len(v) = k
  BY ProperEnds, SpineOf
<1>1. /\ k \in Nat /\ k \in 0..Len(h)
      /\ \A j \in 1..k : w[j] \in 1..Len(h) /\ CAR(h, w[j]) = v[j]
      /\ Pairs(h, l) = {w[j] : j \in 1..k}
  BY <1>0, SpinePlaces
<1>2. \A j \in 1..k : k + 1 - j \in 1..k /\ (k + 1) - (k + 1 - j) = j
  BY <1>1
<1> HIDE DEF k, w, v
<1>3. q \in [1..k -> 1..Len(g)] /\ \A j \in 1..k : q[j] = w[k + 1 - j]
  BY <1>1, <1>2
<1>4. \A j \in 1..k : /\ CAR(g, q[j]) = v[k + 1 - j]
                      /\ CDR(g, q[j]) = IF k + 1 - j = 1 THEN Nil ELSE w[k - j]
  <2> TAKE j \in 1..k
  <2> DEFINE i == k + 1 - j
  <2>1. i \in 1..k /\ i - 1 = k - j
    BY <1>1
  <2> HIDE DEF i
  <2>2. g[w[i]] = [car |-> CAR(h, w[i]), cdr |-> IF i = 1 THEN Nil ELSE w[i - 1]]
    BY <2>1 DEF TurnedUpTo, k, w
  <2>3. CAR(g, w[i]) = v[i] /\ CDR(g, w[i]) = IF i = 1 THEN Nil ELSE w[i - 1]
    BY <1>1, <2>1, <2>2 DEF CAR, CDR
  <2> HIDE DEF q
  <2> QED BY <1>3, <2>1, <2>3 DEF i
<1> HIDE DEF q
<1>5. ProperChain(g, t, k, q)
  <2>1. k # 0 => t = q[1] /\ CDR(g, q[k]) = Nil
    <3>1. k # 0 => 1 \in 1..k /\ k \in 1..k /\ k + 1 - 1 = k /\ k + 1 - k = 1
      BY <1>1
    <3> QED BY <1>3, <1>4, <3>1 DEF k, w
  <2>2. \A j \in 1..k-1 : CDR(g, q[j]) = q[j + 1]
    <3>1. \A j \in 1..k-1 : j \in 1..k /\ j + 1 \in 1..k /\ k + 1 - j # 1 /\ k + 1 - (j + 1) = k - j
      BY <1>1
    <3> QED BY <1>3, <1>4, <3>1
  <2> QED BY <2>1, <2>2 DEF ProperChain, k
<1>6. Proper(g, t) /\ Contents(g, t) = Held(g, q, k) /\ Pairs(g, t) = These(q, k)
  BY <1>1, <1>3, <1>5, ProperListIs
<1>7. Held(g, q, k) = Reverse(v)
  <2>1. \A j \in 1..k : k - j + 1 = k + 1 - j
    BY <1>1
  <2>2. Reverse(v) = [j \in 1..k |-> v[k - j + 1]]
    BY <1>0 DEF Reverse, k, v
  <2> QED BY <1>4, <2>1, <2>2 DEF Held
<1>8. These(q, k) = {w[j] : j \in 1..k}
  <2>1. ASSUME NEW j \in 1..k PROVE q[j] \in {w[i] : i \in 1..k}
    BY <1>2, <1>3
  <2>2. ASSUME NEW j \in 1..k PROVE w[j] \in {q[i] : i \in 1..k}
    <3> DEFINE c == k + 1 - j
    <3>1. c \in 1..k /\ k + 1 - c = j
      BY <1>1
    <3> HIDE DEF c
    <3>2. q[c] = w[j]
      BY <1>3, <3>1
    <3> QED BY <3>1, <3>2
  <2> QED BY <2>1, <2>2 DEF These
<1>9. \A p \in 1..Len(h) : p \notin Pairs(h, l) => g[p] = h[p]
  BY <1>1 DEF TurnedUpTo, k, w
<1> QED BY <1>1, <1>6, <1>7, <1>8, <1>9 DEF v

\* list_reverse_bang makes the list in the opposite order of the same pairs.
LEMMA ReversedInPlace ==
  ASSUME NEW h, Sound(h), NEW l \in Ref(h), Proper(h, l)
  PROVE  LET r == list_reverse_bang(h, l)
         IN  /\ Sound(r.heap) /\ Len(r.heap) = Len(h) /\ Proper(r.heap, r.val)
             /\ Contents(r.heap, r.val) = Reverse(Contents(h, l))
             /\ Pairs(r.heap, r.val) = Pairs(h, l)
             /\ \A p \in 1..Len(h) : p \notin Pairs(h, l) => r.heap[p] = h[p]
<1> DEFINE k == size(h, l)
           w == Spine(h, l)
           m == Len(h)
           D == {r \in [heap : Seq(Cell(m)), val : Ref(h)] : Len(r.heap) = m}
           Turn(r, x) == Returns([r.heap EXCEPT ![x].cdr = r.val], x)
           After(f) == [s \in SUBSET DOMAIN w |->
                          IF s = {} THEN Returns(h, Nil) ELSE Turn(f[s \ {Max(s)}], w[Max(s)])]
           F == CHOOSE f : f = After(f)
<1>0. ~Endless(h, l)
  BY ProperEnds
<1>1. /\ k \in Nat /\ k \in 0..m /\ DOMAIN w = 1..k
      /\ \A j \in 1..k : w[j] \in 1..m
      /\ \A i, j \in 1..k : w[i] = w[j] => i = j
  BY <1>0, SpinePlaces
<1>2. w \in [1..k -> 1..m]
  <2>1. w = [j \in 1..k |-> w[j]]
    <3>1. w \in Seq(DOMAIN h) /\ Len(w) = k
      BY <1>0, SpineOf
    <3> HIDE DEF w, k
    <3> QED BY <3>1, <1>1
  <2> HIDE DEF w, k, m
  <2> QED BY <1>1, <2>1
<1>3. m \in Nat /\ Nil \in Ref(h)
  BY SoundHeap
<1>4. Returns(h, Nil) \in D
  BY <1>3 DEF Returns, Sound
<1>5. ASSUME NEW r \in D, NEW x \in 1..m
      PROVE  Turn(r, x) \in D /\ Turn(r, x).heap = TailTo(r.heap, x, r.val) /\ Turn(r, x).val = x
  <2>1. Sound(r.heap) /\ Len(r.heap) = m /\ r.val \in Ref(r.heap)
    BY DEF Sound, Ref
  <2> DEFINE g == TailTo(r.heap, x, r.val)
  <2>2. Sound(g) /\ Len(g) = m
    <3>1. x \in 1..Len(r.heap)
      BY <2>1
    <3> DEFINE c == r.heap
               d == r.val
    <3>2. Sound(c) /\ d \in Ref(c) /\ x \in 1..Len(c) /\ Len(c) = m
      BY <2>1, <3>1
    <3> HIDE DEF m, c, d
    <3>3. Sound(TailTo(c, x, d)) /\ Len(TailTo(c, x, d)) = m
      BY <3>2, CdrSet, ZenonT(60)
    <3> QED BY <3>3 DEF c, d
  <2>3. Turn(r, x) = [heap |-> g, val |-> x]
    BY DEF Returns, TailTo
  <2>4. x \in Ref(h)
    BY <1>3 DEF Ref
  <2> HIDE DEF g, Turn, m
  <2>5. Turn(r, x) \in D
    BY <2>2, <2>3, <2>4 DEF Sound
  <2> QED BY <2>3, <2>5 DEF g
<1> HIDE DEF Turn
<1>6. \E f \in [SUBSET (1..k) -> D] : f = After(f)
  <2> DEFINE step == [a \in (1..k) \X D |-> Turn(a[2], w[a[1]])]
             base == Returns(h, Nil)
  <2> HIDE DEF D, w, k, m
  <2>1. step \in [(1..k) \X D -> D] /\ \A i \in 1..k : \A r \in D : step[<<i, r>>] = Turn(r, w[i])
    BY <1>1, <1>5
  <2> HIDE DEF step, base
  <2>2. PICK f \in [SUBSET (1..k) -> D] : FoldedLeft(k, base, step, f)
    BY <1>1, <1>4, <2>1, FoldsLeft DEF base
  <2>3. ASSUME NEW s \in SUBSET (1..k), s # {} PROVE f[s] = Turn(f[s \ {Max(s)}], w[Max(s)])
    <3>1. Max(s) \in 1..k /\ s \ {Max(s)} \in SUBSET (1..k)
      BY <1>1, <2>3, MinPlace
    <3>2. f[s \ {Max(s)}] \in D
      BY <3>1
    <3>3. f[s] = step[<<Max(s), f[s \ {Max(s)}]>>]
      BY <2>2, <2>3 DEF FoldedLeft
    <3> QED BY <2>1, <3>1, <3>2, <3>3
  <2>4. f[{}] = base
    BY <2>2 DEF FoldedLeft
  <2>5. f = [s \in SUBSET (1..k) |-> f[s]]
    OBVIOUS
  <2>6. f = After(f)
    BY <1>1, <2>3, <2>4, <2>5 DEF base
  <2> QED BY <2>6
<1>7. F = After(F)
  <2> HIDE DEF After
  <2> QED BY <1>6
<1>8. list_reverse_bang(h, l) = F[1..k]
  <2>1. list_reverse_bang(h, l) = F[DOMAIN w]
    BY DEF list_reverse_bang, FoldLeft, MapThenFoldSet, w, Turn
  <2> HIDE DEF F
  <2> QED BY <1>1, <2>1
<1> HIDE DEF F
<1>9. F[{}] = Returns(h, Nil) /\ \A i \in 1..k : F[1..i] = Turn(F[1..i-1], w[i])
  <2> HIDE DEF w, k
  <2>1. F[{}] = Returns(h, Nil)
    BY <1>1, <1>7
  <2>2. ASSUME NEW i \in 1..k PROVE F[1..i] = Turn(F[1..i-1], w[i])
    <3>1. 1..i \in SUBSET (1..k)
      BY <1>1
    <3>2. 1..i # {} /\ Max(1..i) = i /\ (1..i) \ {i} = 1..i-1
      BY <1>1, EndsOfRow
    <3>3. \A s \in SUBSET (1..k) : s # {} => F[s] = Turn(F[s \ {Max(s)}], w[Max(s)])
      BY <1>1, <1>7
    <3>4. F[1..i] = Turn(F[(1..i) \ {Max(1..i)}], w[Max(1..i)])
      BY <3>1, <3>2, <3>3
    <3> HIDE DEF After
    <3> QED BY <3>2, <3>4
  <2> QED BY <2>1, <2>2
<1> DEFINE So(i, r) == r \in D /\ r.val = (IF i = 0 THEN Nil ELSE w[i]) /\ TurnedUpTo(h, w, i, r.heap)
           T == [i \in 0..k |-> So(i, F[1..i])]
<1>10. T[0] \in {TRUE}
  <2>1. 0 \in 0..k /\ 1..0 = {}
    BY <1>1
  <2>2. Returns(h, Nil).val = Nil /\ Returns(h, Nil).heap = h
    BY DEF Returns
  <2>3. So(0, Returns(h, Nil))
    <3> HIDE DEF D, w, k
    <3> QED BY <1>4, <2>1, <2>2 DEF TurnedUpTo
  <2> HIDE DEF So, k
  <2> QED BY <1>9, <2>1, <2>3
<1>11. ASSUME NEW i \in 0+1..k, T[i-1] \in {TRUE} PROVE T[i] \in {TRUE}
  <2>1. i \in 0..k /\ i - 1 \in 0..k /\ i \in 1..k /\ i # 0 /\ (i - 1 = 0 <=> i = 1)
    BY <1>1
  <2> DEFINE r == F[1..i-1]
  <2>2. So(i - 1, r)
    <3> HIDE DEF So, k
    <3> QED BY <1>11, <2>1
  <2> HIDE DEF r, T
  <2>3. F[1..i] = Turn(r, w[i])
    BY <1>9, <2>1 DEF r
  <2>4. r \in D /\ w[i] \in 1..m
    BY <1>1, <2>1, <2>2
  <2>5. Turn(r, w[i]) \in D /\ Turn(r, w[i]).heap = TailTo(r.heap, w[i], r.val) /\ Turn(r, w[i]).val = w[i]
    <3> HIDE DEF D, m, w
    <3> QED BY <1>5, <2>4
  <2>6. Sound(r.heap) /\ Len(r.heap) = Len(h)
    BY <2>4 DEF Sound
  <2> HIDE DEF D
  <2>7. r.val = (IF i = 1 THEN Nil ELSE w[i - 1]) /\ TurnedUpTo(h, w, i - 1, r.heap)
    <3> HIDE DEF w
    <3> QED BY <2>1, <2>2
  <2>8. TurnedUpTo(h, w, i, TailTo(r.heap, w[i], r.val))
    <3> HIDE DEF w, k
    <3> QED BY <1>1, <1>2, <2>1, <2>6, <2>7, TurnsOne DEF m
  <2>9. So(i, F[1..i])
    <3> HIDE DEF w
    <3> QED BY <2>1, <2>3, <2>5, <2>8
  <2> HIDE DEF So, k
  <2> QED BY <2>1, <2>9 DEF T
<1>12. So(k, F[1..k])
  <2>1. k \in 0..k /\ 0 \in Nat
    BY <1>1
  <2>2. T[k] \in {TRUE}
    <3> HIDE DEF T, k
    <3> QED BY <1>1, <1>10, <1>11, <2>1, Onwards
  <2> HIDE DEF So, k
  <2> QED BY <2>1, <2>2
<1> DEFINE r == F[1..k]
<1>13. Sound(r.heap) /\ Len(r.heap) = Len(h) /\ TurnedUpTo(h, w, k, r.heap)
       /\ r.val = IF k = 0 THEN Nil ELSE w[k]
  BY <1>12 DEF Sound
<1> HIDE DEF r, T, So, After, D
<1>14. /\ Proper(r.heap, r.val) /\ Contents(r.heap, r.val) = Reverse(Contents(h, l))
       /\ Pairs(r.heap, r.val) = Pairs(h, l)
       /\ \A p \in 1..Len(h) : p \notin Pairs(h, l) => r.heap[p] = h[p]
  BY <1>13, AllTurned
<1>15. list_reverse_bang(h, l) = r
  BY <1>8 DEF r
<1> HIDE DEF k, w
<1> QED BY <1>13, <1>14, <1>15

----------------------------------------------------------------------------
(* What each call promises.                                                *)

\* What is no pair has no pairs.
LEMMA NoPairs ==
  ASSUME NEW h, NEW x, ~PAIRP(h, x)
  PROVE  Pairs(h, x) = {}
<1>1. ASSUME NEW n \in Nat PROVE Tail_n(h, x, n) = x
  <2> DEFINE After(f) == [i \in 0..n |-> IF i = 0 THEN x ELSE Behind(h, f[i-1])]
             rest == CHOOSE f : f = After(f)
             g == [i \in 0..n |-> x]
  <2>1. g = After(g)
    <3>1. \A i \in 0..n : i # 0 => i - 1 \in 0..n
      OBVIOUS
    <3>2. Behind(h, x) = x
      BY DEF Behind
    <3>3. \A i \in 0..n : g[i] = IF i = 0 THEN x ELSE Behind(h, g[i-1])
      BY <3>1, <3>2
    <3> QED BY <3>3
  <2>2. rest = After(rest)
    <3> HIDE DEF After, g
    <3> QED BY <2>1
  <2>3. Tail_n(h, x, n) = rest[n]
    BY DEF Tail_n, Behind
  <2> HIDE DEF rest
  <2>4. rest[0] = x /\ \A i \in 1..n : rest[i] = Behind(h, rest[i-1])
    <3>1. 0 \in 0..n /\ \A i \in 1..n : i \in 0..n /\ i # 0
      OBVIOUS
    <3> QED BY <2>2, <3>1
  <2>5. GoAlike(n, rest, g)
    <3>1. 0 \in 0..n /\ \A i \in 1..n : i \in 0..n /\ i - 1 \in 0..n
      OBVIOUS
    <3> QED BY <2>4, <3>1 DEF GoAlike, Behind
  <2>6. AlikeUpTo(n, rest, g)
    <3> HIDE DEF g
    <3> QED BY <2>5, Alike
  <2>7. n \in 0..n
    OBVIOUS
  <2> QED BY <2>3, <2>6, <2>7 DEF AlikeUpTo
<1>2. \A n \in 0..Len(h) : n \in Nat
  OBVIOUS
<1> QED BY <1>1, <1>2 DEF Pairs, PAIRP

\* concatenate copies all its arguments but the last.
LEMMA ConcatenateMade ==
  ASSUME NEW h, Sound(h), NEW l \in Ref(h), ~Endless(h, l), NEW d \in Ref(h)
  PROVE  Made(h, concatenate(h, l, <<d>>), Contents(h, l), d)
<1> DEFINE w == <<d>>
           Then(r, x) == append(r.heap, r.val, x)
           After(f) == [s \in SUBSET DOMAIN w |->
                          IF s = {} THEN Returns(h, l) ELSE Then(f[s \ {Max(s)}], w[Max(s)])]
           F == CHOOSE f : f = After(f)
           g == [s \in SUBSET DOMAIN w |-> IF s = {} THEN Returns(h, l) ELSE append(h, l, d)]
<1>1. DOMAIN w = 1..1 /\ w[1] = d
  OBVIOUS
<1>2. Max(1..1) = 1 /\ (1..1) \ {1} = {} /\ 1..1 # {} /\ \A s \in SUBSET (1..1) : s = {} \/ s = 1..1
  <2>1. 1 \in 1..1 /\ 1..1 = {1} /\ 1..0 = {}
    OBVIOUS
  <2>2. Max(1..1) = 1
    BY <2>1, EndsOfRow
  <2> QED BY <2>1, <2>2
<1>3. Then(Returns(h, l), d) = append(h, l, d)
  BY DEF Returns
<1> HIDE DEF Then, w
<1>4. g = After(g)
  <2>1. g[{}] = Returns(h, l)
    BY <1>1
  <2>2. \A s \in SUBSET DOMAIN w : s # {} => Then(g[s \ {Max(s)}], w[Max(s)]) = append(h, l, d)
    BY <1>1, <1>2, <1>3, <2>1
  <2> QED BY <2>2
<1>5. F = After(F)
  <2> HIDE DEF After, g
  <2> QED BY <1>4
<1>6. concatenate(h, l, w) = F[DOMAIN w]
  BY DEF concatenate, FoldLeft, MapThenFoldSet, Then, w
<1> HIDE DEF F
<1>7. F[{}] = Returns(h, l) /\ F[1..1] = Then(F[{}], d)
  <2>1. F[{}] = Returns(h, l)
    BY <1>1, <1>5
  <2>2. 1..1 \in SUBSET DOMAIN w
    BY <1>1
  <2>3. \A s \in SUBSET DOMAIN w : s # {} => F[s] = Then(F[s \ {Max(s)}], w[Max(s)])
    BY <1>5
  <2>4. F[1..1] = Then(F[(1..1) \ {Max(1..1)}], w[Max(1..1)])
    BY <1>2, <2>2, <2>3
  <2> HIDE DEF After
  <2> QED BY <1>1, <1>2, <2>1, <2>4
<1>8. Made(h, append(h, l, d), Contents(h, l), d)
  BY AppendMade
<1> HIDE DEF After
<1>9. concatenate(h, l, w) = append(h, l, d)
  BY <1>1, <1>3, <1>6, <1>7
<1> QED BY <1>8, <1>9 DEF w

(* Answers.                                                                *)

\* r holds s as a list that ends; of the pairs of h it has none but those of P, and none but
\* those of C is another.
Answer(h, r, s, P, C) ==
  /\ Contents(r.heap, r.val) = s /\ Proper(r.heap, r.val)
  /\ Pairs(r.heap, r.val) \cap DOMAIN h \subseteq P
  /\ \A p \in DOMAIN h \ C : r.heap[p] = h[p]

\* A new list is such an answer, ...
LEMMA NewAnswer ==
  ASSUME NEW h, Sound(h), NEW s \in Seq(Element), NEW r, Made(h, r, s, Nil), NEW P
  PROVE  Answer(h, r, s, P, {})
<1>1. Nil \in Ref(h) /\ ~Endless(h, Nil) /\ Proper(h, Nil) /\ Pairs(h, Nil) = {} /\ Contents(h, Nil) = <<>>
  BY NilList
<1>2. /\ Pairs(r.heap, r.val) \cap DOMAIN h \subseteq Pairs(h, Nil)
      /\ Contents(r.heap, r.val) = s \o Contents(h, Nil) /\ Proper(r.heap, r.val)
  BY <1>1, MadeList
<1>3. s \o <<>> = s
  BY ConcatEmptySeq
<1>4. \A p \in DOMAIN h : r.heap[p] = h[p]
  BY <1>1, MadeStays, SoundHeap
<1> QED BY <1>1, <1>2, <1>3, <1>4 DEF Answer

\* ... with the pairs of the one it is put in front of, ...
LEMMA AddedAnswer ==
  ASSUME NEW h, Sound(h), NEW s \in Seq(Element), NEW d \in Ref(h), Proper(h, d), NEW r, Made(h, r, s, d)
  PROVE  Answer(h, r, s \o Contents(h, d), Pairs(h, d), {})
<1>1. ~Endless(h, d)
  BY ProperEnds
<1>2. /\ Pairs(r.heap, r.val) \cap DOMAIN h \subseteq Pairs(h, d)
      /\ Contents(r.heap, r.val) = s \o Contents(h, d) /\ Proper(r.heap, r.val)
  BY <1>1, MadeList
<1>3. \A p \in DOMAIN h : r.heap[p] = h[p]
  BY MadeStays, SoundHeap
<1> QED BY <1>2, <1>3 DEF Answer

\* ... and so is the list itself.
LEMMA SameAnswer ==
  ASSUME NEW h, Sound(h), NEW l \in Ref(h), Proper(h, l)
  PROVE  Answer(h, Returns(h, l), Contents(h, l), Pairs(h, l), {})
<1>1. Returns(h, l).heap = h /\ Returns(h, l).val = l
  BY DEF Returns
<1> QED BY <1>1 DEF Answer

\* A list that is given may be one that does not end in the empty list.
LEMMA HasContents ==
  ASSUME NEW h, Sound(h), NEW l \in Ref(h), ~Endless(h, l)
  PROVE  /\ Contents(h, l) \in Seq(Element) /\ Len(Contents(h, l)) \in Nat /\ Len(Contents(h, l)) = size(h, l)
         /\ DOMAIN Contents(h, l) = 1..Len(Contents(h, l))
<1> DEFINE v == Contents(h, l)
<1>1. v \in Seq(Element) /\ Len(v) = size(h, l)
  BY SpineOf
<1> HIDE DEF v
<1>2. Len(v) \in Nat /\ DOMAIN v = 1..Len(v)
  BY <1>1, LenProperties
<1> QED BY <1>1, <1>2 DEF v

\* What is kept, in order or in the opposite one.
LEMMA KeptPlaces ==
  ASSUME NEW v \in Seq(Element), NEW P
  PROVE  Kept(v, P) \in Seq(Element) /\ Reverse(Kept(v, P)) \in Seq(Element)
<1> DEFINE u == Kept(v, P)
<1>1. u \in Seq(Element)
  BY KeptSeq
<1> HIDE DEF u
<1>2. Reverse(u) \in Seq(Element)
  <2>1. Len(u) \in Nat /\ \A i \in 1..Len(u) : u[i] \in Element /\ Len(u) - i + 1 \in 1..Len(u)
    BY <1>1, LenProperties, ElementOfSeq
  <2>2. Reverse(u) \in [1..Len(u) -> Element]
    BY <2>1 DEF Reverse
  <2> QED BY <2>1, <2>2
<1> QED BY <1>1, <1>2 DEF u

\* Before the call.
Waiting == /\ call = NoCall /\ phase = "idle" /\ before = heap
           /\ heap \in Heaps

\* The heaps the program may begin with.
LEMMA HeapsSound ==
  ASSUME NEW h \in Heaps
  PROVE  /\ Sound(h) /\ Len(h) = MaxPairs /\ MaxPairs \in Nat /\ DOMAIN h = 1..MaxPairs
         /\ \A p \in 1..MaxPairs : CAR(h, p) \in Datum
         /\ 0..MaxPairs \subseteq Ref(h) /\ First \subseteq Ref(h)
<1> DEFINE n == MaxPairs
           R == [car : Datum, cdr : {Nil} \cup 1..n \cup Datum]
<1>1. n \in Nat /\ Datum \subseteq Element /\ First \subseteq 0..n
  BY FirstAssumption, DatumAssumption
<1>2. R \subseteq Cell(n)
  <2>1. {Nil} \cup 1..n \cup Datum \subseteq 0..n \cup Element
    BY <1>1 DEF Nil
  <2> QED BY <1>1, <2>1 DEF Cell
<1>3. h \in [1..n -> R]
  BY DEF Heaps
<1>4. \A p \in 1..n : CAR(h, p) \in Datum
  BY <1>3 DEF CAR
<1>5. h \in [1..n -> Cell(n)]
  <2> HIDE DEF R, n
  <2> QED BY <1>2, <1>3
<1>6. h \in Seq(Cell(n)) /\ Len(h) = n /\ DOMAIN h = 1..n
  <2> HIDE DEF R, n
  <2> QED BY <1>1, <1>5
<1>7. Sound(h) /\ 0..n \subseteq Ref(h)
  BY <1>6 DEF Sound, Ref
<1> QED BY <1>1, <1>4, <1>6, <1>7

\* A list given as the first argument, and as the second.
LEMMA Given ==
  ASSUME Waiting, Called
  PROVE  /\ Sound(heap) /\ Len(heap) = MaxPairs /\ Len(heap) > 0
         /\ \A l \in TheLists : l \in Ref(heap) /\ Proper(heap, l) /\ ~Endless(heap, l)
         /\ \A l \in First : l \in Ref(heap)
         /\ AnyList \subseteq Ref(heap)
         /\ 0..MaxPairs \subseteq Nat /\ Datum \subseteq Element /\ False \in Element
<1>1. heap \in Heaps /\ Len(heap) > 0
  BY DEF Waiting, Called
<1>2. Sound(heap) /\ Len(heap) = MaxPairs /\ MaxPairs \in Nat /\ First \subseteq Ref(heap) /\ DOMAIN heap = 1..MaxPairs
      /\ 0..MaxPairs \subseteq Ref(heap)
  BY <1>1, HeapsSound
<1>3. \A l \in TheLists : l \in Ref(heap) /\ Proper(heap, l)
  BY <1>2 DEF TheLists
<1>4. \A l \in TheLists : ~Endless(heap, l)
  BY <1>2, <1>3, ProperEnds
<1>5. AnyList \subseteq Ref(heap)
  <2>1. 0 \in 0..MaxPairs /\ 1..MaxPairs \subseteq 0..MaxPairs
    BY <1>2
  <2> QED BY <1>2, <2>1 DEF AnyList, Nil
<1> QED BY <1>1, <1>2, <1>3, <1>4, <1>5, DatumAssumption

\* The operations with a list as their result.
Making == {"copy_list", "copy-sequence", "map", "reverse", "reverse!", "add", "add!",
           "add-new", "add-new!", "add_new_at_end", "remove", "choose", "remove-duplicates",
           "intersection", "union"}

\* An answer of the right elements is what is promised of these operations.
LEMMA ListMade ==
  ASSUME NEW k, call' = k, k.op \in Making, before' = heap,
         NEW r, heap' = r.heap, val' = r.val, NEW P, NEW C,
         Answer(heap, r, Expected(k, Contents(heap, k.l), Contents(heap, k.m)), P, C),
         P \subseteq Shared(k)', C \subseteq Changed(k)'
  PROVE  ListsAnswer' /\ OthersKept'
<1>1. ListsAnswer'
  BY DEF ListsAnswer, Answer, Making
<1>2. OthersKept'
  BY DEF OthersKept, Answer, Making
<1> QED BY <1>1, <1>2

\* The call of each operation keeps its promise.
LEMMA CopyListRight ==
  ASSUME Waiting, CopyList
  PROVE  ListsAnswer' /\ OthersKept'
<1> DEFINE c == [op : {"copy_list"}, l : {l \in First : ~Endless(heap, l)}, m : {Nil},
                 el : {False}, n : {0}]
<1>1. Called /\ before' = heap
  BY DEF CopyList, OnPairs
<1>2. PICK k \in c : call' = k /\ heap' = copy_list(heap, k.l).heap /\ val' = copy_list(heap, k.l).val
  BY DEF CopyList, OnPairs
<1> DEFINE r == copy_list(heap, k.l)
           s == Contents(heap, k.l)
<1>3. k.op = "copy_list" /\ k.l \in Ref(heap) /\ ~Endless(heap, k.l) /\ Sound(heap)
  BY <1>1, Given
<1>4. Answer(heap, r, s, {}, {})
  BY <1>3, HasContents, CopyListMade, NewAnswer
<1>5. Expected(k, s, Contents(heap, k.m)) = s
  BY <1>3 DEF Expected
<1> HIDE DEF c, r, s
<1>6. Answer(heap, r, Expected(k, s, Contents(heap, k.m)), {}, {})
  BY <1>4, <1>5
<1> QED
  BY <1>1, <1>2, <1>3, <1>6, ListMade DEF Making, r, s

LEMMA MapListRight ==
  ASSUME Waiting, MapList
  PROVE  ListsAnswer' /\ OthersKept'
<1>1. Called /\ before' = heap
  BY DEF MapList, OnPairs
<1>2. PICK k \in With("map", {Nil}, [Datum -> Datum], {0}) : call' = k /\ heap' = list_map1(heap, k.el, k.l).heap /\ val' = list_map1(heap, k.el, k.l).val
  BY DEF MapList, OnPairs
<1> DEFINE r == list_map1(heap, k.el, k.l)
           s == Contents(heap, k.l)
           e == [i \in DOMAIN s |-> k.el[s[i]]]
<1>3. /\ k.op = "map" /\ k.l \in Ref(heap) /\ Proper(heap, k.l) /\ ~Endless(heap, k.l) /\ Sound(heap)
      /\ k.el \in [Datum -> Datum] /\ Datum \subseteq Element
  BY <1>1, Given DEF With
<1>4. s \in Seq(Element) /\ Len(s) \in Nat /\ DOMAIN s = 1..Len(s)
  BY <1>3, HasContents
<1>5. Made(heap, r, e, Nil) /\ e \in Seq(Element)
  <2>1. \A i \in 1..Len(s) : s[i] \in Datum
    <3>1. heap \in Heaps
      BY DEF Waiting
    <3>2. DOMAIN heap = 1..MaxPairs /\ \A p \in 1..MaxPairs : CAR(heap, p) \in Datum
      BY <3>1, HeapsSound
    <3>3. \A i \in 1..size(heap, k.l) : /\ Spine(heap, k.l)[i] \in 1..Len(heap)
                                       /\ CAR(heap, Spine(heap, k.l)[i]) = s[i]
      BY <1>3, SpinePlaces
    <3>4. Len(s) = size(heap, k.l) /\ Len(heap) = MaxPairs
      BY <1>3, <3>1, HasContents, HeapsSound
    <3> HIDE DEF s
    <3> QED BY <3>2, <3>3, <3>4
  <2>2. k.el \in [Datum -> Element]
    BY <1>3
  <2>3. Made(heap, r, e, Nil)
    BY <1>3, <2>1, <2>2, MapMade
  <2>4. \A i \in 1..Len(s) : k.el[s[i]] \in Element
    BY <2>1, <2>2
  <2>5. e \in [1..Len(s) -> Element]
    <3> HIDE DEF s
    <3> QED BY <1>4, <2>4
  <2> HIDE DEF e, s
  <2>6. e \in Seq(Element)
    BY <1>4, <2>5
  <2> QED BY <2>3, <2>6
<1>6. Expected(k, s, Contents(heap, k.m)) = e
  BY <1>3, <1>4 DEF Expected
<1> HIDE DEF r, s, e
<1>7. Answer(heap, r, Expected(k, s, Contents(heap, k.m)), {}, {})
  BY <1>3, <1>5, <1>6, NewAnswer
<1> QED
  BY <1>1, <1>2, <1>3, <1>7, ListMade DEF Making, r, s

LEMMA CopySequenceRight ==
  ASSUME Waiting, CopySequence
  PROVE  ListsAnswer' /\ OthersKept'
<1>1. Called /\ before' = heap
  BY DEF CopySequence, OnPairs
<1>2. PICK k \in {x \in With("copy-sequence", 0..MaxPairs, {False}, 0..MaxPairs) :
                   x.m <= x.n /\ x.n <= size(heap, x.l)} : call' = k /\ heap' = copy_sequence(heap, k.l, k.m, k.n).heap /\ val' = copy_sequence(heap, k.l, k.m, k.n).val
  BY DEF CopySequence, OnPairs
<1> DEFINE r == copy_sequence(heap, k.l, k.m, k.n)
           s == Contents(heap, k.l)
           e == SubSeq(s, k.m + 1, k.n)
<1>3. /\ k.op = "copy-sequence" /\ k.l \in Ref(heap) /\ Proper(heap, k.l) /\ ~Endless(heap, k.l) /\ Sound(heap)
      /\ k.m \in Nat /\ k.n \in Nat /\ k.m <= k.n /\ k.n <= size(heap, k.l)
  BY <1>1, Given DEF With
<1>4. s \in Seq(Element) /\ Len(s) \in Nat /\ DOMAIN s = 1..Len(s)
  BY <1>3, HasContents
<1>5. Made(heap, r, e, Nil) /\ e \in Seq(Element)
  <2>1. Made(heap, r, e, Nil)
    BY <1>3, CopySequenceMade
  <2>2. Len(s) = size(heap, k.l)
    BY <1>3, HasContents
  <2> HIDE DEF s
  <2>3. k.m + 1 \in Int /\ k.n \in Int /\ \A i \in k.m + 1..k.n : i \in 1..Len(s)
    BY <1>3, <1>4, <2>2
  <2>4. \A i \in k.m + 1..k.n : s[i] \in Element
    BY <1>4, <2>3, ElementOfSeq
  <2>5. e \in Seq(Element)
    BY <2>3, <2>4, SubSeqProperties
  <2> QED BY <2>1, <2>5
<1>6. Expected(k, s, Contents(heap, k.m)) = e
  BY <1>3, <1>4 DEF Expected
<1> HIDE DEF r, s, e
<1>7. Answer(heap, r, Expected(k, s, Contents(heap, k.m)), {}, {})
  BY <1>3, <1>5, <1>6, NewAnswer
<1> QED
  BY <1>1, <1>2, <1>3, <1>7, ListMade DEF Making, r, s

LEMMA ReverseListRight ==
  ASSUME Waiting, ReverseList
  PROVE  ListsAnswer' /\ OthersKept'
<1>1. Called /\ before' = heap
  BY DEF ReverseList, OnPairs
<1>2. PICK k \in One("reverse") : call' = k /\ heap' = list_reverse(heap, k.l).heap /\ val' = list_reverse(heap, k.l).val
  BY DEF ReverseList, OnPairs
<1> DEFINE r == list_reverse(heap, k.l)
           s == Contents(heap, k.l)
           e == Reverse(s)
<1>3. /\ k.op = "reverse" /\ k.l \in Ref(heap) /\ Proper(heap, k.l) /\ ~Endless(heap, k.l) /\ Sound(heap)
      /\ TRUE
  BY <1>1, Given DEF One, With
<1>4. s \in Seq(Element) /\ Len(s) \in Nat /\ DOMAIN s = 1..Len(s)
  BY <1>3, HasContents
<1>5. Made(heap, r, e, Nil) /\ e \in Seq(Element)
  <2>1. Made(heap, r, e, Nil)
    BY <1>3, ReverseMade
  <2>2. e \in Seq(Element)
    <3>1. Kept(s, 1..Len(s)) = s /\ Reverse(Kept(s, 1..Len(s))) \in Seq(Element)
      BY <1>4, KeptAll, KeptPlaces
    <3> QED BY <3>1
  <2> QED BY <2>1, <2>2
<1>6. Expected(k, s, Contents(heap, k.m)) = e
  BY <1>3, <1>4 DEF Expected
<1> HIDE DEF r, s, e
<1>7. Answer(heap, r, Expected(k, s, Contents(heap, k.m)), {}, {})
  BY <1>3, <1>5, <1>6, NewAnswer
<1> QED
  BY <1>1, <1>2, <1>3, <1>7, ListMade DEF Making, r, s

LEMMA RemoveDuplicatesRight ==
  ASSUME Waiting, RemoveDuplicates
  PROVE  ListsAnswer' /\ OthersKept'
<1>1. Called /\ before' = heap
  BY DEF RemoveDuplicates, OnPairs
<1>2. PICK k \in One("remove-duplicates") : call' = k /\ heap' = remove_duplicates(heap, k.l).heap /\ val' = remove_duplicates(heap, k.l).val
  BY DEF RemoveDuplicates, OnPairs
<1> DEFINE r == remove_duplicates(heap, k.l)
           s == Contents(heap, k.l)
           e == Kept(s, {i \in 1..Len(s) : \A j \in i + 1..Len(s) : s[j] # s[i]})
<1>3. /\ k.op = "remove-duplicates" /\ k.l \in Ref(heap) /\ Proper(heap, k.l) /\ ~Endless(heap, k.l) /\ Sound(heap)
      /\ TRUE
  BY <1>1, Given DEF One, With
<1>4. s \in Seq(Element) /\ Len(s) \in Nat /\ DOMAIN s = 1..Len(s)
  BY <1>3, HasContents
<1>5. Made(heap, r, e, Nil) /\ e \in Seq(Element)
  BY <1>3, <1>4, NoDuplicatesMade, KeptPlaces
<1>6. Expected(k, s, Contents(heap, k.m)) = e
  BY <1>3, <1>4 DEF Expected
<1> HIDE DEF r, s, e
<1>7. Answer(heap, r, Expected(k, s, Contents(heap, k.m)), {}, {})
  BY <1>3, <1>5, <1>6, NewAnswer
<1> QED
  BY <1>1, <1>2, <1>3, <1>7, ListMade DEF Making, r, s

LEMMA RemoveFromListRight ==
  ASSUME Waiting, RemoveFromList
  PROVE  ListsAnswer' /\ OthersKept'
<1>1. Called /\ before' = heap
  BY DEF RemoveFromList, OnPairs
<1>2. PICK k \in With("remove", {Nil}, Datum, 0..MaxPairs) : call' = k /\ heap' = remove(heap, k.l, k.el, k.n).heap /\ val' = remove(heap, k.l, k.el, k.n).val
  BY DEF RemoveFromList, OnPairs
<1> DEFINE r == remove(heap, k.l, k.el, k.n)
           s == Contents(heap, k.l)
           e == Kept(s, {i \in 1..Len(s) : s[i] # k.el \/ (k.n # 0 /\ NthTime(s, i) > k.n)})
<1>3. /\ k.op = "remove" /\ k.l \in Ref(heap) /\ Proper(heap, k.l) /\ ~Endless(heap, k.l) /\ Sound(heap)
      /\ k.n \in Nat
  BY <1>1, Given DEF With
<1>4. s \in Seq(Element) /\ Len(s) \in Nat /\ DOMAIN s = 1..Len(s)
  BY <1>3, HasContents
<1>5. Made(heap, r, e, Nil) /\ e \in Seq(Element)
  BY <1>3, <1>4, RemoveMade, KeptPlaces
<1>6. Expected(k, s, Contents(heap, k.m)) = e
  BY <1>3, <1>4 DEF Expected
<1> HIDE DEF r, s, e
<1>7. Answer(heap, r, Expected(k, s, Contents(heap, k.m)), {}, {})
  BY <1>3, <1>5, <1>6, NewAnswer
<1> QED
  BY <1>1, <1>2, <1>3, <1>7, ListMade DEF Making, r, s

LEMMA ChooseFromListRight ==
  ASSUME Waiting, ChooseFromList
  PROVE  ListsAnswer' /\ OthersKept'
<1>1. Called /\ before' = heap
  BY DEF ChooseFromList, OnPairs
<1>2. PICK k \in With("choose", {Nil}, Datum, {0}) : call' = k /\ heap' = choose(heap, {k.el}, k.l).heap /\ val' = choose(heap, {k.el}, k.l).val
  BY DEF ChooseFromList, OnPairs
<1> DEFINE r == choose(heap, {k.el}, k.l)
           s == Contents(heap, k.l)
           e == Kept(s, {i \in 1..Len(s) : s[i] \in {k.el}})
<1>3. /\ k.op = "choose" /\ k.l \in Ref(heap) /\ Proper(heap, k.l) /\ ~Endless(heap, k.l) /\ Sound(heap)
      /\ TRUE
  BY <1>1, Given DEF With
<1>4. s \in Seq(Element) /\ Len(s) \in Nat /\ DOMAIN s = 1..Len(s)
  BY <1>3, HasContents
<1>5. Made(heap, r, e, Nil) /\ e \in Seq(Element)
  BY <1>3, <1>4, ChooseMade, KeptPlaces
<1>6. Expected(k, s, Contents(heap, k.m)) = e
  <2>1. {i \in DOMAIN s : s[i] = k.el} = {i \in 1..Len(s) : s[i] \in {k.el}}
    BY <1>4
  <2> QED BY <1>3, <2>1 DEF Expected
<1> HIDE DEF r, s, e
<1>7. Answer(heap, r, Expected(k, s, Contents(heap, k.m)), {}, {})
  BY <1>3, <1>5, <1>6, NewAnswer
<1> QED
  BY <1>1, <1>2, <1>3, <1>7, ListMade DEF Making, r, s

LEMMA AddToListRight ==
  ASSUME Waiting, AddToList
  PROVE  ListsAnswer' /\ OthersKept'
<1>1. Called /\ before' = heap
  BY DEF AddToList, OnPairs
<1>2. PICK k \in With("add", {Nil}, Datum, {0}) : call' = k /\ heap' = add(heap, k.l, k.el).heap /\ val' = add(heap, k.l, k.el).val
  BY DEF AddToList, OnPairs
<1> DEFINE r == add(heap, k.l, k.el)
           s == Contents(heap, k.l)
           e == <<k.el>> \o s
<1>3. /\ k.op = "add" /\ k.l \in Ref(heap) /\ Proper(heap, k.l) /\ ~Endless(heap, k.l) /\ Sound(heap)
      /\ k.el \in Element
  BY <1>1, Given DEF With
<1>4. s \in Seq(Element) /\ Len(s) \in Nat /\ DOMAIN s = 1..Len(s)
  BY <1>3, HasContents
<1>5. Made(heap, r, e, Nil) /\ e \in Seq(Element)
  <2>1. Made(heap, r, e, Nil)
    BY <1>3, AddMade DEF Prefixed
  <2>2. <<k.el>> \in Seq(Element)
    BY <1>3
  <2> QED BY <1>4, <2>1, <2>2, ConcatProperties
<1>6. Expected(k, s, Contents(heap, k.m)) = e
  BY <1>3, <1>4 DEF Expected
<1> HIDE DEF r, s, e
<1>7. Answer(heap, r, Expected(k, s, Contents(heap, k.m)), {}, {})
  BY <1>3, <1>5, <1>6, NewAnswer
<1> QED
  BY <1>1, <1>2, <1>3, <1>7, ListMade DEF Making, r, s

LEMMA IntersectionOfListsRight ==
  ASSUME Waiting, IntersectionOfLists
  PROVE  ListsAnswer' /\ OthersKept'
<1>1. Called /\ before' = heap
  BY DEF IntersectionOfLists, OnPairs
<1>2. PICK k \in TwoLists("intersection") : call' = k /\ heap' = intersection(heap, k.l, k.m).heap /\ val' = intersection(heap, k.l, k.m).val
  BY DEF IntersectionOfLists, OnPairs
<1> DEFINE r == intersection(heap, k.l, k.m)
           s == Contents(heap, k.l)
           e == Reverse(Kept(s, {i \in 1..Len(s) : s[i] \in ToSet(Contents(heap, k.m))}))
<1>3. /\ k.op = "intersection" /\ k.l \in Ref(heap) /\ Proper(heap, k.l) /\ ~Endless(heap, k.l) /\ Sound(heap)
      /\ k.m \in Ref(heap) /\ ~Endless(heap, k.m) /\ Proper(heap, k.m)
  <2>1. /\ k.op = "intersection" /\ k.l \in Ref(heap) /\ Proper(heap, k.l) /\ ~Endless(heap, k.l)
        /\ Sound(heap) /\ k.m \in Ref(heap) /\ Proper(heap, k.m)
    BY <1>1, Given DEF TwoLists, With
  <2> QED BY <2>1, ProperEnds
<1>4. s \in Seq(Element) /\ Len(s) \in Nat /\ DOMAIN s = 1..Len(s)
  BY <1>3, HasContents
<1>5. Made(heap, r, e, Nil) /\ e \in Seq(Element)
  BY <1>3, <1>4, IntersectionMade, KeptPlaces
<1>6. Expected(k, s, Contents(heap, k.m)) = e
  BY <1>3, <1>4 DEF Expected
<1> HIDE DEF r, s, e
<1>7. Answer(heap, r, Expected(k, s, Contents(heap, k.m)), {}, {})
  BY <1>3, <1>5, <1>6, NewAnswer
<1> QED
  BY <1>1, <1>2, <1>3, <1>7, ListMade DEF Making, r, s

LEMMA AddToListXRight ==
  ASSUME Waiting, AddToListX
  PROVE  ListsAnswer' /\ OthersKept'
<1>1. Called /\ before' = heap
  BY DEF AddToListX, OnPairs
<1>2. PICK k \in With("add!", {Nil}, Datum, {0}) : call' = k /\ heap' = addX(heap, k.l, k.el).heap /\ val' = addX(heap, k.l, k.el).val
  BY DEF AddToListX, OnPairs
<1> DEFINE r == addX(heap, k.l, k.el)
           s == Contents(heap, k.l)
           e == <<k.el>> \o s
<1>3. /\ k.op = "add!" /\ k.l \in Ref(heap) /\ Proper(heap, k.l) /\ ~Endless(heap, k.l) /\ Sound(heap)
      /\ k.el \in Element
  BY <1>1, Given DEF With
<1>4. s \in Seq(Element) /\ Len(s) \in Nat /\ DOMAIN s = 1..Len(s)
  BY <1>3, HasContents
<1>5. Answer(heap, r, e, Pairs(heap, k.l), {})
  <2> DEFINE a == <<k.el>>
  <2>1. Made(heap, r, a, k.l) /\ a \in Seq(Element)
    BY <1>3, AddXMade
  <2> HIDE DEF r, a
  <2>2. Answer(heap, r, a \o s, Pairs(heap, k.l), {})
    BY <1>3, <2>1, AddedAnswer
  <2> QED BY <2>2 DEF a
<1>6. Expected(k, s, Contents(heap, k.m)) = e
  BY <1>3, <1>4 DEF Expected
<1>7. Pairs(heap, k.l) \subseteq Shared(k)' /\ {} \subseteq Changed(k)'
  BY <1>1, <1>3 DEF Shared, Changed
<1> HIDE DEF r, s, e
<1>8. Answer(heap, r, Expected(k, s, Contents(heap, k.m)), Pairs(heap, k.l), {})
  BY <1>5, <1>6
<1> QED
  BY <1>1, <1>2, <1>3, <1>7, <1>8, ListMade DEF Making, r, s

LEMMA AddNewRight ==
  ASSUME Waiting, AddNew
  PROVE  ListsAnswer' /\ OthersKept'
<1>1. Called /\ before' = heap
  BY DEF AddNew, OnPairs
<1>2. PICK k \in With("add-new", {Nil}, Datum, {0}) : call' = k /\ heap' = add_new(heap, k.l, k.el).heap /\ val' = add_new(heap, k.l, k.el).val
  BY DEF AddNew, OnPairs
<1> DEFINE r == add_new(heap, k.l, k.el)
           s == Contents(heap, k.l)
           e == IF k.el \in ToSet(s) THEN s ELSE <<k.el>> \o s
<1>3. /\ k.op = "add-new" /\ k.l \in Ref(heap) /\ Proper(heap, k.l) /\ ~Endless(heap, k.l) /\ Sound(heap)
      /\ k.el \in Element
  BY <1>1, Given DEF With
<1>4. s \in Seq(Element) /\ Len(s) \in Nat /\ DOMAIN s = 1..Len(s)
  BY <1>3, HasContents
<1>5. Answer(heap, r, e, (IF k.el \in ToSet(s) THEN Pairs(heap, k.l) ELSE {}), {})
  <2>1. CASE k.el \in ToSet(s)
    <3>1. r = Returns(heap, k.l)
      <4>1. member_p(heap, k.el, k.l)
        BY <1>3, <2>1, MemberIs, ZenonT(60)
      <4> QED BY <4>1 DEF add_new
    <3> HIDE DEF r
    <3>2. Answer(heap, r, s, Pairs(heap, k.l), {})
      BY <1>3, <3>1, SameAnswer
    <3> QED BY <2>1, <3>2
  <2>2. CASE k.el \notin ToSet(s)
    <3>1. r = add(heap, k.l, k.el)
      <4>1. ~member_p(heap, k.el, k.l)
        BY <1>3, <2>2, MemberIs
      <4> QED BY <4>1 DEF add_new
    <3> DEFINE a == Prefixed(k.el, s)
    <3>2. a \in Seq(Element)
      <4>1. <<k.el>> \in Seq(Element)
        BY <1>3
      <4> QED BY <1>4, <4>1, ConcatProperties DEF Prefixed
    <3>3. Made(heap, r, a, Nil)
      BY <1>3, <3>1, AddMade
    <3> HIDE DEF r, a
    <3>4. Answer(heap, r, a, {}, {})
      BY <1>3, <3>2, <3>3, NewAnswer
    <3> QED BY <2>2, <3>4 DEF a, Prefixed
  <2> QED BY <2>1, <2>2
<1>6. Expected(k, s, Contents(heap, k.m)) = e
  BY <1>3, <1>4 DEF Expected
<1>7. (IF k.el \in ToSet(s) THEN Pairs(heap, k.l) ELSE {}) \subseteq Shared(k)' /\ {} \subseteq Changed(k)'
  <2>1. ASSUME k.el \in ToSet(s) PROVE Pairs(heap, k.l) \subseteq Shared(k)'
    <3>1. r = Returns(heap, k.l)
      <4>1. member_p(heap, k.el, k.l)
        BY <1>3, <2>1, MemberIs, ZenonT(60)
      <4> QED BY <4>1 DEF add_new
    <3>2. val' = k.l
      BY <1>2, <3>1 DEF Returns
    <3> QED BY <1>1, <1>3, <3>2 DEF Shared
  <2> QED BY <2>1
<1> HIDE DEF r, s, e
<1>8. Answer(heap, r, Expected(k, s, Contents(heap, k.m)), (IF k.el \in ToSet(s) THEN Pairs(heap, k.l) ELSE {}), {})
  BY <1>5, <1>6
<1> QED
  BY <1>1, <1>2, <1>3, <1>7, <1>8, ListMade DEF Making, r, s

LEMMA AddNewXRight ==
  ASSUME Waiting, AddNewX
  PROVE  ListsAnswer' /\ OthersKept'
<1>1. Called /\ before' = heap
  BY DEF AddNewX, OnPairs
<1>2. PICK k \in With("add-new!", {Nil}, Datum, {0}) : call' = k /\ heap' = add_newX(heap, k.l, k.el).heap /\ val' = add_newX(heap, k.l, k.el).val
  BY DEF AddNewX, OnPairs
<1> DEFINE r == add_newX(heap, k.l, k.el)
           s == Contents(heap, k.l)
           e == IF k.el \in ToSet(s) THEN s ELSE <<k.el>> \o s
<1>3. /\ k.op = "add-new!" /\ k.l \in Ref(heap) /\ Proper(heap, k.l) /\ ~Endless(heap, k.l) /\ Sound(heap)
      /\ k.el \in Element
  BY <1>1, Given DEF With
<1>4. s \in Seq(Element) /\ Len(s) \in Nat /\ DOMAIN s = 1..Len(s)
  BY <1>3, HasContents
<1>5. Answer(heap, r, e, Pairs(heap, k.l), {})
  <2>1. CASE k.el \in ToSet(s)
    <3>1. r = Returns(heap, k.l)
      <4>1. member_p(heap, k.el, k.l)
        BY <1>3, <2>1, MemberIs, ZenonT(60)
      <4> QED BY <4>1 DEF add_newX
    <3> HIDE DEF r
    <3>2. Answer(heap, r, s, Pairs(heap, k.l), {})
      BY <1>3, <3>1, SameAnswer
    <3> QED BY <2>1, <3>2
  <2>2. CASE k.el \notin ToSet(s)
    <3>1. r = addX(heap, k.l, k.el)
      <4>1. ~member_p(heap, k.el, k.l)
        BY <1>3, <2>2, MemberIs
      <4> QED BY <4>1 DEF add_newX
    <3> DEFINE a == <<k.el>>
    <3>2. Made(heap, r, a, k.l) /\ a \in Seq(Element)
      BY <1>3, <3>1, AddXMade
    <3> HIDE DEF r, a
    <3>3. Answer(heap, r, a \o s, Pairs(heap, k.l), {})
      BY <1>3, <3>2, AddedAnswer
    <3> QED BY <2>2, <3>3 DEF a
  <2> QED BY <2>1, <2>2
<1>6. Expected(k, s, Contents(heap, k.m)) = e
  BY <1>3, <1>4 DEF Expected
<1>7. Pairs(heap, k.l) \subseteq Shared(k)' /\ {} \subseteq Changed(k)'
  BY <1>1, <1>3 DEF Shared, Changed
<1> HIDE DEF r, s, e
<1>8. Answer(heap, r, Expected(k, s, Contents(heap, k.m)), Pairs(heap, k.l), {})
  BY <1>5, <1>6
<1> QED
  BY <1>1, <1>2, <1>3, <1>7, <1>8, ListMade DEF Making, r, s

LEMMA ReverseListXRight ==
  ASSUME Waiting, ReverseListX
  PROVE  ListsAnswer' /\ OthersKept'
<1>1. Called /\ before' = heap
  BY DEF ReverseListX, OnPairs
<1>2. PICK k \in One("reverse!") : call' = k /\ heap' = list_reverse_bang(heap, k.l).heap /\ val' = list_reverse_bang(heap, k.l).val
  BY DEF ReverseListX, OnPairs
<1> DEFINE r == list_reverse_bang(heap, k.l)
           s == Contents(heap, k.l)
           e == Reverse(s)
<1>3. /\ k.op = "reverse!" /\ k.l \in Ref(heap) /\ Proper(heap, k.l) /\ ~Endless(heap, k.l) /\ Sound(heap)
      /\ DOMAIN heap = 1..Len(heap)
  BY <1>1, Given, SoundHeap DEF One, With
<1>4. s \in Seq(Element) /\ Len(s) \in Nat /\ DOMAIN s = 1..Len(s)
  BY <1>3, HasContents
<1>5. Answer(heap, r, e, Pairs(heap, k.l), Pairs(heap, k.l))
  <2>1. /\ Proper(r.heap, r.val) /\ Contents(r.heap, r.val) = e
        /\ Pairs(r.heap, r.val) = Pairs(heap, k.l)
        /\ \A p \in 1..Len(heap) : p \notin Pairs(heap, k.l) => r.heap[p] = heap[p]
    BY <1>3, ReversedInPlace
  <2> QED BY <1>3, <2>1 DEF Answer
<1>6. Expected(k, s, Contents(heap, k.m)) = e
  BY <1>3, <1>4 DEF Expected
<1>7. Pairs(heap, k.l) \subseteq Shared(k)' /\ Pairs(heap, k.l) \subseteq Changed(k)'
  BY <1>1, <1>3 DEF Shared, Changed
<1> HIDE DEF r, s, e
<1>8. Answer(heap, r, Expected(k, s, Contents(heap, k.m)), Pairs(heap, k.l), Pairs(heap, k.l))
  BY <1>5, <1>6
<1> QED
  BY <1>1, <1>2, <1>3, <1>7, <1>8, ListMade DEF Making, r, s

LEMMA AddAtEndRight ==
  ASSUME Waiting, AddAtEnd
  PROVE  ListsAnswer' /\ OthersKept'
<1>1. Called /\ before' = heap
  BY DEF AddAtEnd, OnPairs
<1>2. PICK k \in With("add_new_at_end", {Nil}, Datum, {0}) : call' = k /\ heap' = add_new_at_end(heap, k.l, k.el).heap /\ val' = add_new_at_end(heap, k.l, k.el).val
  BY DEF AddAtEnd, OnPairs
<1> DEFINE r == add_new_at_end(heap, k.l, k.el)
           s == Contents(heap, k.l)
           e == IF k.el \in ToSet(s) THEN s ELSE Append(s, k.el)
<1>3. /\ k.op = "add_new_at_end" /\ k.l \in Ref(heap) /\ Proper(heap, k.l) /\ ~Endless(heap, k.l) /\ Sound(heap)
      /\ k.el \in Element /\ DOMAIN heap = 1..Len(heap)
  BY <1>1, Given, SoundHeap DEF With
<1>4. s \in Seq(Element) /\ Len(s) \in Nat /\ DOMAIN s = 1..Len(s)
  BY <1>3, HasContents
<1>5. Answer(heap, r, e, Pairs(heap, k.l), Pairs(heap, k.l))
  <2>1. /\ Proper(r.heap, r.val)
        /\ k.el \in ToSet(s) => Contents(r.heap, r.val) = s
        /\ k.el \notin ToSet(s) => Contents(r.heap, r.val) = Append(s, k.el)
        /\ Pairs(r.heap, r.val) \cap DOMAIN heap \subseteq Pairs(heap, k.l)
        /\ \A p \in 1..Len(heap) : p \notin Pairs(heap, k.l) => r.heap[p] = heap[p]
    BY <1>3, AddAtEndIs
  <2> QED BY <1>3, <2>1 DEF Answer
<1>6. Expected(k, s, Contents(heap, k.m)) = e
  BY <1>3, <1>4 DEF Expected
<1>7. Pairs(heap, k.l) \subseteq Shared(k)' /\ Pairs(heap, k.l) \subseteq Changed(k)'
  BY <1>1, <1>3 DEF Shared, Changed
<1> HIDE DEF r, s, e
<1>8. Answer(heap, r, Expected(k, s, Contents(heap, k.m)), Pairs(heap, k.l), Pairs(heap, k.l))
  BY <1>5, <1>6
<1> QED
  BY <1>1, <1>2, <1>3, <1>7, <1>8, ListMade DEF Making, r, s

LEMMA UnionOfListsRight ==
  ASSUME Waiting, UnionOfLists
  PROVE  ListsAnswer' /\ OthersKept'
<1>1. Called /\ before' = heap
  BY DEF UnionOfLists, OnPairs
<1>2. PICK k \in TwoLists("union") : call' = k /\ heap' = union(heap, k.l, k.m).heap /\ val' = union(heap, k.l, k.m).val
  BY DEF UnionOfLists, OnPairs
<1> DEFINE r == union(heap, k.l, k.m)
           s == Contents(heap, k.l)
           e == Reverse(Kept(s, {i \in 1..Len(s) : s[i] \notin ToSet(Contents(heap, k.m)) /\ NthTime(s, i) = 1}))
                  \o Contents(heap, k.m)
<1>3. /\ k.op = "union" /\ k.l \in Ref(heap) /\ Proper(heap, k.l) /\ ~Endless(heap, k.l) /\ Sound(heap)
      /\ k.m \in Ref(heap) /\ Proper(heap, k.m) /\ ~Endless(heap, k.m)
  <2>1. /\ k.op = "union" /\ k.l \in Ref(heap) /\ Proper(heap, k.l) /\ ~Endless(heap, k.l)
        /\ Sound(heap) /\ k.m \in Ref(heap) /\ Proper(heap, k.m)
    BY <1>1, Given DEF TwoLists, With
  <2> QED BY <2>1, ProperEnds
<1>4. s \in Seq(Element) /\ Len(s) \in Nat /\ DOMAIN s = 1..Len(s)
  BY <1>3, HasContents
<1>5. Answer(heap, r, e, Pairs(heap, k.m), {})
  <2> DEFINE a == Reverse(Kept(s, {i \in 1..Len(s) : s[i] \notin ToSet(Contents(heap, k.m)) /\ NthTime(s, i) = 1}))
  <2>1. Made(heap, r, a, k.m)
    BY <1>3, UnionMade
  <2>2. a \in Seq(Element)
    BY <1>4, KeptPlaces
  <2> HIDE DEF r, a, s
  <2>3. Answer(heap, r, a \o Contents(heap, k.m), Pairs(heap, k.m), {})
    BY <1>3, <2>1, <2>2, AddedAnswer
  <2> QED BY <2>3 DEF a
<1>6. Expected(k, s, Contents(heap, k.m)) = e
  BY <1>3, <1>4 DEF Expected
<1>7. Pairs(heap, k.m) \subseteq Shared(k)' /\ {} \subseteq Changed(k)'
  BY <1>1, <1>3 DEF Shared, Changed
<1> HIDE DEF r, s, e
<1>8. Answer(heap, r, Expected(k, s, Contents(heap, k.m)), Pairs(heap, k.m), {})
  BY <1>5, <1>6
<1> QED
  BY <1>1, <1>2, <1>3, <1>7, <1>8, ListMade DEF Making, r, s

\* The second list may be one that never ends, or ends in an element.
LEMMA ConcatenateRight ==
  ASSUME Waiting, ConcatenateLists
  PROVE  ListsAnswer' /\ OthersKept'
<1>1. Called /\ before' = heap
  BY DEF ConcatenateLists, OnPairs
<1>2. PICK k \in With("concatenate", AnyList, {False}, {0}) :
           /\ call' = k
           /\ heap' = concatenate(heap, k.l, <<k.m>>).heap /\ val' = concatenate(heap, k.l, <<k.m>>).val
  BY DEF ConcatenateLists, OnPairs
<1> DEFINE r == concatenate(heap, k.l, <<k.m>>)
           s == Contents(heap, k.l)
           t == Contents(heap, k.m)
<1>3. /\ k.op = "concatenate" /\ k.l \in Ref(heap) /\ Proper(heap, k.l) /\ ~Endless(heap, k.l) /\ Sound(heap)
      /\ k.m \in Ref(heap)
  BY <1>1, Given DEF With
<1>4. s \in Seq(Element)
  BY <1>3, HasContents
<1>5. Made(heap, r, s, k.m)
  BY <1>3, ConcatenateMade
<1> HIDE DEF r, s
<1>6. /\ Pairs(r.heap, r.val) \cap DOMAIN heap \subseteq Pairs(heap, k.m)
      /\ Endless(heap, k.m) => Endless(r.heap, r.val)
      /\ ~Endless(heap, k.m) => /\ Contents(r.heap, r.val) = s \o t
                                /\ Proper(r.heap, r.val) <=> Proper(heap, k.m)
  BY <1>3, <1>4, <1>5, MadeList
<1>7. \A p \in DOMAIN heap : r.heap[p] = heap[p]
  <2>1. \A p \in 1..Len(heap) : r.heap[p] = heap[p]
    BY <1>5 DEF Made
  <2>2. DOMAIN heap = 1..Len(heap)
    BY <1>3, SoundHeap
  <2> QED BY <2>1, <2>2
<1>8. heap' = r.heap /\ val' = r.val
  BY <1>2 DEF r
<1>9. Expected(k, s, t) = s \o t
  BY <1>3 DEF Expected
<1> HIDE DEF t
<1>10. ListsAnswer'
  BY <1>1, <1>2, <1>3, <1>6, <1>8, <1>9 DEF ListsAnswer, s, t
<1>11. Shared(k)' = Pairs(heap, k.m) /\ Changed(k)' = {}
  BY <1>1, <1>3 DEF Shared, Changed
<1>12. OthersKept'
  BY <1>1, <1>2, <1>3, <1>6, <1>7, <1>8, <1>11 DEF OthersKept
<1> QED BY <1>10, <1>12

\* Lists of different length are refused.
LEMMA ChooseByRight ==
  ASSUME Waiting, ChooseBy
  PROVE  ListsAnswer' /\ OthersKept'
<1>1. Called /\ before' = heap
  BY DEF ChooseBy, OnPairs
<1>2. PICK k \in {x \in With("choose-by", AnyList, Datum, {0}) : Proper(heap, x.m)} :
           /\ call' = k
           /\ heap' = choose_by(heap, {k.el}, k.l, k.m).heap /\ val' = choose_by(heap, {k.el}, k.l, k.m).val
  BY DEF ChooseBy, OnPairs
<1> DEFINE r == choose_by(heap, {k.el}, k.l, k.m)
           s == Contents(heap, k.l)
           t == Contents(heap, k.m)
           e == Kept(t, {i \in 1..Len(t) : s[i] \in {k.el}})
<1>3. /\ k.op = "choose-by" /\ k.l \in Ref(heap) /\ Proper(heap, k.l) /\ ~Endless(heap, k.l) /\ Sound(heap)
      /\ k.m \in Ref(heap) /\ Proper(heap, k.m) /\ ~Endless(heap, k.m)
  <2>1. /\ k.op = "choose-by" /\ k.l \in Ref(heap) /\ Proper(heap, k.l) /\ ~Endless(heap, k.l) /\ Sound(heap)
        /\ k.m \in Ref(heap) /\ Proper(heap, k.m)
    BY <1>1, Given DEF With
  <2> QED BY <2>1, ProperEnds
<1>4. t \in Seq(Element) /\ DOMAIN t = 1..Len(t)
      /\ Len(s) = Len(Spine(heap, k.l)) /\ Len(t) = Len(Spine(heap, k.m))
  BY <1>3, HasContents, SpineOf
<1>5. heap' = r.heap /\ val' = r.val
  BY <1>2
<1>6. Shared(k)' = {} /\ Changed(k)' = {}
  BY <1>1, <1>3 DEF Shared, Changed
<1>7. CASE Len(s) = Len(t)
  <2>1. Answer(heap, r, e, {}, {})
    <3>1. Made(heap, r, e, Nil)
      BY <1>3, <1>7, ChooseByMade
    <3>2. e \in Seq(Element)
      BY <1>4, KeptPlaces
    <3> HIDE DEF r, e
    <3> QED BY <1>3, <3>1, <3>2, NewAnswer
  <2>2. Expected(k, s, t) = e
    <3>1. {i \in DOMAIN t : s[i] = k.el} = {i \in 1..Len(t) : s[i] \in {k.el}}
      BY <1>4
    <3> QED BY <1>3, <3>1 DEF Expected
  <2> HIDE DEF r, e
  <2>3. Contents(r.heap, r.val) = Expected(k, s, t) /\ Proper(r.heap, r.val)
    BY <2>1, <2>2 DEF Answer
  <2>4. ListsAnswer'
    BY <1>1, <1>2, <1>3, <1>5, <1>7, <2>3 DEF ListsAnswer
  <2>5. OthersKept'
    BY <1>1, <1>2, <1>3, <1>5, <1>6, <2>1 DEF OthersKept, Answer
  <2> QED BY <2>4, <2>5
<1>8. CASE Len(s) # Len(t)
  <2>1. r = Returns(heap, Failed)
    BY <1>4, <1>8 DEF choose_by
  <2>2. r.heap = heap /\ r.val = Failed
    BY <2>1 DEF Returns
  <2>3. Pairs(heap, Failed) = {}
    <3>1. DOMAIN heap \subseteq Object
      BY <1>3, SoundHeap DEF Object
    <3>2. ~PAIRP(heap, Failed)
      BY <3>1, FailedAssumption DEF PAIRP
    <3> QED BY <3>2, NoPairs
  <2> HIDE DEF r, s, t
  <2>4. ListsAnswer'
    BY <1>1, <1>2, <1>3, <1>5, <1>8, <2>2 DEF ListsAnswer, s, t
  <2>5. OthersKept'
    BY <1>1, <1>2, <1>3, <1>5, <1>6, <2>2, <2>3 DEF OthersKept
  <2> QED BY <2>4, <2>5
<1> QED BY <1>7, <1>8

\* The heap is not touched, and the result no list.
Asking == {"reduce", "member?", "last", "element", "="}

\* An answer that is not a list leaves the heap alone.
LEMMA Asked ==
  ASSUME NEW k, call' = k, k.op \in Asking, before' = heap, heap' = heap
  PROVE  OthersKept'
BY DEF OthersKept, Asking

LEMMA ReduceRight ==
  ASSUME Waiting, ReduceList
  PROVE  ListsAnswer' /\ OthersKept'
<1>1. Called /\ before' = heap
  BY DEF ReduceList, OnPairs
<1>2. PICK k \in One("reduce") : call' = k /\ heap' = heap /\ val' = list_reduce(heap, <<>>, k.l)
  BY DEF ReduceList, OnPairs, Returns
<1>3. k.op = "reduce" /\ k.l \in Ref(heap) /\ ~Endless(heap, k.l) /\ Sound(heap)
  BY <1>1, Given DEF One, With
<1>4. val' = Contents(heap, k.l)
  BY <1>2, <1>3, ReduceIs
<1>5. ListsAnswer'
  BY <1>1, <1>2, <1>3, <1>4 DEF ListsAnswer
<1> QED BY <1>1, <1>2, <1>3, <1>5, Asked DEF Asking

LEMMA MemberRight ==
  ASSUME Waiting, MemberOfList
  PROVE  ListsAnswer' /\ OthersKept'
<1>1. Called /\ before' = heap
  BY DEF MemberOfList, OnPairs
<1>2. PICK k \in With("member?", {Nil}, Datum, {0}) :
        call' = k /\ heap' = heap /\ val' = member_p(heap, k.el, k.l)
  BY DEF MemberOfList, OnPairs, Returns
<1>3. k.op = "member?" /\ k.l \in Ref(heap) /\ ~Endless(heap, k.l) /\ Sound(heap)
  BY <1>1, Given DEF With
<1>4. val' = (k.el \in ToSet(Contents(heap, k.l)))
  BY <1>2, <1>3, MemberIs
<1>5. ListsAnswer'
  BY <1>1, <1>2, <1>3, <1>4 DEF ListsAnswer
<1> QED BY <1>1, <1>2, <1>3, <1>5, Asked DEF Asking

LEMMA LastRight ==
  ASSUME Waiting, LastOfList
  PROVE  ListsAnswer' /\ OthersKept'
<1>1. Called /\ before' = heap
  BY DEF LastOfList, OnPairs
<1>2. PICK k \in One("last") : call' = k /\ heap' = heap /\ val' = list_last(heap, k.l, False)
  BY DEF LastOfList, OnPairs, Returns
<1>3. k.op = "last" /\ k.l \in Ref(heap) /\ Proper(heap, k.l) /\ Sound(heap)
  BY <1>1, Given DEF One, With
<1>4. val' = IF Contents(heap, k.l) = <<>> THEN False ELSE Contents(heap, k.l)[Len(Contents(heap, k.l))]
  BY <1>2, <1>3, LastIs
<1>5. ListsAnswer'
  BY <1>1, <1>2, <1>3, <1>4 DEF ListsAnswer
<1> QED BY <1>1, <1>2, <1>3, <1>5, Asked DEF Asking

LEMMA ElementRight ==
  ASSUME Waiting, ElementAt
  PROVE  ListsAnswer' /\ OthersKept'
<1>1. Called /\ before' = heap
  BY DEF ElementAt, OnPairs
<1>2. PICK k \in With("element", {Nil}, {False}, 0..MaxPairs) :
        call' = k /\ heap' = heap /\ val' = list_element(heap, k.l, k.n, False)
  BY DEF ElementAt, OnPairs, Returns
<1>3. k.op = "element" /\ k.l \in Ref(heap) /\ Proper(heap, k.l) /\ Sound(heap) /\ k.n \in Nat
  BY <1>1, Given DEF With
<1>4. val' = IF k.n < Len(Contents(heap, k.l)) THEN Contents(heap, k.l)[k.n + 1] ELSE False
  BY <1>2, <1>3, ElementIs
<1>5. ListsAnswer'
  BY <1>1, <1>2, <1>3, <1>4 DEF ListsAnswer
<1> QED BY <1>1, <1>2, <1>3, <1>5, Asked DEF Asking

LEMMA EqualRight ==
  ASSUME Waiting, EqualLists
  PROVE  ListsAnswer' /\ OthersKept'
<1>1. Called /\ before' = heap
  BY DEF EqualLists, OnPairs
<1>2. PICK k \in TwoLists("=") : call' = k /\ heap' = heap /\ val' = list_equal(heap, k.l, k.m)
  BY DEF EqualLists, OnPairs, Returns
<1>3. /\ k.op = "=" /\ k.l \in Ref(heap) /\ Proper(heap, k.l) /\ Sound(heap)
      /\ k.m \in Ref(heap) /\ Proper(heap, k.m)
  BY <1>1, Given DEF TwoLists, With
<1>4. val' = (Contents(heap, k.l) = Contents(heap, k.m))
  BY <1>2, <1>3, EqualIs
<1>5. ListsAnswer'
  BY <1>1, <1>2, <1>3, <1>4 DEF ListsAnswer
<1> QED BY <1>1, <1>2, <1>3, <1>5, Asked DEF Asking

\* The list is changed, or nothing is.
LEMMA ElementSetterRight ==
  ASSUME Waiting, ElementSetter
  PROVE  ListsAnswer' /\ OthersKept'
<1>1. Called /\ before' = heap
  BY DEF ElementSetter, OnPairs
<1>2. PICK k \in With("element-setter", {Nil}, Datum, 0..MaxPairs) :
           /\ call' = k
           /\ heap' = list_element_setter(heap, k.l, k.n, k.el).heap
           /\ val' = list_element_setter(heap, k.l, k.n, k.el).val
  BY DEF ElementSetter, OnPairs
<1> DEFINE r == list_element_setter(heap, k.l, k.n, k.el)
           s == Contents(heap, k.l)
<1>3. /\ k.op = "element-setter" /\ k.l \in Ref(heap) /\ Proper(heap, k.l) /\ Sound(heap)
      /\ k.n \in Nat /\ k.el \in Element /\ DOMAIN heap = 1..Len(heap)
  BY <1>1, Given, SoundHeap DEF With
<1>4. /\ k.n < Len(s) => /\ Contents(r.heap, k.l) = [s EXCEPT ![k.n + 1] = k.el]
                         /\ \A p \in 1..Len(heap) : p \notin Pairs(heap, k.l) => r.heap[p] = heap[p]
      /\ ~(k.n < Len(s)) => r.heap = heap /\ r.val = Failed
  BY <1>3, ElementSet
<1>5. heap' = r.heap /\ val' = r.val
  BY <1>2
<1> HIDE DEF r, s
<1>6. ListsAnswer'
  BY <1>1, <1>2, <1>3, <1>4, <1>5 DEF ListsAnswer, s
<1>7. Changed(k)' = Pairs(heap, k.l)
  BY <1>1, <1>3 DEF Changed
<1>8. \A p \in DOMAIN heap \ Pairs(heap, k.l) : r.heap[p] = heap[p]
  BY <1>3, <1>4
<1>9. OthersKept'
  BY <1>1, <1>2, <1>3, <1>5, <1>7, <1>8 DEF OthersKept
<1> QED BY <1>6, <1>9

----------------------------------------------------------------------------
(* The length of a list: how its walk goes.                                *)

\* The first pairs of l, up to the i-th behind it, are pairs and no two of them one.
Apart(h, l, i) ==
  /\ i \in Nat
  /\ \A n \in 0..i : PAIRP(h, Tail_n(h, l, n))
  /\ \A m, n \in 0..i : Tail_n(h, l, m) = Tail_n(h, l, n) => m = n

\* These are turned round, and no others.
OutHeap(h, l, i, g) ==
  /\ CDR(g, Tail_n(h, l, 0)) = Nil
  /\ \A n \in 1..i : CDR(g, Tail_n(h, l, n)) = Tail_n(h, l, n - 1)
  /\ \A p \in 1..Len(h) : (\A n \in 0..i : p # Tail_n(h, l, n)) => CDR(g, p) = CDR(h, p)

\* A walk that came round is on its way back to the head, at the j-th.
HomeHeap(h, l, j, g) ==
  /\ j # 0 => CDR(g, Tail_n(h, l, 0)) = Nil
  /\ \A n \in 1..j-1 : CDR(g, Tail_n(h, l, n)) = Tail_n(h, l, n - 1)
  /\ PAIRP(h, CDR(g, Tail_n(h, l, j)))

\* The pair there is on the way behind the j-th.
Foregoing(h, l, j) == IF j = 0 THEN Nil ELSE Tail_n(h, l, j - 1)

\* A list that comes back to a pair it has passed has no end.
LEMMA RunsRound ==
  ASSUME NEW h, Sound(h), NEW l \in Ref(h), NEW i, Apart(h, l, i), NEW m \in 0..i,
         Tail_n(h, l, i + 1) = Tail_n(h, l, m)
  PROVE  Endless(h, l)
<1> SUFFICES ASSUME ~Endless(h, l) PROVE FALSE
  OBVIOUS
<1> DEFINE k == size(h, l)
           T(n) == Tail_n(h, l, n)
<1>1. Ends(h, l, k) /\ k \in Nat /\ i \in Nat /\ m \in Nat /\ i + 1 \in Nat
  BY EndFound, SpineOf DEF Apart
<1>2. PAIRP(h, T(i)) /\ PAIRP(h, T(m)) /\ T(i + 1) = T(m)
  BY <1>1 DEF Apart
<1>3. \A n \in Nat : k <= n => ~PAIRP(h, T(n))
  <2> TAKE n \in Nat
  <2> HAVE k <= n
  <2>1. ~PAIRP(h, T(k))
    BY <1>1 DEF Ends
  <2> HIDE DEF k
  <2>2. T(n) = T(k)
    BY <1>1, <2>1, TailStays
  <2> QED BY <2>1, <2>2
<1> HIDE DEF T, k
<1>4. i + 1 \in 0..k-1 /\ m \in 0..k-1 /\ i + 1 # m
  <2>1. ~(k <= i + 1) /\ ~(k <= m)
    BY <1>1, <1>2, <1>3
  <2> QED BY <1>1, <2>1
<1>5. i + 1 = m
  <2> DEFINE c == i + 1
  <2>1. c \in 0..k-1 /\ Tail_n(h, l, c) = Tail_n(h, l, m)
    BY <1>2, <1>4 DEF T
  <2> HIDE DEF c
  <2>2. c = m
    BY <1>1, <1>4, <2>1, TailsDiffer
  <2> QED BY <2>2 DEF c
<1> QED BY <1>4, <1>5

\* There are no more pairs apart than the heap has.
LEMMA ApartFew ==
  ASSUME NEW h, Sound(h), NEW l \in Ref(h), NEW i, Apart(h, l, i)
  PROVE  i + 1 <= Len(h)
<1> DEFINE f == [n \in 0..i |-> Tail_n(h, l, n)]
<1>1. i \in Nat /\ Len(h) \in Nat /\ \A n \in 0..i : Tail_n(h, l, n) \in 1..Len(h)
  BY SoundHeap DEF Apart
<1>2. IsFiniteSet(1..Len(h)) /\ Cardinality(1..Len(h)) = Len(h)
  <2> DEFINE n == Len(h)
  <2>1. n \in Nat
    BY <1>1
  <2> HIDE DEF n
  <2>2. IsFiniteSet(1..n) /\ Cardinality(1..n) = n
    BY <2>1, FS_Interval
  <2> QED BY <2>2 DEF n
<1>3. IsFiniteSet(0..i) /\ Cardinality(0..i) = i + 1
  BY <1>1, FS_Interval
<1> SUFFICES ASSUME Len(h) < i + 1 PROVE FALSE
  BY <1>1
<1>4. f \in [0..i -> 1..Len(h)]
  BY <1>1
<1>5. \E a, b \in 0..i : a # b /\ f[a] = f[b]
  <2> HIDE DEF f
  <2> QED BY <1>1, <1>2, <1>3, <1>4, FS_PigeonHole
<1> QED BY <1>5 DEF Apart

\* A list that comes to its end apart has as many elements.
LEMMA RunsOut ==
  ASSUME NEW h, Sound(h), NEW l \in Ref(h), NEW i, Apart(h, l, i), ~PAIRP(h, Tail_n(h, l, i + 1))
  PROVE  ~Endless(h, l) /\ Len(Contents(h, l)) = i + 1
<1> DEFINE k == i + 1
<1>1. Ends(h, l, k)
  <2>1. i \in Nat /\ k <= Len(h) /\ Len(h) \in Nat
    BY ApartFew, SoundHeap DEF Apart
  <2>2. k \in 0..Len(h) /\ k - 1 = i
    BY <2>1
  <2> QED BY <2>2 DEF Ends, Apart
<1> HIDE DEF k
<1>2. size(h, l) = k /\ ~Endless(h, l)
  BY <1>1, EndsHave
<1> QED BY <1>2, HasContents DEF k

\* A step to a pair that was not passed yet.
LEMMA StepsOut ==
  ASSUME NEW h, Sound(h), NEW l \in Ref(h), NEW i, Apart(h, l, i),
         NEW g, Sound(g), Len(g) = Len(h), OutHeap(h, l, i, g),
         PAIRP(h, Tail_n(h, l, i + 1)), \A n \in 0..i : Tail_n(h, l, i + 1) # Tail_n(h, l, n)
  PROVE  LET f == TailTo(g, Tail_n(h, l, i + 1), Tail_n(h, l, i))
         IN  /\ Sound(f) /\ Len(f) = Len(h) /\ Apart(h, l, i + 1) /\ OutHeap(h, l, i + 1, f)
             /\ CDR(g, Tail_n(h, l, i + 1)) = Tail_n(h, l, i + 2)
<1> DEFINE T(n) == Tail_n(h, l, n)
           c == i + 1
           f == TailTo(g, T(c), T(i))
<1>1. i \in Nat /\ c \in Nat /\ i + 2 = c + 1 /\ c - 1 = i /\ 0..c = 0..i \cup {c} /\ 1..c = 1..i \cup {c} /\ c \notin 0..i /\ i \in 0..i
  BY DEF Apart
<1>2. T(c) \in 1..Len(h) /\ T(i) \in Ref(g) /\ \A n \in 0..i : T(n) \in 1..Len(h) /\ T(c) # T(n)
  <2>1. T(c) \in 1..Len(h) /\ \A n \in 0..i : T(n) \in 1..Len(h)
    BY SoundHeap DEF Apart
  <2>2. Len(g) \in Nat
    BY SoundHeap
  <2> QED BY <1>1, <2>1, <2>2 DEF Ref
<1>3. T(i + 2) = Behind(h, T(c))
  <2> HIDE DEF c
  <2>1. Tail_n(h, l, c + 1) = Behind(h, Tail_n(h, l, c))
    BY <1>1, TailSteps
  <2> QED BY <1>1, <2>1
<1>4. PAIRP(h, T(c)) /\ \A n \in 0..i : PAIRP(h, T(n))
  BY DEF Apart
<1>5. \A m, n \in 0..i : T(m) = T(n) => m = n
  BY DEF Apart
<1>6. /\ CDR(g, T(0)) = Nil
      /\ \A n \in 1..i : CDR(g, T(n)) = T(n - 1)
      /\ \A p \in 1..Len(h) : (\A n \in 0..i : p # T(n)) => CDR(g, p) = CDR(h, p)
  BY DEF OutHeap
<1> HIDE DEF T, c, f
<1>7. CDR(g, T(c)) = T(i + 2)
  BY <1>2, <1>3, <1>4, <1>6 DEF Behind
<1>8. Apart(h, l, c)
  <2>1. \A n \in 0..c : PAIRP(h, T(n))
    BY <1>1, <1>4
  <2>2. \A m, n \in 0..c : T(m) = T(n) => m = n
    BY <1>1, <1>2, <1>5
  <2> QED BY <1>1, <2>1, <2>2 DEF Apart, T
<1>9. /\ Sound(f) /\ Len(f) = Len(h) /\ f[T(c)].cdr = T(i)
      /\ \A p \in 1..Len(h) : p # T(c) => f[p] = g[p]
  <2> DEFINE x == T(c)
             d == T(i)
             e == TailTo(g, x, d)
  <2>1. x \in 1..Len(g) /\ d \in Ref(g)
    BY <1>2
  <2> HIDE DEF x, d, e
  <2>2. /\ Sound(e) /\ Len(e) = Len(g) /\ e[x] = [car |-> CAR(g, x), cdr |-> d]
        /\ \A p \in 1..Len(g) : p # x => e[p] = g[p]
    BY <2>1, CdrSet DEF e
  <2>3. e = f
    BY DEF e, f, x, d
  <2> QED BY <2>2, <2>3 DEF x, d
<1>10. CDR(f, T(0)) = Nil
  <2>1. 0 \in 0..i
    BY <1>1
  <2> QED BY <1>2, <1>6, <1>9, <2>1 DEF CDR
<1>11. \A n \in 1..c : CDR(f, T(n)) = T(n - 1)
  <2>1. \A n \in 1..i : n \in 0..i
    BY <1>1
  <2>2. \A n \in 1..i : CDR(f, T(n)) = T(n - 1)
    BY <1>2, <1>6, <1>9, <2>1 DEF CDR
  <2>3. CDR(f, T(c)) = T(c - 1)
    BY <1>1, <1>9 DEF CDR
  <2> QED BY <1>1, <2>2, <2>3
<1>12. \A p \in 1..Len(h) : (\A n \in 0..c : p # T(n)) => CDR(f, p) = CDR(h, p)
  BY <1>1, <1>6, <1>9 DEF CDR
<1>13. OutHeap(h, l, c, f)
  BY <1>10, <1>11, <1>12 DEF OutHeap, T
<1> QED BY <1>7, <1>8, <1>9, <1>13 DEF T, c, f

\* A step to a pair that was.
LEMMA StepsRound ==
  ASSUME NEW h, Sound(h), NEW l \in Ref(h), NEW i, Apart(h, l, i),
         NEW g, Sound(g), Len(g) = Len(h), OutHeap(h, l, i, g),
         NEW m \in 0..i, Tail_n(h, l, i + 1) = Tail_n(h, l, m)
  PROVE  LET f == TailTo(g, Tail_n(h, l, m), Tail_n(h, l, i))
         IN  /\ Sound(f) /\ Len(f) = Len(h) /\ Apart(h, l, m) /\ HomeHeap(h, l, m, f)
             /\ CDR(g, Tail_n(h, l, m)) = Foregoing(h, l, m)
<1> DEFINE T(n) == Tail_n(h, l, n)
           f == TailTo(g, T(m), T(i))
<1>1. i \in Nat /\ m \in Nat /\ 0 \in 0..i /\ i \in 0..i /\ \A n \in 0..m : n \in 0..i
  BY DEF Apart
<1>2. T(i) \in Ref(g) /\ \A n \in 0..i : T(n) \in 1..Len(h) /\ PAIRP(h, T(n))
  <2>1. \A n \in 0..i : T(n) \in 1..Len(h) /\ PAIRP(h, T(n))
    BY SoundHeap DEF Apart
  <2>2. Len(g) \in Nat
    BY SoundHeap
  <2> QED BY <1>1, <2>1, <2>2 DEF Ref
<1>3. \A a, n \in 0..i : T(a) = T(n) => a = n
  BY DEF Apart
<1>4. CDR(g, T(0)) = Nil /\ \A n \in 1..i : CDR(g, T(n)) = T(n - 1)
  BY DEF OutHeap
<1> HIDE DEF T, f
<1>5. CDR(g, T(m)) = Foregoing(h, l, m)
  <2>1. m # 0 => m \in 1..i
    BY <1>1
  <2> QED BY <1>4, <2>1 DEF Foregoing, T
<1>6. Apart(h, l, m)
  BY <1>1, <1>2, <1>3 DEF Apart, T
<1>7. /\ Sound(f) /\ Len(f) = Len(h) /\ f[T(m)].cdr = T(i)
      /\ \A p \in 1..Len(h) : p # T(m) => f[p] = g[p]
  <2> DEFINE x == T(m)
             d == T(i)
             e == TailTo(g, x, d)
  <2>1. x \in 1..Len(g) /\ d \in Ref(g)
    BY <1>2
  <2> HIDE DEF x, d, e
  <2>2. /\ Sound(e) /\ Len(e) = Len(g) /\ e[x] = [car |-> CAR(g, x), cdr |-> d]
        /\ \A p \in 1..Len(g) : p # x => e[p] = g[p]
    BY <2>1, CdrSet DEF e
  <2>3. e = f
    BY DEF e, f, x, d
  <2> QED BY <2>2, <2>3 DEF x, d
<1>8. m # 0 => CDR(f, T(0)) = Nil
  <2>1. m # 0 => T(0) # T(m)
    BY <1>1, <1>3
  <2> QED BY <1>1, <1>2, <1>4, <1>7, <2>1 DEF CDR
<1>9. \A n \in 1..m-1 : CDR(f, T(n)) = T(n - 1)
  <2>1. \A n \in 1..m-1 : n \in 0..i /\ n \in 1..i /\ n # m
    BY <1>1
  <2>2. \A n \in 1..m-1 : T(n) # T(m)
    BY <1>3, <2>1
  <2> QED BY <1>2, <1>4, <1>7, <2>1, <2>2 DEF CDR
<1>10. PAIRP(h, CDR(f, T(m)))
  BY <1>1, <1>2, <1>7 DEF CDR
<1>11. HomeHeap(h, l, m, f)
  BY <1>8, <1>9, <1>10 DEF HomeHeap, T
<1> QED BY <1>5, <1>6, <1>7, <1>11 DEF T, f

\* A step nearer to the head.
LEMMA StepsHome ==
  ASSUME NEW h, Sound(h), NEW l \in Ref(h), NEW j, Apart(h, l, j), j # 0,
         NEW g, Sound(g), Len(g) = Len(h), HomeHeap(h, l, j, g)
  PROVE  LET f == TailTo(g, Tail_n(h, l, j - 1), Tail_n(h, l, j))
         IN  /\ Sound(f) /\ Len(f) = Len(h) /\ Apart(h, l, j - 1) /\ HomeHeap(h, l, j - 1, f)
             /\ CDR(g, Tail_n(h, l, j - 1)) = Foregoing(h, l, j - 1)
<1> DEFINE T(n) == Tail_n(h, l, n)
           m == j - 1
           f == TailTo(g, T(m), T(j))
<1>1. j \in Nat /\ m \in Nat /\ m \in 0..j /\ j \in 0..j /\ 0 \in 0..j /\ \A n \in 0..m : n \in 0..j
  BY DEF Apart
<1>2. T(j) \in Ref(g) /\ \A n \in 0..j : T(n) \in 1..Len(h) /\ PAIRP(h, T(n))
  <2>1. \A n \in 0..j : T(n) \in 1..Len(h) /\ PAIRP(h, T(n))
    BY SoundHeap DEF Apart
  <2>2. Len(g) \in Nat
    BY SoundHeap
  <2> QED BY <1>1, <2>1, <2>2 DEF Ref
<1>3. \A a, n \in 0..j : T(a) = T(n) => a = n
  BY DEF Apart
<1>4. CDR(g, T(0)) = Nil /\ \A n \in 1..m : CDR(g, T(n)) = T(n - 1)
  BY DEF HomeHeap
<1> HIDE DEF T, f, m
<1>5. CDR(g, T(m)) = Foregoing(h, l, m)
  <2>1. m # 0 => m \in 1..m
    BY <1>1
  <2> QED BY <1>4, <2>1 DEF Foregoing, T
<1>6. Apart(h, l, m)
  BY <1>1, <1>2, <1>3 DEF Apart, T
<1>7. /\ Sound(f) /\ Len(f) = Len(h) /\ f[T(m)].cdr = T(j)
      /\ \A p \in 1..Len(h) : p # T(m) => f[p] = g[p]
  <2> DEFINE x == T(m)
             d == T(j)
             e == TailTo(g, x, d)
  <2>1. x \in 1..Len(g) /\ d \in Ref(g)
    BY <1>1, <1>2
  <2> HIDE DEF x, d, e
  <2>2. /\ Sound(e) /\ Len(e) = Len(g) /\ e[x] = [car |-> CAR(g, x), cdr |-> d]
        /\ \A p \in 1..Len(g) : p # x => e[p] = g[p]
    BY <2>1, CdrSet DEF e
  <2>3. e = f
    BY DEF e, f, x, d
  <2> QED BY <2>2, <2>3 DEF x, d
<1>8. m # 0 => CDR(f, T(0)) = Nil
  <2>1. m # 0 => T(0) # T(m)
    BY <1>1, <1>3
  <2> QED BY <1>1, <1>2, <1>4, <1>7, <2>1 DEF CDR
<1>9. \A n \in 1..m-1 : CDR(f, T(n)) = T(n - 1)
  <2>1. \A n \in 1..m-1 : n \in 0..j /\ n \in 1..m /\ n # m
    BY <1>1
  <2>2. \A n \in 1..m-1 : T(n) # T(m)
    BY <1>1, <1>3, <2>1
  <2> QED BY <1>2, <1>4, <1>7, <2>1, <2>2 DEF CDR
<1>10. PAIRP(h, CDR(f, T(m)))
  BY <1>1, <1>2, <1>7 DEF CDR
<1>11. HomeHeap(h, l, m, f)
  BY <1>8, <1>9, <1>10 DEF HomeHeap, T
<1> QED BY <1>5, <1>6, <1>7, <1>11 DEF T, f, m

\* The first loop with pairs before it that it has not turned yet, and with those that it has.
Outward ==
  \E i : /\ Apart(before, lst, i) /\ OutHeap(before, lst, i, heap)
         /\ back = Tail_n(before, lst, i) /\ fore = Tail_n(before, lst, i + 1)
         /\ len = i + 1
\* It came round to a pair that it had passed, and is on its way back to the head.
Homeward ==
  \E j : /\ Apart(before, lst, j) /\ HomeHeap(before, lst, j, heap)
         /\ back = Tail_n(before, lst, j) /\ fore = Foregoing(before, lst, j)

\* What list_length knows: where it is, and, when that is judged, the number it returns.
Counting ==
  /\ Sound(before) /\ lst \in Ref(before)
  /\ phase = "forth" => /\ Sound(heap) /\ Len(heap) = Len(before)
                        /\ Outward \/ (Endless(before, lst) /\ Homeward)
  /\ phase \in {"back", "done"} =>
       len = IF Endless(before, lst) THEN -1 ELSE Len(Contents(before, lst))

\* The two lists that need no walk.
LEMMA CountsShort ==
  ASSUME Sound(heap), NEW l \in Ref(heap), Short(l)
  PROVE  Counting'
<1>1. before' = heap /\ lst' = l /\ phase' = "done"
  BY DEF Short
<1>2. CASE EMPTYLISTP(l) /\ len' = 0
  <2>1. l = Nil
    BY <1>2 DEF EMPTYLISTP
  <2>2. ~Endless(heap, Nil) /\ Contents(heap, Nil) = <<>>
    BY NilList
  <2>3. len' = Len(Contents(heap, Nil))
    BY <1>2, <2>2, EmptySeq
  <2> QED BY <1>1, <2>1, <2>2, <2>3 DEF Counting
<1>3. CASE PAIRP(heap, l) /\ CDR(heap, l) = l /\ len' = -1
  <2>1. Tail_n(heap, l, 0) = l /\ Tail_n(heap, l, 0 + 1) = l
    <3>1. Tail_n(heap, l, 0 + 1) = Behind(heap, Tail_n(heap, l, 0))
      BY TailSteps
    <3>2. Tail_n(heap, l, 0) = l
      BY TailSteps
    <3> QED BY <1>3, <3>1, <3>2 DEF Behind
  <2>2. Apart(heap, l, 0)
    <3>1. 0..0 = {0}
      OBVIOUS
    <3> QED BY <1>3, <2>1, <3>1 DEF Apart
  <2>3. Endless(heap, l)
    <3>1. 0 \in 0..0 /\ Tail_n(heap, l, 0 + 1) = Tail_n(heap, l, 0)
      BY <2>1
    <3> QED BY <2>2, <3>1, RunsRound
  <2> QED BY <1>1, <1>3, <2>3 DEF Counting
<1> QED BY <1>2, <1>3 DEF Short

\* The first pair.
LEMMA CountsBegin ==
  ASSUME Sound(heap), NEW l \in Ref(heap), Begin(l)
  PROVE  Counting'
<1>1. /\ before' = heap /\ lst' = l /\ phase' = "forth" /\ len' = 1 /\ back' = l /\ fore' = CDR(heap, l)
      /\ heap' = TailTo(heap, l, Nil) /\ PAIRP(heap, l)
  BY DEF Begin, TailTo
<1>2. l \in 1..Len(heap) /\ Nil \in Ref(heap)
  BY <1>1, SoundHeap
<1> DEFINE g == TailTo(heap, l, Nil)
<1>3. /\ Sound(g) /\ Len(g) = Len(heap) /\ g[l] = [car |-> CAR(heap, l), cdr |-> Nil]
      /\ \A p \in 1..Len(heap) : p # l => g[p] = heap[p]
  BY <1>2, CdrSet
<1>4. Tail_n(heap, l, 0) = l /\ Tail_n(heap, l, 0 + 1) = CDR(heap, l)
  <2>1. Tail_n(heap, l, 0 + 1) = Behind(heap, Tail_n(heap, l, 0))
    BY TailSteps
  <2>2. Tail_n(heap, l, 0) = l
    BY TailSteps
  <2> QED BY <1>1, <2>1, <2>2 DEF Behind
<1>5. 0..0 = {0} /\ 1..0 = {}
  OBVIOUS
<1>6. Apart(heap, l, 0)
  BY <1>1, <1>4, <1>5 DEF Apart
<1> HIDE DEF g
<1>7. OutHeap(heap, l, 0, g)
  <2>1. CDR(g, Tail_n(heap, l, 0)) = Nil
    BY <1>3, <1>4 DEF CDR
  <2>2. \A p \in 1..Len(heap) : (\A n \in 0..0 : p # Tail_n(heap, l, n)) => CDR(g, p) = CDR(heap, p)
    BY <1>3, <1>4, <1>5 DEF CDR
  <2> QED BY <1>5, <2>1, <2>2 DEF OutHeap
<1>8. heap' = g
  BY <1>1 DEF g
<1>9. Outward'
  <2>1. len' = 0 + 1
    BY <1>1
  <2> QED BY <1>1, <1>4, <1>6, <1>7, <1>8, <2>1 DEF Outward
<1> QED BY <1>1, <1>3, <1>8, <1>9 DEF Counting

\* A pair that was not passed is turned on the way out; one that was begins the way home.
LEMMA CountsForth ==
  ASSUME Counting, TurnForth
  PROVE  Counting'
<1> DEFINE h == before
           l == lst
           T(n) == Tail_n(h, l, n)
<1>1. /\ phase = "forth" /\ phase' = "forth" /\ before' = h /\ lst' = l /\ PAIRP(heap, fore)
      /\ heap' = TailTo(heap, fore, back) /\ back' = fore /\ fore' = CDR(heap, fore) /\ len' = len + 1
  BY DEF TurnForth, TailTo
<1>2. Sound(h) /\ l \in Ref(h) /\ Sound(heap) /\ Len(heap) = Len(h) /\ (Outward \/ (Endless(h, l) /\ Homeward))
  BY <1>1 DEF Counting
<1>3. \A x : PAIRP(heap, x) <=> PAIRP(h, x)
  BY <1>2, SoundHeap
<1>4. CASE Outward
  <2>1. PICK i : /\ Apart(h, l, i) /\ OutHeap(h, l, i, heap) /\ back = T(i) /\ fore = T(i + 1)
                 /\ len = i + 1
    BY <1>4 DEF Outward
  <2>2. PAIRP(h, Tail_n(h, l, i + 1)) /\ i \in Nat
    BY <1>1, <1>3, <2>1 DEF Apart
  <2>3. CASE \A n \in 0..i : Tail_n(h, l, i + 1) # Tail_n(h, l, n)
    <3> DEFINE f == TailTo(heap, Tail_n(h, l, i + 1), Tail_n(h, l, i))
    <3>1. /\ Sound(f) /\ Len(f) = Len(h) /\ Apart(h, l, i + 1) /\ OutHeap(h, l, i + 1, f)
          /\ CDR(heap, Tail_n(h, l, i + 1)) = Tail_n(h, l, i + 2)
      BY <1>2, <2>1, <2>2, <2>3, StepsOut
    <3>2. heap' = f
      BY <1>1, <2>1
    <3>3. back' = Tail_n(h, l, i + 1) /\ fore' = Tail_n(h, l, (i + 1) + 1) /\ len' = (i + 1) + 1
      <4>1. i + 2 = (i + 1) + 1
        BY <2>2
      <4> QED BY <1>1, <2>1, <3>1, <4>1
    <3> DEFINE c == i + 1
    <3> HIDE DEF f, c
    <3>4. Outward'
      <4>1. /\ Apart(h, l, c) /\ OutHeap(h, l, c, f) /\ back' = Tail_n(h, l, c)
            /\ fore' = Tail_n(h, l, c + 1) /\ len' = c + 1
        BY <3>1, <3>3 DEF c
      <4> QED BY <1>1, <3>2, <4>1 DEF Outward
    <3> QED BY <1>1, <1>2, <3>1, <3>2, <3>4 DEF Counting
  <2>4. ASSUME NEW m \in 0..i, Tail_n(h, l, i + 1) = Tail_n(h, l, m) PROVE Counting'
    <3> DEFINE f == TailTo(heap, Tail_n(h, l, m), Tail_n(h, l, i))
    <3>1. /\ Sound(f) /\ Len(f) = Len(h) /\ Apart(h, l, m) /\ HomeHeap(h, l, m, f)
          /\ CDR(heap, Tail_n(h, l, m)) = Foregoing(h, l, m)
      BY <1>2, <2>1, <2>4, StepsRound
    <3>2. Endless(h, l)
      BY <1>2, <2>1, <2>4, RunsRound
    <3>3. heap' = f /\ back' = Tail_n(h, l, m) /\ fore' = Foregoing(h, l, m)
      BY <1>1, <2>1, <2>4, <3>1
    <3> HIDE DEF f
    <3>4. Homeward'
      BY <1>1, <3>1, <3>3 DEF Homeward
    <3> QED BY <1>1, <1>2, <3>1, <3>2, <3>3, <3>4 DEF Counting
  <2> QED BY <2>3, <2>4
<1>5. CASE Endless(h, l) /\ Homeward
  <2>1. PICK j : Apart(h, l, j) /\ HomeHeap(h, l, j, heap) /\ back = T(j) /\ fore = Foregoing(h, l, j)
    BY <1>5 DEF Homeward
  <2>2. j # 0 /\ fore = Tail_n(h, l, j - 1)
    <3>1. ~PAIRP(h, Nil)
      BY <1>2, SoundHeap
    <3> QED BY <1>1, <1>3, <2>1, <3>1 DEF Foregoing
  <2> DEFINE f == TailTo(heap, Tail_n(h, l, j - 1), Tail_n(h, l, j))
  <2>3. /\ Sound(f) /\ Len(f) = Len(h) /\ Apart(h, l, j - 1) /\ HomeHeap(h, l, j - 1, f)
        /\ CDR(heap, Tail_n(h, l, j - 1)) = Foregoing(h, l, j - 1)
    BY <1>2, <2>1, <2>2, StepsHome
  <2>4. heap' = f /\ back' = Tail_n(h, l, j - 1) /\ fore' = Foregoing(h, l, j - 1)
    BY <1>1, <2>1, <2>2, <2>3
  <2> DEFINE m == j - 1
  <2> HIDE DEF f, m
  <2>5. Homeward'
    <3>1. Apart(h, l, m) /\ HomeHeap(h, l, m, f) /\ back' = Tail_n(h, l, m) /\ fore' = Foregoing(h, l, m)
      BY <2>3, <2>4 DEF m
    <3> QED BY <1>1, <2>4, <3>1 DEF Homeward
  <2> QED BY <1>1, <1>2, <1>5, <2>3, <2>4, <2>5 DEF Counting
<1> QED BY <1>2, <1>4, <1>5

\* A walk that is out has passed every pair; one that is home again is at the head, whose
\* tail is a pair.
LEMMA CountsJudge ==
  ASSUME Counting, Judge
  PROVE  Counting'
<1> DEFINE h == before
           l == lst
<1>1. /\ phase = "forth" /\ phase' = "back" /\ before' = h /\ lst' = l /\ ~PAIRP(heap, fore)
      /\ len' = IF back = lst /\ PAIRP(heap, CDR(heap, back)) THEN -1 ELSE len
  BY DEF Judge
<1>2. Sound(h) /\ l \in Ref(h) /\ Sound(heap) /\ Len(heap) = Len(h) /\ (Outward \/ (Endless(h, l) /\ Homeward))
  BY <1>1 DEF Counting
<1>3. (\A x : PAIRP(heap, x) <=> PAIRP(h, x)) /\ Tail_n(h, l, 0) = l /\ ~PAIRP(h, Nil)
  BY <1>2, SoundHeap, TailSteps
<1>4. CASE Outward
  <2>1. PICK i : /\ Apart(h, l, i) /\ OutHeap(h, l, i, heap) /\ back = Tail_n(h, l, i)
                 /\ fore = Tail_n(h, l, i + 1) /\ len = i + 1
    BY <1>4 DEF Outward
  <2>2. ~Endless(h, l) /\ Len(Contents(h, l)) = i + 1
    <3>1. ~PAIRP(h, Tail_n(h, l, i + 1))
      BY <1>1, <1>3, <2>1
    <3> QED BY <1>2, <2>1, <3>1, RunsOut
  <2>3. back = lst => ~PAIRP(heap, CDR(heap, back))
    <3>1. 0 \in 0..i /\ i \in 0..i
      BY <2>1 DEF Apart
    <3>2. ASSUME back = lst PROVE i = 0
      <4>1. Tail_n(h, l, i) = Tail_n(h, l, 0)
        BY <1>3, <2>1, <3>2
      <4> QED BY <2>1, <3>1, <4>1 DEF Apart
    <3>3. CDR(heap, lst) = Nil
      BY <1>3, <2>1 DEF OutHeap
    <3> QED BY <1>3, <3>3
  <2>4. len' = i + 1
    BY <1>1, <2>1, <2>3
  <2> QED BY <1>1, <1>2, <2>2, <2>4 DEF Counting
<1>5. CASE Endless(h, l) /\ Homeward
  <2>1. PICK j : Apart(h, l, j) /\ HomeHeap(h, l, j, heap) /\ back = Tail_n(h, l, j) /\ fore = Foregoing(h, l, j)
    BY <1>5 DEF Homeward
  <2>2. j = 0
    <3>1. j # 0 => j - 1 \in 0..j
      BY <2>1 DEF Apart
    <3>2. j # 0 => PAIRP(h, Tail_n(h, l, j - 1))
      BY <2>1, <3>1 DEF Apart
    <3> QED BY <1>1, <1>3, <2>1, <3>2 DEF Foregoing
  <2>3. back = lst /\ PAIRP(heap, CDR(heap, back))
    BY <1>3, <2>1, <2>2 DEF HomeHeap
  <2>4. len' = -1
    BY <1>1, <2>3
  <2> QED BY <1>1, <1>2, <1>5, <2>4 DEF Counting
<1> QED BY <1>2, <1>4, <1>5

\* The count is right when it is judged, and stays so.
LEMMA CountsOn ==
  ASSUME Counting, LengthStep
  PROVE  Counting'
<1>1. CASE TurnForth
  BY <1>1, CountsForth
<1>2. CASE Judge
  BY <1>2, CountsJudge
<1>3. CASE TurnBack
  BY <1>3 DEF Counting, TurnBack
<1>4. CASE Return
  BY <1>4 DEF Counting, Return
<1> QED BY <1>1, <1>2, <1>3, <1>4 DEF LengthStep

----------------------------------------------------------------------------
(* list_length leaves the heap as it was.  A step of its first loop is     *)
(* undone by a step of its second, which does the same with fore_list and  *)
(* back_list in each other's place; so the second loop goes through the    *)
(* states of the first from the last to the first.  The invariant says     *)
(* that there is such a walk to where the call is.                         *)

State == [heap : Seq(Pair), back : Object, fore : Object]

\* Before the first loop, and a step of it.
Start(h, l) == [heap |-> [h EXCEPT ![l].cdr = Nil], back |-> l, fore |-> h[l].cdr]
Turned(s) ==
  [heap |-> [s.heap EXCEPT ![s.fore].cdr = s.back], back |-> s.fore, fore |-> s.heap[s.fore].cdr]

Here == [heap |-> heap, back |-> back, fore |-> fore]

\* t is a walk of n steps through the first loop, of a call for l when the heap was h.
IsWalk(t, n, h, l) ==
  /\ t[0] = Start(h, l)
  /\ \A i \in 0..n : t[i].back \in DOMAIN t[i].heap
  /\ \A i \in 1..n : t[i - 1].fore \in DOMAIN t[i - 1].heap /\ t[i] = Turned(t[i - 1])

OnAWalk == \E n \in Nat : \E t \in [0..n -> State] : IsWalk(t, n, before, lst) /\ Here = t[n]

AtTheEnd == phase = "back" /\ back = Nil /\ heap = before

Walking ==
  phase \in {"forth", "back"} => /\ lst \in DOMAIN before
                                 /\ OnAWalk \/ AtTheEnd

Typed ==
  /\ heap \in Seq(Pair) /\ before \in Seq(Pair)
  /\ fore \in Object /\ back \in Object

IInv == Typed /\ Walking /\ HeapRestored

\* A tail that is changed leaves the heap a heap of as many pairs.
LEMMA ChangedTail ==
  ASSUME NEW h \in Seq(Pair), NEW x \in DOMAIN h, NEW o \in Object
  PROVE  /\ [h EXCEPT ![x].cdr = o] \in Seq(Pair)
         /\ DOMAIN [h EXCEPT ![x].cdr = o] = DOMAIN h
         /\ h[x].cdr \in Object
         /\ [h EXCEPT ![x].cdr = o][x].cdr = o
<1>1. h[x] \in Pair
  OBVIOUS
<1>2. [h[x] EXCEPT !.cdr = o] \in Pair /\ [h[x] EXCEPT !.cdr = o].cdr = o /\ h[x].cdr \in Object
  BY <1>1 DEF Pair
<1> DEFINE p == [h[x] EXCEPT !.cdr = o]
           g == [h EXCEPT ![x] = p]
<1>3. [h EXCEPT ![x].cdr = o] = g
  OBVIOUS
<1>4. p \in Pair /\ p.cdr = o
  BY <1>2
<1> HIDE DEF p
<1>5. h \in [1..Len(h) -> Pair] /\ Len(h) \in Nat /\ DOMAIN h = 1..Len(h)
  OBVIOUS
<1>6. g \in [1..Len(h) -> Pair] /\ g[x] = p
  BY <1>4, <1>5
<1>7. g \in Seq(Pair) /\ DOMAIN g = DOMAIN h
  BY <1>5, <1>6
<1> QED
  BY <1>2, <1>3, <1>4, <1>6, <1>7

\* A tail that is changed and changed back is as it was.
LEMMA ChangedBack ==
  ASSUME NEW h \in Seq(Pair), NEW x \in DOMAIN h, NEW o \in Object
  PROVE  [[h EXCEPT ![x].cdr = o] EXCEPT ![x].cdr = h[x].cdr] = h
<1> DEFINE g == [h EXCEPT ![x].cdr = o]
<1>1. h[x] \in Pair
  OBVIOUS
<1>2. [[h[x] EXCEPT !.cdr = o] EXCEPT !.cdr = h[x].cdr] = h[x]
  BY <1>1 DEF Pair
<1>3. g = [h EXCEPT ![x] = [h[x] EXCEPT !.cdr = o]]
  OBVIOUS
<1>4. g[x] = [h[x] EXCEPT !.cdr = o]
  BY <1>3
<1>5. [g EXCEPT ![x].cdr = h[x].cdr] = [g EXCEPT ![x] = h[x]]
  BY <1>2, <1>4
<1> DEFINE k == [g EXCEPT ![x] = h[x]]
<1>6. DOMAIN k = DOMAIN h /\ \A y \in DOMAIN h : k[y] = h[y]
  BY <1>3
<1>7. h \in [1..Len(h) -> Pair]
  OBVIOUS
<1>8. g \in [1..Len(h) -> Pair] /\ k \in [1..Len(h) -> Pair]
  BY <1>1, <1>2, <1>3, <1>7, ChangedTail
<1>9. k = h
  BY <1>6, <1>7, <1>8
<1> QED
  BY <1>5, <1>9

\* A step of the second loop undoes one of the first.
LEMMA TurnedBack ==
  ASSUME NEW s \in State, s.fore \in DOMAIN s.heap
  PROVE  /\ Turned(s) \in State
         /\ Turned(s).back \in DOMAIN Turned(s).heap
         /\ [Turned(s).heap EXCEPT ![Turned(s).back].cdr = Turned(s).fore] = s.heap
         /\ Turned(s).heap[Turned(s).back].cdr = s.back
         /\ Turned(s).back = s.fore
<1>1. s.heap \in Seq(Pair) /\ s.fore \in Object /\ s.back \in Object
  BY DEF State
<1> DEFINE g == [s.heap EXCEPT ![s.fore].cdr = s.back]
<1>2. /\ g \in Seq(Pair) /\ s.fore \in DOMAIN g /\ s.heap[s.fore].cdr \in Object
      /\ g[s.fore].cdr = s.back
  BY <1>1, ChangedTail
<1>3. [g EXCEPT ![s.fore].cdr = s.heap[s.fore].cdr] = s.heap
  BY <1>1, ChangedBack
<1> HIDE DEF g
<1>4. Turned(s) = [heap |-> g, back |-> s.fore, fore |-> s.heap[s.fore].cdr]
  BY DEF Turned, g
<1> QED
  BY <1>1, <1>2, <1>3, <1>4 DEF State

\* What the step before the first loop did is undone by the last one of the second.
LEMMA StartedBack ==
  ASSUME NEW h \in Seq(Pair), NEW l \in DOMAIN h
  PROVE  /\ Start(h, l) \in State
         /\ Start(h, l).back \in DOMAIN Start(h, l).heap
         /\ [Start(h, l).heap EXCEPT ![Start(h, l).back].cdr = Start(h, l).fore] = h
         /\ Start(h, l).heap[Start(h, l).back].cdr = Nil
         /\ Start(h, l).back = l
<1>1. Nil \in Object /\ l \in Object
  BY DEF Nil, Object
<1> DEFINE g == [h EXCEPT ![l].cdr = Nil]
<1>2. g \in Seq(Pair) /\ l \in DOMAIN g /\ h[l].cdr \in Object /\ g[l].cdr = Nil
  BY <1>1, ChangedTail
<1>3. [g EXCEPT ![l].cdr = h[l].cdr] = h
  BY <1>1, ChangedBack
<1> HIDE DEF g
<1>4. Start(h, l) = [heap |-> g, back |-> l, fore |-> h[l].cdr]
  BY DEF Start, g
<1> QED
  BY <1>1, <1>2, <1>3, <1>4 DEF State

\* Every step of the two loops keeps it.
LEMMA LengthInductive == IInv /\ [LengthNext]_lvars => IInv'
<1> SUFFICES ASSUME IInv, [LengthNext]_lvars PROVE IInv'
  OBVIOUS
<1> USE DEF IInv
<1>1. CASE UNCHANGED lvars
  BY <1>1 DEF lvars, Typed, Walking, OnAWalk, AtTheEnd, IsWalk, Here, HeapRestored
<1>2. CASE Elsewhere
  BY <1>2 DEF Elsewhere, Typed, Walking, HeapRestored
<1>3. ASSUME NEW l \in Object, Short(l) PROVE IInv'
  BY <1>3 DEF Short, Typed, Walking, HeapRestored
<1>4. ASSUME NEW l \in Object, Begin(l) PROVE IInv'
  <2>1. /\ l \in DOMAIN heap /\ lst' = l /\ before' = heap /\ phase' = "forth"
        /\ Here' = Start(before', lst')
    BY <1>4 DEF Begin, PAIRP, CDR, Here, Start
  <2>2. Here' \in State /\ Here'.back \in DOMAIN Here'.heap
    BY <2>1, StartedBack DEF Typed
  <2>3. Typed'
    BY <2>1, <2>2 DEF Typed, State, Here
  <2> DEFINE t == [i \in 0..0 |-> Here']
  <2>4. t \in [0..0 -> State] /\ IsWalk(t, 0, before', lst') /\ Here' = t[0]
    BY <2>1, <2>2 DEF IsWalk
  <2>5. OnAWalk'
    BY <2>4 DEF OnAWalk
  <2> QED
    BY <2>1, <2>3, <2>5 DEF Walking, HeapRestored
<1>5. CASE TurnForth
  <2>0. PICK n \in Nat : \E t \in [0..n -> State] : IsWalk(t, n, before, lst) /\ Here = t[n]
    BY <1>5 DEF TurnForth, Walking, OnAWalk, AtTheEnd
  <2>1. PICK t \in [0..n -> State] : IsWalk(t, n, before, lst) /\ Here = t[n]
    BY <2>0
  <2>2. Here \in State /\ Here.fore \in DOMAIN Here.heap /\ Here' = Turned(Here)
    BY <1>5, <2>1 DEF TurnForth, PAIRP, CDR, Here, Turned
  <2>3. Here' \in State /\ Here'.back \in DOMAIN Here'.heap
    BY <2>2, TurnedBack
  <2>4. Typed'
    BY <1>5, <2>3 DEF Typed, State, Here, TurnForth
  <2> DEFINE u == [i \in 0..n + 1 |-> IF i = n + 1 THEN Here' ELSE t[i]]
  <2>5. u \in [0..n + 1 -> State] /\ u[n + 1] = Here' /\ \A i \in 0..n : u[i] = t[i]
    BY <2>3
  <2>6. u[0] = Start(before, lst)
    BY <2>1, <2>5 DEF IsWalk
  <2>7. \A i \in 0..n + 1 : u[i].back \in DOMAIN u[i].heap
    BY <2>1, <2>3, <2>5 DEF IsWalk
  <2>8. ASSUME NEW i \in 1..n + 1
        PROVE  u[i - 1].fore \in DOMAIN u[i - 1].heap /\ u[i] = Turned(u[i - 1])
    <3>1. CASE i = n + 1
      BY <2>1, <2>2, <2>5, <3>1
    <3>2. CASE i # n + 1
      <4>1. i \in 1..n /\ i \in 0..n /\ i - 1 \in 0..n
        BY <3>2
      <4> QED
        BY <2>1, <2>5, <4>1 DEF IsWalk
    <3> QED
      BY <3>1, <3>2
  <2>9. IsWalk(u, n + 1, before', lst')
    BY <1>5, <2>6, <2>7, <2>8 DEF IsWalk, TurnForth
  <2>10. OnAWalk'
    BY <2>5, <2>9 DEF OnAWalk
  <2> QED
    BY <1>5, <2>4, <2>10 DEF Walking, HeapRestored, TurnForth
<1>6. CASE Judge
  BY <1>6 DEF Judge, Typed, Walking, OnAWalk, AtTheEnd, IsWalk, Here, HeapRestored
<1>7. CASE TurnBack
  <2>1. back \in DOMAIN heap /\ back # Nil
    BY <1>7 DEF TurnBack, PAIRP, Typed, Nil
  <2>w. PICK n \in Nat : \E t \in [0..n -> State] : IsWalk(t, n, before, lst) /\ Here = t[n]
    BY <1>7, <2>1 DEF TurnBack, Walking, OnAWalk, AtTheEnd
  <2>2. PICK t \in [0..n -> State] : IsWalk(t, n, before, lst) /\ Here = t[n]
    BY <2>w
  <2>3. /\ heap' = [Here.heap EXCEPT ![Here.back].cdr = Here.fore]
        /\ fore' = Here.back
        /\ back' = Here.heap[Here.back].cdr
    BY <1>7 DEF TurnBack, CDR, Here
  <2>4. lst \in DOMAIN before
    BY <1>7 DEF TurnBack, Walking
  <2>5. CASE n = 0
    <3>1. Here = Start(before, lst)
      BY <2>2, <2>5 DEF IsWalk
    <3>2. heap' = before /\ back' = Nil /\ fore' = lst
      BY <2>3, <2>4, <3>1, StartedBack DEF Typed
    <3>3. lst \in Object /\ Nil \in Object
      BY <2>4 DEF Typed, Object, Nil
    <3> QED
      BY <1>7, <2>4, <3>2, <3>3 DEF TurnBack, Typed, Walking, AtTheEnd, HeapRestored
  <2>6. CASE n # 0
    <3>1. n \in 1..n /\ n - 1 \in Nat /\ n - 1 \in 0..n
      BY <2>6
    <3>2. t[n - 1].fore \in DOMAIN t[n - 1].heap /\ Here = Turned(t[n - 1])
      BY <2>2, <3>1 DEF IsWalk
    <3>3. t[n - 1] \in State
      BY <3>1
    <3>4. heap' = t[n - 1].heap /\ back' = t[n - 1].back /\ fore' = t[n - 1].fore
      BY <2>3, <3>2, <3>3, TurnedBack
    <3>5. Here' = t[n - 1]
      BY <3>3, <3>4 DEF Here, State
    <3> DEFINE u == [i \in 0..n - 1 |-> t[i]]
    <3>6. u \in [0..n - 1 -> State] /\ u[n - 1] = Here' /\ \A i \in 0..n - 1 : u[i] = t[i]
      BY <3>1, <3>5
    <3>7. IsWalk(u, n - 1, before, lst)
      <4>1. u[0] = Start(before, lst)
        BY <2>2, <3>1, <3>6 DEF IsWalk
      <4>2. \A i \in 0..n - 1 : u[i].back \in DOMAIN u[i].heap
        BY <2>2, <3>6 DEF IsWalk
      <4>3. ASSUME NEW i \in 1..n - 1
            PROVE  u[i - 1].fore \in DOMAIN u[i - 1].heap /\ u[i] = Turned(u[i - 1])
        <5>1. i \in 1..n /\ i \in 0..n - 1 /\ i - 1 \in 0..n - 1
          OBVIOUS
        <5> QED
          BY <2>2, <3>6, <5>1 DEF IsWalk
      <4> QED
        BY <4>1, <4>2, <4>3 DEF IsWalk
    <3>8. IsWalk(u, n - 1, before', lst')
      BY <1>7, <3>7 DEF TurnBack, IsWalk
    <3>9. OnAWalk'
      BY <3>1, <3>6, <3>8 DEF OnAWalk
    <3>10. Typed'
      BY <1>7, <3>3, <3>4 DEF TurnBack, Typed, State
    <3> QED
      BY <1>7, <2>4, <3>9, <3>10 DEF TurnBack, Walking, HeapRestored
  <2> QED
    BY <2>5, <2>6
<1>8. CASE Return
  <2>1. back \notin DOMAIN heap
    BY <1>8 DEF Return, PAIRP
  <2>2. ~OnAWalk
    <3> SUFFICES ASSUME NEW n \in Nat, NEW t \in [0..n -> State], IsWalk(t, n, before, lst), Here = t[n]
                 PROVE  FALSE
      BY DEF OnAWalk
    <3>1. n \in 0..n
      OBVIOUS
    <3>2. Here.back \in DOMAIN Here.heap
      BY <3>1 DEF IsWalk
    <3> QED
      BY <2>1, <3>2 DEF Here
  <2> QED
    BY <1>8, <2>2 DEF Return, Typed, Walking, AtTheEnd, HeapRestored
<1> QED
  BY <1>1, <1>2, <1>3, <1>4, <1>5, <1>6, <1>7, <1>8 DEF LengthNext, LengthStep

\* list_length returns with every pair of the heap as it was when it was called, whatever the
\* heap is.
THEOREM LengthRestoresHeap == LengthSpec => []HeapRestored
<1>1. LengthInit => IInv
  BY DEF LengthInit, IInv, Typed, Walking, HeapRestored, Object, Nil
<1>2. IInv => HeapRestored
  BY DEF IInv
<1> QED
  BY <1>1, <1>2, LengthInductive, PTL DEF LengthSpec

----------------------------------------------------------------------------
(* The program that makes the calls.                                       *)

\* A call on pairs, which is over in one step.
OnePair ==
  \/ CopyList \/ CopySequence \/ ConcatenateLists \/ MapList \/ ReduceList
  \/ ReverseList \/ ReverseListX \/ RemoveDuplicates \/ RemoveFromList \/ AddToList
  \/ AddToListX \/ AddNew \/ AddNewX \/ AddAtEnd \/ MemberOfList
  \/ LastOfList \/ ElementAt \/ ElementSetter \/ EqualLists \/ ChooseFromList
  \/ ChooseBy \/ IntersectionOfLists \/ UnionOfLists

\* The program has called nothing yet; it is in list_length, or back from there; or it is back
\* from any other operation.
CallInv ==
  \/ Waiting /\ fore = Nil /\ back = Nil
  \/ call = [op |-> "size"] /\ phase # "idle" /\ Counting /\ IInv
  \/ call # NoCall /\ phase = "idle" /\ ListsAnswer /\ OthersKept

\* It was the first call and is the only one.
LEMMA OneStep ==
  ASSUME OnePair
  PROVE  Called /\ call' # NoCall /\ phase' = phase
<1>1. CASE CopyList
  BY <1>1 DEF CopyList, OnPairs, NoCall
<1>2. CASE CopySequence
  BY <1>2 DEF CopySequence, OnPairs, NoCall, With
<1>3. CASE ConcatenateLists
  BY <1>3 DEF ConcatenateLists, OnPairs, NoCall, With
<1>4. CASE MapList
  BY <1>4 DEF MapList, OnPairs, NoCall, With
<1>5. CASE ReduceList
  BY <1>5 DEF ReduceList, OnPairs, NoCall, One, With
<1>6. CASE ReverseList
  BY <1>6 DEF ReverseList, OnPairs, NoCall, One, With
<1>7. CASE ReverseListX
  BY <1>7 DEF ReverseListX, OnPairs, NoCall, One, With
<1>8. CASE RemoveDuplicates
  BY <1>8 DEF RemoveDuplicates, OnPairs, NoCall, One, With
<1>9. CASE RemoveFromList
  BY <1>9 DEF RemoveFromList, OnPairs, NoCall, With
<1>10. CASE AddToList
  BY <1>10 DEF AddToList, OnPairs, NoCall, With
<1>11. CASE AddToListX
  BY <1>11 DEF AddToListX, OnPairs, NoCall, With
<1>12. CASE AddNew
  BY <1>12 DEF AddNew, OnPairs, NoCall, With
<1>13. CASE AddNewX
  BY <1>13 DEF AddNewX, OnPairs, NoCall, With
<1>14. CASE AddAtEnd
  BY <1>14 DEF AddAtEnd, OnPairs, NoCall, With
<1>15. CASE MemberOfList
  BY <1>15 DEF MemberOfList, OnPairs, NoCall, With
<1>16. CASE LastOfList
  BY <1>16 DEF LastOfList, OnPairs, NoCall, One, With
<1>17. CASE ElementAt
  BY <1>17 DEF ElementAt, OnPairs, NoCall, With
<1>18. CASE ElementSetter
  BY <1>18 DEF ElementSetter, OnPairs, NoCall, With
<1>19. CASE EqualLists
  BY <1>19 DEF EqualLists, OnPairs, NoCall, TwoLists, With
<1>20. CASE ChooseFromList
  BY <1>20 DEF ChooseFromList, OnPairs, NoCall, With
<1>21. CASE ChooseBy
  BY <1>21 DEF ChooseBy, OnPairs, NoCall, With
<1>22. CASE IntersectionOfLists
  BY <1>22 DEF IntersectionOfLists, OnPairs, NoCall, TwoLists, With
<1>23. CASE UnionOfLists
  BY <1>23 DEF UnionOfLists, OnPairs, NoCall, TwoLists, With
<1> QED BY <1>1, <1>2, <1>3, <1>4, <1>5, <1>6, <1>7, <1>8, <1>9, <1>10, <1>11, <1>12, <1>13, <1>14, <1>15, <1>16, <1>17, <1>18, <1>19, <1>20, <1>21, <1>22, <1>23 DEF OnePair

\* Each keeps its promise.
LEMMA OneRight ==
  ASSUME Waiting, OnePair
  PROVE  ListsAnswer' /\ OthersKept'
<1>1. CASE CopyList
  BY <1>1, CopyListRight
<1>2. CASE CopySequence
  BY <1>2, CopySequenceRight
<1>3. CASE ConcatenateLists
  BY <1>3, ConcatenateRight
<1>4. CASE MapList
  BY <1>4, MapListRight
<1>5. CASE ReduceList
  BY <1>5, ReduceRight
<1>6. CASE ReverseList
  BY <1>6, ReverseListRight
<1>7. CASE ReverseListX
  BY <1>7, ReverseListXRight
<1>8. CASE RemoveDuplicates
  BY <1>8, RemoveDuplicatesRight
<1>9. CASE RemoveFromList
  BY <1>9, RemoveFromListRight
<1>10. CASE AddToList
  BY <1>10, AddToListRight
<1>11. CASE AddToListX
  BY <1>11, AddToListXRight
<1>12. CASE AddNew
  BY <1>12, AddNewRight
<1>13. CASE AddNewX
  BY <1>13, AddNewXRight
<1>14. CASE AddAtEnd
  BY <1>14, AddAtEndRight
<1>15. CASE MemberOfList
  BY <1>15, MemberRight
<1>16. CASE LastOfList
  BY <1>16, LastRight
<1>17. CASE ElementAt
  BY <1>17, ElementRight
<1>18. CASE ElementSetter
  BY <1>18, ElementSetterRight
<1>19. CASE EqualLists
  BY <1>19, EqualRight
<1>20. CASE ChooseFromList
  BY <1>20, ChooseFromListRight
<1>21. CASE ChooseBy
  BY <1>21, ChooseByRight
<1>22. CASE IntersectionOfLists
  BY <1>22, IntersectionOfListsRight
<1>23. CASE UnionOfLists
  BY <1>23, UnionOfListsRight
<1> QED BY <1>1, <1>2, <1>3, <1>4, <1>5, <1>6, <1>7, <1>8, <1>9, <1>10, <1>11, <1>12, <1>13, <1>14, <1>15, <1>16, <1>17, <1>18, <1>19, <1>20, <1>21, <1>22, <1>23 DEF OnePair

\* The invariant, to begin with, with every step, and what follows from it.
LEMMA CallsBegin == ListsInit => CallInv
<1> SUFFICES ASSUME ListsInit PROVE CallInv
  OBVIOUS
<1> QED BY DEF ListsInit, CallInv, Waiting

\* A sound heap is a heap.
LEMMA SoundPairs ==
  ASSUME NEW h, Sound(h)
  PROVE  h \in Seq(Pair)
<1>1. \A n \in Nat : Cell(n) \subseteq Pair
  BY DEF Cell, Pair, Object
<1> QED BY <1>1 DEF Sound

\* It is kept by every step.
LEMMA CallsOn == CallInv /\ [ListsNext]_listVars => CallInv'
<1> SUFFICES ASSUME CallInv, [ListsNext]_listVars PROVE CallInv'
  OBVIOUS
<1>1. CASE UNCHANGED listVars
  <2>1. /\ heap' = heap /\ lst' = lst /\ fore' = fore /\ back' = back /\ len' = len
        /\ phase' = phase /\ before' = before /\ call' = call /\ val' = val
    BY <1>1 DEF listVars, lvars
  <2>2. CASE Waiting /\ fore = Nil /\ back = Nil
    BY <2>1, <2>2 DEF CallInv, Waiting, Heaps
  <2>3. CASE call = [op |-> "size"] /\ phase # "idle" /\ Counting /\ IInv
    <3>1. Counting'
      BY <2>1, <2>3 DEF Counting, Outward, Homeward
    <3>2. IInv'
      BY <2>1, <2>3, LengthInductive DEF lvars
    <3> QED BY <2>1, <2>3, <3>1, <3>2 DEF CallInv
  <2>4. CASE call # NoCall /\ phase = "idle" /\ ListsAnswer /\ OthersKept
    <3>1. ListsAnswer' /\ OthersKept'
      BY <2>1, <2>4 DEF ListsAnswer, OthersKept, Changed, Shared
    <3> QED BY <2>1, <2>4, <3>1 DEF CallInv
  <2> QED BY <2>2, <2>3, <2>4 DEF CallInv
<1>2. CASE OnePair
  <2>1. Called /\ call' # NoCall /\ phase' = phase
    BY <1>2, OneStep
  <2>2. Waiting
    BY <2>1 DEF CallInv, Called, NoCall
  <2>3. ListsAnswer' /\ OthersKept'
    BY <1>2, <2>2, OneRight
  <2> QED BY <2>1, <2>2, <2>3 DEF CallInv, Waiting
<1>3. CASE CallLength
  <2>1. Called /\ call' = [op |-> "size"]
    BY <1>3 DEF CallLength
  <2>2. Waiting /\ fore = Nil /\ back = Nil
    BY <2>1 DEF CallInv, Called, NoCall
  <2>3. PICK l \in First : Short(l) \/ Begin(l)
    BY <1>3 DEF CallLength
  <2>4. Sound(heap) /\ l \in Ref(heap) /\ l \in Object
    <3>1. l \in Nat
      BY FirstAssumption
    <3> QED BY <2>1, <2>2, <3>1, Given DEF Object
  <2>5. Counting' /\ phase' # "idle"
    BY <2>3, <2>4, CountsShort, CountsBegin DEF Short, Begin
  <2>6. IInv
    <3>1. heap \in Seq(Pair)
      BY <2>4, SoundPairs
    <3>2. Nil \in Object
      BY DEF Nil, Object
    <3> QED BY <2>2, <3>1, <3>2 DEF IInv, Typed, Walking, HeapRestored, Waiting
  <2>7. IInv'
    BY <2>3, <2>4, <2>6, LengthInductive DEF LengthNext
  <2> QED BY <2>1, <2>5, <2>7 DEF CallInv
<1>4. CASE StepLength
  <2>1. LengthStep /\ call' = call
    BY <1>4 DEF StepLength
  <2>2. phase \in {"forth", "back"} /\ phase' # "idle"
    BY <2>1 DEF LengthStep, TurnForth, Judge, TurnBack, Return
  <2>3. call = [op |-> "size"] /\ Counting /\ IInv
    BY <2>2 DEF CallInv, Waiting
  <2>4. Counting'
    BY <2>1, <2>3, CountsOn
  <2>5. IInv'
    BY <2>1, <2>3, LengthInductive DEF LengthNext
  <2> QED BY <2>1, <2>2, <2>3, <2>4, <2>5 DEF CallInv
<1> QED BY <1>1, <1>2, <1>3, <1>4 DEF ListsNext, OnePair

\* It gives the three properties.
LEMMA CallsHold == CallInv => ListsAnswer /\ OthersKept /\ HeapRestored
<1> SUFFICES ASSUME CallInv PROVE ListsAnswer /\ OthersKept /\ HeapRestored
  OBVIOUS
<1>1. CASE Waiting
  BY <1>1 DEF Waiting, ListsAnswer, OthersKept, HeapRestored
<1>2. CASE call = [op |-> "size"] /\ phase # "idle" /\ Counting /\ IInv
  <2>1. call.op = "size"
    BY <1>2
  <2>2. ListsAnswer
    BY <1>2, <2>1 DEF ListsAnswer, Counting
  <2> QED BY <1>2, <2>2 DEF OthersKept, IInv
<1>3. CASE call # NoCall /\ phase = "idle" /\ ListsAnswer /\ OthersKept
  BY <1>3 DEF HeapRestored
<1> QED BY <1>1, <1>2, <1>3 DEF CallInv

\* Whatever heap a program begins with, pairs shared or in cycles, every call of an operation
\* on lists gives what the operation is named for, as a list that ends, and list_length the
\* number of elements or -1.
THEOREM CallsAnswer == ListsSpec => []ListsAnswer
<1>1. ListsInit => CallInv
  BY CallsBegin
<1>2. CallInv /\ [ListsNext]_listVars => CallInv'
  BY CallsOn
<1>3. CallInv => ListsAnswer
  BY CallsHold
<1> QED BY <1>1, <1>2, <1>3, PTL DEF ListsSpec

\* No such call changes a pair but those of a list it is to change, or makes its result of
\* pairs there were but those it says.
THEOREM CallsKeepOthers == ListsSpec => []OthersKept
<1>1. ListsInit => CallInv
  BY CallsBegin
<1>2. CallInv /\ [ListsNext]_listVars => CallInv'
  BY CallsOn
<1>3. CallInv => OthersKept
  BY CallsHold
<1> QED BY <1>1, <1>2, <1>3, PTL DEF ListsSpec

\* list_length leaves the pairs as they were in this program as well.
THEOREM CallsRestoreHeap == ListsSpec => []HeapRestored
<1>1. ListsInit => CallInv
  BY CallsBegin
<1>2. CallInv /\ [ListsNext]_listVars => CallInv'
  BY CallsOn
<1>3. CallInv => HeapRestored
  BY CallsHold
<1> QED BY <1>1, <1>2, <1>3, PTL DEF ListsSpec

=============================================================================
