--------------------------- MODULE ClassesProofs ----------------------------
(***************************************************************************)
(* Proofs about classes: precedence lists, the order in which getters get  *)
(* their methods, and the places of slots.                                 *)
(***************************************************************************)
EXTENDS Classes, NatFacts, SequenceTheorems

-----------------------------------------------------------------------------
(* Lists of classes. *)

\* No element twice.
Distinct(list) == \A i, j \in DOMAIN list : list[i] = list[j] => i = j

\* To be in a sequence is to be in the set of its elements.
LEMMA InSequence ==
  ASSUME NEW S, NEW list \in Seq(S)
  PROVE  /\ ToSet(list) \subseteq S
         /\ \A x : Contains(list, x) <=> x \in ToSet(list)
<1>1. Len(list) \in Nat /\ DOMAIN list = 1..Len(list) /\ \A i \in 1..Len(list) : list[i] \in S
  BY LenProperties, ElementOfSeq
<1> QED BY <1>1 DEF ToSet, Contains

\* Append, for the elements.
LEMMA Appended ==
  ASSUME NEW S, NEW list \in Seq(S), NEW x \in S
  PROVE  /\ Append(list, x) \in Seq(S)
         /\ Len(Append(list, x)) = Len(list) + 1
         /\ \A i \in 1..Len(list) : Append(list, x)[i] = list[i]
         /\ Append(list, x)[Len(list) + 1] = x
         /\ ToSet(Append(list, x)) = ToSet(list) \cup {x}
         /\ Distinct(list) /\ x \notin ToSet(list) => Distinct(Append(list, x))
<1> DEFINE new == Append(list, x)
           n   == Len(list)
<1>1. /\ new \in Seq(S) /\ Len(new) = n + 1 /\ n \in Nat
      /\ \A i \in 1..n : new[i] = list[i]
      /\ new[n + 1] = x
  BY AppendProperties, LenProperties
<1>2. DOMAIN list = 1..n /\ DOMAIN new = 1..(n + 1)
  BY <1>1, LenProperties
<1> HIDE DEF new, n
<1>3. ToSet(new) = ToSet(list) \cup {x}
  <2>1. \A i \in 1..(n + 1) : i \in 1..n \/ i = n + 1
    BY <1>1
  <2>2. \A i \in 1..n : i \in 1..(n + 1)
    BY <1>1
  <2>3. n + 1 \in 1..(n + 1)
    BY <1>1
  <2> QED BY <1>1, <1>2, <2>1, <2>2, <2>3 DEF ToSet
<1>4. Distinct(list) /\ x \notin ToSet(list) => Distinct(new)
  <2> SUFFICES ASSUME Distinct(list), x \notin ToSet(list), NEW i \in 1..(n + 1), NEW j \in 1..(n + 1),
                      new[i] = new[j]
               PROVE  i = j
    BY <1>2 DEF Distinct
  <2>1. (i \in 1..n \/ i = n + 1) /\ (j \in 1..n \/ j = n + 1)
    BY <1>1
  <2>2. \A k \in 1..n : list[k] \in ToSet(list)
    BY <1>2 DEF ToSet
  <2> QED BY <1>1, <1>2, <2>1, <2>2 DEF Distinct
<1> QED BY <1>1, <1>3, <1>4 DEF new, n

\* loops_concatenate appends the elements of the second list, in their order, that are not
\* there yet.
LEMMA Concatenated ==
  ASSUME NEW S, NEW list1 \in Seq(S), NEW list2 \in Seq(S)
  PROVE  /\ loops_concatenate(list1, list2) \in Seq(S)
         /\ ToSet(loops_concatenate(list1, list2)) = ToSet(list1) \cup ToSet(list2)
         /\ Distinct(list1) => Distinct(loops_concatenate(list1, list2))
         /\ Len(list1) <= Len(loops_concatenate(list1, list2))
         /\ \A i \in 1..Len(list1) : loops_concatenate(list1, list2)[i] = list1[i]
         /\ \A i \in Len(list1)+1..Len(loops_concatenate(list1, list2)) :
              \E k \in 1..Len(list2) :
                /\ loops_concatenate(list1, list2)[i] = list2[k]
                /\ \A m \in 1..k-1 : \E j \in 1..i-1 : loops_concatenate(list1, list2)[j] = list2[m]
<1> DEFINE n == Len(list2)
           Next1(l, x) == IF Contains(l, x) THEN l ELSE Append(l, x)
           After(f) == [i \in 0..n |-> IF i = 0 THEN list1 ELSE Next1(f[i-1], list2[i])]
           new == CHOOSE f : f = After(f)
<1>1. n \in Nat /\ \A i \in 1..n : list2[i] \in S
  BY LenProperties, ElementOfSeq
<1>2. \E f : f = After(f)
  <2> DEFINE step == [a \in (1..n) \X Seq(S) |-> Next1(a[2], list2[a[1]])]
  <2>1. step \in [(1..n) \X Seq(S) -> Seq(S)]
    <3> SUFFICES ASSUME NEW i \in 1..n, NEW l \in Seq(S) PROVE Next1(l, list2[i]) \in Seq(S)
      OBVIOUS
    <3> QED BY <1>1, AppendProperties
  <2>2. PICK f : f \in Iteration(n, Seq(S), list1, step)
    <3> HIDE DEF step, n
    <3> QED BY <1>1, <2>1, Iterates
  <2>3. f \in [0..n -> Seq(S)] /\ f[0] = list1 /\ \A i \in 1..n : f[i] = Next1(f[i-1], list2[i])
    <3>1. \A i \in 1..n : f[i-1] \in Seq(S)
      BY <1>1, <2>2 DEF Iteration
    <3>2. \A i \in 1..n : step[<<i, f[i-1]>>] = Next1(f[i-1], list2[i])
      BY <3>1
    <3> HIDE DEF step
    <3> QED BY <2>2, <3>2 DEF Iteration
  <2>4. \A i \in 0..n : i # 0 => i \in 1..n
    BY <1>1
  <2> HIDE DEF Next1
  <2>5. \A i \in 0..n : f[i] = IF i = 0 THEN list1 ELSE Next1(f[i-1], list2[i])
    BY <2>3, <2>4
  <2>6. f = [i \in 0..n |-> f[i]]
    BY <2>3
  <2> QED BY <2>5, <2>6
<1>3. new = After(new)
  <2> HIDE DEF After
  <2> QED BY <1>2
<1>4. loops_concatenate(list1, list2) = new[n]
  BY DEF loops_concatenate
<1> HIDE DEF new
<1>5. new[0] = list1 /\ \A i \in 1..n : new[i] = Next1(new[i-1], list2[i])
  <2>1. \A i \in 1..n : i \in 0..n /\ i # 0
    BY <1>1
  <2>2. 0 \in 0..n
    BY <1>1
  <2> HIDE DEF Next1
  <2> QED BY <1>3, <2>1, <2>2
<1> DEFINE Good(i, l) ==
      /\ l \in Seq(S)
      /\ ToSet(l) = ToSet(list1) \cup {list2[m] : m \in 1..i}
      /\ Distinct(list1) => Distinct(l)
      /\ Len(list1) <= Len(l)
      /\ \A p \in 1..Len(list1) : l[p] = list1[p]
      /\ \A p \in Len(list1)+1..Len(l) :
           \E k \in 1..i : l[p] = list2[k] /\ \A m \in 1..k-1 : \E j \in 1..p-1 : l[j] = list2[m]
<1>6. Good(0, list1)
  BY LenProperties
<1>7. ASSUME NEW i \in 1..n, NEW l, Good(i-1, l) PROVE Good(i, Next1(l, list2[i]))
  <2> DEFINE x == list2[i]
  <2>0. i \in Nat /\ x \in S /\ l \in Seq(S) /\ Len(l) \in Nat /\ Len(list1) \in Nat
    BY <1>1, <1>7, LenProperties
  <2>1. {list2[m] : m \in 1..i} = {list2[m] : m \in 1..i-1} \cup {x}
    <3>1. \A m \in 1..i : m \in 1..i-1 \/ m = i
      BY <2>0
    <3>2. \A m \in 1..i-1 : m \in 1..i
      BY <2>0
    <3>3. i \in 1..i
      BY <2>0
    <3> QED BY <3>1, <3>2, <3>3
  <2>2. 1..i-1 \subseteq 1..i
    BY <2>0
  <2>3. CASE Contains(l, x)
    <3>1. x \in ToSet(l) /\ Next1(l, x) = l
      BY <2>0, <2>3, InSequence
    <3>2. ToSet(l) = ToSet(list1) \cup {list2[m] : m \in 1..i}
      BY <1>7, <2>1, <3>1
    <3> HIDE DEF Next1, x
    <3> QED BY <1>7, <2>2, <3>1, <3>2 DEF x
  <2>4. CASE ~Contains(l, x)
    <3> DEFINE q == Append(l, x)
    <3>1. /\ q \in Seq(S) /\ Len(q) = Len(l) + 1 /\ q[Len(l) + 1] = x
          /\ \A p \in 1..Len(l) : q[p] = l[p]
          /\ ToSet(q) = ToSet(l) \cup {x}
          /\ Distinct(list1) => Distinct(q)
      <4>1. x \notin ToSet(l)
        BY <2>0, <2>4, InSequence
      <4> QED BY <1>7, <2>0, <4>1, Appended
    <3>2. Next1(l, x) = q
      BY <2>4
    <3> HIDE DEF q, Next1
    <3>3. ToSet(q) = ToSet(list1) \cup {list2[m] : m \in 1..i}
      BY <1>7, <2>1, <3>1
    <3>4. Len(list1) <= Len(q) /\ \A p \in 1..Len(list1) : q[p] = list1[p]
      <4>1. \A p \in 1..Len(list1) : p \in 1..Len(l)
        BY <1>7, <2>0
      <4> QED BY <1>7, <2>0, <3>1, <4>1
    <3>5. ASSUME NEW p \in Len(list1)+1..Len(q)
          PROVE  \E k \in 1..i : q[p] = list2[k] /\ \A m \in 1..k-1 : \E j \in 1..p-1 : q[j] = list2[m]
      <4>1. CASE p \in Len(list1)+1..Len(l)
        <5>1. PICK k \in 1..i-1 : l[p] = list2[k] /\ \A m \in 1..k-1 : \E j \in 1..p-1 : l[j] = list2[m]
          BY <1>7, <4>1
        <5>2. p \in 1..Len(l) /\ \A j \in 1..p-1 : j \in 1..Len(l)
          BY <2>0, <4>1
        <5>3. \A j \in 1..p-1 : q[j] = l[j]
          BY <5>2, <3>1
        <5>4. q[p] = list2[k] /\ \A m \in 1..k-1 : \E j \in 1..p-1 : q[j] = list2[m]
          BY <5>1, <5>2, <5>3, <3>1
        <5> QED BY <5>4, <2>2
      <4>2. CASE p = Len(l) + 1
        <5>1. \A m \in 1..i-1 : list2[m] \in ToSet(l)
          BY <1>7
        <5>2. DOMAIN l = 1..Len(l) /\ p - 1 = Len(l)
          BY <2>0, <4>2, LenProperties
        <5>3. ASSUME NEW m \in 1..i-1 PROVE \E j \in 1..p-1 : q[j] = list2[m]
          <6>1. PICK j \in 1..Len(l) : l[j] = list2[m]
            BY <5>1, <5>2 DEF ToSet
          <6>2. j \in 1..p-1 /\ q[j] = l[j]
            BY <5>2, <3>1
          <6> QED BY <6>1, <6>2
        <5>4. q[p] = list2[i] /\ i \in 1..i
          BY <2>0, <4>2, <3>1
        <5> QED BY <5>3, <5>4
      <4>3. p \in Len(list1)+1..Len(l) \/ p = Len(l) + 1
        BY <2>0, <3>1, <3>5
      <4> QED BY <4>1, <4>2, <4>3
    <3>6. Good(i, q)
      BY <1>7, <3>1, <3>3, <3>4, <3>5
    <3> HIDE DEF Good
    <3> QED BY <3>2, <3>6 DEF x
  <2> QED BY <2>3, <2>4
<1>8. \A i \in 0..n : Good(i, new[i])
  <2> DEFINE h == [i \in 0..n |-> Good(i, new[i])]
  <2> HIDE DEF Good, Next1
  <2>1. h[0] \in {TRUE}
    <3>1. 0 \in 0..n
      BY <1>1
    <3> QED BY <1>5, <1>6, <3>1
  <2>2. ASSUME NEW i \in 0+1..n, h[i-1] \in {TRUE} PROVE h[i] \in {TRUE}
    <3>1. i \in 1..n /\ i - 1 \in 0..n /\ i \in 0..n
      BY <1>1
    <3>2. Good(i-1, new[i-1])
      BY <2>2, <3>1
    <3> QED BY <1>5, <1>7, <3>1, <3>2
  <2>3. \A i \in 0..n : h[i] \in {TRUE}
    <3> HIDE DEF h
    <3> QED BY <1>1, <2>1, <2>2, Onwards
  <2> QED BY <2>3
<1>9. Good(n, new[n])
  <2>1. n \in 0..n
    BY <1>1
  <2> HIDE DEF Good
  <2> QED BY <1>8, <2>1
<1>10. ToSet(list2) = {list2[m] : m \in 1..n}
  BY LenProperties DEF ToSet
<1> QED BY <1>4, <1>9, <1>10

-----------------------------------------------------------------------------
(* The walk: each class that is entered from another has one class less with edges left. *)

Counts(N)      == [N -> Int]
Found(N)       == [list : Seq(N), subs : Counts(N)]
Lower(N, t, s) == \A y \in N : t[y] <= s[y]

\* The functions that step may be: no count grows.
Steps(N) ==
  {f \in [N \X Counts(N) -> Found(N)] :
     \A x \in N, s \in Counts(N) : Lower(N, f[<<x, s>>].subs, s)}

\* How many classes have edges left.
Left(N, s) == Cardinality({y \in N : s[y] > 0})

\* The walk when it has met the edges from x, and its states up to the end of the loop.
Begun(succ, x, s) == [list |-> <<x>>, subs |-> Met(s, succ[x])]

Loops(N, f, succ, x, s) ==
  {w \in [0..Len(succ[x]) -> Found(N)] :
     /\ w[0] = Begun(succ, x, s)
     /\ \A i \in 1..Len(succ[x]) : w[i] = Passed(f, w[i-1], succ[x][i])}

\* One step of the equation that defines step.
Body(N, succ, f) == [at \in N \X Counts(N) |-> Entered(f, succ, at[1], at[2])]

LEMMA PassedFound ==
  ASSUME NEW N, NEW f \in Steps(N), NEW w \in Found(N), NEW y \in N
  PROVE  Passed(f, w, y) \in Found(N) /\ Lower(N, Passed(f, w, y).subs, w.subs)
<1>1. w.list \in Seq(N) /\ w.subs \in Counts(N)
  BY DEF Found
<1>2. f[<<y, w.subs>>] \in Found(N) /\ Lower(N, f[<<y, w.subs>>].subs, w.subs)
  BY <1>1 DEF Steps
<1>3. CASE ~Ready(w.subs, y)
  BY <1>1, <1>3 DEF Passed, Lower, Counts
<1>4. CASE Ready(w.subs, y)
  <2> DEFINE rest == f[<<y, w.subs>>]
  <2>1. rest.list \in Seq(N) /\ rest.subs \in Counts(N)
    BY <1>2 DEF Found
  <2>2. loops_concatenate(w.list, rest.list) \in Seq(N)
    BY <1>1, <2>1, Concatenated
  <2>3. Passed(f, w, y) = [list |-> loops_concatenate(w.list, rest.list), subs |-> rest.subs]
    BY <1>4 DEF Passed
  <2> HIDE DEF rest
  <2>4. Passed(f, w, y) \in Found(N) /\ Passed(f, w, y).subs = rest.subs
    BY <2>1, <2>2, <2>3 DEF Found
  <2> QED BY <1>2, <2>4 DEF rest
<1> QED BY <1>3, <1>4

LEMMA BegunFound ==
  ASSUME NEW N, NEW succ \in [N -> Seq(N)], NEW x \in N, NEW s \in Counts(N)
  PROVE  Begun(succ, x, s) \in Found(N) /\ Lower(N, Begun(succ, x, s).subs, s)
<1>1. Met(s, succ[x]) \in Counts(N) /\ Lower(N, Met(s, succ[x]), s)
  BY DEF Met, Counts, Lower
<1>2. <<x>> \in Seq(N)
  OBVIOUS
<1> QED BY <1>1, <1>2 DEF Begun, Found

LEMMA LoopRuns ==
  ASSUME NEW N, NEW succ \in [N -> Seq(N)], NEW f \in Steps(N), NEW x \in N, NEW s \in Counts(N)
  PROVE  Loops(N, f, succ, x, s) # {}
<1> DEFINE n    == Len(succ[x])
           step == [a \in (1..n) \X Found(N) |-> Passed(f, a[2], succ[x][a[1]])]
<1>1. n \in Nat /\ \A i \in 1..n : succ[x][i] \in N
  BY LenProperties, ElementOfSeq
<1>2. step \in [(1..n) \X Found(N) -> Found(N)]
  <2> SUFFICES ASSUME NEW i \in 1..n, NEW w \in Found(N) PROVE Passed(f, w, succ[x][i]) \in Found(N)
    OBVIOUS
  <2> QED BY <1>1, PassedFound
<1>3. PICK w : w \in Iteration(n, Found(N), Begun(succ, x, s), step)
  <2>1. Begun(succ, x, s) \in Found(N)
    BY BegunFound
  <2> HIDE DEF step, n
  <2> QED BY <1>1, <1>2, <2>1, Iterates
<1>4. \A i \in 1..n : w[i-1] \in Found(N)
  <2>1. \A i \in 1..n : i - 1 \in 0..n
    BY <1>1
  <2> QED BY <1>3, <2>1 DEF Iteration
<1>5. \A i \in 1..n : step[<<i, w[i-1]>>] = Passed(f, w[i-1], succ[x][i])
  BY <1>4
<1> HIDE DEF step
<1> QED BY <1>3, <1>5 DEF Iteration, Loops

\* No count grows on the way.
LEMMA LoopLowers ==
  ASSUME NEW N, NEW succ \in [N -> Seq(N)], NEW f \in Steps(N), NEW x \in N, NEW s \in Counts(N),
         NEW w \in Loops(N, f, succ, x, s)
  PROVE  \A i \in 0..Len(succ[x]) : w[i] \in Found(N) /\ Lower(N, w[i].subs, Met(s, succ[x]))
<1> DEFINE n == Len(succ[x])
           m == Met(s, succ[x])
           h == [i \in 0..n |-> Lower(N, w[i].subs, m)]
<1>1. n \in Nat /\ \A i \in 1..n : succ[x][i] \in N
  BY LenProperties, ElementOfSeq
<1>2. \A i \in 0..n : w[i] \in Found(N) /\ w[i].subs \in Counts(N)
  BY DEF Loops, Found
<1>3. m \in Counts(N) /\ w[0].subs = m
  <2>1. m \in Counts(N)
    BY DEF Met, Counts
  <2> HIDE DEF m
  <2>2. w[0].subs = m
    BY DEF Loops, Begun, m
  <2> QED BY <2>1, <2>2
<1>4. h[0] \in {TRUE}
  <2>1. 0 \in 0..n
    BY <1>1
  <2>2. Lower(N, m, m)
    BY <1>3 DEF Lower, Counts
  <2> HIDE DEF m
  <2> QED BY <1>3, <2>1, <2>2
<1>5. ASSUME NEW i \in 0+1..n, h[i-1] \in {TRUE} PROVE h[i] \in {TRUE}
  <2>1. i \in 1..n /\ i - 1 \in 0..n /\ i \in 0..n
    BY <1>1
  <2>2. Lower(N, w[i-1].subs, m)
    BY <1>5, <2>1
  <2>3. Lower(N, w[i].subs, w[i-1].subs)
    <3>1. w[i] = Passed(f, w[i-1], succ[x][i])
      BY <2>1 DEF Loops
    <3> QED BY <1>1, <1>2, <2>1, <3>1, PassedFound
  <2>4. Lower(N, w[i].subs, m)
    <3>1. w[i].subs \in Counts(N) /\ w[i-1].subs \in Counts(N)
      BY <1>2, <2>1
    <3>2. ASSUME NEW a \in Counts(N), NEW b \in Counts(N), NEW c \in Counts(N), Lower(N, a, b), Lower(N, b, c)
          PROVE  Lower(N, a, c)
      <4> SUFFICES ASSUME NEW y \in N PROVE a[y] <= c[y]
        BY DEF Lower
      <4>1. a[y] \in Int /\ b[y] \in Int /\ c[y] \in Int /\ a[y] <= b[y] /\ b[y] <= c[y]
        BY <3>2 DEF Lower, Counts
      <4> QED BY <4>1
    <3> HIDE DEF m
    <3> QED BY <1>3, <2>2, <2>3, <3>1, <3>2
  <2> HIDE DEF m
  <2> QED BY <2>1, <2>4
<1>6. \A i \in 0..n : h[i] \in {TRUE}
  <2> HIDE DEF h
  <2> QED BY <1>1, <1>4, <1>5, Onwards
<1> HIDE DEF m
<1>7. \A i \in 0..n : Lower(N, w[i].subs, m)
  BY <1>6
<1> QED BY <1>2, <1>7 DEF m

\* A successor that is entered had an edge left before, and has none now.
LEMMA LessLeft ==
  ASSUME NEW N, IsFiniteSet(N), NEW succ \in [N -> Seq(N)], NEW x \in N, NEW s \in Counts(N),
         NEW t \in Counts(N), Lower(N, t, Met(s, succ[x])),
         NEW i \in 1..Len(succ[x]), Ready(t, succ[x][i])
  PROVE  Left(N, t) < Left(N, s) /\ Left(N, t) \in Nat /\ Left(N, s) \in Nat /\ s[succ[x][i]] > 0
<1> DEFINE y == succ[x][i]
           A == {z \in N : t[z] > 0}
           B == {z \in N : s[z] > 0}
<1>1. y \in N /\ t[y] = 0 /\ s[y] \in Int
  BY ElementOfSeq DEF Ready, Counts
<1>2. Contains(succ[x], y)
  BY DEF Contains
<1>3. Met(s, succ[x])[y] = s[y] - 1
  BY <1>1, <1>2 DEF Met, Counts
<1>4. s[y] > 0
  BY <1>1, <1>3 DEF Lower
<1>5. A \subseteq B
  <2> SUFFICES ASSUME NEW z \in N, t[z] > 0 PROVE s[z] > 0
    OBVIOUS
  <2>1. t[z] \in Int /\ s[z] \in Int /\ t[z] <= Met(s, succ[x])[z]
    BY DEF Lower, Counts
  <2>2. Met(s, succ[x])[z] = s[z] - 1 \/ Met(s, succ[x])[z] = s[z]
    BY DEF Met, Counts
  <2> QED BY <2>1, <2>2
<1>6. y \in B /\ y \notin A
  BY <1>1, <1>4
<1>7. IsFiniteSet(A) /\ IsFiniteSet(B)
  BY FS_Subset
<1> HIDE DEF A, B
<1>8. Cardinality(A) <= Cardinality(B) /\ Cardinality(A) # Cardinality(B)
  BY <1>5, <1>6, <1>7, FS_Subset
<1>9. Cardinality(A) \in Nat /\ Cardinality(B) \in Nat
  BY <1>7, FS_CardinalityType
<1>10. Cardinality(A) < Cardinality(B)
  BY <1>8, <1>9
<1> QED BY <1>4, <1>9, <1>10 DEF Left, A, B

\* f and g give the same walks with fewer classes left than s.
Agree(N, f, g, s) ==
  \A y \in N, t \in Counts(N) : Left(N, t) < Left(N, s) => g[<<y, t>>] = f[<<y, t>>]

\* The walk from x depends on the walks with fewer classes left alone.
LEMMA Entering ==
  ASSUME NEW N, IsFiniteSet(N), NEW succ \in [N -> Seq(N)], NEW f \in Steps(N), NEW g,
         NEW x \in N, NEW s \in Counts(N),
         Agree(N, f, g, s),
         NEW w \in Loops(N, f, succ, x, s)
  PROVE  Entered(g, succ, x, s) = w[Len(succ[x])]
<1> DEFINE n == Len(succ[x])
           After(q) == [i \in 0..n |-> IF i = 0 THEN Begun(succ, x, s)
                                       ELSE Passed(g, q[i-1], succ[x][i])]
           walk == CHOOSE q : q = After(q)
<1>1. n \in Nat /\ \A i \in 1..n : succ[x][i] \in N
  BY LenProperties, ElementOfSeq
<1>2. w[0] = Begun(succ, x, s) /\ w = [i \in 0..n |-> w[i]]
  BY DEF Loops
<1>3. ASSUME NEW i \in 1..n PROVE w[i] = Passed(g, w[i-1], succ[x][i])
  <2> DEFINE y == succ[x][i]
             v == w[i-1]
  <2>1. w[i] = Passed(f, v, y) /\ y \in N
    BY <1>1 DEF Loops
  <2>2. v \in Found(N) /\ Lower(N, v.subs, Met(s, succ[x])) /\ v.subs \in Counts(N)
    <3>1. i - 1 \in 0..n
      BY <1>1
    <3> QED BY <3>1, LoopLowers DEF Found
  <2>3. Ready(v.subs, y) => g[<<y, v.subs>>] = f[<<y, v.subs>>]
    <3> SUFFICES ASSUME Ready(v.subs, y) PROVE Left(N, v.subs) < Left(N, s)
      BY <2>1, <2>2 DEF Agree
    <3> QED BY <2>2, LessLeft
  <2> HIDE DEF v, y
  <2>4. Passed(g, v, y) = Passed(f, v, y)
    BY <2>3 DEF Passed
  <2> QED BY <2>1, <2>4 DEF v, y
<1>4. \A i \in 0..n : i # 0 => i \in 1..n
  BY <1>1
<1>5. \A i \in 0..n : w[i] = IF i = 0 THEN Begun(succ, x, s) ELSE Passed(g, w[i-1], succ[x][i])
  BY <1>2, <1>3, <1>4
<1>6. w = After(w)
  BY <1>2, <1>5
<1>7. walk = After(walk)
  <2> HIDE DEF After
  <2> QED BY <1>6
<1>8. Entered(g, succ, x, s) = walk[n]
  BY DEF Entered, Begun
<1> HIDE DEF walk
<1>9. walk[0] = w[0]
  <2>1. 0 \in 0..n
    BY <1>1
  <2> QED BY <1>2, <1>7, <2>1
<1>10. ASSUME NEW i \in 1..n, walk[i-1] = w[i-1] PROVE walk[i] = w[i]
  <2>1. i \in 0..n /\ i # 0
    BY <1>1
  <2>2. walk[i] = Passed(g, walk[i-1], succ[x][i])
    BY <1>7, <2>1
  <2> QED BY <1>3, <1>10, <2>2
<1>11. \A i \in 0..n : walk[i] = w[i]
  <2>1. GoAlike(n, walk, w)
    BY <1>9, <1>10 DEF GoAlike
  <2> HIDE DEF n
  <2> QED BY <1>1, <2>1, Alike DEF AlikeUpTo
<1>12. n \in 0..n
  BY <1>1
<1> QED BY <1>8, <1>11, <1>12

LEMMA SameEntered ==
  ASSUME NEW N, IsFiniteSet(N), NEW succ \in [N -> Seq(N)], NEW f \in Steps(N), NEW g,
         NEW x \in N, NEW s \in Counts(N),
         Agree(N, f, g, s)
  PROVE  Entered(g, succ, x, s) = Entered(f, succ, x, s)
<1>1. PICK w : w \in Loops(N, f, succ, x, s)
  BY LoopRuns
<1>2. Entered(g, succ, x, s) = w[Len(succ[x])]
  BY <1>1, Entering
<1>3. Agree(N, f, f, s)
  BY DEF Agree
<1>4. Entered(f, succ, x, s) = w[Len(succ[x])]
  BY <1>1, <1>3, Entering
<1> QED BY <1>2, <1>4

LEMMA LeftBound ==
  ASSUME NEW N, IsFiniteSet(N), NEW s
  PROVE  Left(N, s) \in 0..Cardinality(N) /\ Cardinality(N) \in Nat
<1> DEFINE A == {y \in N : s[y] > 0}
<1>1. IsFiniteSet(A) /\ Cardinality(A) <= Cardinality(N)
  BY FS_Subset
<1>2. Cardinality(A) \in Nat /\ Cardinality(N) \in Nat
  BY <1>1, FS_CardinalityType
<1> QED BY <1>1, <1>2 DEF Left

Step(N, succ) ==
  CHOOSE step : step = [at \in N \X [N -> Int] |-> Entered(step, succ, at[1], at[2])]

\* step is in every set of functions that is not empty and that its equation does not lead out
\* of: how facts about the walk are proved.
LEMMA StepIn ==
  ASSUME NEW N, IsFiniteSet(N), NEW succ \in [N -> Seq(N)],
         NEW D, D \subseteq Steps(N), D # {}, \A f \in D : Body(N, succ, f) \in D
  PROVE  Step(N, succ) \in D
<1> DEFINE n       == Cardinality(N)
           Arg     == N \X Counts(N)
           Upto(k) == {f \in D : \A x \in N, s \in Counts(N) :
                         Left(N, s) < k => f[<<x, s>>] = Entered(f, succ, x, s)}
           h       == [k \in 0..n+1 |-> Upto(k) # {}]
<1>1. n \in Nat /\ \A s : Left(N, s) \in 0..n
  BY LeftBound
<1>2. h[0] \in {TRUE}
  <2>1. PICK f : f \in D
    OBVIOUS
  <2>2. \A s : ~(Left(N, s) < 0)
    BY <1>1
  <2>3. f \in Upto(0)
    BY <2>1, <2>2
  <2>4. 0 \in 0..n+1
    BY <1>1
  <2> HIDE DEF Upto
  <2> QED BY <2>3, <2>4
<1>3. ASSUME NEW k \in 0+1..n+1, h[k-1] \in {TRUE} PROVE h[k] \in {TRUE}
  <2>1. k \in 0..n+1 /\ k - 1 \in 0..n+1 /\ k \in Nat
    BY <1>1
  <2>2. PICK f : f \in Upto(k-1)
    <3> HIDE DEF Upto
    <3> QED BY <1>3, <2>1
  <2> DEFINE g == Body(N, succ, f)
  <2>3. f \in D /\ g \in D /\ f \in Steps(N)
    BY <2>2
  <2>4. \A x \in N, s \in Counts(N) : g[<<x, s>>] = Entered(f, succ, x, s)
    BY DEF Body
  <2> HIDE DEF g
  <2>5. ASSUME NEW x \in N, NEW s \in Counts(N), Left(N, s) < k
        PROVE  g[<<x, s>>] = Entered(g, succ, x, s)
    <3>1. ASSUME NEW y \in N, NEW t \in Counts(N), Left(N, t) < Left(N, s)
          PROVE  g[<<y, t>>] = f[<<y, t>>]
      <4>1. Left(N, t) < k - 1
        <5>1. Left(N, t) \in Int /\ Left(N, s) \in Int
          BY <1>1
        <5> QED BY <2>1, <2>5, <3>1, <5>1
      <4>2. f[<<y, t>>] = Entered(f, succ, y, t)
        BY <2>2, <4>1
      <4> QED BY <2>4, <4>2
    <3>2. Agree(N, f, g, s)
      BY <3>1 DEF Agree
    <3>3. Entered(g, succ, x, s) = Entered(f, succ, x, s)
      BY <2>3, <3>2, SameEntered
    <3> QED BY <2>4, <3>3
  <2>6. g \in Upto(k)
    BY <2>3, <2>5
  <2> HIDE DEF Upto
  <2> QED BY <2>1, <2>6
<1>4. PICK f : f \in Upto(n+1)
  <2>1. \A k \in 0..n+1 : h[k] \in {TRUE}
    <3>1. n + 1 \in Nat
      BY <1>1
    <3> HIDE DEF h, n
    <3> QED BY <1>2, <1>3, <3>1, Onwards
  <2>2. n + 1 \in 0..n+1
    BY <1>1
  <2> HIDE DEF Upto
  <2> QED BY <2>1, <2>2
<1>5. \A x \in N, s \in Counts(N) : f[<<x, s>>] = Entered(f, succ, x, s)
  <2>1. \A s : Left(N, s) < n + 1
    BY <1>1
  <2> QED BY <1>4, <2>1
<1>6. f \in D /\ f \in Steps(N)
  BY <1>4
<1> HIDE DEF h, Upto
<1>7. f = Body(N, succ, f)
  <2>1. f \in [Arg -> Found(N)]
    BY <1>6 DEF Steps
  <2>2. \A at \in Arg : at[1] \in N /\ at[2] \in Counts(N) /\ at = <<at[1], at[2]>>
    OBVIOUS
  <2>3. \A at \in Arg : f[at] = Entered(f, succ, at[1], at[2])
    BY <1>5, <2>2
  <2>4. f = [at \in Arg |-> f[at]]
    BY <2>1
  <2> QED BY <2>3, <2>4 DEF Body
<1> DEFINE step == Step(N, succ)
<1>8. step = Body(N, succ, step)
  BY <1>7 DEF Step, Body, Counts
<1> HIDE DEF step
<1>9. \A x \in N, s \in Counts(N) : step[<<x, s>>] = Entered(step, succ, x, s)
  <2> DEFINE e(x, s) == Entered(step, succ, x, s)
  <2>1. step = [at \in Arg |-> e(at[1], at[2])]
    BY <1>8 DEF Body
  <2> HIDE DEF e
  <2>2. \A x \in N, s \in Counts(N) : step[<<x, s>>] = e(x, s)
    <3> SUFFICES ASSUME NEW x \in N, NEW s \in Counts(N) PROVE step[<<x, s>>] = e(x, s)
      OBVIOUS
    <3>1. <<x, s>> \in Arg /\ <<x, s>>[1] = x /\ <<x, s>>[2] = s
      OBVIOUS
    <3>2. [at \in Arg |-> e(at[1], at[2])][<<x, s>>] = e(x, s)
      BY <3>1
    <3> QED BY <2>1, <3>2
  <2> QED BY <2>2 DEF e
<1> DEFINE q == [k \in 0..n+1 |-> \A x \in N, s \in Counts(N) :
                    Left(N, s) < k => step[<<x, s>>] = f[<<x, s>>]]
<1>10. q[0] \in {TRUE}
  <2>1. \A s : ~(Left(N, s) < 0)
    BY <1>1
  <2>2. 0 \in 0..n+1
    BY <1>1
  <2> QED BY <2>1, <2>2
<1>11. ASSUME NEW k \in 0+1..n+1, q[k-1] \in {TRUE} PROVE q[k] \in {TRUE}
  <2>1. k \in 0..n+1 /\ k - 1 \in 0..n+1 /\ k \in Nat
    BY <1>1
  <2>2. \A x \in N, s \in Counts(N) : Left(N, s) < k - 1 => step[<<x, s>>] = f[<<x, s>>]
    BY <1>11, <2>1
  <2>3. ASSUME NEW x \in N, NEW s \in Counts(N), Left(N, s) < k
        PROVE  step[<<x, s>>] = f[<<x, s>>]
    <3>1. ASSUME NEW y \in N, NEW t \in Counts(N), Left(N, t) < Left(N, s)
          PROVE  step[<<y, t>>] = f[<<y, t>>]
      <4>1. Left(N, t) \in Int /\ Left(N, s) \in Int
        BY <1>1
      <4>2. Left(N, t) < k - 1
        BY <2>1, <2>3, <3>1, <4>1
      <4> QED BY <2>2, <4>2
    <3>2. Agree(N, f, step, s)
      BY <3>1 DEF Agree
    <3>3. Entered(step, succ, x, s) = Entered(f, succ, x, s)
      BY <1>6, <3>2, SameEntered
    <3> QED BY <1>5, <1>9, <3>3
  <2> QED BY <2>1, <2>3
<1>12. q[n+1]
  <2>1. \A k \in 0..n+1 : q[k] \in {TRUE}
    <3>1. n + 1 \in Nat
      BY <1>1
    <3> HIDE DEF q, n
    <3> QED BY <1>10, <1>11, <3>1, Onwards
  <2>2. n + 1 \in 0..n+1
    BY <1>1
  <2> HIDE DEF q
  <2> QED BY <2>1, <2>2
<1>13. \A x \in N, s \in Counts(N) : step[<<x, s>>] = f[<<x, s>>]
  <2>1. \A s : Left(N, s) < n + 1
    BY <1>1
  <2>2. n + 1 \in 0..n+1
    BY <1>1
  <2> QED BY <1>12, <2>1, <2>2
<1>14. step = f
  <2>1. \A at \in Arg : step[at] = f[at]
    <3>1. \A at \in Arg : at[1] \in N /\ at[2] \in Counts(N) /\ at = <<at[1], at[2]>>
      OBVIOUS
    <3> QED BY <1>13, <3>1
  <2>2. step = [at \in Arg |-> step[at]]
    <3>1. DOMAIN step = Arg /\ step = [at \in DOMAIN step |-> step[at]]
      BY <1>8 DEF Body
    <3> QED BY <3>1
  <2>3. f = [at \in Arg |-> f[at]]
    BY <1>6 DEF Steps
  <2> QED BY <2>1, <2>2, <2>3
<1> QED BY <1>6, <1>14 DEF step

-----------------------------------------------------------------------------
(* The list of a walk: it begins with the class it starts from, has no class twice and leads *)
(* along edges; without a shortcut a class comes after those with an edge to it.             *)

Closed(N, succ, C) == C \subseteq N /\ \A p \in C : ToSet(succ[p]) \subseteq C

FromOn(N, succ, x, list) ==
  /\ list \in Seq(N) /\ 1 <= Len(list) /\ list[1] = x /\ Distinct(list)
  /\ \A C \in SUBSET N : Closed(N, succ, C) /\ x \in C => ToSet(list) \subseteq C

\* The classes of E have been entered: the others' edges are those that are counted, and no
\* class has been entered before one with an edge to it.
To(N, succ, E, y) == {p \in N \ E : y \in ToSet(succ[p])}

Counted(N, succ, E, s) ==
  /\ \A y \in N : s[y] = Cardinality(To(N, succ, E, y))
  /\ \A p \in N : \A z \in E \cap ToSet(succ[p]) : p \in E

Orderly(N, succ, E, list) ==
  \A j \in 1..Len(list) : \A p \in N :
    list[j] \in ToSet(succ[p]) => p \in E \/ \E i \in 1..j-1 : list[i] = p

\* x may be entered when the classes of E have been.
MayEnter(N, succ, E, x) ==
  /\ x \notin E \/ succ[x] = <<>>
  /\ \A p \in N : x \in ToSet(succ[p]) => p \in E

OrderKept(N, succ, x, s, w) ==
  \A E \in SUBSET N :
    Counted(N, succ, E, s) /\ MayEnter(N, succ, E, x) =>
      Orderly(N, succ, E, w.list) /\ Counted(N, succ, E \cup ToSet(w.list), w.subs)

Walks(N, succ) ==
  {f \in Steps(N) : \A x \in N, s \in Counts(N) :
     /\ FromOn(N, succ, x, f[<<x, s>>].list)
     /\ ~Shortcut(succ) => OrderKept(N, succ, x, s, f[<<x, s>>])}

LEMMA ConcatenatedOrder ==
  ASSUME NEW N, NEW succ, NEW E, NEW list1 \in Seq(N), NEW list2 \in Seq(N),
         Orderly(N, succ, E, list1), Orderly(N, succ, E \cup ToSet(list1), list2)
  PROVE  Orderly(N, succ, E, loops_concatenate(list1, list2))
<1> DEFINE new == loops_concatenate(list1, list2)
<1>1. /\ new \in Seq(N) /\ Len(list1) <= Len(new)
      /\ \A i \in 1..Len(list1) : new[i] = list1[i]
      /\ \A i \in Len(list1)+1..Len(new) :
           \E k \in 1..Len(list2) :
             new[i] = list2[k] /\ \A m \in 1..k-1 : \E j \in 1..i-1 : new[j] = list2[m]
  BY Concatenated
<1>2. Len(list1) \in Nat /\ Len(list2) \in Nat /\ Len(new) \in Nat /\ DOMAIN list1 = 1..Len(list1)
  BY <1>1, LenProperties
<1> HIDE DEF new
<1> SUFFICES ASSUME NEW j \in 1..Len(new), NEW p \in N, new[j] \in ToSet(succ[p]), p \notin E
             PROVE  \E i \in 1..j-1 : new[i] = p
  BY DEF Orderly, new
<1>3. CASE j \in 1..Len(list1)
  <2>1. PICK i \in 1..j-1 : list1[i] = p
    BY <1>1, <1>3 DEF Orderly
  <2>2. i \in 1..Len(list1)
    BY <1>2, <1>3
  <2> QED BY <1>1, <2>1, <2>2
<1>4. CASE j \in Len(list1)+1..Len(new)
  <2>1. PICK k \in 1..Len(list2) :
          new[j] = list2[k] /\ \A m \in 1..k-1 : \E i \in 1..j-1 : new[i] = list2[m]
    BY <1>1, <1>4
  <2>2. p \in ToSet(list1) \/ \E m \in 1..k-1 : list2[m] = p
    BY <2>1 DEF Orderly
  <2>3. CASE p \in ToSet(list1)
    <3>1. PICK i \in 1..Len(list1) : list1[i] = p
      BY <1>2, <2>3 DEF ToSet
    <3>2. i \in 1..j-1 /\ new[i] = p
      BY <1>1, <1>2, <1>4, <3>1
    <3> QED BY <3>2
  <2> QED BY <2>1, <2>2, <2>3
<1>5. j \in 1..Len(list1) \/ j \in Len(list1)+1..Len(new)
  BY <1>2
<1> QED BY <1>3, <1>4, <1>5

\* When the edges from x have been met, x counts as entered.
LEMMA BegunCounted ==
  ASSUME NEW N, IsFiniteSet(N), NEW succ \in [N -> Seq(N)], NEW x \in N, NEW s \in Counts(N),
         NEW E \in SUBSET N, Counted(N, succ, E, s), MayEnter(N, succ, E, x)
  PROVE  Counted(N, succ, E \cup {x}, Met(s, succ[x]))
<1>1. ASSUME NEW p \in N, NEW z \in (E \cup {x}) \cap ToSet(succ[p]) PROVE p \in E \cup {x}
  BY <1>1 DEF Counted, MayEnter
<1>2. ASSUME NEW y \in N
      PROVE  Met(s, succ[x])[y] = Cardinality(To(N, succ, E \cup {x}, y))
  <2> DEFINE A == To(N, succ, E, y)
             B == To(N, succ, E \cup {x}, y)
  <2>1. B = A \ {x} /\ IsFiniteSet(A)
    <3>1. A \in SUBSET N
      BY DEF To
    <3> QED BY <3>1, FS_Subset DEF To
  <2>2. s[y] = Cardinality(A) /\ s[y] \in Int /\ DOMAIN s = N
    BY DEF Counted, Counts
  <2>3. Cardinality(B) = IF x \in A THEN Cardinality(A) - 1 ELSE Cardinality(A)
    BY <2>1, FS_RemoveElement
  <2>4. succ[x] \in Seq(N)
    OBVIOUS
  <2>5. Contains(succ[x], y) <=> y \in ToSet(succ[x])
    BY <2>4, InSequence
  <2>6. x \in A <=> y \in ToSet(succ[x])
    <3>1. x \notin E => (x \in A <=> y \in ToSet(succ[x]))
      BY DEF To
    <3>2. ASSUME x \in E PROVE x \notin A /\ y \notin ToSet(succ[x])
      <4>1. succ[x] = <<>>
        BY <3>2 DEF MayEnter
      <4>2. ToSet(succ[x]) = {}
        BY <4>1 DEF ToSet
      <4> QED BY <3>2, <4>2 DEF To
    <3> QED BY <3>1, <3>2
  <2> HIDE DEF A, B
  <2> QED BY <2>2, <2>3, <2>5, <2>6 DEF Met, B
<1> QED BY <1>1, <1>2 DEF Counted

\* What the loop has put into the list.
Through(N, succ, x, i, list) ==
  /\ FromOn(N, succ, x, list)
  /\ \A z \in ToSet(list) : z = x \/ \E k \in 1..i : z \in Reached(succ, succ[x][k])

LEMMA BegunList ==
  ASSUME NEW N, NEW succ \in [N -> Seq(N)], NEW x \in N, NEW s
  PROVE  Through(N, succ, x, 0, Begun(succ, x, s).list) /\ ToSet(Begun(succ, x, s).list) = {x}
<1> DEFINE list == <<x>>
<1>1. list \in Seq(N) /\ Len(list) = 1 /\ list[1] = x /\ DOMAIN list = 1..1
  OBVIOUS
<1>2. Begun(succ, x, s).list = list
  BY DEF Begun
<1> HIDE DEF list
<1>3. ToSet(list) = {x}
  BY <1>1 DEF ToSet
<1>4. Distinct(list)
  BY <1>1 DEF Distinct
<1>5. FromOn(N, succ, x, list)
  BY <1>1, <1>3, <1>4 DEF FromOn
<1>6. Through(N, succ, x, 0, list)
  BY <1>3, <1>5 DEF Through
<1> QED BY <1>2, <1>3, <1>6

LEMMA PassedList ==
  ASSUME NEW N, NEW succ \in [N -> Seq(N)], NEW f \in Walks(N, succ), NEW x \in N,
         NEW w \in Found(N), NEW i \in 1..Len(succ[x]), Through(N, succ, x, i-1, w.list)
  PROVE  Through(N, succ, x, i, Passed(f, w, succ[x][i]).list)
<1> DEFINE y    == succ[x][i]
           rest == f[<<y, w.subs>>]
           new  == loops_concatenate(w.list, rest.list)
<1>1. y \in N /\ i \in Nat /\ Len(succ[x]) \in Nat /\ succ[x] \in Seq(N)
  BY ElementOfSeq, LenProperties
<1>2. w.subs \in Counts(N) /\ w.list \in Seq(N)
  BY DEF Found
<1>3. 1..i-1 \subseteq 1..i /\ i \in 1..i
  BY <1>1
<1>4. CASE ~Ready(w.subs, y)
  <2>1. Passed(f, w, y) = w
    BY <1>4 DEF Passed
  <2> HIDE DEF y
  <2> QED BY <1>3, <2>1 DEF Through, y
<1>5. CASE Ready(w.subs, y)
  <2>1. FromOn(N, succ, y, rest.list)
    BY <1>1, <1>2 DEF Walks
  <2>2. Passed(f, w, y).list = new
    BY <1>5 DEF Passed
  <2> HIDE DEF rest
  <2>3. /\ new \in Seq(N) /\ ToSet(new) = ToSet(w.list) \cup ToSet(rest.list)
        /\ Distinct(new) /\ Len(w.list) <= Len(new)
        /\ \A k \in 1..Len(w.list) : new[k] = w.list[k]
    <3> DEFINE l1 == w.list
               l2 == rest.list
    <3>1. l1 \in Seq(N) /\ l2 \in Seq(N) /\ Distinct(l1) /\ new = loops_concatenate(l1, l2)
      BY <1>2, <2>1 DEF FromOn, Through
    <3> HIDE DEF l1, l2, new
    <3>2. /\ new \in Seq(N) /\ ToSet(new) = ToSet(l1) \cup ToSet(l2)
          /\ Distinct(new) /\ Len(l1) <= Len(new)
          /\ \A k \in 1..Len(l1) : new[k] = l1[k]
      BY <3>1, Concatenated
    <3> QED BY <3>2 DEF l1, l2
  <2> HIDE DEF new
  <2>4. 1 <= Len(new) /\ new[1] = x
    <3>1. Len(w.list) \in Nat /\ Len(new) \in Nat
      BY <1>2, <2>3, LenProperties
    <3>2. 1 <= Len(w.list) /\ w.list[1] = x
      BY DEF Through, FromOn
    <3>3. 1 \in 1..Len(w.list)
      BY <3>1, <3>2
    <3> QED BY <2>3, <3>1, <3>2, <3>3
  <2>5. \A C \in SUBSET N : Closed(N, succ, C) /\ y \in C => ToSet(rest.list) \subseteq C
    BY <2>1 DEF FromOn
  <2>6. y \in ToSet(succ[x])
    BY <1>1, LenProperties DEF ToSet
  <2>7. ASSUME NEW C \in SUBSET N, Closed(N, succ, C), x \in C PROVE ToSet(new) \subseteq C
    <3>1. y \in C
      BY <2>6, <2>7 DEF Closed
    <3>2. ToSet(w.list) \subseteq C
      BY <2>7 DEF Through, FromOn
    <3> QED BY <2>3, <2>5, <2>7, <3>1, <3>2
  <2>8. ASSUME NEW z \in ToSet(new) PROVE z = x \/ \E k \in 1..i : z \in Reached(succ, succ[x][k])
    <3>1. CASE z \in ToSet(w.list)
      BY <1>3, <3>1 DEF Through
    <3>2. CASE z \in ToSet(rest.list)
      <4>1. z \in N
        <5>1. ToSet(new) \subseteq N
          BY <2>3, InSequence
        <5> QED BY <5>1
      <4>2. \A C \in SUBSET N : y \in C /\ (\A p \in C : ToSet(succ[p]) \subseteq C) => z \in C
        BY <2>5, <3>2 DEF Closed
      <4>3. DOMAIN succ = N
        OBVIOUS
      <4>4. z \in Reached(succ, y)
        BY <4>1, <4>2, <4>3 DEF Reached
      <4> QED BY <1>3, <4>4
    <3> QED BY <2>3, <3>1, <3>2
  <2> HIDE DEF y
  <2>9. Through(N, succ, x, i, new)
    BY <2>3, <2>4, <2>7, <2>8 DEF Through, FromOn
  <2> QED BY <2>2, <2>9 DEF y
<1> QED BY <1>4, <1>5

LEMMA LoopList ==
  ASSUME NEW N, NEW succ \in [N -> Seq(N)], NEW f \in Walks(N, succ), NEW x \in N,
         NEW s \in Counts(N), NEW w \in Loops(N, f, succ, x, s)
  PROVE  \A i \in 0..Len(succ[x]) : Through(N, succ, x, i, w[i].list)
<1> DEFINE n == Len(succ[x])
           h == [i \in 0..n |-> Through(N, succ, x, i, w[i].list)]
<1>1. n \in Nat /\ \A i \in 0..n : w[i] \in Found(N)
  BY LenProperties DEF Loops
<1>2. h[0] \in {TRUE}
  <2>1. 0 \in 0..n
    BY <1>1
  <2>2. w[0] = Begun(succ, x, s)
    BY DEF Loops
  <2>3. Through(N, succ, x, 0, Begun(succ, x, s).list)
    BY BegunList
  <2>4. Through(N, succ, x, 0, w[0].list)
    BY <2>2, <2>3
  <2> QED BY <2>1, <2>4
<1>3. ASSUME NEW i \in 0+1..n, h[i-1] \in {TRUE} PROVE h[i] \in {TRUE}
  <2>1. i \in 1..n /\ i - 1 \in 0..n /\ i \in 0..n
    BY <1>1
  <2>2. w[i] = Passed(f, w[i-1], succ[x][i])
    BY <2>1 DEF Loops
  <2>3. Through(N, succ, x, i-1, w[i-1].list)
    BY <1>3, <2>1
  <2>4. Through(N, succ, x, i, w[i].list)
    BY <1>1, <2>1, <2>2, <2>3, PassedList
  <2> QED BY <2>1, <2>4
<1>4. \A i \in 0..n : h[i] \in {TRUE}
  <2> HIDE DEF h, n
  <2> QED BY <1>1, <1>2, <1>3, Onwards
<1> QED BY <1>4

LEMMA PassedOrder ==
  ASSUME NEW N, IsFiniteSet(N), NEW succ \in [N -> Seq(N)], NEW f \in Walks(N, succ),
         ~Shortcut(succ), NEW x \in N, NEW s \in Counts(N), NEW E \in SUBSET N,
         Counted(N, succ, E, s), MayEnter(N, succ, E, x),
         NEW w \in Found(N), NEW i \in 1..Len(succ[x]),
         Through(N, succ, x, i-1, w.list), Lower(N, w.subs, Met(s, succ[x])),
         Orderly(N, succ, E, w.list), Counted(N, succ, E \cup ToSet(w.list), w.subs)
  PROVE  LET v == Passed(f, w, succ[x][i])
         IN  Orderly(N, succ, E, v.list) /\ Counted(N, succ, E \cup ToSet(v.list), v.subs)
<1> DEFINE y    == succ[x][i]
           rest == f[<<y, w.subs>>]
           new  == loops_concatenate(w.list, rest.list)
           F    == E \cup ToSet(w.list)
<1>1. y \in N /\ i \in Nat /\ Len(succ[x]) \in Nat /\ succ[x] \in Seq(N) /\ DOMAIN succ = N
  BY ElementOfSeq, LenProperties
<1>2. w.subs \in Counts(N) /\ w.list \in Seq(N)
  BY DEF Found
<1>3. CASE ~Ready(w.subs, y)
  <2>1. Passed(f, w, y) = w
    BY <1>3 DEF Passed
  <2> HIDE DEF y
  <2> QED BY <2>1 DEF y
<1>4. CASE Ready(w.subs, y)
  <2>1. Passed(f, w, y) = [list |-> new, subs |-> rest.subs]
    BY <1>4 DEF Passed
  <2>2. y \in ToSet(succ[x]) /\ i \in DOMAIN succ[x]
    BY <1>1, LenProperties DEF ToSet
  <2>3. F \in SUBSET N
    BY <1>2, InSequence
  <2>4. \A p \in N : y \in ToSet(succ[p]) => p \in F
    <3>1. Cardinality(To(N, succ, F, y)) = 0
      BY <1>1, <1>4 DEF Counted, Ready
    <3>2. IsFiniteSet(To(N, succ, F, y))
      <4>1. To(N, succ, F, y) \in SUBSET N
        BY DEF To
      <4> QED BY <4>1, FS_Subset
    <3>3. To(N, succ, F, y) = {}
      BY <3>1, <3>2, FS_EmptySet
    <3> QED BY <3>3 DEF To
  <2>5. y \notin E
    <3> SUFFICES ASSUME y \in E PROVE FALSE
      OBVIOUS
    <3>1. To(N, succ, E, y) = {}
      BY DEF To, Counted
    <3>2. s[y] = 0
      BY <1>1, <3>1, FS_EmptySet DEF Counted
    <3>3. s[y] > 0
      BY <1>2, <1>4, LessLeft
    <3> QED BY <3>2, <3>3
  <2>6. y \notin F \/ succ[y] = <<>>
    <3> SUFFICES ASSUME y \in ToSet(w.list), succ[y] # <<>> PROVE FALSE
      BY <2>5
    <3>1. y # x
      <4> SUFFICES ASSUME y = x PROVE FALSE
        OBVIOUS
      <4>1. x \in E
        BY <2>2 DEF MayEnter
      <4> QED BY <2>5, <4>1
    <3>2. PICK k \in 1..i-1 : y \in Reached(succ, succ[x][k])
      BY <3>1 DEF Through
    <3>3. k \in DOMAIN succ[x] /\ k < i
      BY <1>1, <3>2, LenProperties
    <3> QED BY <1>1, <2>2, <3>2, <3>3 DEF Shortcut
  <2>7. OrderKept(N, succ, y, w.subs, rest)
    BY <1>1, <1>2 DEF Walks
  <2>8. rest.list \in Seq(N)
    BY <1>1, <1>2 DEF Walks, FromOn
  <2> HIDE DEF F, y, rest
  <2>9. Orderly(N, succ, F, rest.list) /\ Counted(N, succ, F \cup ToSet(rest.list), rest.subs)
    <3>1. MayEnter(N, succ, F, y)
      BY <2>4, <2>6 DEF MayEnter
    <3>2. Counted(N, succ, F, w.subs)
      BY DEF F
    <3> QED BY <2>3, <2>7, <3>1, <3>2 DEF OrderKept
  <2>10. Orderly(N, succ, E, new)
    BY <1>2, <2>8, <2>9, ConcatenatedOrder DEF F
  <2>11. F \cup ToSet(rest.list) = E \cup ToSet(new)
    <3>1. ToSet(new) = ToSet(w.list) \cup ToSet(rest.list)
      BY <1>2, <2>8, Concatenated
    <3> HIDE DEF new
    <3> QED BY <3>1 DEF F
  <2> HIDE DEF new
  <2>12. Counted(N, succ, E \cup ToSet(new), rest.subs)
    BY <2>9, <2>11
  <2> QED BY <2>1, <2>10, <2>12 DEF y
<1> QED BY <1>3, <1>4

LEMMA LoopOrder ==
  ASSUME NEW N, IsFiniteSet(N), NEW succ \in [N -> Seq(N)], NEW f \in Walks(N, succ),
         ~Shortcut(succ), NEW x \in N, NEW s \in Counts(N), NEW w \in Loops(N, f, succ, x, s)
  PROVE  OrderKept(N, succ, x, s, w[Len(succ[x])])
<1> SUFFICES ASSUME NEW E \in SUBSET N, Counted(N, succ, E, s), MayEnter(N, succ, E, x)
             PROVE  /\ Orderly(N, succ, E, w[Len(succ[x])].list)
                    /\ Counted(N, succ, E \cup ToSet(w[Len(succ[x])].list), w[Len(succ[x])].subs)
  BY DEF OrderKept
<1> DEFINE n    == Len(succ[x])
           G(v) == Orderly(N, succ, E, v.list) /\ Counted(N, succ, E \cup ToSet(v.list), v.subs)
           h    == [i \in 0..n |-> G(w[i])]
<1>1. n \in Nat /\ \A i \in 0..n : w[i] \in Found(N)
  BY LenProperties DEF Loops
<1>2. f \in Steps(N)
  BY DEF Walks
<1>3. G(w[0])
  <2>1. w[0] = Begun(succ, x, s) /\ Begun(succ, x, s).subs = Met(s, succ[x])
    BY DEF Loops, Begun
  <2>2. Begun(succ, x, s).list = <<x>> /\ ToSet(Begun(succ, x, s).list) = {x}
    BY BegunList DEF Begun
  <2>3. Counted(N, succ, E \cup {x}, Met(s, succ[x]))
    BY BegunCounted
  <2>4. Orderly(N, succ, E, <<x>>)
    BY DEF Orderly, MayEnter
  <2> QED BY <2>1, <2>2, <2>3, <2>4
<1>4. ASSUME NEW i \in 1..n, G(w[i-1]) PROVE G(w[i])
  <2>1. i - 1 \in 0..n
    BY <1>1
  <2>2. w[i] = Passed(f, w[i-1], succ[x][i])
    BY DEF Loops
  <2>3. Through(N, succ, x, i-1, w[i-1].list)
    BY <2>1, LoopList
  <2>4. Lower(N, w[i-1].subs, Met(s, succ[x]))
    BY <1>2, <2>1, LoopLowers
  <2> QED BY <1>1, <1>4, <2>1, <2>2, <2>3, <2>4, PassedOrder
<1> HIDE DEF G
<1>5. h[0] \in {TRUE}
  <2>1. 0 \in 0..n
    BY <1>1
  <2> QED BY <1>3, <2>1
<1>6. ASSUME NEW i \in 0+1..n, h[i-1] \in {TRUE} PROVE h[i] \in {TRUE}
  <2>1. i \in 1..n /\ i - 1 \in 0..n /\ i \in 0..n
    BY <1>1
  <2> QED BY <1>4, <1>6, <2>1
<1>7. \A i \in 0..n : h[i] \in {TRUE}
  <2> HIDE DEF h, n
  <2> QED BY <1>1, <1>5, <1>6, Onwards
<1>8. G(w[n])
  <2>1. n \in 0..n
    BY <1>1
  <2> QED BY <1>7, <2>1
<1> QED BY <1>8 DEF G

\* What step is.
LEMMA StepWalks ==
  ASSUME NEW N, IsFiniteSet(N), NEW succ \in [N -> Seq(N)]
  PROVE  Step(N, succ) \in Walks(N, succ)
<1> DEFINE first == [at \in N \X Counts(N) |-> Begun(succ, at[1], at[2])]
<1>1. first \in Walks(N, succ)
  <2>1. \A x \in N, s \in Counts(N) : first[<<x, s>>] = Begun(succ, x, s)
    OBVIOUS
  <2>2. first \in [N \X Counts(N) -> Found(N)]
    BY BegunFound
  <2> HIDE DEF first
  <2>3. ASSUME NEW x \in N, NEW s \in Counts(N)
        PROVE  Lower(N, first[<<x, s>>].subs, s) /\ FromOn(N, succ, x, first[<<x, s>>].list)
    <3>1. Lower(N, Begun(succ, x, s).subs, s)
      BY BegunFound
    <3>2. FromOn(N, succ, x, Begun(succ, x, s).list)
      BY BegunList DEF Through
    <3> QED BY <2>1, <3>1, <3>2
  <2>4. ASSUME NEW x \in N, NEW s \in Counts(N)
        PROVE  OrderKept(N, succ, x, s, first[<<x, s>>])
    <3> SUFFICES ASSUME NEW E \in SUBSET N, Counted(N, succ, E, s), MayEnter(N, succ, E, x)
                 PROVE  /\ Orderly(N, succ, E, <<x>>)
                        /\ Counted(N, succ, E \cup {x}, Met(s, succ[x]))
      <4>1. first[<<x, s>>].list = <<x>> /\ first[<<x, s>>].subs = Met(s, succ[x])
        <5>1. Begun(succ, x, s).list = <<x>> /\ Begun(succ, x, s).subs = Met(s, succ[x])
          BY DEF Begun
        <5> QED BY <2>1, <5>1
      <4>2. ToSet(<<x>>) = {x}
        BY BegunList DEF Begun
      <4> QED BY <4>1, <4>2 DEF OrderKept
    <3>1. Orderly(N, succ, E, <<x>>)
      BY DEF Orderly, MayEnter
    <3> QED BY <3>1, BegunCounted
  <2> QED BY <2>2, <2>3, <2>4 DEF Walks, Steps
<1>2. ASSUME NEW f \in Walks(N, succ) PROVE Body(N, succ, f) \in Walks(N, succ)
  <2> DEFINE g == Body(N, succ, f)
  <2>1. \A x \in N, s \in Counts(N) : g[<<x, s>>] = Entered(f, succ, x, s)
    BY DEF Body
  <2>2. f \in Steps(N)
    BY DEF Walks
  <2>3. ASSUME NEW x \in N, NEW s \in Counts(N)
        PROVE  /\ Entered(f, succ, x, s) \in Found(N)
               /\ Lower(N, Entered(f, succ, x, s).subs, s)
               /\ FromOn(N, succ, x, Entered(f, succ, x, s).list)
               /\ ~Shortcut(succ) => OrderKept(N, succ, x, s, Entered(f, succ, x, s))
    <3>1. PICK w : w \in Loops(N, f, succ, x, s)
      BY <2>2, LoopRuns
    <3> DEFINE n == Len(succ[x])
    <3>2. Entered(f, succ, x, s) = w[n]
      <4>1. Agree(N, f, f, s)
        BY DEF Agree
      <4> QED BY <2>2, <3>1, <4>1, Entering
    <3>3. n \in 0..n
      BY LenProperties
    <3>4. w[n] \in Found(N) /\ Lower(N, w[n].subs, Met(s, succ[x]))
      BY <2>2, <3>1, <3>3, LoopLowers
    <3>5. Lower(N, w[n].subs, s)
      <4> SUFFICES ASSUME NEW y \in N PROVE w[n].subs[y] <= s[y]
        BY DEF Lower
      <4>1. w[n].subs[y] \in Int /\ s[y] \in Int /\ w[n].subs[y] <= Met(s, succ[x])[y]
        BY <3>4 DEF Found, Counts, Lower
      <4>2. Met(s, succ[x])[y] = s[y] - 1 \/ Met(s, succ[x])[y] = s[y]
        BY DEF Met, Counts
      <4> QED BY <4>1, <4>2
    <3>6. FromOn(N, succ, x, w[n].list)
      BY <3>1, <3>3, LoopList DEF Through
    <3>7. ~Shortcut(succ) => OrderKept(N, succ, x, s, w[n])
      BY <3>1, LoopOrder
    <3> QED BY <3>2, <3>4, <3>5, <3>6, <3>7
  <2>4. g \in [N \X Counts(N) -> Found(N)]
    <3>1. \A at \in N \X Counts(N) : at[1] \in N /\ at[2] \in Counts(N)
      OBVIOUS
    <3> QED BY <2>3, <3>1 DEF Body
  <2> HIDE DEF g
  <2> QED BY <2>1, <2>3, <2>4 DEF g, Walks, Steps
<1>3. Walks(N, succ) \subseteq Steps(N)
  BY DEF Walks
<1> QED BY <1>1, <1>2, <1>3, StepIn

-----------------------------------------------------------------------------
(* The graph of a class. *)

LEMMA ConcatSet ==
  ASSUME NEW S, NEW s \in Seq(S), NEW t \in Seq(S)
  PROVE  s \o t \in Seq(S) /\ ToSet(s \o t) = ToSet(s) \cup ToSet(t)
<1> DEFINE new == s \o t
<1>1. /\ new \in Seq(S) /\ Len(new) = Len(s) + Len(t)
      /\ \A i \in 1..Len(s)+Len(t) : new[i] = IF i <= Len(s) THEN s[i] ELSE t[i - Len(s)]
  BY ConcatProperties
<1>2. /\ Len(s) \in Nat /\ Len(t) \in Nat
      /\ DOMAIN s = 1..Len(s) /\ DOMAIN t = 1..Len(t) /\ DOMAIN new = 1..Len(s)+Len(t)
  BY <1>1, LenProperties
<1> HIDE DEF new
<1>3. ASSUME NEW x \in ToSet(new) PROVE x \in ToSet(s) \cup ToSet(t)
  <2>1. PICK i \in 1..Len(s)+Len(t) : x = new[i]
    BY <1>2 DEF ToSet
  <2>2. i <= Len(s) => i \in 1..Len(s)
    BY <1>2
  <2>3. ~(i <= Len(s)) => i - Len(s) \in 1..Len(t)
    BY <1>2
  <2> QED BY <1>1, <1>2, <2>1, <2>2, <2>3 DEF ToSet
<1>4. ASSUME NEW i \in 1..Len(s) PROVE s[i] \in ToSet(new)
  <2>1. i \in 1..Len(s)+Len(t) /\ i <= Len(s)
    BY <1>2
  <2> QED BY <1>1, <1>2, <2>1 DEF ToSet
<1>5. ASSUME NEW i \in 1..Len(t) PROVE t[i] \in ToSet(new)
  <2>1. i + Len(s) \in 1..Len(s)+Len(t) /\ ~(i + Len(s) <= Len(s)) /\ i + Len(s) - Len(s) = i
    BY <1>2
  <2>2. new[i + Len(s)] = t[i]
    BY <1>1, <2>1
  <2> QED BY <1>2, <2>1, <2>2 DEF ToSet
<1>6. ToSet(s) \cup ToSet(t) \subseteq ToSet(new)
  BY <1>2, <1>4, <1>5 DEF ToSet
<1> QED BY <1>1, <1>3, <1>6 DEF new

LEMMA Flattened ==
  ASSUME NEW S, NEW seqs \in Seq(Seq(S))
  PROVE  /\ FlattenSeq(seqs) \in Seq(S)
         /\ ToSet(FlattenSeq(seqs)) = UNION {ToSet(seqs[i]) : i \in DOMAIN seqs}
<1> DEFINE n == Len(seqs)
           After(f) == [i \in 1..n |-> IF i = 1 THEN seqs[i] ELSE f[i-1] \o seqs[i]]
           flatten  == CHOOSE f : f = After(f)
<1>1. n \in Nat /\ DOMAIN seqs = 1..n /\ \A i \in 1..n : seqs[i] \in Seq(S)
  BY LenProperties, ElementOfSeq
<1>2. CASE n = 0
  <2>1. FlattenSeq(seqs) = seqs
    BY <1>2 DEF FlattenSeq
  <2>2. seqs = <<>>
    BY <1>2
  <2> QED BY <2>1, <2>2 DEF ToSet
<1>3. CASE n # 0
  <2> DEFINE step == [a \in (1..n) \X Seq(S) |-> a[2] \o seqs[a[1]]]
  <2>1. step \in [(1..n) \X Seq(S) -> Seq(S)]
    BY <1>1, ConcatProperties
  <2>2. PICK v : v \in Iteration(n, Seq(S), <<>>, step)
    <3>1. <<>> \in Seq(S)
      OBVIOUS
    <3> HIDE DEF step, n
    <3> QED BY <1>1, <2>1, <3>1, Iterates
  <2>3. v[0] = <<>> /\ \A i \in 1..n : v[i-1] \in Seq(S) /\ v[i] = v[i-1] \o seqs[i]
    <3>1. \A i \in 1..n : i - 1 \in 0..n
      BY <1>1
    <3>2. \A i \in 1..n : v[i-1] \in Seq(S)
      BY <2>2, <3>1 DEF Iteration
    <3>3. \A i \in 1..n : step[<<i, v[i-1]>>] = v[i-1] \o seqs[i]
      BY <3>2
    <3> HIDE DEF step
    <3> QED BY <2>2, <3>2, <3>3 DEF Iteration
  <2> DEFINE w == [i \in 1..n |-> v[i]]
  <2>4. ASSUME NEW i \in 1..n PROVE w[i] = IF i = 1 THEN seqs[i] ELSE w[i-1] \o seqs[i]
    <3>1. CASE i = 1
      <4>1. v[1] = <<>> \o seqs[1]
        <5>1. 1 \in 1..n /\ 1 - 1 = 0
          BY <3>1
        <5> QED BY <2>3, <5>1
      <4>2. seqs[1] \in Seq(S)
        BY <1>1, <3>1
      <4>3. <<>> \o seqs[1] = seqs[1]
        BY <4>2, ConcatEmptySeq
      <4> QED BY <3>1, <4>1, <4>3
    <3>2. CASE i # 1
      <4>1. i - 1 \in 1..n
        BY <1>1, <3>2
      <4> QED BY <2>3, <3>2, <4>1
    <3> QED BY <3>1, <3>2
  <2> HIDE DEF w
  <2>5. w = After(w)
    <3>1. w = [i \in 1..n |-> w[i]]
      BY DEF w
    <3> QED BY <2>4, <3>1
  <2>6. flatten = After(flatten)
    <3> HIDE DEF After
    <3> QED BY <2>5
  <2>7. FlattenSeq(seqs) = flatten[n]
    BY <1>3 DEF FlattenSeq
  <2> HIDE DEF flatten
  <2> DEFINE Good(i, l) == l \in Seq(S) /\ ToSet(l) = UNION {ToSet(seqs[j]) : j \in 1..i}
             h == [i \in 1..n |-> Good(i, flatten[i])]
  <2>8. 1 \in 1..n /\ n \in 1..n
    BY <1>1, <1>3
  <2>9. h[1] \in {TRUE}
    <3>1. flatten[1] = seqs[1]
      BY <2>6, <2>8
    <3>2. {ToSet(seqs[j]) : j \in 1..1} = {ToSet(seqs[1])}
      OBVIOUS
    <3> QED BY <1>1, <2>8, <3>1, <3>2
  <2>10. ASSUME NEW i \in 1+1..n, h[i-1] \in {TRUE} PROVE h[i] \in {TRUE}
    <3>1. i \in 1..n /\ i - 1 \in 1..n /\ i # 1
      BY <1>1
    <3>2. flatten[i] = flatten[i-1] \o seqs[i]
      BY <2>6, <3>1
    <3>3. flatten[i-1] \in Seq(S) /\ ToSet(flatten[i-1]) = UNION {ToSet(seqs[j]) : j \in 1..i-1}
      BY <2>10, <3>1
    <3>4. flatten[i] \in Seq(S) /\ ToSet(flatten[i]) = ToSet(flatten[i-1]) \cup ToSet(seqs[i])
      BY <1>1, <3>1, <3>2, <3>3, ConcatSet
    <3>5. 1..i = (1..i-1) \cup {i}
      BY <3>1
    <3>6. ToSet(flatten[i]) = UNION {ToSet(seqs[j]) : j \in 1..i}
      BY <3>3, <3>4, <3>5
    <3> QED BY <3>1, <3>4, <3>6
  <2>11. \A i \in 1..n : h[i] \in {TRUE}
    <3> HIDE DEF h, n
    <3> QED BY <1>1, <2>9, <2>10, Onwards
  <2>12. Good(n, flatten[n])
    <3> HIDE DEF Good
    <3> QED BY <2>8, <2>11
  <2> QED BY <1>1, <2>7, <2>12
<1> QED BY <1>2, <1>3

LEMMA SuccessorsOf ==
  ASSUME NEW N, NEW edges \in Seq(N \X N), NEW x \in N
  PROVE  /\ Successors(x, edges) \in Seq(N)
         /\ \A y : y \in ToSet(Successors(x, edges)) <=> <<x, y>> \in ToSet(edges)
<1> DEFINE n == Len(edges)
           Next1(l, e) == IF e[1] = x /\ ~Contains(l, e[2]) THEN Append(l, e[2]) ELSE l
           After(f) == [i \in 0..n |-> IF i = 0 THEN <<>> ELSE Next1(f[i-1], edges[i])]
           succ == CHOOSE f : f = After(f)
           step == [a \in (1..n) \X Seq(N) |-> Next1(a[2], edges[a[1]])]
<1>1. n \in Nat /\ DOMAIN edges = 1..n /\ \A i \in 1..n : edges[i] \in N \X N
  BY LenProperties, ElementOfSeq
<1>2. ASSUME NEW i \in 1..n, NEW l \in Seq(N)
      PROVE  /\ Next1(l, edges[i]) \in Seq(N)
             /\ ToSet(Next1(l, edges[i])) =
                  ToSet(l) \cup {y \in N : edges[i] = <<x, y>>}
  <2>1. edges[i] = <<edges[i][1], edges[i][2]>> /\ edges[i][2] \in N
    BY <1>1
  <2>2. CASE edges[i][1] = x /\ ~Contains(l, edges[i][2])
    <3>1. Next1(l, edges[i]) = Append(l, edges[i][2])
      BY <2>2
    <3>2. {y \in N : edges[i] = <<x, y>>} = {edges[i][2]}
      BY <2>1, <2>2
    <3> HIDE DEF Next1
    <3> QED BY <2>1, <3>1, <3>2, Appended
  <2>3. CASE edges[i][1] = x /\ Contains(l, edges[i][2])
    <3>1. {y \in N : edges[i] = <<x, y>>} = {edges[i][2]}
      BY <2>1, <2>3
    <3>2. edges[i][2] \in ToSet(l)
      BY <2>3, InSequence
    <3> QED BY <2>3, <3>1, <3>2
  <2>4. CASE edges[i][1] # x
    <3>1. {y \in N : edges[i] = <<x, y>>} = {}
      BY <2>1, <2>4
    <3> QED BY <2>4, <3>1
  <2> QED BY <2>2, <2>3, <2>4
<1> HIDE DEF Next1
<1>3. PICK v : v \in Iteration(n, Seq(N), <<>>, step)
  <2>1. <<>> \in Seq(N)
    OBVIOUS
  <2>2. step \in [(1..n) \X Seq(N) -> Seq(N)]
    BY <1>2
  <2> HIDE DEF step, n
  <2>3. Iteration(n, Seq(N), <<>>, step) # {}
    BY <1>1, <2>1, <2>2, Iterates
  <2> QED BY <2>3
<1>4. v[0] = <<>> /\ \A i \in 1..n : v[i] = Next1(v[i-1], edges[i])
  <2>1. \A i \in 1..n : i - 1 \in 0..n
    BY <1>1
  <2>2. \A i \in 1..n : v[i-1] \in Seq(N)
    BY <1>3, <2>1 DEF Iteration
  <2>3. \A i \in 1..n : step[<<i, v[i-1]>>] = Next1(v[i-1], edges[i])
    BY <2>2
  <2> HIDE DEF step
  <2> QED BY <1>3, <2>3 DEF Iteration
<1>5. v = After(v)
  <2>1. \A i \in 0..n : i # 0 => i \in 1..n
    BY <1>1
  <2>2. v = [i \in 0..n |-> v[i]]
    BY <1>3 DEF Iteration
  <2>3. \A i \in 0..n : v[i] = IF i = 0 THEN <<>> ELSE Next1(v[i-1], edges[i])
    BY <1>4, <2>1
  <2> QED BY <2>2, <2>3
<1>6. succ = After(succ)
  <2> HIDE DEF After
  <2> QED BY <1>5
<1>7. Successors(x, edges) = succ[n]
  BY DEF Successors, Next1
<1> HIDE DEF succ
<1> DEFINE Good(i, l) == /\ l \in Seq(N)
                         /\ \A y : y \in ToSet(l) <=> \E k \in 1..i : edges[k] = <<x, y>>
           h == [i \in 0..n |-> Good(i, succ[i])]
<1>8. h[0] \in {TRUE}
  <2>1. 0 \in 0..n
    BY <1>1
  <2>2. succ[0] = <<>>
    BY <1>6, <2>1
  <2>3. ToSet(<<>>) = {}
    BY DEF ToSet
  <2>4. Good(0, <<>>)
    BY <2>3
  <2> QED BY <2>1, <2>2, <2>4
<1>9. ASSUME NEW i \in 0+1..n, h[i-1] \in {TRUE} PROVE h[i] \in {TRUE}
  <2>1. i \in 1..n /\ i - 1 \in 0..n /\ i \in 0..n /\ i # 0
    BY <1>1
  <2>2. Good(i-1, succ[i-1])
    BY <1>9, <2>1
  <2>3. succ[i] = Next1(succ[i-1], edges[i])
    BY <1>6, <2>1
  <2>4. succ[i] \in Seq(N) /\ ToSet(succ[i]) = ToSet(succ[i-1]) \cup {y \in N : edges[i] = <<x, y>>}
    BY <1>2, <2>1, <2>2, <2>3
  <2>5. 1..i = (1..i-1) \cup {i}
    BY <2>1
  <2>6. \A y : edges[i] = <<x, y>> => y \in N
    BY <1>1, <2>1
  <2>7. Good(i, succ[i])
    BY <2>2, <2>4, <2>5, <2>6
  <2> HIDE DEF Good
  <2> QED BY <2>1, <2>7
<1>10. \A i \in 0..n : h[i] \in {TRUE}
  <2> HIDE DEF h, n
  <2> QED BY <1>1, <1>8, <1>9, Onwards
<1>11. Good(n, succ[n])
  <2>1. n \in 0..n
    BY <1>1
  <2> HIDE DEF Good
  <2> QED BY <1>10, <2>1
<1> QED BY <1>1, <1>7, <1>11 DEF ToSet

\* The direct superclasses are among the classes numbered before c, and so are the classes of
\* their lists, each of which begins with the superclass.
Known(c, supers, lists) ==
  /\ c \in Nat \ {0} /\ supers \in Seq(1..c-1)
  /\ \A i \in DOMAIN supers :
       /\ lists[supers[i]] \in Seq(1..c-1)
       /\ 1 <= Len(lists[supers[i]]) /\ lists[supers[i]][1] = supers[i]

LEMMA AncestorsOf ==
  ASSUME NEW c, NEW supers, NEW lists, Known(c, supers, lists)
  PROVE  /\ Ancestors(c, supers, lists) \subseteq 1..c
         /\ IsFiniteSet(Ancestors(c, supers, lists))
         /\ c \in Ancestors(c, supers, lists)
         /\ \A i \in DOMAIN supers : /\ ToSet(lists[supers[i]]) \subseteq Ancestors(c, supers, lists)
                                     /\ supers[i] \in Ancestors(c, supers, lists)
<1> DEFINE N == Ancestors(c, supers, lists)
<1>1. c \in Nat \ {0} /\ 1..c-1 \subseteq 1..c /\ c \in 1..c
  BY DEF Known
<1>2. ASSUME NEW i \in DOMAIN supers
      PROVE  ToSet(lists[supers[i]]) \subseteq 1..c-1 /\ supers[i] \in ToSet(lists[supers[i]])
  <2>1. lists[supers[i]] \in Seq(1..c-1) /\ 1 <= Len(lists[supers[i]]) /\ lists[supers[i]][1] = supers[i]
    BY DEF Known
  <2>2. DOMAIN lists[supers[i]] = 1..Len(lists[supers[i]]) /\ Len(lists[supers[i]]) \in Nat
    BY <2>1, LenProperties
  <2>3. 1 \in DOMAIN lists[supers[i]]
    BY <2>1, <2>2
  <2> QED BY <2>1, <2>3, InSequence DEF ToSet
<1>3. N \subseteq 1..c
  BY <1>1, <1>2 DEF Ancestors
<1>4. IsFiniteSet(N)
  <2>1. IsFiniteSet(1..c)
    BY <1>1, FS_Interval
  <2> HIDE DEF N
  <2> QED BY <1>3, <2>1, FS_Subset
<1> QED BY <1>1, <1>2, <1>3, <1>4 DEF Ancestors

\* The pairs of neighbours.
LEMMA NeighboursOf ==
  ASSUME NEW S, NEW list \in Seq(S)
  PROVE  /\ Neighbours(list) \in Seq(S \X S)
         /\ ToSet(Neighbours(list)) = {<<list[j], list[j+1]>> : j \in 1..Len(list)-1}
<1> DEFINE n == Len(list)
<1>1. n \in Nat /\ \A i \in 1..n : list[i] \in S
  BY LenProperties, ElementOfSeq
<1>2. CASE n = 0
  <2>1. 1..n-1 = {}
    BY <1>2
  <2>2. Neighbours(list) = [j \in {} |-> <<list[j], list[j+1]>>]
    BY <2>1 DEF Neighbours
  <2>3. Neighbours(list) \in [1..0 -> S \X S]
    BY <2>2
  <2>4. Neighbours(list) \in Seq(S \X S)
    <3>1. 0 \in Nat
      OBVIOUS
    <3> QED BY <2>3, <3>1, SeqDef
  <2>5. ToSet(Neighbours(list)) = {}
    BY <2>2 DEF ToSet
  <2>6. {<<list[j], list[j+1]>> : j \in 1..n-1} = {}
    BY <2>1
  <2> HIDE DEF n
  <2> QED BY <2>4, <2>5, <2>6 DEF n
<1>3. CASE n # 0
  <2>1. n - 1 \in Nat /\ \A j \in 1..n-1 : j \in 1..n /\ j + 1 \in 1..n
    BY <1>1, <1>3
  <2>2. Neighbours(list) \in [1..n-1 -> S \X S]
    BY <1>1, <2>1 DEF Neighbours
  <2>3. Neighbours(list) \in Seq(S \X S)
    BY <2>1, <2>2, SeqDef
  <2>4. ToSet(Neighbours(list)) = {<<list[j], list[j+1]>> : j \in 1..n-1}
    BY DEF ToSet, Neighbours
  <2> QED BY <2>3, <2>4
<1> QED BY <1>1, <1>2, <1>3

LEMMA GraphOf ==
  ASSUME NEW c, NEW supers, NEW lists, Known(c, supers, lists)
  PROVE  LET N == Ancestors(c, supers, lists)
             G == Graph(c, supers, lists)
         IN  /\ G \in [N -> Seq(N)]
             /\ \A x \in N : c \notin ToSet(G[x])
             /\ \A i \in DOMAIN supers : supers[i] \in ToSet(G[c])
             /\ \A i \in DOMAIN supers : \A j \in 1..Len(lists[supers[i]])-1 :
                  lists[supers[i]][j+1] \in ToSet(G[lists[supers[i]][j]])
<1> DEFINE N    == Ancestors(c, supers, lists)
           G    == Graph(c, supers, lists)
           M    == 1..c-1
           E(i) == << <<c, supers[i]>> >> \o Neighbours(lists[supers[i]])
           es   == [i \in DOMAIN supers |-> E(i)]
           edges == Edges(c, supers, lists)
<1>1. /\ c \in Nat /\ c \notin M /\ supers \in Seq(M) /\ Len(supers) \in Nat
      /\ DOMAIN supers = 1..Len(supers) /\ \A i \in DOMAIN supers : supers[i] \in M
  <2>1. c \in Nat /\ c \notin M /\ supers \in Seq(M)
    BY DEF Known
  <2> QED BY <2>1, LenProperties, ElementOfSeq
<1>2. /\ c \in N
      /\ \A i \in DOMAIN supers : ToSet(lists[supers[i]]) \subseteq N /\ supers[i] \in N
  BY AncestorsOf
<1> HIDE DEF N
<1> DEFINE T == N \cap M
<1>3. ASSUME NEW i \in DOMAIN supers
      PROVE  /\ lists[supers[i]] \in Seq(T)
             /\ E(i) \in Seq(N \X T)
             /\ ToSet(E(i)) = {<<c, supers[i]>>} \cup
                  {<<lists[supers[i]][j], lists[supers[i]][j+1]>> : j \in 1..Len(lists[supers[i]])-1}
  <2> DEFINE l == lists[supers[i]]
  <2>1. l \in Seq(M) /\ ToSet(l) \subseteq N /\ supers[i] \in T
    BY <1>1, <1>2 DEF Known
  <2> HIDE DEF l
  <2>2. l \in Seq(T)
    <3>1. \A j \in 1..Len(l) : l[j] \in M /\ l[j] \in ToSet(l)
      BY <2>1, ElementOfSeq, LenProperties DEF ToSet
    <3>2. l \in [1..Len(l) -> T] /\ Len(l) \in Nat
      BY <2>1, <3>1, LenProperties
    <3> QED BY <3>2, SeqDef
  <2>3. Neighbours(l) \in Seq(T \X T)
    BY <2>2, NeighboursOf
  <2>4. Neighbours(l) \in Seq(N \X T)
    <3>1. T \X T \subseteq N \X T
      OBVIOUS
    <3> QED BY <2>3, <3>1, SeqMonotonic
  <2>5. << <<c, supers[i]>> >> \in Seq(N \X T)
    <3>1. <<c, supers[i]>> \in N \X T
      BY <1>2, <2>1
    <3> QED BY <3>1
  <2>6. ToSet(<< <<c, supers[i]>> >>) = {<<c, supers[i]>>}
    BY DEF ToSet
  <2>7. ToSet(Neighbours(l)) = {<<l[j], l[j+1]>> : j \in 1..Len(l)-1}
    BY <2>1, NeighboursOf
  <2> DEFINE S    == N \X T
             one  == << <<c, supers[i]>> >>
             more == Neighbours(l)
  <2>8. E(i) \in Seq(S) /\ ToSet(E(i)) = ToSet(one) \cup ToSet(more)
    <3>1. one \in Seq(S) /\ more \in Seq(S) /\ E(i) = one \o more
      BY <2>4, <2>5 DEF l
    <3> HIDE DEF S, one, more, E
    <3> QED BY <3>1, ConcatSet
  <2> QED BY <2>2, <2>6, <2>7, <2>8 DEF l
<1> HIDE DEF E, T, M
<1>4. es \in Seq(Seq(N \X T))
  <2>1. es \in [1..Len(supers) -> Seq(N \X T)]
    BY <1>1, <1>3
  <2> HIDE DEF es
  <2> QED BY <1>1, <2>1, SeqDef
<1>5. edges = FlattenSeq(es)
  BY DEF Edges, E
<1> HIDE DEF edges
<1>6. edges \in Seq(N \X T) /\ ToSet(edges) = UNION {ToSet(es[i]) : i \in DOMAIN es}
  BY <1>4, <1>5, Flattened
<1>7. \A i \in DOMAIN supers : ToSet(E(i)) \subseteq ToSet(edges)
  BY <1>6
<1>8. ToSet(edges) \subseteq N \X T
  BY <1>6, InSequence
<1>9. edges \in Seq(N \X N)
  <2>1. N \X T \subseteq N \X N
    BY DEF T
  <2> QED BY <1>6, <2>1, SeqMonotonic
<1> HIDE DEF es
<1>10. G = [x \in N |-> Successors(x, edges)]
  BY DEF Graph, N, edges
<1> HIDE DEF G
<1>11. ASSUME NEW x \in N
       PROVE  G[x] \in Seq(N) /\ \A y : y \in ToSet(G[x]) <=> <<x, y>> \in ToSet(edges)
  BY <1>9, <1>10, SuccessorsOf
<1>12. G \in [N -> Seq(N)]
  BY <1>10, <1>11
<1>13. \A x \in N : c \notin ToSet(G[x])
  <2> SUFFICES ASSUME NEW x \in N, c \in ToSet(G[x]) PROVE FALSE
    OBVIOUS
  <2>1. <<x, c>> \in ToSet(edges)
    BY <1>11
  <2>2. c \in T
    BY <1>8, <2>1
  <2> QED BY <1>1, <2>2 DEF T
<1>14. \A i \in DOMAIN supers : supers[i] \in ToSet(G[c])
  <2>1. \A i \in DOMAIN supers : <<c, supers[i]>> \in ToSet(edges)
    BY <1>3, <1>7
  <2> QED BY <1>2, <1>11, <2>1
<1>15. ASSUME NEW i \in DOMAIN supers, NEW j \in 1..Len(lists[supers[i]])-1
       PROVE  lists[supers[i]][j+1] \in ToSet(G[lists[supers[i]][j]])
  <2>1. <<lists[supers[i]][j], lists[supers[i]][j+1]>> \in ToSet(edges)
    BY <1>3, <1>7
  <2>2. lists[supers[i]][j] \in N
    BY <1>8, <2>1
  <2> QED BY <1>11, <2>1, <2>2
<1> QED BY <1>12, <1>13, <1>14, <1>15 DEF N, G

LEMMA PositionOf ==
  ASSUME NEW list, Distinct(list), NEW i \in DOMAIN list
  PROVE  Position(list, list[i]) = i
BY DEF Position, Distinct

\* A list without repetition that is as long as a set has members, all of which it is made of,
\* has them all.
LEMMA AllThere ==
  ASSUME NEW N, IsFiniteSet(N), NEW list \in Seq(N), Distinct(list), ~(Len(list) < Cardinality(N))
  PROVE  ToSet(list) = N
<1> DEFINE n == Len(list)
<1>1. n \in Nat /\ list \in [1..n -> N] /\ DOMAIN list = 1..n
  BY LenProperties
<1>2. list \in Injection(1..n, N)
  BY <1>1 DEF Distinct, Injection, IsInjective
<1>3. Cardinality(1..n) <= Cardinality(N) /\ (Cardinality(1..n) = Cardinality(N) <=> list \in Surjection(1..n, N))
  BY <1>2, FS_Injection
<1>4. Cardinality(1..n) = n
  <2>1. Cardinality(1..n) = IF 1 > n THEN 0 ELSE n - 1 + 1
    BY <1>1, FS_Interval
  <2> QED BY <1>1, <2>1
<1>5. Cardinality(N) \in Nat
  BY FS_CardinalityType
<1>6. list \in Surjection(1..n, N)
  BY <1>1, <1>3, <1>4, <1>5
<1> QED BY <1>1, <1>6 DEF Surjection, ToSet

LEMMA WalkOf ==
  ASSUME NEW N, IsFiniteSet(N), NEW succ \in [N -> Seq(N)], NEW c \in N,
         \A x \in N : c \notin ToSet(succ[x])
  PROVE  /\ FromOn(N, succ, c, Walk(succ, c))
         /\ ~Shortcut(succ) => Orderly(N, succ, {}, Walk(succ, c))
<1> DEFINE into == Into(succ)
           w    == Step(N, succ)[<<c, into>>]
<1>1. DOMAIN succ = N
  OBVIOUS
<1>2. ASSUME NEW y \in N
      PROVE  into[y] = Cardinality(To(N, succ, {}, y)) /\ into[y] \in Int
  <2>1. \A p \in N : Contains(succ[p], y) <=> y \in ToSet(succ[p])
    <3> SUFFICES ASSUME NEW p \in N PROVE Contains(succ[p], y) <=> y \in ToSet(succ[p])
      OBVIOUS
    <3>1. succ[p] \in Seq(N)
      OBVIOUS
    <3> QED BY <3>1, InSequence
  <2>2. {p \in N : Contains(succ[p], y)} = To(N, succ, {}, y)
    BY <2>1 DEF To
  <2>3. into[y] = Cardinality(To(N, succ, {}, y))
    BY <1>1, <2>2 DEF Into
  <2>4. IsFiniteSet(To(N, succ, {}, y))
    <3>1. To(N, succ, {}, y) \in SUBSET N
      BY DEF To
    <3> QED BY <3>1, FS_Subset
  <2> QED BY <2>3, <2>4, FS_CardinalityType
<1>3. into \in Counts(N)
  <2>1. into = [y \in N |-> into[y]]
    BY <1>1 DEF Into
  <2> HIDE DEF into
  <2> QED BY <1>2, <2>1 DEF Counts
<1>4. Walk(succ, c) = w.list
  BY <1>1 DEF Walk, Step
<1>5. Step(N, succ) \in Walks(N, succ)
  BY StepWalks
<1> HIDE DEF into
<1>6. FromOn(N, succ, c, w.list) /\ (~Shortcut(succ) => OrderKept(N, succ, c, into, w))
  BY <1>3, <1>5 DEF Walks
<1>7. Counted(N, succ, {}, into) /\ MayEnter(N, succ, {}, c)
  BY <1>2 DEF Counted, MayEnter
<1> HIDE DEF w
<1>8. ~Shortcut(succ) => Orderly(N, succ, {}, w.list)
  BY <1>6, <1>7 DEF OrderKept
<1> QED BY <1>4, <1>6, <1>8

\* A precedence list, if there is one, is the class and then the classes above it, each once; if
\* the walk met no shortcut it has the successors of a class after it.
LEMMA PrecedenceListOf ==
  ASSUME NEW c, NEW supers, NEW lists, Known(c, supers, lists),
         PrecedenceList(c, supers, lists) # <<>>
  PROVE  LET list == PrecedenceList(c, supers, lists)
             N    == Ancestors(c, supers, lists)
             G    == Graph(c, supers, lists)
         IN  /\ list \in Seq(1..c) /\ ToSet(list) = N /\ Distinct(list)
             /\ 1 <= Len(list) /\ list[1] = c
             /\ ~Shortcut(G) =>
                  \A x \in N : \A y \in ToSet(G[x]) : Position(list, x) < Position(list, y)
<1> DEFINE N == Ancestors(c, supers, lists)
           G == Graph(c, supers, lists)
           list == Walk(G, c)
<1>1. N \subseteq 1..c /\ IsFiniteSet(N) /\ c \in N
  BY AncestorsOf
<1>2. G \in [N -> Seq(N)] /\ \A x \in N : c \notin ToSet(G[x])
  BY GraphOf
<1>3. PrecedenceList(c, supers, lists) = list /\ ~(Len(list) < Cardinality(N))
  BY DEF PrecedenceList
<1> HIDE DEF N, G
<1>4. FromOn(N, G, c, list) /\ (~Shortcut(G) => Orderly(N, G, {}, list))
  BY <1>1, <1>2, WalkOf
<1> HIDE DEF list
<1>5. list \in Seq(N) /\ Distinct(list) /\ 1 <= Len(list) /\ list[1] = c
  BY <1>4 DEF FromOn
<1>6. ToSet(list) = N
  BY <1>1, <1>3, <1>5, AllThere
<1>7. list \in Seq(1..c)
  BY <1>1, <1>5, SeqMonotonic
<1>8. ASSUME ~Shortcut(G), NEW x \in N, NEW y \in ToSet(G[x])
      PROVE  Position(list, x) < Position(list, y)
  <2>0. DOMAIN list = 1..Len(list) /\ Len(list) \in Nat
    BY <1>5, LenProperties
  <2>1. y \in N
    <3>1. G[x] \in Seq(N)
      BY <1>2
    <3> QED BY <3>1, InSequence
  <2>2. PICK j \in 1..Len(list) : list[j] = y
    BY <1>6, <2>0, <2>1 DEF ToSet
  <2>3. PICK i \in 1..j-1 : list[i] = x
    BY <1>4, <1>8, <2>2 DEF Orderly
  <2>4. i \in DOMAIN list /\ j \in DOMAIN list /\ i < j
    BY <2>0, <2>2, <2>3
  <2>5. Position(list, x) = i /\ Position(list, y) = j
    BY <1>5, <2>2, <2>3, <2>4, PositionOf
  <2> QED BY <2>4, <2>5
<1> QED BY <1>3, <1>5, <1>6, <1>7, <1>8 DEF N, G

-----------------------------------------------------------------------------
(* The slots of a class. *)

Descriptor == [getter : Getter, to : {"own", "ins", "each"}]

\* No getter is there twice.
NoClash(descs) == \A i, j \in 1..Len(descs) : descs[i].getter = descs[j].getter => i = j

LEMMA GoingTo ==
  ASSUME NEW descs \in Seq(Descriptor), NEW to
  PROVE  /\ Going(descs, to) \in Seq(Getter)
         /\ \A x : x \in ToSet(Going(descs, to)) <=>
                     \E i \in 1..Len(descs) : descs[i].to = to /\ descs[i].getter = x
         /\ NoClash(descs) => Distinct(Going(descs, to))
<1> DEFINE n == Len(descs)
           Next1(l, e) == IF e.to = to THEN Append(l, e.getter) ELSE l
           After(f) == [i \in 0..n |-> IF i = 0 THEN <<>> ELSE Next1(f[i-1], descs[i])]
           there == CHOOSE f : f = After(f)
           step == [a \in (1..n) \X Seq(Getter) |-> Next1(a[2], descs[a[1]])]
           Good(i, l) == /\ l \in Seq(Getter)
                         /\ \A x : x \in ToSet(l) <=> \E k \in 1..i : descs[k].to = to /\ descs[k].getter = x
                         /\ NoClash(descs) => Distinct(l)
           h == [i \in 0..n |-> Good(i, there[i])]
<1>1. n \in Nat /\ \A i \in 1..n : descs[i] \in Descriptor /\ descs[i].getter \in Getter
  <2>1. n \in Nat /\ \A i \in 1..n : descs[i] \in Descriptor
    BY LenProperties, ElementOfSeq
  <2> QED BY <2>1 DEF Descriptor
<1>2. ASSUME NEW i \in 1..n, NEW l \in Seq(Getter) PROVE Next1(l, descs[i]) \in Seq(Getter)
  BY <1>1, AppendProperties
<1>3. ASSUME NEW i \in 1..n, NEW l, Good(i-1, l) PROVE Good(i, Next1(l, descs[i]))
  <2>1. i \in Nat /\ 1..i = (1..i-1) \cup {i} /\ i \notin 1..i-1
    BY <1>1
  <2>2. CASE descs[i].to = to
    <3> DEFINE q == Append(l, descs[i].getter)
    <3>1. /\ q \in Seq(Getter) /\ ToSet(q) = ToSet(l) \cup {descs[i].getter}
          /\ Distinct(l) /\ descs[i].getter \notin ToSet(l) => Distinct(q)
      BY <1>1, <1>3, Appended
    <3>2. NoClash(descs) => descs[i].getter \notin ToSet(l)
      <4> SUFFICES ASSUME NoClash(descs), descs[i].getter \in ToSet(l) PROVE FALSE
        OBVIOUS
      <4>1. PICK k \in 1..i-1 : descs[k].getter = descs[i].getter
        BY <1>3
      <4>2. k \in 1..n /\ k # i
        BY <1>1, <2>1, <4>1
      <4> QED BY <4>1, <4>2 DEF NoClash
    <3>3. Next1(l, descs[i]) = q
      BY <2>2
    <3> HIDE DEF q, Next1
    <3>4. \A x : x \in ToSet(q) <=> \E k \in 1..i : descs[k].to = to /\ descs[k].getter = x
      BY <1>3, <2>1, <2>2, <3>1
    <3> QED BY <1>3, <3>1, <3>2, <3>3, <3>4
  <2>3. CASE descs[i].to # to
    <3>1. Next1(l, descs[i]) = l
      BY <2>3
    <3> HIDE DEF Next1
    <3>2. \A x : x \in ToSet(l) <=> \E k \in 1..i : descs[k].to = to /\ descs[k].getter = x
      BY <1>3, <2>1, <2>3
    <3> QED BY <1>3, <3>1, <3>2
  <2> QED BY <2>2, <2>3
<1> HIDE DEF Next1
<1>4. PICK v : v \in Iteration(n, Seq(Getter), <<>>, step)
  <2>1. <<>> \in Seq(Getter)
    OBVIOUS
  <2>2. step \in [(1..n) \X Seq(Getter) -> Seq(Getter)]
    BY <1>2
  <2> HIDE DEF step, n
  <2>3. Iteration(n, Seq(Getter), <<>>, step) # {}
    BY <1>1, <2>1, <2>2, Iterates
  <2> QED BY <2>3
<1>5. v[0] = <<>> /\ \A i \in 1..n : v[i] = Next1(v[i-1], descs[i])
  <2>1. \A i \in 1..n : i - 1 \in 0..n
    BY <1>1
  <2>2. \A i \in 1..n : v[i-1] \in Seq(Getter)
    BY <1>4, <2>1 DEF Iteration
  <2>3. \A i \in 1..n : step[<<i, v[i-1]>>] = Next1(v[i-1], descs[i])
    BY <2>2
  <2> HIDE DEF step
  <2> QED BY <1>4, <2>3 DEF Iteration
<1>6. v = After(v)
  <2>1. \A i \in 0..n : i # 0 => i \in 1..n
    BY <1>1
  <2>2. v = [i \in 0..n |-> v[i]]
    BY <1>4 DEF Iteration
  <2>3. \A i \in 0..n : v[i] = IF i = 0 THEN <<>> ELSE Next1(v[i-1], descs[i])
    BY <1>5, <2>1
  <2> QED BY <2>2, <2>3
<1>7. there = After(there)
  <2> HIDE DEF After
  <2> QED BY <1>6
<1>8. Going(descs, to) = there[n]
  BY DEF Going, Next1
<1> HIDE DEF there
<1>9. h[0] \in {TRUE}
  <2>1. 0 \in 0..n
    BY <1>1
  <2>2. there[0] = <<>>
    BY <1>7, <2>1
  <2>3. ToSet(<<>>) = {} /\ Distinct(<<>>)
    BY DEF ToSet, Distinct
  <2>4. Good(0, <<>>)
    BY <2>3
  <2> QED BY <2>1, <2>2, <2>4
<1>10. ASSUME NEW i \in 0+1..n, h[i-1] \in {TRUE} PROVE h[i] \in {TRUE}
  <2>1. i \in 1..n /\ i - 1 \in 0..n /\ i \in 0..n /\ i # 0
    BY <1>1
  <2>2. there[i] = Next1(there[i-1], descs[i])
    BY <1>7, <2>1
  <2> HIDE DEF Good
  <2>3. Good(i-1, there[i-1])
    BY <1>10, <2>1
  <2> QED BY <1>3, <2>1, <2>2, <2>3
<1>11. \A i \in 0..n : h[i] \in {TRUE}
  <2> HIDE DEF h, n
  <2> QED BY <1>1, <1>9, <1>10, Onwards
<1>12. Good(n, there[n])
  <2>1. n \in 0..n
    BY <1>1
  <2> HIDE DEF Good
  <2> QED BY <1>11, <2>1
<1> QED BY <1>8, <1>12

LEMMA GoingFrom ==
  ASSUME NEW descs \in Seq(Descriptor), NEW to, NEW x \in ToSet(Going(descs, to))
  PROVE  \E i \in 1..Len(descs) : descs[i].to = to /\ descs[i].getter = x
BY GoingTo

LEMMA UpToDuplicateOf ==
  ASSUME NEW descs \in Seq(Descriptor)
  PROVE  /\ UpToDuplicate(descs) \in Seq(Descriptor)
         /\ UpToDuplicate(descs) = descs => NoClash(descs)
<1> DEFINE n    == Len(descs)
           dups == {i \in DOMAIN descs : \E j \in 1..(i-1) : descs[j].getter = descs[i].getter}
           m    == CHOOSE i \in dups : \A j \in dups : i <= j
<1>1. n \in Nat /\ DOMAIN descs = 1..n /\ \A i \in 1..n : descs[i] \in Descriptor
  BY LenProperties, ElementOfSeq
<1>2. CASE dups = {}
  <2>1. UpToDuplicate(descs) = descs
    BY <1>2 DEF UpToDuplicate
  <2>2. NoClash(descs)
    <3> SUFFICES ASSUME NEW i \in 1..n, NEW j \in 1..n, descs[i].getter = descs[j].getter, i < j PROVE FALSE
      BY <1>1 DEF NoClash
    <3>1. i \in 1..(j-1) /\ j \in DOMAIN descs
      BY <1>1
    <3>2. j \in dups
      BY <3>1
    <3> QED BY <1>2, <3>2
  <2> QED BY <2>1, <2>2
<1>3. CASE dups # {}
  <2>1. dups \subseteq Nat
    BY <1>1
  <2>2. m \in dups
    <3> HIDE DEF dups
    <3> QED BY <1>3, <2>1, MinExists
  <2>3. m \in 1..n
    <3> HIDE DEF m
    <3> QED BY <1>1, <2>2
  <2>4. UpToDuplicate(descs) = SubSeq(descs, 1, m - 1)
    BY <1>3 DEF UpToDuplicate
  <2> HIDE DEF m, dups
  <2>5. 1 \in Int /\ m - 1 \in Int /\ \A i \in 1..m-1 : descs[i] \in Descriptor
    BY <1>1, <2>3
  <2>6. SubSeq(descs, 1, m - 1) \in Seq(Descriptor) /\ Len(SubSeq(descs, 1, m - 1)) = IF 1 <= m - 1 THEN m - 1 - 1 + 1 ELSE 0
    BY <2>5, SubSeqProperties
  <2>7. Len(SubSeq(descs, 1, m - 1)) # n
    BY <1>1, <2>3, <2>6
  <2> QED BY <2>4, <2>6, <2>7
<1> QED BY <1>2, <1>3

LEMMA AddedOf ==
  ASSUME NEW slots \in Seq(Slot)
  PROVE  Added(slots) \in Seq(Descriptor)
<1>1. Len(slots) \in Nat /\ DOMAIN slots = 1..Len(slots) /\ \A i \in 1..Len(slots) : slots[i].getter \in Getter
  <2>1. Len(slots) \in Nat /\ DOMAIN slots = 1..Len(slots) /\ \A i \in 1..Len(slots) : slots[i] \in Slot
    BY LenProperties, ElementOfSeq
  <2> QED BY <2>1 DEF Slot
<1>2. Added(slots) \in [1..Len(slots) -> Descriptor]
  BY <1>1 DEF Added, Descriptor
<1> QED BY <1>1, <1>2, SeqDef

LEMMA ConcatDistinct ==
  ASSUME NEW S, NEW s \in Seq(S), NEW t \in Seq(S), Distinct(s), Distinct(t),
         \A x \in ToSet(s) : x \notin ToSet(t)
  PROVE  Distinct(s \o t)
<1> DEFINE new == s \o t
<1>1. /\ new \in Seq(S) /\ Len(new) = Len(s) + Len(t)
      /\ \A i \in 1..Len(s)+Len(t) : new[i] = IF i <= Len(s) THEN s[i] ELSE t[i - Len(s)]
  BY ConcatProperties
<1>2. /\ Len(s) \in Nat /\ Len(t) \in Nat
      /\ DOMAIN s = 1..Len(s) /\ DOMAIN t = 1..Len(t) /\ DOMAIN new = 1..Len(s)+Len(t)
  BY <1>1, LenProperties
<1> HIDE DEF new
<1>3. ASSUME NEW i \in 1..Len(s)+Len(t)
      PROVE  \/ i \in DOMAIN s /\ new[i] = s[i] /\ new[i] \in ToSet(s)
             \/ i - Len(s) \in DOMAIN t /\ new[i] = t[i - Len(s)] /\ new[i] \in ToSet(t)
  <2>1. CASE i <= Len(s)
    <3>1. i \in DOMAIN s
      BY <1>2, <2>1
    <3> QED BY <1>1, <2>1, <3>1 DEF ToSet
  <2>2. CASE ~(i <= Len(s))
    <3>1. i - Len(s) \in DOMAIN t
      BY <1>2, <2>2
    <3> QED BY <1>1, <2>2, <3>1 DEF ToSet
  <2> QED BY <2>1, <2>2
<1>4. ASSUME NEW i \in 1..Len(s)+Len(t), NEW j \in 1..Len(s)+Len(t), new[i] = new[j] PROVE i = j
  <2>1. CASE i \in DOMAIN s /\ new[i] = s[i] /\ new[i] \in ToSet(s)
    BY <1>3, <1>4, <2>1 DEF Distinct
  <2>2. CASE i - Len(s) \in DOMAIN t /\ new[i] = t[i - Len(s)] /\ new[i] \in ToSet(t)
    <3>1. j - Len(s) \in DOMAIN t /\ new[j] = t[j - Len(s)]
      BY <1>3, <1>4, <2>2
    <3>2. i - Len(s) = j - Len(s)
      BY <1>4, <2>2, <3>1 DEF Distinct
    <3> QED BY <1>2, <3>2
  <2> QED BY <1>3, <2>1, <2>2
<1> QED BY <1>2, <1>4 DEF Distinct, new

LEMMA ReversedTail ==
  ASSUME NEW S, NEW s \in Seq(S), 1 <= Len(s)
  PROVE  /\ Reverse(Tail(s)) \in Seq(S)
         /\ ToSet(Reverse(Tail(s))) = {s[i] : i \in 2..Len(s)}
<1> DEFINE t == Tail(s)
<1>1. s # <<>> /\ Len(s) \in Nat
  BY LenProperties, EmptySeq
<1>2. t \in Seq(S) /\ Len(t) = Len(s) - 1 /\ \A i \in 1..Len(t) : t[i] = s[i+1]
  BY <1>1, HeadTailProperties
<1> HIDE DEF t
<1> DEFINE n == Len(t)
<1>3. n \in Nat /\ \A i \in 1..n : t[i] \in S /\ (n - i) + 1 \in 1..n
  BY <1>2, LenProperties, ElementOfSeq
<1>4. Reverse(t) = [i \in 1..n |-> t[(n - i) + 1]]
  BY DEF Reverse
<1>5. Reverse(t) \in [1..n -> S]
  BY <1>3, <1>4
<1>6. ToSet(Reverse(t)) = {t[i] : i \in 1..n}
  <2>1. ToSet(Reverse(t)) = {t[(n - i) + 1] : i \in 1..n}
    BY <1>4 DEF ToSet
  <2>2. \A i \in 1..n : i = (n - ((n - i) + 1)) + 1
    BY <1>3
  <2>3. {t[(n - i) + 1] : i \in 1..n} \subseteq {t[i] : i \in 1..n}
    BY <1>3
  <2>4. ASSUME NEW i \in 1..n PROVE t[i] \in {t[(n - k) + 1] : k \in 1..n}
    <3>1. (n - i) + 1 \in 1..n /\ t[i] = t[(n - ((n - i) + 1)) + 1]
      BY <1>3, <2>2
    <3> QED BY <3>1
  <2> QED BY <2>1, <2>3, <2>4
<1>7. {t[i] : i \in 1..n} = {s[i] : i \in 2..Len(s)}
  <2>1. \A i \in 1..n : i + 1 \in 2..Len(s) /\ t[i] = s[i+1]
    BY <1>1, <1>2
  <2>2. \A i \in 2..Len(s) : i - 1 \in 1..n /\ (i - 1) + 1 = i
    BY <1>1, <1>2
  <2>3. \A i \in 2..Len(s) : t[i-1] = s[i]
    BY <1>2, <2>2
  <2>4. {t[i] : i \in 1..n} \subseteq {s[i] : i \in 2..Len(s)}
    BY <2>1
  <2>5. {s[i] : i \in 2..Len(s)} \subseteq {t[i] : i \in 1..n}
    <3> SUFFICES ASSUME NEW i \in 2..Len(s) PROVE s[i] \in {t[k] : k \in 1..n}
      OBVIOUS
    <3>1. i - 1 \in 1..n /\ t[i-1] = s[i]
      BY <2>2, <2>3
    <3> HIDE DEF n
    <3> QED BY <3>1
  <2> QED BY <2>4, <2>5
<1>8. Reverse(t) \in Seq(S)
  BY <1>3, <1>5, SeqDef
<1> QED BY <1>6, <1>7, <1>8 DEF t

\* The classes made so far.
LEMMA Records ==
  ASSUME classes \in Seq(ClassRecord)
  PROVE  /\ Len(classes) \in Nat /\ DOMAIN classes = 1..Len(classes)
         /\ \A d \in DOMAIN classes :
              /\ classes[d] \in ClassRecord
              /\ classes[d].own \in Seq(Getter) /\ classes[d].ins \in Seq(Getter)
              /\ classes[d].each \in Seq(Getter)
              /\ classes[d].uninit \in BOOLEAN /\ classes[d].sealed \in BOOLEAN
              /\ classes[d].made \in BOOLEAN
<1>1. Len(classes) \in Nat /\ DOMAIN classes = 1..Len(classes) /\ \A d \in DOMAIN classes : classes[d] \in ClassRecord
  BY LenProperties, ElementOfSeq
<1> QED BY <1>1 DEF ClassRecord

LEMMA InheritedOf ==
  ASSUME classes \in Seq(ClassRecord), NEW supers \in Seq(DOMAIN classes)
  PROVE  /\ Inherited(supers) \in Seq(Descriptor)
         /\ \A d \in ToSet(supers) : \A x \in ToSet(classes[d].own) :
              \E i \in 1..Len(Inherited(supers)) :
                Inherited(supers)[i].to = "ins" /\ Inherited(supers)[i].getter = x
<1> DEFINE A(i) == [j \in DOMAIN classes[supers[i]].own |-> [getter |-> classes[supers[i]].own[j], to |-> "ins"]]
           B(i) == [j \in DOMAIN classes[supers[i]].each |-> [getter |-> classes[supers[i]].each[j], to |-> "each"]]
           es   == [i \in DOMAIN supers |-> A(i) \o B(i)]
<1>1. Len(supers) \in Nat /\ DOMAIN supers = 1..Len(supers) /\ \A i \in DOMAIN supers : supers[i] \in DOMAIN classes
  BY LenProperties, ElementOfSeq
<1>2. ASSUME NEW l \in Seq(Getter), NEW to \in {"own", "ins", "each"}
      PROVE  /\ [j \in DOMAIN l |-> [getter |-> l[j], to |-> to]] \in Seq(Descriptor)
             /\ ToSet([j \in DOMAIN l |-> [getter |-> l[j], to |-> to]]) = {[getter |-> x, to |-> to] : x \in ToSet(l)}
  <2>1. Len(l) \in Nat /\ DOMAIN l = 1..Len(l) /\ \A j \in 1..Len(l) : l[j] \in Getter
    BY LenProperties, ElementOfSeq
  <2>2. [j \in DOMAIN l |-> [getter |-> l[j], to |-> to]] \in [1..Len(l) -> Descriptor]
    BY <2>1 DEF Descriptor
  <2>3. [j \in DOMAIN l |-> [getter |-> l[j], to |-> to]] \in Seq(Descriptor)
    BY <2>1, <2>2, SeqDef
  <2> QED BY <2>3 DEF ToSet
<1>3. ASSUME NEW i \in DOMAIN supers
      PROVE  /\ A(i) \o B(i) \in Seq(Descriptor)
             /\ \A x \in ToSet(classes[supers[i]].own) : [getter |-> x, to |-> "ins"] \in ToSet(A(i) \o B(i))
  <2>1. classes[supers[i]].own \in Seq(Getter) /\ classes[supers[i]].each \in Seq(Getter)
    BY <1>1, Records
  <2>2. A(i) \in Seq(Descriptor) /\ ToSet(A(i)) = {[getter |-> x, to |-> "ins"] : x \in ToSet(classes[supers[i]].own)}
    BY <1>2, <2>1
  <2>3. B(i) \in Seq(Descriptor)
    BY <1>2, <2>1
  <2> HIDE DEF A, B
  <2>4. A(i) \o B(i) \in Seq(Descriptor) /\ ToSet(A(i) \o B(i)) = ToSet(A(i)) \cup ToSet(B(i))
    BY <2>2, <2>3, ConcatSet
  <2> QED BY <2>2, <2>4
<1>4. Inherited(supers) = FlattenSeq(es)
  BY DEF Inherited
<1> HIDE DEF A, B
<1>5. es \in Seq(Seq(Descriptor))
  <2> DEFINE T == Seq(Descriptor)
             n == Len(supers)
  <2>1. es \in [1..n -> T]
    BY <1>1, <1>3
  <2>2. n \in Nat
    BY <1>1
  <2> HIDE DEF es, T, n
  <2>3. es \in Seq(T)
    BY <2>1, <2>2, SeqDef
  <2> QED BY <2>3 DEF T
<1>6. FlattenSeq(es) \in Seq(Descriptor) /\ ToSet(FlattenSeq(es)) = UNION {ToSet(es[i]) : i \in DOMAIN es}
  BY <1>5, Flattened
<1>7. ASSUME NEW d \in ToSet(supers), NEW x \in ToSet(classes[d].own)
      PROVE  \E i \in 1..Len(Inherited(supers)) :
               Inherited(supers)[i].to = "ins" /\ Inherited(supers)[i].getter = x
  <2>1. PICK i \in DOMAIN supers : supers[i] = d
    BY DEF ToSet
  <2>2. [getter |-> x, to |-> "ins"] \in ToSet(es[i]) /\ i \in DOMAIN es
    BY <1>3, <2>1
  <2>3. [getter |-> x, to |-> "ins"] \in ToSet(Inherited(supers))
    BY <1>4, <1>6, <2>2
  <2>4. DOMAIN Inherited(supers) = 1..Len(Inherited(supers))
    BY <1>4, <1>6, LenProperties
  <2>5. PICK k \in 1..Len(Inherited(supers)) : Inherited(supers)[k] = [getter |-> x, to |-> "ins"]
    BY <2>3, <2>4 DEF ToSet
  <2> QED BY <2>5
<1> QED BY <1>4, <1>6, <1>7

LEMMA UpToSealedOf ==
  ASSUME NEW S, NEW general \in Seq(S)
  PROVE  UpToSealed(general) \in Seq(S)
<1> DEFINE n      == Len(general)
           closed == {i \in DOMAIN general : classes[general[i]].sealed}
           m      == CHOOSE i \in closed : \A j \in closed : i <= j
<1>1. n \in Nat /\ DOMAIN general = 1..n /\ \A i \in 1..n : general[i] \in S
  BY LenProperties, ElementOfSeq
<1>2. CASE closed = {}
  BY <1>2 DEF UpToSealed
<1>3. CASE closed # {}
  <2>1. closed \subseteq Nat
    BY <1>1
  <2>2. m \in closed
    <3> HIDE DEF closed
    <3> QED BY <1>3, <2>1, MinExists
  <2>3. m \in 1..n
    <3> HIDE DEF m
    <3> QED BY <1>1, <2>2
  <2>4. UpToSealed(general) = SubSeq(general, 1, m - 1)
    BY <1>3 DEF UpToSealed
  <2> HIDE DEF m, closed
  <2>5. 1 \in Int /\ m - 1 \in Int /\ \A i \in 1..m-1 : general[i] \in S
    BY <1>1, <2>3
  <2>6. SubSeq(general, 1, m - 1) \in Seq(S)
    BY <2>5, SubSeqProperties
  <2> QED BY <2>4, <2>6
<1> QED BY <1>2, <1>3

-----------------------------------------------------------------------------
(* make_class. *)

ListsOf(cs) == [d \in DOMAIN cs |-> cs[d].cpl]

\* A class comes after its superclasses, which have lists; its list is what the walk makes it.
InOrder(cs, c) ==
  /\ Known(c, cs[c].supers, ListsOf(cs))
  /\ cs[c].cpl # <<>> =>
       /\ cs[c].cpl \in Seq(1..c) /\ Distinct(cs[c].cpl)
       /\ 1 <= Len(cs[c].cpl) /\ cs[c].cpl[1] = c
       /\ ToSet(cs[c].cpl) = Ancestors(c, cs[c].supers, ListsOf(cs))
       /\ ~Shortcut(Graph(c, cs[c].supers, ListsOf(cs))) =>
            \A x \in Ancestors(c, cs[c].supers, ListsOf(cs)) :
              \A y \in ToSet(Graph(c, cs[c].supers, ListsOf(cs))[x]) :
                Position(cs[c].cpl, x) < Position(cs[c].cpl, y)

\* The instance slots of a class are read by different getters, the class slots by others.
Apart(r) ==
  /\ Distinct(r.ins \o r.own) /\ Distinct(r.each)
  /\ \A x \in ToSet(r.ins \o r.own) : x \notin ToSet(r.each)

\* So they are when the class has been made, and the own slots of the classes above are there.
SlotsThere(cs, c) ==
  cs[c].made =>
    /\ cs[c].cpl # <<>> /\ Apart(cs[c])
    /\ \A d \in ToSet(cs[c].cpl) : ToSet(cs[d].own) \subseteq ToSet(cs[c].ins \o cs[c].own)

\* A record of cs is in ds, but for what changes later.
KeptIn(cs, ds, c) ==
  /\ c \in DOMAIN ds
  /\ ds[c].name = cs[c].name /\ ds[c].supers = cs[c].supers /\ ds[c].cpl = cs[c].cpl
  /\ ds[c].own = cs[c].own /\ ds[c].ins = cs[c].ins /\ ds[c].each = cs[c].each
  /\ ds[c].made = cs[c].made

LEMMA SameGraph ==
  ASSUME NEW c, NEW supers, NEW l1, NEW l2, \A i \in DOMAIN supers : l1[supers[i]] = l2[supers[i]]
  PROVE  /\ Ancestors(c, supers, l1) = Ancestors(c, supers, l2)
         /\ Graph(c, supers, l1) = Graph(c, supers, l2)
         /\ Known(c, supers, l1) <=> Known(c, supers, l2)
<1>1. Ancestors(c, supers, l1) = Ancestors(c, supers, l2)
  BY DEF Ancestors
<1>2. Edges(c, supers, l1) = Edges(c, supers, l2)
  <2>1. \A i \in DOMAIN supers : << <<c, supers[i]>> >> \o Neighbours(l1[supers[i]])
                               = << <<c, supers[i]>> >> \o Neighbours(l2[supers[i]])
    OBVIOUS
  <2>2. [i \in DOMAIN supers |-> << <<c, supers[i]>> >> \o Neighbours(l1[supers[i]])]
      = [i \in DOMAIN supers |-> << <<c, supers[i]>> >> \o Neighbours(l2[supers[i]])]
    BY <2>1
  <2> QED BY <2>2 DEF Edges
<1>3. Graph(c, supers, l1) = Graph(c, supers, l2)
  BY <1>1, <1>2 DEF Graph
<1>4. Known(c, supers, l1) <=> Known(c, supers, l2)
  BY DEF Known
<1> QED BY <1>1, <1>3, <1>4

\* What is known of a class does not change.
LEMMA StaysInOrder ==
  ASSUME NEW cs, NEW ds, NEW c \in DOMAIN cs, DOMAIN cs = 1..Len(cs), Len(cs) \in Nat,
         \A d \in DOMAIN cs : KeptIn(cs, ds, d), InOrder(cs, c)
  PROVE  InOrder(ds, c)
<1> DEFINE supers == cs[c].supers
<1>1. ds[c].supers = supers /\ ds[c].cpl = cs[c].cpl
  BY DEF KeptIn
<1>2. ASSUME NEW i \in DOMAIN supers PROVE supers[i] \in DOMAIN cs
  <2>1. supers \in Seq(1..c-1) /\ c \in 1..Len(cs)
    BY DEF InOrder, Known
  <2> HIDE DEF supers
  <2>2. supers[i] \in 1..c-1
    BY <2>1, LenProperties, ElementOfSeq
  <2> QED BY <2>1, <2>2
<1>3. \A i \in DOMAIN supers : ListsOf(cs)[supers[i]] = ListsOf(ds)[supers[i]]
  <2> SUFFICES ASSUME NEW i \in DOMAIN supers PROVE ListsOf(cs)[supers[i]] = ListsOf(ds)[supers[i]]
    OBVIOUS
  <2>1. KeptIn(cs, ds, supers[i])
    BY <1>2
  <2> QED BY <1>2, <2>1 DEF KeptIn, ListsOf
<1> HIDE DEF supers
<1>4. /\ Ancestors(c, supers, ListsOf(cs)) = Ancestors(c, supers, ListsOf(ds))
      /\ Graph(c, supers, ListsOf(cs)) = Graph(c, supers, ListsOf(ds))
      /\ Known(c, supers, ListsOf(cs)) <=> Known(c, supers, ListsOf(ds))
  BY <1>3, SameGraph
<1> QED BY <1>1, <1>4 DEF InOrder, supers

\* The lists, as a class that is being made finds them.
LEMMA PossibleKnown ==
  ASSUME classes \in Seq(ClassRecord), \A d \in DOMAIN classes : InOrder(classes, d),
         NEW supers \in Seq(DOMAIN classes), Possible(supers)
  PROVE  Known(Len(classes) + 1, supers, Lists)
<1> DEFINE c == Len(classes) + 1
<1>1. Len(classes) \in Nat /\ DOMAIN classes = 1..c-1 /\ c \in Nat \ {0}
  BY Records
<1>2. supers \in Seq(1..c-1)
  BY <1>1
<1>3. ASSUME NEW i \in DOMAIN supers
      PROVE  /\ Lists[supers[i]] \in Seq(1..c-1)
             /\ 1 <= Len(Lists[supers[i]]) /\ Lists[supers[i]][1] = supers[i]
  <2>1. supers[i] \in 1..c-1
    BY <1>2, LenProperties, ElementOfSeq
  <2>2. classes[supers[i]].cpl # <<>> /\ Lists[supers[i]] = classes[supers[i]].cpl
    BY <1>1, <2>1 DEF Possible, Lists
  <2>3. InOrder(classes, supers[i])
    BY <1>1, <2>1
  <2>4. 1..supers[i] \subseteq 1..c-1
    BY <1>1, <2>1
  <2>5. Lists[supers[i]] \in Seq(1..supers[i])
    BY <2>2, <2>3 DEF InOrder
  <2>6. Lists[supers[i]] \in Seq(1..c-1)
    BY <2>4, <2>5, SeqMonotonic
  <2> QED BY <2>2, <2>3, <2>6 DEF InOrder
<1> QED BY <1>1, <1>2, <1>3 DEF Known

LEMMA MadeClass ==
  ASSUME classes \in Seq(ClassRecord), Len(classes) < MaxClasses,
         \A d \in DOMAIN classes : InOrder(classes, d),
         NEW n \in Name, NEW slots \in Seq(Slot),
         NEW supers \in Seq(DOMAIN classes), Possible(supers)
  PROVE  LET r == make_class(n, supers, slots)
         IN  /\ r \in ClassRecord /\ r.name = n /\ r.supers = supers
             /\ r.cpl = PrecedenceList(Len(classes) + 1, supers, Lists)
             /\ r.uninit = r.made
             /\ r.made =>
                  /\ r.cpl # <<>> /\ Apart(r)
                  /\ \A d \in ToSet(r.cpl) :
                       d # Len(classes) + 1 => ToSet(classes[d].own) \subseteq ToSet(r.ins)
<1> DEFINE c       == Len(classes) + 1
           cpl     == PrecedenceList(c, supers, Lists)
           general == Reverse(Tail(cpl))
           open    == UpToSealed(general)
           descs   == Inherited(open) \o (IF open = general THEN Added(slots) ELSE <<>>)
           kept    == UpToDuplicate(descs)
           made    == cpl # <<>> /\ open = general /\ kept = descs
           r       == make_class(n, supers, slots)
<1>1. Len(classes) \in Nat /\ DOMAIN classes = 1..c-1 /\ c \in Nat \ {0} /\ c \in ClassNumber
  <2>1. Len(classes) \in Nat /\ DOMAIN classes = 1..Len(classes)
    BY Records
  <2> QED BY <2>1, ClassesAssumption DEF ClassNumber
<1>2. DOMAIN classes \subseteq ClassNumber /\ 1..c \subseteq ClassNumber
  BY <1>1, ClassesAssumption DEF ClassNumber
<1>3. supers \in Seq(ClassNumber) /\ n \in Name \cup {"<object>"}
  BY <1>2, SeqMonotonic
<1>4. Known(c, supers, Lists)
  BY PossibleKnown
<1>5. CASE cpl = <<>>
  <2>1. r = [name |-> n, supers |-> supers, cpl |-> <<>>, own |-> <<>>, ins |-> <<>>,
             each |-> <<>>, uninit |-> FALSE, sealed |-> FALSE, made |-> FALSE]
    BY <1>5 DEF make_class
  <2>2. <<>> \in Seq(ClassNumber) /\ <<>> \in Seq(Getter)
    OBVIOUS
  <2> HIDE DEF r, cpl
  <2>3. r \in ClassRecord
    BY <1>3, <2>1, <2>2 DEF ClassRecord
  <2> QED BY <1>5, <2>1, <2>3 DEF r, cpl
<1>6. CASE cpl # <<>>
  <2>1. r = [name |-> n, supers |-> supers, cpl |-> cpl, own |-> Going(kept, "own"),
             ins |-> Going(kept, "ins"), each |-> Going(kept, "each"),
             uninit |-> made, sealed |-> FALSE, made |-> made]
    BY <1>6 DEF make_class
  <2> HIDE DEF r
  <2>2. cpl \in Seq(1..c) /\ Distinct(cpl) /\ 1 <= Len(cpl) /\ cpl[1] = c
    BY <1>4, <1>6, PrecedenceListOf
  <2> HIDE DEF cpl
  <2>3. cpl \in Seq(ClassNumber)
    BY <1>2, <2>2, SeqMonotonic
  <2>4. general \in Seq(1..c) /\ ToSet(general) = {cpl[i] : i \in 2..Len(cpl)}
    BY <2>2, ReversedTail
  <2>5. DOMAIN cpl = 1..Len(cpl) /\ Len(cpl) \in Nat /\ \A i \in 1..Len(cpl) : cpl[i] \in 1..c
    BY <2>2, LenProperties, ElementOfSeq
  <2>6. ToSet(general) = ToSet(cpl) \ {c}
    <3>1. \A i \in 1..Len(cpl) : i = 1 \/ i \in 2..Len(cpl)
      BY <2>5
    <3>2. \A i \in 2..Len(cpl) : i \in 1..Len(cpl) /\ i # 1
      BY <2>5
    <3>3. 1 \in 1..Len(cpl)
      BY <2>2, <2>5
    <3>4. \A i \in 2..Len(cpl) : cpl[i] # c
      BY <2>2, <2>5, <3>2, <3>3 DEF Distinct
    <3>5. ToSet(cpl) = {cpl[i] : i \in 1..Len(cpl)}
      BY <2>5 DEF ToSet
    <3> HIDE DEF general
    <3> QED BY <2>2, <2>4, <3>1, <3>2, <3>4, <3>5
  <2> HIDE DEF general
  <2>7. general \in Seq(DOMAIN classes)
    <3>1. \A i \in 1..Len(general) : general[i] \in ToSet(general)
      BY <2>4, LenProperties DEF ToSet
    <3>2. \A i \in 1..Len(general) : general[i] \in 1..c
      BY <2>4, ElementOfSeq
    <3>3. \A i \in 1..Len(general) : general[i] \in DOMAIN classes
      BY <1>1, <2>6, <3>1, <3>2
    <3>4. general \in [1..Len(general) -> DOMAIN classes] /\ Len(general) \in Nat
      BY <2>4, <3>3, LenProperties
    <3> QED BY <3>4, SeqDef
  <2>8. open \in Seq(DOMAIN classes)
    BY <2>7, UpToSealedOf
  <2> HIDE DEF open
  <2> DEFINE more == IF open = general THEN Added(slots) ELSE <<>>
  <2>9. Inherited(open) \in Seq(Descriptor)
    BY <2>8, InheritedOf
  <2>10. more \in Seq(Descriptor)
    <3>1. Added(slots) \in Seq(Descriptor) /\ <<>> \in Seq(Descriptor)
      BY AddedOf
    <3> QED BY <3>1
  <2> HIDE DEF more
  <2>11. /\ descs \in Seq(Descriptor) /\ Len(descs) = Len(Inherited(open)) + Len(more)
         /\ \A i \in 1..Len(Inherited(open))+Len(more) :
              descs[i] = IF i <= Len(Inherited(open)) THEN Inherited(open)[i]
                         ELSE more[i - Len(Inherited(open))]
    BY <2>9, <2>10, ConcatProperties DEF more
  <2> HIDE DEF descs
  <2>12. kept \in Seq(Descriptor) /\ (kept = descs => NoClash(descs))
    BY <2>11, UpToDuplicateOf
  <2> HIDE DEF kept
  <2>13. Going(kept, "own") \in Seq(Getter) /\ Going(kept, "ins") \in Seq(Getter) /\ Going(kept, "each") \in Seq(Getter)
    BY <2>12, GoingTo
  <2>14. r \in ClassRecord
    <3> HIDE DEF made
    <3>1. made \in BOOLEAN
      BY DEF made
    <3> QED BY <1>3, <2>1, <2>3, <2>13, <3>1 DEF ClassRecord
  <2>15. ASSUME made PROVE Apart(r)
    <3>1. kept = descs /\ NoClash(kept)
      BY <2>12, <2>15
    <3>2. ASSUME NEW to PROVE Distinct(Going(kept, to)) /\ Going(kept, to) \in Seq(Getter)
      BY <2>12, <3>1, GoingTo
    <3>3. ASSUME NEW to, NEW from, to # from, NEW x \in ToSet(Going(kept, to)) PROVE x \notin ToSet(Going(kept, from))
      <4> SUFFICES ASSUME x \in ToSet(Going(kept, from)) PROVE FALSE
        OBVIOUS
      <4>1. PICK i \in 1..Len(kept) : kept[i].to = to /\ kept[i].getter = x
        BY <2>12, <3>3, GoingFrom
      <4>2. PICK j \in 1..Len(kept) : kept[j].to = from /\ kept[j].getter = x
        BY <2>12, GoingFrom
      <4>3. i = j
        BY <3>1, <4>1, <4>2 DEF NoClash
      <4> QED BY <3>3, <4>1, <4>2, <4>3
    <3> DEFINE ins == Going(kept, "ins")
               own == Going(kept, "own")
               each == Going(kept, "each")
    <3>4. ins \in Seq(Getter) /\ own \in Seq(Getter) /\ Distinct(ins) /\ Distinct(own) /\ Distinct(each)
      BY <3>2
    <3>5. \A x \in ToSet(ins) : x \notin ToSet(own) /\ x \notin ToSet(each)
      <4>1. "ins" # "own" /\ "ins" # "each"
        OBVIOUS
      <4> QED BY <3>3, <4>1
    <3>6. \A x \in ToSet(own) : x \notin ToSet(each)
      <4>1. "own" # "each"
        OBVIOUS
      <4> QED BY <3>3, <4>1
    <3>7. r.ins = ins /\ r.own = own /\ r.each = each
      BY <2>1
    <3> HIDE DEF ins, own, each
    <3>8. Distinct(ins \o own)
      BY <3>4, <3>5, ConcatDistinct
    <3>9. ToSet(ins \o own) = ToSet(ins) \cup ToSet(own)
      BY <3>4, ConcatSet
    <3> QED BY <3>4, <3>5, <3>6, <3>7, <3>8, <3>9 DEF Apart
  <2>16. ASSUME made, NEW d \in ToSet(cpl), d # c, NEW x \in ToSet(classes[d].own) PROVE x \in ToSet(Going(kept, "ins"))
    <3>1. d \in ToSet(open) /\ kept = descs
      BY <2>6, <2>16
    <3>2. PICK i \in 1..Len(Inherited(open)) : Inherited(open)[i].to = "ins" /\ Inherited(open)[i].getter = x
      BY <2>8, <2>16, <3>1, InheritedOf
    <3>3. Len(Inherited(open)) \in Nat /\ Len(more) \in Nat
      BY <2>9, <2>10, LenProperties
    <3>4. i \in 1..Len(descs) /\ descs[i] = Inherited(open)[i]
      BY <2>11, <3>2, <3>3
    <3> QED BY <2>12, <3>1, <3>2, <3>4, GoingTo
  <2>17. r.made = made /\ r.uninit = made /\ r.cpl = cpl /\ r.name = n /\ r.supers = supers /\ r.ins = Going(kept, "ins")
    BY <2>1
  <2> HIDE DEF made
  <2> QED BY <1>6, <2>14, <2>15, <2>16, <2>17 DEF r, cpl
<1> QED BY <1>5, <1>6

-----------------------------------------------------------------------------
(* The classes that make prepares. *)

Joins(M, f, supers) ==
  {v \in [0..Len(supers) -> Seq(M)] :
     /\ v[0] = <<>>
     /\ \A i \in 1..Len(supers) : v[i] = loops_concatenate(v[i-1], f[supers[i]])}

LEMMA JoinsRun ==
  ASSUME NEW M, NEW f \in [M -> Seq(M)], NEW supers \in Seq(M)
  PROVE  Joins(M, f, supers) # {}
<1> DEFINE n    == Len(supers)
           step == [a \in (1..n) \X Seq(M) |-> loops_concatenate(a[2], f[supers[a[1]]])]
<1>1. n \in Nat /\ \A i \in 1..n : f[supers[i]] \in Seq(M)
  BY LenProperties, ElementOfSeq
<1>2. PICK v : v \in Iteration(n, Seq(M), <<>>, step)
  <2>1. <<>> \in Seq(M)
    OBVIOUS
  <2>2. step \in [(1..n) \X Seq(M) -> Seq(M)]
    <3> SUFFICES ASSUME NEW i \in 1..n, NEW l \in Seq(M) PROVE loops_concatenate(l, f[supers[i]]) \in Seq(M)
      OBVIOUS
    <3> QED BY <1>1, Concatenated
  <2> HIDE DEF step, n
  <2>3. Iteration(n, Seq(M), <<>>, step) # {}
    BY <1>1, <2>1, <2>2, Iterates
  <2> QED BY <2>3
<1>3. \A i \in 1..n : step[<<i, v[i-1]>>] = loops_concatenate(v[i-1], f[supers[i]])
  <2>1. \A i \in 1..n : i - 1 \in 0..n
    BY <1>1
  <2>2. \A i \in 1..n : v[i-1] \in Seq(M)
    BY <1>2, <2>1 DEF Iteration
  <2> QED BY <2>2
<1> HIDE DEF step
<1> QED BY <1>2, <1>3 DEF Iteration, Joins

\* Joined depends on the lists of the superclasses alone.
\* Two functions that give the superclasses the same.
SameFor(f, g, supers) == \A i \in 1..Len(supers) : g[supers[i]] = f[supers[i]]

LEMMA Joining ==
  ASSUME NEW M, NEW f \in [M -> Seq(M)], NEW supers \in Seq(M), NEW g, SameFor(f, g, supers),
         NEW v \in Joins(M, f, supers)
  PROVE  Joined(g, supers) = v[Len(supers)]
<1> DEFINE n == Len(supers)
           After(q) == [i \in 0..n |-> IF i = 0 THEN <<>> ELSE loops_concatenate(q[i-1], g[supers[i]])]
           joined == CHOOSE q : q = After(q)
<1>1. n \in Nat
  BY LenProperties
<1>2. v[0] = <<>> /\ v = [i \in 0..n |-> v[i]]
  BY DEF Joins
<1>3. ASSUME NEW i \in 1..n PROVE v[i] = loops_concatenate(v[i-1], g[supers[i]])
  BY DEF Joins, SameFor
<1>4. \A i \in 0..n : i # 0 => i \in 1..n
  BY <1>1
<1>5. \A i \in 0..n : v[i] = IF i = 0 THEN <<>> ELSE loops_concatenate(v[i-1], g[supers[i]])
  BY <1>2, <1>3, <1>4
<1>6. v = After(v)
  BY <1>2, <1>5
<1>7. joined = After(joined)
  <2> HIDE DEF After
  <2> QED BY <1>6
<1>8. Joined(g, supers) = joined[n]
  BY DEF Joined
<1> HIDE DEF joined
<1>9. joined[0] = v[0]
  <2>1. 0 \in 0..n
    BY <1>1
  <2> QED BY <1>2, <1>7, <2>1
<1>10. ASSUME NEW i \in 1..n, joined[i-1] = v[i-1] PROVE joined[i] = v[i]
  <2>1. i \in 0..n /\ i # 0
    BY <1>1
  <2>2. joined[i] = loops_concatenate(joined[i-1], g[supers[i]])
    BY <1>7, <2>1
  <2> QED BY <1>3, <1>10, <2>2
<1>11. \A i \in 0..n : joined[i] = v[i]
  <2>1. GoAlike(n, joined, v)
    BY <1>9, <1>10 DEF GoAlike
  <2> HIDE DEF n
  <2> QED BY <1>1, <2>1, Alike DEF AlikeUpTo
<1>12. n \in 0..n
  BY <1>1
<1> QED BY <1>8, <1>11, <1>12

\* Classes that wait for their getter methods, each after its superclasses that do.
Queue(l) ==
  /\ Distinct(l)
  /\ \A j \in DOMAIN l : /\ classes[l[j]].uninit
                         /\ \A i \in DOMAIN classes[l[j]].supers :
                              classes[classes[l[j]].supers[i]].uninit =>
                                \E k \in 1..j-1 : l[k] = classes[l[j]].supers[i]

LEMMA QueueJoined ==
  ASSUME NEW M, NEW l1 \in Seq(M), NEW l2 \in Seq(M), Queue(l1), Queue(l2)
  PROVE  Queue(loops_concatenate(l1, l2))
<1> DEFINE new == loops_concatenate(l1, l2)
<1>1. /\ new \in Seq(M) /\ Len(l1) <= Len(new) /\ Distinct(new)
      /\ \A i \in 1..Len(l1) : new[i] = l1[i]
      /\ \A i \in Len(l1)+1..Len(new) :
           \E k \in 1..Len(l2) :
             new[i] = l2[k] /\ \A m \in 1..k-1 : \E j \in 1..i-1 : new[j] = l2[m]
  <2>1. Distinct(l1)
    BY DEF Queue
  <2> QED BY <2>1, Concatenated
<1>2. /\ Len(l1) \in Nat /\ Len(l2) \in Nat /\ Len(new) \in Nat
      /\ DOMAIN l1 = 1..Len(l1) /\ DOMAIN l2 = 1..Len(l2) /\ DOMAIN new = 1..Len(new)
  BY <1>1, LenProperties
<1> HIDE DEF new
<1>3. ASSUME NEW j \in 1..Len(new)
      PROVE  /\ classes[new[j]].uninit
             /\ \A i \in DOMAIN classes[new[j]].supers :
                  classes[classes[new[j]].supers[i]].uninit =>
                    \E k \in 1..j-1 : new[k] = classes[new[j]].supers[i]
  <2>1. CASE j \in 1..Len(l1)
    <3>1. new[j] = l1[j] /\ j \in DOMAIN l1
      BY <1>1, <1>2, <2>1
    <3>2. \A k \in 1..j-1 : new[k] = l1[k]
      <4>1. \A k \in 1..j-1 : k \in 1..Len(l1)
        BY <1>2, <2>1
      <4> QED BY <1>1, <4>1
    <3> QED BY <3>1, <3>2 DEF Queue
  <2>2. CASE j \in Len(l1)+1..Len(new)
    <3>1. PICK k \in 1..Len(l2) :
            new[j] = l2[k] /\ \A m \in 1..k-1 : \E i \in 1..j-1 : new[i] = l2[m]
      BY <1>1, <2>2
    <3>2. k \in DOMAIN l2
      BY <1>2
    <3> QED BY <3>1, <3>2 DEF Queue
  <2>3. j \in 1..Len(l1) \/ j \in Len(l1)+1..Len(new)
    BY <1>2
  <2> QED BY <2>1, <2>2, <2>3
<1> QED BY <1>1, <1>2, <1>3 DEF Queue, new

\* The lists of the superclasses, joined: a queue with all that is in them.
Queues(f, supers) == \A i \in 1..Len(supers) : Queue(f[supers[i]])

LEMMA JoinedQueue ==
  ASSUME NEW M, NEW f \in [M -> Seq(M)], NEW supers \in Seq(M), Queues(f, supers)
  PROVE  /\ Joined(f, supers) \in Seq(M) /\ Queue(Joined(f, supers))
         /\ ToSet(Joined(f, supers)) = UNION {ToSet(f[supers[i]]) : i \in 1..Len(supers)}
<1>1. PICK v : v \in Joins(M, f, supers)
  BY JoinsRun
<1>2. Joined(f, supers) = v[Len(supers)]
  <2>1. SameFor(f, f, supers)
    BY DEF SameFor
  <2> QED BY <1>1, <2>1, Joining
<1> DEFINE n == Len(supers)
           Good(i, l) == /\ l \in Seq(M) /\ Queue(l)
                         /\ ToSet(l) = UNION {ToSet(f[supers[k]]) : k \in 1..i}
           h == [i \in 0..n |-> Good(i, v[i])]
<1>3. n \in Nat /\ n \in 0..n /\ 0 \in 0..n /\ \A i \in 1..n : f[supers[i]] \in Seq(M)
  BY LenProperties, ElementOfSeq
<1>4. h[0] \in {TRUE}
  <2>1. v[0] = <<>>
    BY <1>1 DEF Joins
  <2>2. <<>> \in Seq(M) /\ ToSet(<<>>) = {} /\ Queue(<<>>)
    BY DEF ToSet, Queue, Distinct
  <2>3. Good(0, <<>>)
    BY <2>2
  <2> HIDE DEF Good
  <2> QED BY <1>3, <2>1, <2>3
<1>5. ASSUME NEW i \in 0+1..n, h[i-1] \in {TRUE} PROVE h[i] \in {TRUE}
  <2>1. i \in 1..n /\ i - 1 \in 0..n /\ i \in 0..n /\ 1..i = (1..i-1) \cup {i}
    BY <1>3
  <2>2. Good(i-1, v[i-1])
    <3> HIDE DEF Good
    <3> QED BY <1>5, <2>1
  <2>3. v[i] = loops_concatenate(v[i-1], f[supers[i]])
    BY <1>1, <2>1 DEF Joins
  <2>4. v[i] \in Seq(M) /\ ToSet(v[i]) = ToSet(v[i-1]) \cup ToSet(f[supers[i]])
    BY <1>3, <2>1, <2>2, <2>3, Concatenated
  <2>5. Queue(v[i])
    BY <1>3, <2>1, <2>2, <2>3, QueueJoined DEF Queues
  <2>6. ToSet(v[i]) = UNION {ToSet(f[supers[k]]) : k \in 1..i}
    BY <2>1, <2>2, <2>4
  <2>7. Good(i, v[i])
    BY <2>4, <2>5, <2>6
  <2> HIDE DEF Good
  <2> QED BY <2>1, <2>7
<1>6. \A i \in 0..n : h[i] \in {TRUE}
  <2> HIDE DEF h, n
  <2> QED BY <1>3, <1>4, <1>5, Onwards
<1>7. Good(n, v[n])
  <2> HIDE DEF Good
  <2> QED BY <1>3, <1>6
<1> QED BY <1>2, <1>7

\* The classes above a class come before it.
LEMMA SupersBefore ==
  ASSUME classes \in Seq(ClassRecord), NEW d \in DOMAIN classes, InOrder(classes, d)
  PROVE  /\ classes[d].supers \in Seq(DOMAIN classes)
         /\ \A i \in DOMAIN classes[d].supers : classes[d].supers[i] \in 1..d-1
         /\ DOMAIN classes[d].supers = 1..Len(classes[d].supers)
<1> DEFINE supers == classes[d].supers
<1>1. Len(classes) \in Nat /\ DOMAIN classes = 1..Len(classes)
  BY Records
<1>2. supers \in Seq(1..d-1)
  BY DEF InOrder, Known
<1>3. 1..d-1 \subseteq DOMAIN classes
  BY <1>1
<1> HIDE DEF supers
<1>4. supers \in Seq(DOMAIN classes)
  BY <1>2, <1>3, SeqMonotonic
<1>5. DOMAIN supers = 1..Len(supers) /\ \A i \in 1..Len(supers) : supers[i] \in 1..d-1
  BY <1>2, LenProperties, ElementOfSeq
<1> QED BY <1>4, <1>5 DEF supers

LEMMA SameJoined ==
  ASSUME NEW M, NEW f \in [M -> Seq(M)], NEW supers \in Seq(M), NEW g, SameFor(f, g, supers)
  PROVE  Joined(g, supers) = Joined(f, supers) /\ Joined(f, supers) \in Seq(M)
<1>1. PICK v : v \in Joins(M, f, supers)
  BY JoinsRun
<1>2. Joined(g, supers) = v[Len(supers)]
  BY <1>1, Joining
<1>3. Joined(f, supers) = v[Len(supers)]
  <2>1. SameFor(f, f, supers)
    BY DEF SameFor
  <2> QED BY <1>1, <2>1, Joining
<1>4. Len(supers) \in 0..Len(supers)
  BY LenProperties
<1>5. v[Len(supers)] \in Seq(M)
  BY <1>1, <1>4 DEF Joins
<1> QED BY <1>2, <1>3, <1>5

\* What initialize_slotds finds for each class, from what it finds for the superclasses.
Asked(f) ==
  [d \in DOMAIN classes |->
     IF classes[d].uninit THEN Append(Joined(f, classes[d].supers), d) ELSE <<>>]

\* What it finds for d.
Awaiting(d, l) ==
  /\ l \in Seq(DOMAIN classes) /\ Queue(l)
  /\ ToSet(l) \subseteq 1..d
  /\ classes[d].uninit => d \in ToSet(l)

\* There is such a function.
AskedFor == {f \in [DOMAIN classes -> Seq(DOMAIN classes)] : f = Asked(f)}

LEMMA AskedOnce ==
  ASSUME classes \in Seq(ClassRecord), \A d \in DOMAIN classes : InOrder(classes, d)
  PROVE  AskedFor # {}
<1> DEFINE M == DOMAIN classes
           n == Len(classes)
           T == [M -> Seq(M)]
           step == [a \in (1..n) \X T |-> Asked(a[2])]
           first == [d \in M |-> <<>>]
<1>1. n \in Nat /\ M = 1..n /\ n \in 0..n /\ 0 \in 0..n
  <2>1. n \in Nat /\ M = 1..n
    BY Records
  <2> QED BY <2>1
<1>2. ASSUME NEW d \in M
      PROVE /\ classes[d].supers \in Seq(M)
            /\ DOMAIN classes[d].supers = 1..Len(classes[d].supers)
            /\ \A i \in 1..Len(classes[d].supers) : classes[d].supers[i] \in 1..d-1
  BY SupersBefore
<1>3. ASSUME NEW f \in T PROVE Asked(f) \in T
  <2> SUFFICES ASSUME NEW d \in M, classes[d].uninit
               PROVE  Append(Joined(f, classes[d].supers), d) \in Seq(M)
    <3>1. <<>> \in Seq(M)
      OBVIOUS
    <3> QED BY <3>1 DEF Asked
  <2>1. Joined(f, classes[d].supers) \in Seq(M)
    <3>1. SameFor(f, f, classes[d].supers)
      BY DEF SameFor
    <3>2. classes[d].supers \in Seq(M)
      BY <1>2
    <3> HIDE DEF M
    <3> QED BY <3>1, <3>2, SameJoined DEF T
  <2> QED BY <2>1, AppendProperties
<1>4. PICK v : v \in Iteration(n, T, first, step)
  <2>1. first \in T
    OBVIOUS
  <2>2. step \in [(1..n) \X T -> T]
    <3> HIDE DEF T
    <3> QED BY <1>3
  <2> HIDE DEF step, n, first, T
  <2>3. Iteration(n, T, first, step) # {}
    BY <1>1, <2>1, <2>2, Iterates
  <2> QED BY <2>3
<1> HIDE DEF T
<1>5. \A i \in 0..n : v[i] \in T
  BY <1>4 DEF Iteration
<1>6. ASSUME NEW i \in 1..n PROVE v[i] = Asked(v[i-1])
  <2>1. i - 1 \in 0..n
    BY <1>1
  <2>2. step[<<i, v[i-1]>>] = Asked(v[i-1])
    BY <1>5, <2>1
  <2> HIDE DEF step
  <2> QED BY <1>4, <2>2 DEF Iteration
<1> HIDE DEF step, first
<1> DEFINE h == [k \in 0..n |-> \A d \in 1..k : Asked(v[k])[d] = v[k][d]]
<1>7. h[0] \in {TRUE}
  BY <1>1
<1>8. ASSUME NEW k \in 0+1..n, h[k-1] \in {TRUE} PROVE h[k] \in {TRUE}
  <2>1. k \in 1..n /\ k - 1 \in 0..n /\ k \in 0..n
    BY <1>1
  <2>2. v[k] = Asked(v[k-1]) /\ v[k] \in T /\ v[k-1] \in T
    BY <1>5, <1>6, <2>1
  <2>3. \A e \in 1..k-1 : v[k][e] = v[k-1][e]
    BY <1>8, <2>1, <2>2
  <2>4. ASSUME NEW d \in 1..k PROVE Asked(v[k])[d] = v[k][d]
    <3>1. d \in M
      BY <1>1, <2>1
    <3>2. \A i \in 1..Len(classes[d].supers) : v[k][classes[d].supers[i]] = v[k-1][classes[d].supers[i]]
      <4>1. \A i \in 1..Len(classes[d].supers) : classes[d].supers[i] \in 1..k-1
        <5>1. \A i \in 1..Len(classes[d].supers) : classes[d].supers[i] \in 1..d-1
          BY <1>2, <3>1
        <5> QED BY <2>1, <5>1
      <4> QED BY <2>3, <4>1
    <3>3. Joined(v[k], classes[d].supers) = Joined(v[k-1], classes[d].supers)
      <4>1. v[k-1] \in [M -> Seq(M)] /\ classes[d].supers \in Seq(M)
        BY <1>2, <2>2, <3>1 DEF T
      <4>2. SameFor(v[k-1], v[k], classes[d].supers)
        BY <3>2 DEF SameFor
      <4> DEFINE x == v[k-1]
                 y == v[k]
                 l == classes[d].supers
      <4> HIDE DEF M, x, y, l
      <4>3. x \in [M -> Seq(M)] /\ l \in Seq(M) /\ SameFor(x, y, l)
        BY <4>1, <4>2 DEF x, y, l
      <4>4. Joined(y, l) = Joined(x, l)
        BY <4>3, SameJoined
      <4> QED BY <4>4 DEF x, y, l
    <3> QED BY <2>2, <3>1, <3>3 DEF Asked
  <2> QED BY <2>1, <2>4
<1>9. \A k \in 0..n : h[k] \in {TRUE}
  <2> HIDE DEF h, n
  <2> QED BY <1>1, <1>7, <1>8, Onwards
<1>10. \A d \in M : Asked(v[n])[d] = v[n][d]
  BY <1>1, <1>9
<1>11. v[n] \in T
  BY <1>1, <1>5
<1>12. v[n] = Asked(v[n])
  <2>1. DOMAIN v[n] = M
    BY <1>11 DEF T
  <2>2. v[n] = [d \in M |-> v[n][d]]
    BY <1>11 DEF T
  <2>3. Asked(v[n]) = [d \in M |-> Asked(v[n])[d]]
    BY DEF Asked
  <2> HIDE DEF M
  <2> QED BY <1>10, <2>2, <2>3
<1> QED BY <1>11, <1>12 DEF T, AskedFor

\* The classes that wait above c, and c, each after those above it.
LEMMA PendingQueue ==
  ASSUME classes \in Seq(ClassRecord), \A d \in DOMAIN classes : InOrder(classes, d),
         NEW c \in DOMAIN classes
  PROVE  Awaiting(c, Pending(c))
<1> DEFINE M == DOMAIN classes
           n == Len(classes)
           pending == CHOOSE f : f = Asked(f)
<1>1. n \in Nat /\ M = 1..n
  BY Records
<1>2. ASSUME NEW d \in M
      PROVE /\ classes[d].supers \in Seq(M)
            /\ DOMAIN classes[d].supers = 1..Len(classes[d].supers)
            /\ \A i \in 1..Len(classes[d].supers) : classes[d].supers[i] \in 1..d-1
  BY SupersBefore
<1>3. PICK f : f \in AskedFor
  BY AskedOnce
<1>4. f \in [M -> Seq(M)] /\ f = Asked(f)
  BY <1>3 DEF AskedFor
<1>5. pending = Asked(pending)
  BY <1>4
<1>6. Pending(c) = pending[c]
  BY DEF Pending, Asked
<1> HIDE DEF pending
<1> DEFINE Good(d) == d \in M => pending[d] = f[d] /\ Awaiting(d, f[d])
           h == [k \in 0..n |-> \A d \in 1..k : Good(d)]
<1>7. h[0] \in {TRUE}
  <2>1. 0 \in 0..n /\ 1..0 = {}
    BY <1>1
  <2> HIDE DEF Good
  <2> QED BY <2>1
<1>8. ASSUME NEW d \in M, \A e \in 1..d-1 : Good(e) PROVE Good(d)
  <2> DEFINE supers == classes[d].supers
             joined == Joined(f, supers)
  <2>1. supers \in Seq(M) /\ DOMAIN supers = 1..Len(supers)
        /\ \A i \in 1..Len(supers) : supers[i] \in 1..d-1
    BY <1>2
  <2> HIDE DEF supers
  <2>2. ASSUME NEW i \in 1..Len(supers)
        PROVE pending[supers[i]] = f[supers[i]] /\ Awaiting(supers[i], f[supers[i]])
    <3>1. supers[i] \in M
      BY <1>1, <2>1
    <3> HIDE DEF M
    <3> QED BY <1>8, <2>1, <3>1
  <2>3. Joined(pending, supers) = joined
    <3>1. SameFor(f, pending, supers)
      BY <2>2 DEF SameFor
    <3> HIDE DEF M
    <3> QED BY <1>4, <2>1, <3>1, SameJoined
  <2> HIDE DEF joined
  <2>4. joined \in Seq(M) /\ Queue(joined) /\ ToSet(joined) = UNION {ToSet(f[supers[i]]) : i \in 1..Len(supers)}
    <3>1. Queues(f, supers)
      BY <2>2 DEF Awaiting, Queues
    <3>2. f \in [M -> Seq(M)] /\ supers \in Seq(M)
      BY <1>4, <2>1
    <3> HIDE DEF M
    <3> QED BY <3>1, <3>2, JoinedQueue DEF joined
  <2>5. ToSet(joined) \subseteq 1..d-1
    <3> SUFFICES ASSUME NEW i \in 1..Len(supers), NEW x \in ToSet(f[supers[i]]) PROVE x \in 1..d-1
      BY <2>4
    <3>1. x \in 1..supers[i] /\ supers[i] \in 1..d-1
      BY <2>1, <2>2 DEF Awaiting
    <3> QED BY <1>1, <3>1
  <2>6. f[d] = (IF classes[d].uninit THEN Append(joined, d) ELSE <<>>)
    BY <1>4 DEF Asked, joined, supers
  <2>7. pending[d] = f[d]
    <3>1. pending[d] = IF classes[d].uninit THEN Append(Joined(pending, supers), d) ELSE <<>>
      BY <1>5 DEF Asked, supers
    <3> QED BY <2>3, <2>6, <3>1
  <2>8. CASE ~classes[d].uninit
    <3>1. f[d] = <<>>
      BY <2>6, <2>8
    <3>2. <<>> \in Seq(M) /\ ToSet(<<>>) = {} /\ Queue(<<>>)
      BY DEF ToSet, Queue, Distinct
    <3>3. Awaiting(d, <<>>)
      BY <2>8, <3>2 DEF Awaiting
    <3> QED BY <2>7, <3>1, <3>3
  <2>9. CASE classes[d].uninit
    <3> DEFINE l == Append(joined, d)
    <3>1. f[d] = l
      BY <2>6, <2>9
    <3>2. /\ l \in Seq(M) /\ Len(l) = Len(joined) + 1
          /\ \A i \in 1..Len(joined) : l[i] = joined[i]
          /\ l[Len(joined) + 1] = d
          /\ ToSet(l) = ToSet(joined) \cup {d}
          /\ Distinct(joined) /\ d \notin ToSet(joined) => Distinct(l)
      BY <2>4, Appended
    <3>3. Len(joined) \in Nat /\ DOMAIN joined = 1..Len(joined) /\ DOMAIN l = 1..Len(joined)+1
      <4>1. DOMAIN l = 1..Len(l)
        BY <3>2, LenProperties
      <4>2. Len(joined) \in Nat /\ DOMAIN joined = 1..Len(joined)
        BY <2>4, LenProperties
      <4> QED BY <3>2, <4>1, <4>2
    <3> HIDE DEF l
    <3>4. d \notin ToSet(joined)
      BY <1>1, <2>5
    <3>5. Distinct(l)
      BY <2>4, <3>2, <3>4 DEF Queue
    <3>6. ASSUME NEW j \in DOMAIN l
          PROVE /\ classes[l[j]].uninit
                /\ \A i \in DOMAIN classes[l[j]].supers :
                     classes[classes[l[j]].supers[i]].uninit =>
                       \E k \in 1..j-1 : l[k] = classes[l[j]].supers[i]
      <4>1. CASE j \in DOMAIN joined
        <5>1. l[j] = joined[j]
          BY <3>2, <3>3, <4>1
        <5>2. \A k \in 1..j-1 : l[k] = joined[k]
          <6>1. \A k \in 1..j-1 : k \in 1..Len(joined)
            BY <3>3, <4>1
          <6> QED BY <3>2, <6>1
        <5> QED BY <2>4, <4>1, <5>1, <5>2 DEF Queue
      <4>2. CASE j = Len(joined) + 1
        <5>1. l[j] = d
          BY <3>2, <4>2
        <5>2. ASSUME NEW i \in DOMAIN supers, classes[supers[i]].uninit
              PROVE  \E k \in 1..j-1 : l[k] = supers[i]
          <6>1. i \in 1..Len(supers)
            BY <2>1
          <6>2. supers[i] \in ToSet(f[supers[i]])
            BY <2>2, <5>2, <6>1 DEF Awaiting
          <6>3. supers[i] \in ToSet(joined)
            BY <2>4, <6>1, <6>2
          <6>4. PICK k \in DOMAIN joined : joined[k] = supers[i]
            BY <6>3 DEF ToSet
          <6>5. k \in 1..j-1 /\ l[k] = joined[k]
            BY <3>2, <3>3, <4>2, <6>4
          <6> QED BY <6>4, <6>5
        <5> QED BY <2>9, <5>1, <5>2 DEF supers
      <4>3. j \in DOMAIN joined \/ j = Len(joined) + 1
        BY <3>3
      <4> QED BY <4>1, <4>2, <4>3
    <3>7. Queue(l)
      BY <3>5, <3>6 DEF Queue
    <3>8. ToSet(l) \subseteq 1..d
      BY <1>1, <2>5, <3>2
    <3>9. Awaiting(d, l)
      BY <3>2, <3>7, <3>8 DEF Awaiting
    <3> QED BY <2>7, <3>1, <3>9
  <2> QED BY <2>8, <2>9
<1>9. ASSUME NEW k \in 0+1..n, h[k-1] \in {TRUE} PROVE h[k] \in {TRUE}
  <2>1. k \in M /\ k \in 0..n /\ k - 1 \in 0..n /\ 1..k = (1..k-1) \cup {k}
    BY <1>1
  <2>2. \A e \in 1..k-1 : Good(e)
    <3> HIDE DEF Good
    <3> QED BY <1>9, <2>1
  <2>3. Good(k)
    <3> HIDE DEF Good
    <3> QED BY <1>8, <2>1, <2>2
  <2> HIDE DEF Good
  <2> QED BY <2>1, <2>2, <2>3
<1>10. \A k \in 0..n : h[k] \in {TRUE}
  <2>1. 0 \in Nat /\ n \in Nat
    BY <1>1
  <2> HIDE DEF h, n
  <2> QED BY <1>7, <1>9, <2>1, Onwards
<1>11. Good(c)
  <2>1. c \in 0..n /\ c \in 1..c
    BY <1>1
  <2> HIDE DEF Good
  <2> QED BY <1>10, <2>1
<1> QED BY <1>6, <1>11

-----------------------------------------------------------------------------
(* The getter methods that make makes. *)

\* The methods of class c for getter g, by make_getters_setters.
Own(c, g) == InstanceGetters(c, g) \cup ClassGetters(c, g)

\* Methods for the classes up to n.
MethodsUpTo(n) == [Getter -> SUBSET [cls : 1..n, of : {0} \cup ClassNumber, at : Nat \ {0}]]

\* The getters after each of the first k classes of a queue.
Prepares(n, pending, k) ==
  {v \in [0..k -> MethodsUpTo(n)] :
     /\ v[0] = getters
     /\ \A i \in 1..k : v[i] = [g \in Getter |-> Replacing(v[i-1][g], Own(pending[i], g))]}

\* Every class is specialized for by one that is there.
Specialized(n, pending) ==
  \A i \in DOMAIN pending : pending[i] \in DOMAIN classes /\ Specializer(pending[i]) \in 1..n

LEMMA GettersOf ==
  ASSUME classes \in Seq(ClassRecord), Len(classes) <= MaxClasses,
         NEW c \in DOMAIN classes, NEW n, Specializer(c) \in 1..n, NEW g
  PROVE  /\ InstanceGetters(c, g) \subseteq [cls : 1..n, of : {0} \cup ClassNumber, at : Nat \ {0}]
         /\ ClassGetters(c, g) \subseteq [cls : 1..n, of : {0} \cup ClassNumber, at : Nat \ {0}]
         /\ \A m \in Own(c, g) : m.cls = Specializer(c)
<1> DEFINE s == Specializer(c)
           l == Layout(c)
<1>1. /\ Len(classes) \in Nat /\ DOMAIN classes = 1..Len(classes)
      /\ classes[c].own \in Seq(Getter) /\ classes[c].ins \in Seq(Getter)
      /\ classes[c].each \in Seq(Getter)
  BY Records
<1>2. c \in ClassNumber
  BY <1>1, ClassesAssumption DEF ClassNumber
<1>3. l \in Seq(Getter)
  BY <1>1, ConcatProperties DEF Layout
<1>4. DOMAIN l = 1..Len(l) /\ DOMAIN classes[c].each = 1..Len(classes[c].each)
  BY <1>1, <1>3, LenProperties
<1>5. InstanceGetters(c, g) = {[cls |-> s, of |-> 0, at |-> i] : i \in {i \in DOMAIN l : l[i] = g}}
  BY DEF InstanceGetters
<1>6. ClassGetters(c, g) = {[cls |-> s, of |-> c, at |-> i] :
                              i \in {i \in DOMAIN classes[c].each : classes[c].each[i] = g}}
  BY DEF ClassGetters
<1> HIDE DEF s, l
<1>7. s \in 1..n
  BY DEF s
<1> QED BY <1>2, <1>4, <1>5, <1>6, <1>7 DEF Own, s

LEMMA PreparesRun ==
  ASSUME classes \in Seq(ClassRecord), Len(classes) <= MaxClasses,
         NEW n \in Nat, getters \in MethodsUpTo(n),
         NEW pending, Specialized(n, pending), NEW k \in Nat, 1..k \subseteq DOMAIN pending
  PROVE  Prepares(n, pending, k) # {}
<1> DEFINE D    == MethodsUpTo(n)
           G    == [cls : 1..n, of : {0} \cup ClassNumber, at : Nat \ {0}]
           step == [a \in (1..k) \X D |-> [g \in Getter |-> Replacing(a[2][g], Own(pending[a[1]], g))]]
<1>1. ASSUME NEW i \in 1..k, NEW f \in D
      PROVE  [g \in Getter |-> Replacing(f[g], Own(pending[i], g))] \in D
  <2> SUFFICES ASSUME NEW g \in Getter PROVE Replacing(f[g], Own(pending[i], g)) \subseteq G
    BY DEF MethodsUpTo
  <2>1. pending[i] \in DOMAIN classes /\ Specializer(pending[i]) \in 1..n
    BY DEF Specialized
  <2>2. Own(pending[i], g) \subseteq G
    <3>1. InstanceGetters(pending[i], g) \subseteq G /\ ClassGetters(pending[i], g) \subseteq G
      BY <2>1, GettersOf
    <3> QED BY <3>1 DEF Own
  <2>3. f[g] \subseteq G
    BY DEF MethodsUpTo
  <2> HIDE DEF G
  <2> QED BY <2>2, <2>3 DEF Replacing
<1>2. step \in [(1..k) \X D -> D]
  <2> HIDE DEF D
  <2> QED BY <1>1
<1>3. PICK v : v \in Iteration(k, D, getters, step)
  <2> HIDE DEF step
  <2>1. Iteration(k, D, getters, step) # {}
    BY <1>2, Iterates
  <2> QED BY <2>1
<1> HIDE DEF D, G
<1>4. ASSUME NEW i \in 1..k PROVE step[<<i, v[i-1]>>] = [g \in Getter |-> Replacing(v[i-1][g], Own(pending[i], g))]
  <2>1. i - 1 \in 0..k
    OBVIOUS
  <2>2. v[i-1] \in D
    BY <1>3, <2>1 DEF Iteration
  <2> QED BY <2>2
<1> HIDE DEF step
<1>5. v \in [0..k -> D] /\ v[0] = getters /\ \A i \in 1..k : v[i] = step[<<i, v[i-1]>>]
  BY <1>3 DEF Iteration
<1>6. \A i \in 1..k : v[i] = [g \in Getter |-> Replacing(v[i-1][g], Own(pending[i], g))]
  BY <1>4, <1>5
<1>7. v \in Prepares(n, pending, k)
  BY <1>5, <1>6 DEF Prepares, D
<1> QED BY <1>7

\* Prepared comes to the same.
LEMMA Preparing ==
  ASSUME NEW n \in Nat, NEW pending, NEW k \in Nat, NEW v \in Prepares(n, pending, k), NEW half \in BOOLEAN
  PROVE  Prepared(pending, k, half) =
           IF half THEN [g \in Getter |-> Replacing(v[k][g], InstanceGetters(pending[k+1], g))]
           ELSE v[k]
<1> DEFINE Body1(q, i) == [g \in Getter |-> Replacing(q[g], Own(pending[i], g))]
           After(q) == [i \in 0..k |-> IF i = 0 THEN getters ELSE Body1(q[i-1], i)]
           g0 == CHOOSE q : q = After(q)
<1>1. v[0] = getters /\ v = [i \in 0..k |-> v[i]] /\ \A i \in 1..k : v[i] = Body1(v[i-1], i)
  BY DEF Prepares
<1>2. Prepared(pending, k, half) =
        IF half THEN [g \in Getter |-> Replacing(g0[k][g], InstanceGetters(pending[k+1], g))]
        ELSE g0[k]
  BY DEF Prepared, Own
<1> HIDE DEF Body1
<1>3. \A i \in 0..k : i # 0 => i \in 1..k
  OBVIOUS
<1>4. \A i \in 0..k : v[i] = IF i = 0 THEN getters ELSE Body1(v[i-1], i)
  BY <1>1, <1>3
<1>5. v = After(v)
  BY <1>1, <1>4
<1>6. g0 = After(g0)
  <2> HIDE DEF After
  <2> QED BY <1>5
<1> HIDE DEF g0
<1>7. g0[0] = v[0]
  <2>1. 0 \in 0..k
    OBVIOUS
  <2> QED BY <1>1, <1>6, <2>1
<1>8. ASSUME NEW i \in 1..k, g0[i-1] = v[i-1] PROVE g0[i] = v[i]
  <2>1. i \in 0..k /\ i # 0
    OBVIOUS
  <2>2. g0[i] = Body1(g0[i-1], i)
    BY <1>6, <2>1
  <2> QED BY <1>1, <1>8, <2>2
<1>9. \A i \in 0..k : g0[i] = v[i]
  <2>1. GoAlike(k, g0, v)
    BY <1>7, <1>8 DEF GoAlike
  <2> QED BY <2>1, Alike DEF AlikeUpTo
<1>10. k \in 0..k
  OBVIOUS
<1>11. g0[k] = v[k]
  BY <1>9, <1>10
<1> QED BY <1>2, <1>11

LEMMA PreparedIn ==
  ASSUME classes \in Seq(ClassRecord), Len(classes) <= MaxClasses,
         NEW n \in Nat, getters \in MethodsUpTo(n),
         NEW pending, Specialized(n, pending), NEW k \in Nat, 1..k \subseteq DOMAIN pending,
         NEW half \in BOOLEAN, half => k + 1 \in DOMAIN pending
  PROVE  Prepared(pending, k, half) \in MethodsUpTo(n)
<1>1. PICK v : v \in Prepares(n, pending, k)
  BY PreparesRun
<1>2. k \in 0..k
  OBVIOUS
<1>3. v[k] \in MethodsUpTo(n)
  BY <1>1, <1>2 DEF Prepares
<1>6. Prepared(pending, k, half) =
        IF half THEN [g \in Getter |-> Replacing(v[k][g], InstanceGetters(pending[k+1], g))]
        ELSE v[k]
  BY <1>1, Preparing
<1>4. CASE ~half
  BY <1>3, <1>4, <1>6
<1>5. CASE half
  <2> DEFINE G == [cls : 1..n, of : {0} \cup ClassNumber, at : Nat \ {0}]
  <2>1. Prepared(pending, k, half) = [g \in Getter |-> Replacing(v[k][g], InstanceGetters(pending[k+1], g))]
    BY <1>5, <1>6
  <2>2. pending[k+1] \in DOMAIN classes /\ Specializer(pending[k+1]) \in 1..n
    BY <1>5 DEF Specialized
  <2>3. ASSUME NEW g \in Getter PROVE Replacing(v[k][g], InstanceGetters(pending[k+1], g)) \subseteq G
    <3>1. InstanceGetters(pending[k+1], g) \subseteq G
      BY <2>2, GettersOf
    <3>2. v[k][g] \subseteq G
      BY <1>3 DEF MethodsUpTo
    <3> HIDE DEF G
    <3> QED BY <3>1, <3>2 DEF Replacing
  <2> QED BY <2>1, <2>3 DEF MethodsUpTo
<1> QED BY <1>4, <1>5

-----------------------------------------------------------------------------
(* The invariant. *)

Shape ==
  /\ classes \in Seq(ClassRecord) /\ Len(classes) \in 1..MaxClasses
  /\ denoted \in [Name -> 0..Len(classes)]
  /\ getters \in MethodsUpTo(Len(classes))

\* Every class is as make_class leaves it, but for its flags.
Ordered == \A c \in DOMAIN classes : InOrder(classes, c) /\ SlotsThere(classes, c)

\* Only a class that has been made waits for its getter methods; <object> does not.
Waiting == ~classes[1].uninit /\ \A c \in DOMAIN classes : classes[c].uninit => classes[c].made

\* The name of a class is bound, maybe to a later one.
Named == \A c \in DOMAIN classes \ {1} : classes[c].name \in Name /\ denoted[classes[c].name] # 0

\* A class that has got its getter methods found its superclasses with theirs.
SupersReady ==
  \A c \in DOMAIN classes : classes[c].made /\ ~classes[c].uninit =>
    \A i \in DOMAIN classes[c].supers : ~classes[classes[c].supers[i]].uninit

IInv == Shape /\ Ordered /\ Waiting /\ Named /\ SupersReady

LEMMA KeptOrdered ==
  ASSUME classes \in Seq(ClassRecord), Ordered, NEW ds, \A d \in DOMAIN classes : KeptIn(classes, ds, d)
  PROVE  \A d \in DOMAIN classes : InOrder(ds, d) /\ SlotsThere(ds, d)
<1>1. Len(classes) \in Nat /\ DOMAIN classes = 1..Len(classes)
  BY Records
<1>2. ASSUME NEW d \in DOMAIN classes PROVE InOrder(ds, d)
  BY <1>1, StaysInOrder DEF Ordered
<1>3. ASSUME NEW d \in DOMAIN classes PROVE SlotsThere(ds, d)
  <2>1. ds[d].made = classes[d].made /\ ds[d].cpl = classes[d].cpl
        /\ ds[d].own = classes[d].own /\ ds[d].ins = classes[d].ins /\ ds[d].each = classes[d].each
    BY DEF KeptIn
  <2>2. Apart(ds[d]) <=> Apart(classes[d])
    BY <2>1 DEF Apart
  <2>3. ASSUME classes[d].cpl # <<>>, NEW e \in ToSet(classes[d].cpl) PROVE ds[e].own = classes[e].own
    <3>1. classes[d].cpl \in Seq(1..d)
      BY <2>3 DEF Ordered, InOrder
    <3>2. e \in 1..d
      BY <2>3, <3>1, InSequence
    <3>3. e \in DOMAIN classes
      BY <1>1, <3>2
    <3> QED BY <3>3 DEF KeptIn
  <2>4. SlotsThere(classes, d)
    BY DEF Ordered
  <2> QED BY <2>1, <2>2, <2>3, <2>4 DEF SlotsThere
<1> QED BY <1>2, <1>3

\* <object> is in order.
LEMMA FirstClass ==
  ASSUME Init
  PROVE  InOrder(classes, 1) /\ SlotsThere(classes, 1)
<1> DEFINE r == classes[1]
           L == ListsOf(classes)
           N == Ancestors(1, <<>>, L)
           G == Graph(1, <<>>, L)
<1>1. /\ DOMAIN classes = {1} /\ r.supers = <<>> /\ r.cpl = <<1>> /\ r.own = <<>> /\ r.ins = <<>>
      /\ r.each = <<>> /\ r.made
  BY DEF Init
<1>2. Known(1, <<>>, L)
  BY DEF Known
<1>3. N = {1}
  BY DEF Ancestors
<1>4. G \in [N -> Seq(N)] /\ \A x \in N : 1 \notin ToSet(G[x])
  BY <1>2, GraphOf
<1> HIDE DEF G, r, L
<1>5. \A x \in N : ToSet(G[x]) = {}
  <2> SUFFICES ASSUME NEW x \in N PROVE ToSet(G[x]) = {}
    OBVIOUS
  <2>1. G[x] \in Seq(N)
    BY <1>4
  <2>2. ToSet(G[x]) \subseteq N
    BY <2>1, InSequence
  <2> QED BY <1>3, <1>4, <2>2
<1>6. <<1>> \in Seq(1..1) /\ Distinct(<<1>>) /\ Len(<<1>>) = 1 /\ <<1>>[1] = 1 /\ ToSet(<<1>>) = {1} /\ <<1>> # <<>>
  BY DEF Distinct, ToSet
<1>7. InOrder(classes, 1)
  <2>1. classes[1].supers = <<>> /\ classes[1].cpl = <<1>>
    BY <1>1 DEF r
  <2>2. Known(1, classes[1].supers, ListsOf(classes))
    BY <1>2, <2>1 DEF L
  <2>3. Ancestors(1, classes[1].supers, ListsOf(classes)) = N
    BY <2>1 DEF L
  <2>4. Graph(1, classes[1].supers, ListsOf(classes)) = G
    BY <2>1 DEF L, G
  <2> HIDE DEF N
  <2>5. \A x \in N : \A y \in ToSet(G[x]) : Position(classes[1].cpl, x) < Position(classes[1].cpl, y)
    BY <1>5
  <2>6. ToSet(classes[1].cpl) = N
    BY <1>3, <1>6, <2>1
  <2> QED BY <1>6, <2>1, <2>2, <2>3, <2>4, <2>5, <2>6 DEF InOrder
<1>8. <<>> \o <<>> = <<>> /\ ToSet(<<>>) = {} /\ Distinct(<<>>)
  BY DEF ToSet, Distinct
<1>9. Apart(r)
  BY <1>1, <1>8 DEF Apart
<1>10. SlotsThere(classes, 1)
  <2>1. ToSet(r.cpl) = {1}
    BY <1>1, <1>6
  <2> QED BY <1>1, <1>6, <1>8, <1>9, <2>1 DEF SlotsThere, r
<1> QED BY <1>7, <1>10

LEMMA Inits == Init => IInv
<1> SUFFICES ASSUME Init PROVE IInv
  OBVIOUS
<1> DEFINE r == [name |-> "<object>", supers |-> <<>>, cpl |-> <<1>>, own |-> <<>>, ins |-> <<>>,
                 each |-> <<>>, uninit |-> FALSE, sealed |-> FALSE, made |-> TRUE]
<1>1. classes = <<r>> /\ Len(classes) = 1 /\ DOMAIN classes = {1} /\ classes[1] = r
  BY DEF Init
<1>2. 1 \in 1..MaxClasses
  BY ClassesAssumption
<1>3. r \in ClassRecord
  <2>1. <<>> \in Seq(ClassNumber) /\ <<1>> \in Seq(ClassNumber) /\ <<>> \in Seq(Getter)
    BY <1>2 DEF ClassNumber
  <2> QED BY <2>1 DEF ClassRecord
<1>4. Shape
  <2>1. classes \in Seq(ClassRecord)
    <3> HIDE DEF r
    <3> QED BY <1>1, <1>3
  <2>2. getters \in MethodsUpTo(1)
    BY DEF Init, MethodsUpTo
  <2>3. denoted \in [Name -> 0..1]
    BY DEF Init
  <2> QED BY <1>1, <1>2, <2>1, <2>2, <2>3 DEF Shape
<1>5. Ordered
  BY <1>1, FirstClass DEF Ordered
<1>6. ~classes[1].uninit /\ classes[1].supers = <<>>
  BY <1>1
<1> HIDE DEF r
<1>7. Waiting /\ Named /\ SupersReady
  BY <1>1, <1>6 DEF Waiting, Named, SupersReady
<1> QED BY <1>4, <1>5, <1>7 DEF IInv

\* A new class is added to those there are.
LEMMA Defined ==
  ASSUME IInv, NEW n \in Name, NEW slots \in Seq(Slot), NEW supers \in Seq(DOMAIN classes),
         DefineClass(n, supers, slots)
  PROVE  LET r == make_class(n, supers, slots)
         IN  /\ classes' \in Seq(ClassRecord) /\ Len(classes') = Len(classes) + 1
             /\ DOMAIN classes' = DOMAIN classes \cup {Len(classes) + 1}
             /\ \A d \in DOMAIN classes : classes'[d] = classes[d]
             /\ classes'[Len(classes) + 1] = r
             /\ r.name = n /\ r.uninit = r.made
<1> DEFINE r == make_class(n, supers, slots)
<1>1. classes \in Seq(ClassRecord) /\ Len(classes) \in Nat /\ DOMAIN classes = 1..Len(classes)
  BY Records DEF IInv, Shape
<1>2. Possible(supers) /\ Len(classes) < MaxClasses /\ \A d \in DOMAIN classes : InOrder(classes, d)
  BY DEF DefineClass, IInv, Ordered
<1>3. r \in ClassRecord /\ r.name = n /\ r.uninit = r.made
  BY <1>1, <1>2, MadeClass
<1>4. classes' = Append(classes, r)
  BY DEF DefineClass
<1> HIDE DEF r
<1>5. /\ classes' \in Seq(ClassRecord) /\ Len(classes') = Len(classes) + 1
      /\ \A d \in 1..Len(classes) : classes'[d] = classes[d]
      /\ classes'[Len(classes) + 1] = r
  BY <1>1, <1>3, <1>4, AppendProperties
<1>6. DOMAIN classes' = 1..Len(classes) + 1
  BY <1>5, LenProperties
<1> QED BY <1>1, <1>3, <1>5, <1>6 DEF r

LEMMA Defining ==
  ASSUME IInv, NEW n \in Name, NEW slots \in Seq(Slot), NEW supers \in Seq(DOMAIN classes),
         DefineClass(n, supers, slots)
  PROVE  IInv'
<1> DEFINE r == make_class(n, supers, slots)
           c == Len(classes) + 1
<1>1. classes \in Seq(ClassRecord) /\ Len(classes) \in 1..MaxClasses /\ DOMAIN classes = 1..Len(classes)
      /\ c \in 1..MaxClasses /\ c \notin DOMAIN classes
  <2>1. classes \in Seq(ClassRecord) /\ Len(classes) \in 1..MaxClasses /\ DOMAIN classes = 1..Len(classes)
    BY Records DEF IInv, Shape
  <2> QED BY <2>1, ClassesAssumption DEF DefineClass
<1>2. Possible(supers) /\ Len(classes) < MaxClasses /\ \A d \in DOMAIN classes : InOrder(classes, d)
  BY DEF DefineClass, IInv, Ordered
<1>3. /\ r.supers = supers /\ r.cpl = PrecedenceList(c, supers, Lists)
      /\ r.made =>
           /\ r.cpl # <<>> /\ Apart(r)
           /\ \A d \in ToSet(r.cpl) : d # c => ToSet(classes[d].own) \subseteq ToSet(r.ins)
  <2>1. classes \in Seq(ClassRecord)
    BY <1>1
  <2> HIDE DEF r
  <2> QED BY <1>2, <2>1, MadeClass DEF r
<1>4. /\ classes' \in Seq(ClassRecord) /\ Len(classes') = c
      /\ DOMAIN classes' = DOMAIN classes \cup {c}
      /\ \A d \in DOMAIN classes : classes'[d] = classes[d]
      /\ classes'[c] = r /\ r.name = n /\ r.uninit = r.made
  BY Defined
<1>5. denoted' = [denoted EXCEPT ![n] = c] /\ getters' = getters
  BY DEF DefineClass
<1> HIDE DEF r
<1>6. ASSUME NEW d \in DOMAIN classes PROVE KeptIn(classes, classes', d)
  BY <1>4 DEF KeptIn
<1>7. \A d \in DOMAIN classes : InOrder(classes', d) /\ SlotsThere(classes', d)
  BY <1>1, <1>6, KeptOrdered DEF IInv
<1>8. Shape'
  <2>1. denoted \in [Name -> 0..Len(classes)] /\ getters \in MethodsUpTo(Len(classes))
    BY DEF IInv, Shape
  <2>2. denoted' \in [Name -> 0..c]
    BY <1>1, <1>5, <2>1
  <2>3. getters' \in MethodsUpTo(c)
    BY <1>1, <1>5, <2>1 DEF MethodsUpTo
  <2> QED BY <1>1, <1>4, <2>2, <2>3 DEF Shape
<1> DEFINE L1 == ListsOf(classes)
           L2 == ListsOf(classes')
<1>9. Known(c, supers, L1) /\ L1 = Lists
  <2>1. Known(c, supers, Lists)
    BY <1>1, <1>2, PossibleKnown
  <2> QED BY <2>1 DEF ListsOf, Lists
<1>10. ASSUME NEW i \in DOMAIN supers PROVE L1[supers[i]] = L2[supers[i]]
  <2>1. supers[i] \in DOMAIN classes
    BY ElementOfSeq, LenProperties
  <2> QED BY <1>4, <2>1 DEF ListsOf
<1> HIDE DEF L1, L2
<1>11. /\ Ancestors(c, supers, L1) = Ancestors(c, supers, L2)
       /\ Graph(c, supers, L1) = Graph(c, supers, L2)
       /\ Known(c, supers, L1) <=> Known(c, supers, L2)
  BY <1>10, SameGraph
<1>12. InOrder(classes', c)
  <2>1. r.cpl # <<>> =>
          /\ r.cpl \in Seq(1..c) /\ ToSet(r.cpl) = Ancestors(c, supers, L1) /\ Distinct(r.cpl)
          /\ 1 <= Len(r.cpl) /\ r.cpl[1] = c
          /\ ~Shortcut(Graph(c, supers, L1)) =>
               \A x \in Ancestors(c, supers, L1) : \A y \in ToSet(Graph(c, supers, L1)[x]) :
                 Position(r.cpl, x) < Position(r.cpl, y)
    BY <1>3, <1>9, PrecedenceListOf
  <2>2. classes'[c].supers = supers /\ classes'[c].cpl = r.cpl
    BY <1>3, <1>4
  <2> HIDE DEF c
  <2> QED BY <1>9, <1>11, <2>1, <2>2 DEF InOrder, L2
<1>13. SlotsThere(classes', c)
  <2> SUFFICES ASSUME r.made
               PROVE  \A d \in ToSet(r.cpl) : ToSet(classes'[d].own) \subseteq ToSet(r.ins \o r.own)
    BY <1>3, <1>4 DEF SlotsThere
  <2>1. r.ins \in Seq(Getter) /\ r.own \in Seq(Getter)
    <3>1. classes'[c] \in ClassRecord
      BY <1>1, <1>4, LenProperties, ElementOfSeq
    <3> QED BY <1>4, <3>1 DEF ClassRecord
  <2>2. ToSet(r.ins \o r.own) = ToSet(r.ins) \cup ToSet(r.own)
    BY <2>1, ConcatSet
  <2>3. ToSet(r.cpl) \subseteq 1..c
    <3>1. r.cpl \in Seq(1..c)
      BY <1>3, <1>9, PrecedenceListOf
    <3> HIDE DEF c
    <3> QED BY <3>1, InSequence
  <2> TAKE d \in ToSet(r.cpl)
  <2>4. CASE d = c
    BY <1>4, <2>2, <2>4
  <2>5. CASE d # c
    <3>1. d \in DOMAIN classes
      BY <1>1, <2>3, <2>5
    <3> QED BY <1>3, <1>4, <2>2, <2>5, <3>1
  <2> QED BY <2>4, <2>5
<1>14. Ordered'
  <2>1. \A d \in DOMAIN classes' : InOrder(classes', d) /\ SlotsThere(classes', d)
    BY <1>4, <1>7, <1>12, <1>13
  <2> QED BY <2>1 DEF Ordered, InOrder, SlotsThere, Known, Position
<1>15. Waiting'
  <2>1. 1 \in DOMAIN classes
    BY <1>1
  <2> QED BY <1>4, <2>1 DEF IInv, Waiting
<1>16. Named'
  <2>1. ASSUME NEW d \in DOMAIN classes' \ {1} PROVE classes'[d].name \in Name /\ denoted'[classes'[d].name] # 0
    <3>1. denoted \in [Name -> 0..Len(classes)] /\ c # 0
      BY <1>1 DEF IInv, Shape
    <3>2. CASE d = c
      BY <1>4, <1>5, <3>1, <3>2
    <3>3. CASE d \in DOMAIN classes
      <4>1. classes[d].name \in Name /\ denoted[classes[d].name] # 0
        BY <2>1, <3>3 DEF IInv, Named
      <4> QED BY <1>4, <1>5, <3>1, <3>3, <4>1
    <3> QED BY <1>4, <3>2, <3>3
  <2> QED BY <2>1 DEF Named
<1>17. SupersReady'
  <2>1. ASSUME NEW d \in DOMAIN classes', classes'[d].made, ~classes'[d].uninit,
               NEW i \in DOMAIN classes'[d].supers
        PROVE  ~classes'[classes'[d].supers[i]].uninit
    <3>1. d \in DOMAIN classes /\ classes'[d] = classes[d]
      BY <1>4, <2>1
    <3>2. ~classes[classes[d].supers[i]].uninit
      BY <2>1, <3>1 DEF IInv, SupersReady
    <3>3. classes[d].supers[i] \in DOMAIN classes
      <4>1. InOrder(classes, d)
        BY <1>2, <3>1
      <4>2. classes[d].supers[i] \in 1..d-1
        BY <1>1, <2>1, <3>1, <4>1, SupersBefore
      <4> QED BY <1>1, <3>1, <4>2
    <3> QED BY <1>4, <3>1, <3>2, <3>3
  <2> QED BY <2>1 DEF SupersReady
<1> QED BY <1>8, <1>14, <1>15, <1>16, <1>17 DEF IInv

\* Sealing changes nothing else.
LEMMA Sealing ==
  ASSUME IInv, NEW c \in DOMAIN classes, seal(c)
  PROVE  /\ DOMAIN classes' = DOMAIN classes /\ Len(classes') = Len(classes)
         /\ \A d \in DOMAIN classes :
              KeptIn(classes, classes', d) /\ classes'[d].uninit = classes[d].uninit
         /\ IInv'
<1>1. classes \in Seq(ClassRecord) /\ Len(classes) \in 1..MaxClasses /\ DOMAIN classes = 1..Len(classes)
      /\ \A d \in DOMAIN classes : classes[d] \in ClassRecord
  BY Records DEF IInv, Shape
<1>2. classes' = [classes EXCEPT ![c].sealed = TRUE] /\ denoted' = denoted /\ getters' = getters
  BY DEF seal
<1>3. classes' = [d \in DOMAIN classes |-> IF d = c THEN [classes[c] EXCEPT !.sealed = TRUE] ELSE classes[d]]
  <2>1. classes \in [DOMAIN classes -> ClassRecord]
    BY <1>1, LenProperties
  <2> QED BY <1>2, <2>1
<1>4. ASSUME NEW d \in DOMAIN classes
      PROVE  KeptIn(classes, classes', d) /\ classes'[d].uninit = classes[d].uninit /\ classes'[d] \in ClassRecord
  <2>1. CASE d = c
    BY <1>1, <1>3, <2>1 DEF KeptIn, ClassRecord
  <2>2. CASE d # c
    BY <1>1, <1>3, <2>2 DEF KeptIn
  <2> QED BY <2>1, <2>2
<1>5. classes' \in [1..Len(classes) -> ClassRecord]
  BY <1>1, <1>3, <1>4
<1>6. classes' \in Seq(ClassRecord) /\ Len(classes') = Len(classes) /\ DOMAIN classes' = DOMAIN classes
  <2>1. classes' \in Seq(ClassRecord)
    BY <1>1, <1>5, SeqDef
  <2>2. DOMAIN classes' = 1..Len(classes)
    BY <1>5
  <2> QED BY <1>1, <2>1, <2>2, LenProperties
<1>7. Shape'
  BY <1>1, <1>2, <1>6 DEF IInv, Shape, MethodsUpTo
<1>8. Ordered'
  <2>1. \A d \in DOMAIN classes : InOrder(classes', d) /\ SlotsThere(classes', d)
    BY <1>1, <1>4, KeptOrdered DEF IInv
  <2>2. \A d \in DOMAIN classes' : InOrder(classes', d) /\ SlotsThere(classes', d)
    BY <1>6, <2>1
  <2> QED BY <2>2 DEF Ordered, InOrder, SlotsThere, Known, Position
<1>9. Waiting'
  <2>1. 1 \in DOMAIN classes
    BY <1>1
  <2> QED BY <1>4, <1>6, <2>1 DEF IInv, Waiting, KeptIn
<1>10. Named'
  BY <1>2, <1>4, <1>6 DEF IInv, Named, KeptIn
<1>11. SupersReady'
  <2>1. ASSUME NEW d \in DOMAIN classes, classes'[d].made, ~classes'[d].uninit,
               NEW i \in DOMAIN classes'[d].supers
        PROVE  ~classes'[classes'[d].supers[i]].uninit
    <3>1. classes'[d].supers = classes[d].supers /\ classes[d].made /\ ~classes[d].uninit
      BY <1>4, <2>1 DEF KeptIn
    <3>2. ~classes[classes[d].supers[i]].uninit
      BY <2>1, <3>1 DEF IInv, SupersReady
    <3>3. classes[d].supers[i] \in DOMAIN classes
      <4>1. InOrder(classes, d)
        BY DEF IInv, Ordered
      <4>2. classes[d].supers[i] \in 1..d-1
        BY <1>1, <2>1, <3>1, <4>1, SupersBefore
      <4> QED BY <1>1, <4>2
    <3> QED BY <1>4, <3>1, <3>2, <3>3
  <2> QED BY <1>6, <2>1 DEF SupersReady
<1> QED BY <1>4, <1>6, <1>7, <1>8, <1>9, <1>10, <1>11 DEF IInv

\* make: the first k of the classes that wait get their getter methods.
LEMMA MakeDoes ==
  ASSUME IInv, NEW c \in DOMAIN classes, Make(c)
  PROVE  /\ classes' \in Seq(ClassRecord) /\ Len(classes') = Len(classes)
         /\ DOMAIN classes' = DOMAIN classes /\ denoted' = denoted
         /\ \A d \in DOMAIN classes : KeptIn(classes, classes', d)
         /\ \E k \in 0..Len(Pending(c)), half \in BOOLEAN :
              /\ half => k < Len(Pending(c))
              /\ getters' = Prepared(Pending(c), k, half)
              /\ \A d \in DOMAIN classes :
                   classes'[d].uninit <=> classes[d].uninit /\ \A i \in 1..k : Pending(c)[i] # d
<1> DEFINE pending == Pending(c)
<1>1. classes \in Seq(ClassRecord) /\ Len(classes) \in 1..MaxClasses /\ DOMAIN classes = 1..Len(classes)
      /\ \A d \in DOMAIN classes : classes[d] \in ClassRecord
  BY Records DEF IInv, Shape
<1>2. PICK k \in 0..Len(pending), half \in BOOLEAN :
        /\ half => k < Len(pending)
        /\ getters' = Prepared(pending, k, half)
        /\ classes' = [d \in DOMAIN classes |->
             IF \E i \in 1..k : pending[i] = d THEN [classes[d] EXCEPT !.uninit = FALSE]
             ELSE classes[d]]
  BY DEF Make
<1>3. denoted' = denoted
  BY DEF Make
<1> HIDE DEF pending
<1>4. ASSUME NEW d \in DOMAIN classes
      PROVE  /\ KeptIn(classes, classes', d) /\ classes'[d] \in ClassRecord
             /\ classes'[d].uninit <=> classes[d].uninit /\ \A i \in 1..k : pending[i] # d
  <2>1. CASE \E i \in 1..k : pending[i] = d
    <3>1. classes'[d] = [classes[d] EXCEPT !.uninit = FALSE]
      BY <1>2, <2>1
    <3>2. DOMAIN classes' = DOMAIN classes
      BY <1>2
    <3> QED BY <1>1, <2>1, <3>1, <3>2 DEF KeptIn, ClassRecord
  <2>2. CASE ~\E i \in 1..k : pending[i] = d
    <3>1. classes'[d] = classes[d]
      BY <1>2, <2>2
    <3>2. DOMAIN classes' = DOMAIN classes
      BY <1>2
    <3> QED BY <1>1, <2>2, <3>1, <3>2 DEF KeptIn
  <2> QED BY <2>1, <2>2
<1>5. DOMAIN classes' = 1..Len(classes)
  BY <1>1, <1>2
<1>6. classes' \in [1..Len(classes) -> ClassRecord]
  <2>1. classes' = [d \in 1..Len(classes) |-> classes'[d]]
    BY <1>1, <1>2
  <2> QED BY <1>1, <1>4, <2>1
<1>7. classes' \in Seq(ClassRecord)
  BY <1>1, <1>6, SeqDef
<1>8. Len(classes') = Len(classes)
  BY <1>1, <1>5, <1>7, LenProperties
<1> QED BY <1>1, <1>2, <1>3, <1>4, <1>5, <1>7, <1>8 DEF pending

LEMMA PendingSpecialized ==
  ASSUME IInv, NEW c \in DOMAIN classes
  PROVE  /\ Specialized(Len(classes), Pending(c))
         /\ DOMAIN Pending(c) = 1..Len(Pending(c)) /\ Len(Pending(c)) \in Nat
<1>1. classes \in Seq(ClassRecord) /\ Len(classes) \in 1..MaxClasses /\ DOMAIN classes = 1..Len(classes)
      /\ denoted \in [Name -> 0..Len(classes)] /\ \A d \in DOMAIN classes : InOrder(classes, d)
  BY Records DEF IInv, Shape, Ordered
<1>2. Pending(c) \in Seq(DOMAIN classes)
  BY <1>1, PendingQueue DEF Awaiting
<1>3. DOMAIN Pending(c) = 1..Len(Pending(c)) /\ Len(Pending(c)) \in Nat
      /\ \A i \in DOMAIN Pending(c) : Pending(c)[i] \in DOMAIN classes
  BY <1>2, LenProperties, ElementOfSeq
<1>4. ASSUME NEW d \in DOMAIN classes PROVE Specializer(d) \in 1..Len(classes)
  <2>1. CASE d = 1
    BY <1>1, <2>1 DEF Specializer
  <2>2. CASE d # 1
    <3>1. classes[d].name \in Name /\ denoted[classes[d].name] # 0
      BY <2>2 DEF IInv, Named
    <3>2. denoted[classes[d].name] \in 0..Len(classes)
      BY <1>1, <3>1
    <3> QED BY <1>1, <2>2, <3>1, <3>2 DEF Specializer
  <2> QED BY <2>1, <2>2
<1> QED BY <1>3, <1>4 DEF Specialized

LEMMA Making ==
  ASSUME IInv, NEW c \in DOMAIN classes, Make(c)
  PROVE  IInv'
<1>1. classes \in Seq(ClassRecord) /\ Len(classes) \in 1..MaxClasses /\ DOMAIN classes = 1..Len(classes)
      /\ denoted \in [Name -> 0..Len(classes)] /\ getters \in MethodsUpTo(Len(classes))
      /\ \A d \in DOMAIN classes : InOrder(classes, d)
  BY Records DEF IInv, Shape, Ordered
<1>2. /\ classes' \in Seq(ClassRecord) /\ Len(classes') = Len(classes)
      /\ DOMAIN classes' = DOMAIN classes /\ denoted' = denoted
      /\ \A d \in DOMAIN classes : KeptIn(classes, classes', d)
  BY MakeDoes
<1>3. PICK k \in 0..Len(Pending(c)), half \in BOOLEAN :
        /\ half => k < Len(Pending(c))
        /\ getters' = Prepared(Pending(c), k, half)
        /\ \A d \in DOMAIN classes :
             classes'[d].uninit <=> classes[d].uninit /\ \A i \in 1..k : Pending(c)[i] # d
  BY MakeDoes
<1>4. /\ Specialized(Len(classes), Pending(c))
      /\ DOMAIN Pending(c) = 1..Len(Pending(c)) /\ Len(Pending(c)) \in Nat
  BY PendingSpecialized
<1>5. Queue(Pending(c))
  BY <1>1, PendingQueue DEF Awaiting
<1> DEFINE pending == Pending(c)
<1>6. DOMAIN pending = 1..Len(pending) /\ Len(pending) \in Nat /\ Specialized(Len(classes), pending)
      /\ Queue(pending) /\ k \in 0..Len(pending) /\ (half => k < Len(pending))
      /\ getters' = Prepared(pending, k, half)
      /\ \A d \in DOMAIN classes :
             classes'[d].uninit <=> classes[d].uninit /\ \A i \in 1..k : pending[i] # d
  BY <1>3, <1>4, <1>5
<1> HIDE DEF pending
<1>7. k \in Nat /\ 1..k \subseteq DOMAIN pending /\ (half => k + 1 \in DOMAIN pending)
  BY <1>6
<1>8. getters' \in MethodsUpTo(Len(classes))
  <2>1. Len(classes) \in Nat /\ Len(classes) <= MaxClasses
    BY <1>1, ClassesAssumption
  <2> QED BY <1>1, <1>6, <1>7, <2>1, PreparedIn
<1>9. Shape'
  BY <1>1, <1>2, <1>8 DEF Shape, MethodsUpTo
<1>10. Ordered'
  <2>1. \A d \in DOMAIN classes : InOrder(classes', d) /\ SlotsThere(classes', d)
    BY <1>1, <1>2, KeptOrdered DEF IInv
  <2>2. \A d \in DOMAIN classes' : InOrder(classes', d) /\ SlotsThere(classes', d)
    BY <1>2, <2>1
  <2> QED BY <2>2 DEF Ordered, InOrder, SlotsThere, Known, Position
<1>11. Waiting'
  <2>1. 1 \in DOMAIN classes
    BY <1>1
  <2> QED BY <1>2, <1>6, <2>1 DEF IInv, Waiting, KeptIn
<1>12. Named'
  BY <1>2 DEF IInv, Named, KeptIn
<1>13. SupersReady'
  <2>1. ASSUME NEW d \in DOMAIN classes, classes'[d].made, ~classes'[d].uninit,
               NEW i \in DOMAIN classes'[d].supers
        PROVE  ~classes'[classes'[d].supers[i]].uninit
    <3> DEFINE s == classes[d].supers[i]
    <3>1. classes'[d].supers = classes[d].supers /\ classes[d].made
      BY <1>2, <2>1 DEF KeptIn
    <3>2. s \in DOMAIN classes
      <4>1. InOrder(classes, d)
        BY DEF IInv, Ordered
      <4>2. classes[d].supers[i] \in 1..d-1
        BY <1>1, <2>1, <3>1, <4>1, SupersBefore
      <4> QED BY <1>1, <4>2
    <3>3. CASE ~classes[d].uninit
      <4>1. ~classes[s].uninit
        BY <2>1, <3>1, <3>3 DEF IInv, SupersReady
      <4> QED BY <1>6, <3>1, <3>2, <4>1
    <3>4. CASE classes[d].uninit
      <4>1. PICK j \in 1..k : pending[j] = d
        BY <1>6, <2>1, <3>4
      <4>2. classes[s].uninit => \E m \in 1..j-1 : pending[m] = s
        <5>1. j \in DOMAIN pending
          BY <1>7
        <5> QED BY <1>6, <2>1, <3>1, <4>1, <5>1 DEF Queue
      <4>3. 1..j-1 \subseteq 1..k
        BY <1>7
      <4> QED BY <1>6, <3>1, <3>2, <4>2, <4>3
    <3> QED BY <3>3, <3>4
  <2> QED BY <1>2, <2>1 DEF SupersReady
<1> QED BY <1>9, <1>10, <1>11, <1>12, <1>13 DEF IInv

\* The invariant is kept.
LEMMA Kept ==
  ASSUME IInv, [Next]_vars
  PROVE  IInv'
<1>1. ASSUME NEW n \in Name, NEW slots \in SlotLists, NEW k \in 1..MaxSupers,
             NEW supers \in [1..k -> DOMAIN classes], DefineClass(n, supers, slots)
      PROVE  IInv'
  <2>1. slots \in Seq(Slot)
    BY FormsAssumption
  <2>2. k \in Nat
    OBVIOUS
  <2>3. supers \in Seq(DOMAIN classes)
    BY <2>2, SeqDef
  <2> QED BY <1>1, <2>1, <2>3, Defining
<1>2. ASSUME NEW c \in Sealable \cap DOMAIN classes, seal(c) PROVE IInv'
  BY <1>2, Sealing
<1>3. ASSUME NEW c \in DOMAIN classes \ {1}, Make(c) PROVE IInv'
  BY <1>3, Making
<1>4. CASE UNCHANGED vars
  <2>1. classes' = classes /\ denoted' = denoted /\ getters' = getters
    BY <1>4 DEF vars
  <2>2. Shape' /\ Waiting' /\ Named' /\ SupersReady'
    BY <2>1 DEF IInv, Shape, Waiting, Named, SupersReady, MethodsUpTo
  <2>3. Ordered'
    <3>1. \A d \in DOMAIN classes' : InOrder(classes', d) /\ SlotsThere(classes', d)
      BY <2>1 DEF IInv, Ordered
    <3> QED BY <3>1 DEF Ordered, InOrder, SlotsThere, Known, Position
  <2> QED BY <2>2, <2>3 DEF IInv
<1> QED BY <1>1, <1>2, <1>3, <1>4 DEF Next

\* The invariant holds of every program that defines, seals and makes (class.c:304-425, 758-869).
THEOREM Invariance == Spec => []IInv
<1>1. Init => IInv
  BY Inits
<1>2. IInv /\ [Next]_vars => IInv'
  BY Kept
<1> QED BY <1>1, <1>2, PTL DEF Spec

\* A class object has the fields that make_class gives it, names denote classes there are, and
\* getter methods are for such (class.c:304-425, 1178-1243).
THEOREM ClassTypes == Spec => []TypeOK
<1>1. IInv => TypeOK
  <2> SUFFICES ASSUME IInv PROVE TypeOK
    OBVIOUS
  <2>1. Shape /\ Len(classes) \in Nat /\ Len(classes) <= MaxClasses /\ 1..Len(classes) \subseteq ClassNumber
    BY ClassesAssumption DEF IInv, Shape, ClassNumber
  <2>2. ASSUME NEW g \in Getter, NEW m \in getters[g] PROVE m \in GetterMethod
    <3>1. m \in [cls : 1..Len(classes), of : {0} \cup ClassNumber, at : Nat \ {0}]
      BY <2>1 DEF Shape, MethodsUpTo
    <3> QED BY <2>1, <3>1 DEF GetterMethod
  <2> QED BY <2>1, <2>2 DEF TypeOK, Shape
<1> QED BY <1>1, Invariance, PTL

-----------------------------------------------------------------------------
(* Superclasses first, and monotonic lists. *)

\* The class is above itself; any other class above it is above a direct superclass, all of
\* whose list it has.
LEMMA AboveOf ==
  ASSUME IInv, NEW c \in DOMAIN classes, classes[c].cpl # <<>>
  PROVE  /\ ToSet(classes[c].cpl) \subseteq DOMAIN classes
         /\ c \in ToSet(classes[c].cpl)
         /\ \A d \in ToSet(classes[c].cpl) : d # c =>
              \E i \in DOMAIN classes[c].supers : d \in ToSet(classes[classes[c].supers[i]].cpl)
         /\ \A i \in DOMAIN classes[c].supers :
              /\ classes[c].supers[i] \in 1..c-1 /\ classes[c].supers[i] \in DOMAIN classes
              /\ classes[classes[c].supers[i]].cpl # <<>>
              /\ ToSet(classes[classes[c].supers[i]].cpl) \subseteq ToSet(classes[c].cpl)
<1> DEFINE supers == classes[c].supers
           L      == ListsOf(classes)
<1>1. classes \in Seq(ClassRecord) /\ Len(classes) \in Nat /\ DOMAIN classes = 1..Len(classes)
      /\ InOrder(classes, c)
  BY Records DEF IInv, Shape, Ordered
<1>2. ASSUME NEW i \in DOMAIN supers PROVE supers[i] \in 1..c-1 /\ supers[i] \in DOMAIN classes
  <2>1. supers[i] \in 1..c-1
    BY <1>1, SupersBefore
  <2> QED BY <1>1, <2>1
<1>3. /\ classes[c].cpl \in Seq(1..c) /\ ToSet(classes[c].cpl) = Ancestors(c, supers, L)
      /\ Known(c, supers, L)
  BY <1>1 DEF InOrder
<1>4. ToSet(classes[c].cpl) \subseteq DOMAIN classes
  <2>1. ToSet(classes[c].cpl) \subseteq 1..c
    BY <1>3, InSequence
  <2> QED BY <1>1, <2>1
<1>5. ASSUME NEW i \in DOMAIN supers PROVE L[supers[i]] = classes[supers[i]].cpl /\ L[supers[i]] # <<>>
  <2>1. L[supers[i]] = classes[supers[i]].cpl
    BY <1>2 DEF ListsOf
  <2>2. 1 <= Len(L[supers[i]])
    BY <1>3 DEF Known
  <2> QED BY <2>1, <2>2
<1> HIDE DEF L
<1>6. Ancestors(c, supers, L) = {c} \cup UNION {ToSet(classes[supers[i]].cpl) : i \in DOMAIN supers}
  BY <1>5 DEF Ancestors
<1> QED BY <1>2, <1>3, <1>4, <1>5, <1>6

\* The classes above a class above c are above c.
LEMMA AllAbove ==
  ASSUME IInv
  PROVE  \A c \in DOMAIN classes : \A d \in ToSet(classes[c].cpl) :
           ToSet(classes[d].cpl) \subseteq ToSet(classes[c].cpl)
<1> DEFINE n == Len(classes)
           Good(c) == \A d \in ToSet(classes[c].cpl) : ToSet(classes[d].cpl) \subseteq ToSet(classes[c].cpl)
           h == [k \in 0..n |-> \A c \in 1..k : Good(c)]
<1>1. n \in Nat /\ DOMAIN classes = 1..n /\ 0 \in 0..n /\ n \in 0..n
  <2>1. n \in Nat /\ DOMAIN classes = 1..n
    BY Records DEF IInv, Shape
  <2> QED BY <2>1
<1>2. h[0] \in {TRUE}
  BY <1>1
<1>3. ASSUME NEW k \in 0+1..n, h[k-1] \in {TRUE} PROVE h[k] \in {TRUE}
  <2>1. k \in DOMAIN classes /\ k \in 0..n /\ k - 1 \in 0..n /\ 1..k = (1..k-1) \cup {k}
    BY <1>1
  <2>2. \A c \in 1..k-1 : Good(c)
    <3> HIDE DEF Good
    <3> QED BY <1>3, <2>1
  <2>3. Good(k)
    <3> SUFFICES ASSUME NEW d \in ToSet(classes[k].cpl), d # k
                 PROVE  ToSet(classes[d].cpl) \subseteq ToSet(classes[k].cpl)
      OBVIOUS
    <3>1. classes[k].cpl # <<>>
      BY DEF ToSet
    <3>2. PICK i \in DOMAIN classes[k].supers : d \in ToSet(classes[classes[k].supers[i]].cpl)
      BY <2>1, <3>1, AboveOf
    <3>3. /\ classes[k].supers[i] \in 1..k-1
          /\ ToSet(classes[classes[k].supers[i]].cpl) \subseteq ToSet(classes[k].cpl)
      BY <2>1, <3>1, AboveOf
    <3> QED BY <2>2, <3>2, <3>3
  <2> HIDE DEF Good
  <2> QED BY <2>1, <2>2, <2>3
<1>4. \A k \in 0..n : h[k] \in {TRUE}
  <2> HIDE DEF h, n
  <2> QED BY <1>1, <1>2, <1>3, Onwards
<1> QED BY <1>1, <1>4

\* When an instance of a class can be made, the classes above it have got their getter
\* methods, in the order of the walk of initialize_slotds and through all its errors
\* (class.c:768-781).
THEOREM SuperclassesReady == Spec => []SuperclassesFirst
<1>1. IInv => SuperclassesFirst
  <2> SUFFICES ASSUME IInv PROVE SuperclassesFirst
    OBVIOUS
  <2> DEFINE n == Len(classes)
             Good(c) == ~classes[c].uninit /\ (\A d \in ToSet(classes[c].cpl) : classes[d].made) =>
                          \A d \in ToSet(classes[c].cpl) : ~classes[d].uninit
             h == [k \in 0..n |-> \A c \in 1..k : Good(c)]
  <2>1. n \in Nat /\ DOMAIN classes = 1..n /\ 0 \in 0..n /\ n \in 0..n
    <3>1. n \in Nat /\ DOMAIN classes = 1..n
      BY Records DEF IInv, Shape
    <3> QED BY <3>1
  <2>2. h[0] \in {TRUE}
    BY <2>1
  <2>3. ASSUME NEW k \in 0+1..n, h[k-1] \in {TRUE} PROVE h[k] \in {TRUE}
    <3>1. k \in DOMAIN classes /\ k \in 0..n /\ k - 1 \in 0..n /\ 1..k = (1..k-1) \cup {k}
      BY <2>1
    <3>2. \A c \in 1..k-1 : Good(c)
      <4> HIDE DEF Good
      <4> QED BY <2>3, <3>1
    <3>3. Good(k)
      <4> SUFFICES ASSUME ~classes[k].uninit, \A d \in ToSet(classes[k].cpl) : classes[d].made,
                          NEW d \in ToSet(classes[k].cpl), d # k
                   PROVE  ~classes[d].uninit
        OBVIOUS
      <4>1. classes[k].cpl # <<>>
        BY DEF ToSet
      <4>2. classes[k].made
        BY <3>1, <4>1, AboveOf
      <4>3. PICK i \in DOMAIN classes[k].supers : d \in ToSet(classes[classes[k].supers[i]].cpl)
        BY <3>1, <4>1, AboveOf
      <4>4. /\ classes[k].supers[i] \in 1..k-1
            /\ ToSet(classes[classes[k].supers[i]].cpl) \subseteq ToSet(classes[k].cpl)
        BY <3>1, <4>1, AboveOf
      <4>5. ~classes[classes[k].supers[i]].uninit
        BY <3>1, <4>2 DEF IInv, SupersReady
      <4> QED BY <3>2, <4>3, <4>4, <4>5
    <3> HIDE DEF Good
    <3> QED BY <3>1, <3>2, <3>3
  <2>4. \A k \in 0..n : h[k] \in {TRUE}
    <3> HIDE DEF h, n
    <3> QED BY <2>1, <2>2, <2>3, Onwards
  <2> QED BY <2>1, <2>4 DEF SuperclassesFirst
<1> QED BY <1>1, Invariance, PTL

\* What holds from each place of a list to the next holds from each to any later one.
LEMMA Chained ==
  ASSUME NEW list, NEW S, list \in Seq(S), NEW P,
         \A x \in S : P[x] \in Int,
         \A i \in 1..Len(list)-1 : P[list[i]] < P[list[i+1]],
         NEW i \in 1..Len(list), NEW j \in 1..Len(list), i < j
  PROVE  P[list[i]] < P[list[j]]
<1> DEFINE n == Len(list)
           h == [k \in i+1..n |-> P[list[i]] < P[list[k]]]
<1>1. n \in Nat /\ \A k \in 1..n : list[k] \in S
  BY LenProperties, ElementOfSeq
<1>2. i + 1 \in Nat /\ i + 1 \in i+1..n /\ j \in i+1..n
  BY <1>1
<1>3. h[i+1] \in {TRUE}
  <2>1. i \in 1..n-1
    BY <1>1
  <2> QED BY <1>2, <2>1
<1>4. ASSUME NEW k \in i+1+1..n, h[k-1] \in {TRUE} PROVE h[k] \in {TRUE}
  <2>1. k \in i+1..n /\ k - 1 \in i+1..n /\ k - 1 \in 1..n-1 /\ (k - 1) + 1 = k /\ k \in 1..n /\ k - 1 \in 1..n
    BY <1>1
  <2>2. P[list[i]] < P[list[k-1]]
    BY <1>4, <2>1
  <2>3. P[list[k-1]] < P[list[k]]
    BY <2>1
  <2>4. P[list[i]] \in Int /\ P[list[k-1]] \in Int /\ P[list[k]] \in Int
    BY <1>1, <2>1
  <2>5. P[list[i]] < P[list[k]]
    BY <2>2, <2>3, <2>4
  <2> QED BY <2>1, <2>5
<1>5. \A k \in i+1..n : h[k] \in {TRUE}
  <2> HIDE DEF h, n
  <2> QED BY <1>1, <1>2, <1>3, <1>4, Onwards
<1> QED BY <1>2, <1>5

\* A precedence list keeps the order of those of the direct superclasses.
LEMMA KeepsSupers ==
  ASSUME IInv, NEW c \in DOMAIN classes, classes[c].cpl # <<>>, ~ShortcutAt(c),
         NEW k \in DOMAIN classes[c].supers,
         NEW i \in 1..Len(classes[classes[c].supers[k]].cpl),
         NEW j \in 1..Len(classes[classes[c].supers[k]].cpl), i < j
  PROVE  Position(classes[c].cpl, classes[classes[c].supers[k]].cpl[i])
           < Position(classes[c].cpl, classes[classes[c].supers[k]].cpl[j])
<1> DEFINE list   == classes[c].cpl
           supers == classes[c].supers
           s      == supers[k]
           l      == classes[s].cpl
           L      == ListsOf(classes)
           G      == Graph(c, supers, L)
           P      == [x \in ToSet(list) |-> Position(list, x)]
<1>1. InOrder(classes, c) /\ L = Lists
  BY DEF IInv, Ordered, ListsOf, Lists
<1>2. /\ Known(c, supers, L) /\ list \in Seq(1..c) /\ Distinct(list)
      /\ ToSet(list) = Ancestors(c, supers, L)
      /\ ~Shortcut(G) => \A x \in Ancestors(c, supers, L) : \A y \in ToSet(G[x]) :
                           Position(list, x) < Position(list, y)
  BY <1>1 DEF InOrder
<1>3. ~Shortcut(G)
  BY <1>1 DEF ShortcutAt
<1>4. s \in DOMAIN classes /\ l # <<>> /\ ToSet(l) \subseteq ToSet(list)
  BY AboveOf
<1>5. L[s] = l
  BY <1>4 DEF ListsOf
<1>6. \A m \in 1..Len(l)-1 : l[m+1] \in ToSet(G[l[m]])
  <2>1. Known(c, supers, L) /\ k \in DOMAIN supers
    BY <1>2
  <2> HIDE DEF supers, L
  <2>2. \A m \in 1..Len(L[supers[k]])-1 : L[supers[k]][m+1] \in ToSet(G[L[supers[k]][m]])
    BY <2>1, GraphOf
  <2> HIDE DEF l, G
  <2> QED BY <1>5, <2>2
<1>7. l \in Seq(1..c-1)
  BY <1>2, <1>5 DEF Known
<1>8. Len(l) \in Nat /\ DOMAIN l = 1..Len(l) /\ \A m \in 1..Len(l) : l[m] \in ToSet(list)
  <2>1. Len(l) \in Nat /\ DOMAIN l = 1..Len(l)
    BY <1>7, LenProperties
  <2>2. \A m \in 1..Len(l) : l[m] \in ToSet(l)
    BY <2>1 DEF ToSet
  <2> QED BY <1>4, <2>1, <2>2
<1>9. l \in Seq(ToSet(list))
  <2>1. l \in [1..Len(l) -> ToSet(list)]
    BY <1>7, <1>8, LenProperties
  <2>2. Len(l) \in Nat
    BY <1>8
  <2> HIDE DEF l, list
  <2> QED BY <2>1, <2>2, SeqDef
<1>10. \A x \in ToSet(list) : P[x] \in Int
  <2> SUFFICES ASSUME NEW x \in ToSet(list) PROVE Position(list, x) \in Int
    OBVIOUS
  <2>1. DOMAIN list = 1..Len(list)
    BY <1>2, LenProperties
  <2>2. PICK m \in DOMAIN list : list[m] = x
    BY DEF ToSet
  <2>3. Position(list, list[m]) = m
    BY <1>2, <2>2, PositionOf
  <2> QED BY <2>1, <2>2, <2>3
<1> HIDE DEF G, l, L
<1>11. \A m \in 1..Len(l)-1 : P[l[m]] < P[l[m+1]]
  <2> SUFFICES ASSUME NEW m \in 1..Len(l)-1 PROVE P[l[m]] < P[l[m+1]]
    OBVIOUS
  <2>1. m \in 1..Len(l) /\ m + 1 \in 1..Len(l)
    BY <1>8
  <2>2. l[m] \in ToSet(list) /\ l[m+1] \in ToSet(list)
    BY <1>8, <2>1
  <2>3. Position(list, l[m]) < Position(list, l[m+1])
    BY <1>2, <1>3, <1>6, <2>2
  <2> QED BY <2>2, <2>3
<1> HIDE DEF P
<1>12. i \in 1..Len(l) /\ j \in 1..Len(l)
  BY DEF l
<1>13. P[l[i]] < P[l[j]]
  <2> HIDE DEF list
  <2> QED BY <1>9, <1>10, <1>11, <1>12, Chained
<1>14. l[i] \in ToSet(list) /\ l[j] \in ToSet(list)
  BY <1>8, <1>12
<1> QED BY <1>13, <1>14 DEF P, l

\* A precedence list has the class and all classes above it, each once, and unless a walk met a
\* shortcut it keeps the order of the lists of all of these (classprec-ll.c:228-305).
THEOREM Monotonic == Spec => []MonotonicLists
<1>1. IInv => MonotonicLists
  <2> SUFFICES ASSUME IInv PROVE MonotonicLists
    OBVIOUS
  <2> DEFINE n == Len(classes)
             Keeps(c, d) == \A i, j \in DOMAIN classes[d].cpl : i < j =>
               Position(classes[c].cpl, classes[d].cpl[i]) < Position(classes[c].cpl, classes[d].cpl[j])
             Good(c) == (\A d \in ToSet(classes[c].cpl) : ~ShortcutAt(d)) =>
                          \A d \in ToSet(classes[c].cpl) : Keeps(c, d)
             h == [k \in 0..n |-> \A c \in 1..k : Good(c)]
  <2>1. n \in Nat /\ DOMAIN classes = 1..n /\ 0 \in 0..n /\ n \in 0..n
    <3>1. n \in Nat /\ DOMAIN classes = 1..n
      BY Records DEF IInv, Shape
    <3> QED BY <3>1
  <2>2. ASSUME NEW c \in DOMAIN classes
        PROVE  /\ Distinct(classes[c].cpl) /\ DOMAIN classes[c].cpl = 1..Len(classes[c].cpl)
               /\ classes[c].cpl # <<>> => ToSet(classes[c].cpl) = Ancestors(c, classes[c].supers, Lists)
    <3>1. InOrder(classes, c) /\ ListsOf(classes) = Lists
      BY DEF IInv, Ordered, ListsOf, Lists
    <3>2. CASE classes[c].cpl = <<>>
      BY <3>2 DEF Distinct
    <3>3. CASE classes[c].cpl # <<>>
      <4>1. classes[c].cpl \in Seq(1..c)
        BY <3>1, <3>3 DEF InOrder
      <4>2. DOMAIN classes[c].cpl = 1..Len(classes[c].cpl)
        BY <4>1, LenProperties
      <4> QED BY <3>1, <3>3, <4>2 DEF InOrder
    <3> QED BY <3>2, <3>3
  <2>3. h[0] \in {TRUE}
    BY <2>1
  <2>4. ASSUME NEW k \in 0+1..n, h[k-1] \in {TRUE} PROVE h[k] \in {TRUE}
    <3>1. k \in DOMAIN classes /\ k \in 0..n /\ k - 1 \in 0..n /\ 1..k = (1..k-1) \cup {k}
      BY <2>1
    <3>2. \A c \in 1..k-1 : Good(c)
      <4> HIDE DEF Good
      <4> QED BY <2>4, <3>1
    <3>3. Good(k)
      <4> DEFINE list == classes[k].cpl
      <4> SUFFICES ASSUME \A d \in ToSet(list) : ~ShortcutAt(d), NEW d \in ToSet(list),
                          NEW i \in DOMAIN classes[d].cpl, NEW j \in DOMAIN classes[d].cpl, i < j
                   PROVE  Position(list, classes[d].cpl[i]) < Position(list, classes[d].cpl[j])
        OBVIOUS
      <4>1. list # <<>>
        BY DEF ToSet
      <4>2. ~ShortcutAt(k)
        BY <3>1, <4>1, AboveOf
      <4>3. CASE d = k
        <5>1. Position(list, list[i]) = i /\ Position(list, list[j]) = j
          BY <2>2, <3>1, <4>3, PositionOf
        <5> QED BY <4>3, <5>1
      <4>4. CASE d # k
        <5>1. PICK m \in DOMAIN classes[k].supers : d \in ToSet(classes[classes[k].supers[m]].cpl)
          BY <3>1, <4>1, <4>4, AboveOf
        <5> DEFINE s == classes[k].supers[m]
                   l == classes[s].cpl
        <5>2. s \in 1..k-1 /\ s \in DOMAIN classes /\ l # <<>> /\ ToSet(l) \subseteq ToSet(list)
          BY <3>1, <4>1, AboveOf
        <5>3. Keeps(s, d)
          BY <3>2, <5>1, <5>2
        <5>4. Position(l, classes[d].cpl[i]) < Position(l, classes[d].cpl[j])
          BY <5>3
        <5>5. ToSet(classes[d].cpl) \subseteq ToSet(l)
          BY <5>1, <5>2, AllAbove
        <5>6. classes[d].cpl[i] \in ToSet(l) /\ classes[d].cpl[j] \in ToSet(l)
          BY <5>5 DEF ToSet
        <5> HIDE DEF s
        <5>7. PICK p \in DOMAIN l : l[p] = classes[d].cpl[i]
          BY <5>6 DEF ToSet
        <5>8. PICK q \in DOMAIN l : l[q] = classes[d].cpl[j]
          BY <5>6 DEF ToSet
        <5>9. Distinct(l) /\ DOMAIN l = 1..Len(l)
          BY <2>2, <5>2
        <5>10. p < q
          <6>1. Position(l, l[p]) = p /\ Position(l, l[q]) = q
            BY <5>9, PositionOf
          <6> QED BY <5>4, <5>7, <5>8, <6>1
        <5>11. Position(list, l[p]) < Position(list, l[q])
          BY <3>1, <4>1, <4>2, <5>9, <5>10, KeepsSupers DEF s
        <5> QED BY <5>7, <5>8, <5>11
      <4> QED BY <4>3, <4>4
    <3> HIDE DEF Good
    <3> QED BY <3>1, <3>2, <3>3
  <2>5. \A k \in 0..n : h[k] \in {TRUE}
    <3> HIDE DEF h, n
    <3> QED BY <2>1, <2>3, <2>4, Onwards
  <2>6. \A c \in DOMAIN classes : Good(c)
    <3> HIDE DEF Good
    <3> QED BY <2>1, <2>5
  <2> HIDE DEF h, n
  <2> QED BY <2>2, <2>6 DEF MonotonicLists, Distinct
<1> QED BY <1>1, Invariance, PTL

-----------------------------------------------------------------------------
(* The places of slots, for programs that make an instance of a class before they define its   *)
(* name again.                                                                                 *)

\* The methods of getter g for class c, as they are when all have been made.
All(c, g) ==
  {[cls |-> c, of |-> 0, at |-> i] : i \in {i \in DOMAIN Layout(c) : Layout(c)[i] = g}} \cup
  {[cls |-> c, of |-> c, at |-> i] : i \in {i \in DOMAIN classes[c].each : classes[c].each[i] = g}}

\* Those of a set of methods that are for class c.
For(ms, c) == {m \in ms : m.cls = c}

\* The name of a class that waits denotes it still.
StillNamed == \A c \in DOMAIN classes : classes[c].uninit => denoted[classes[c].name] = c

\* A class that waits may have some of its methods, one that has got them has all.
Placed ==
  \A c \in DOMAIN classes : \A g \in Getter :
    /\ For(getters[g], c) \subseteq All(c, g)
    /\ classes[c].made /\ ~classes[c].uninit => For(getters[g], c) = All(c, g)

PInv == StillNamed /\ Placed

OnlyFor(ms, c) == \A m \in ms : m.cls = c

LEMMA ReplacingOne ==
  ASSUME NEW old, NEW new, NEW c, OnlyFor(new, c)
  PROVE  For(Replacing(old, new), c) = IF new = {} THEN For(old, c) ELSE new
<1>1. CASE new = {}
  BY <1>1 DEF For, Replacing
<1>2. CASE new # {}
  BY <1>2 DEF For, Replacing, OnlyFor
<1> QED BY <1>1, <1>2

LEMMA ReplacingOther ==
  ASSUME NEW old, NEW new, NEW c, NEW d, d # c, OnlyFor(new, c)
  PROVE  For(Replacing(old, new), d) = For(old, d)
BY DEF For, Replacing, OnlyFor

\* The classes that wait specialize for themselves.
LEMMA OwnIsAll ==
  ASSUME IInv, StillNamed, NEW c \in DOMAIN classes, classes[c].uninit, NEW g
  PROVE  /\ Own(c, g) = All(c, g) /\ InstanceGetters(c, g) \subseteq All(c, g)
         /\ \A m \in Own(c, g) : m.cls = c
<1>1. c # 1 /\ Specializer(c) = c
  BY DEF IInv, Waiting, StillNamed, Specializer
<1>2. Own(c, g) = All(c, g) /\ InstanceGetters(c, g) \subseteq All(c, g)
  BY <1>1 DEF Own, All, InstanceGetters, ClassGetters
<1> QED BY <1>2 DEF All

\* A kept class has the same methods.
LEMMA SameAll ==
  ASSUME NEW c, KeptIn(classes, classes', c), NEW g
  PROVE  All(c, g)' = All(c, g)
BY DEF KeptIn, All, Layout

Waits(pending) == \A i \in 1..Len(pending) : classes[pending[i]].uninit

\* The first k of the classes that wait get all their methods, and the one after them may get
\* some; the methods of the other classes stay.
LEMMA PreparedAll ==
  ASSUME IInv, PInv, NEW pending \in Seq(DOMAIN classes), Distinct(pending),
         Specialized(Len(classes), pending), Waits(pending),
         NEW k \in 0..Len(pending), NEW half \in BOOLEAN, half => k < Len(pending),
         NEW g \in Getter, NEW c \in DOMAIN classes
  PROVE  /\ For(Prepared(pending, k, half)[g], c) \subseteq All(c, g)
         /\ (\E i \in 1..k : pending[i] = c) \/ (~classes[c].uninit /\ For(getters[g], c) = All(c, g)) =>
              For(Prepared(pending, k, half)[g], c) = All(c, g)
<1> DEFINE n == Len(classes)
           Good(i, ms) == /\ For(ms, c) \subseteq All(c, g)
                          /\ (\E j \in 1..i : pending[j] = c) \/ (~classes[c].uninit /\ For(getters[g], c) = All(c, g)) =>
                               For(ms, c) = All(c, g)
<1>1. classes \in Seq(ClassRecord) /\ n \in Nat /\ n <= MaxClasses /\ getters \in MethodsUpTo(n)
  BY Records, ClassesAssumption DEF IInv, Shape
<1>2. /\ k \in Nat /\ 1..k \subseteq DOMAIN pending /\ k \in 0..k /\ 0 \in 0..k
      /\ half => k + 1 \in 1..Len(pending)
      /\ \A i \in 1..Len(pending) : pending[i] \in DOMAIN classes /\ classes[pending[i]].uninit
      /\ 1..k \subseteq 1..Len(pending)
  <2>1. Len(pending) \in Nat /\ DOMAIN pending = 1..Len(pending)
        /\ \A i \in 1..Len(pending) : pending[i] \in DOMAIN classes
    BY LenProperties, ElementOfSeq
  <2> QED BY <2>1 DEF Waits
<1>3. PICK v : v \in Prepares(n, pending, k)
  <2> HIDE DEF n
  <2> QED BY <1>1, <1>2, PreparesRun DEF n
<1>4. v[0] = getters /\ \A i \in 1..k : v[i][g] = Replacing(v[i-1][g], Own(pending[i], g))
  BY <1>3 DEF Prepares
<1>5. Good(0, getters[g])
  <2>1. 1..0 = {}
    OBVIOUS
  <2> QED BY <2>1 DEF PInv, Placed
<1> DEFINE h == [i \in 0..k |-> Good(i, v[i][g])]
<1>6. ASSUME NEW p \in DOMAIN classes, classes[p].uninit, NEW ms, For(ms, c) \subseteq All(c, g),
             NEW new, new \subseteq All(p, g)
      PROVE  /\ For(Replacing(ms, new), c) \subseteq All(c, g)
             /\ p # c => For(Replacing(ms, new), c) = For(ms, c)
             /\ p = c /\ new = All(p, g) => For(Replacing(ms, new), c) = All(c, g)
  <2>1. OnlyFor(new, p)
    BY <1>6 DEF All, OnlyFor
  <2>2. /\ p # c => For(Replacing(ms, new), c) = For(ms, c)
        /\ For(Replacing(ms, new), p) = IF new = {} THEN For(ms, p) ELSE new
    <3>1. p # c => For(Replacing(ms, new), c) = For(ms, c)
      BY <2>1, ReplacingOther
    <3>2. For(Replacing(ms, new), p) = IF new = {} THEN For(ms, p) ELSE new
      BY <2>1, ReplacingOne
    <3> QED BY <3>1, <3>2
  <2> QED BY <1>6, <2>2
<1>7. h[0] \in {TRUE}
  <2> HIDE DEF Good
  <2> QED BY <1>2, <1>4, <1>5
<1>8. ASSUME NEW i \in 0+1..k, h[i-1] \in {TRUE} PROVE h[i] \in {TRUE}
  <2>1. i \in 1..k /\ i \in 0..k /\ i - 1 \in 0..k /\ 1..i = (1..i-1) \cup {i}
    BY <1>2
  <2>2. Good(i-1, v[i-1][g])
    <3> HIDE DEF Good
    <3> QED BY <1>8, <2>1
  <2> DEFINE p == pending[i]
             new == Own(p, g)
             ms == v[i-1][g]
  <2>3. p \in DOMAIN classes /\ classes[p].uninit
    BY <1>2, <2>1
  <2>4. new = All(p, g)
    BY <2>3, OwnIsAll DEF PInv
  <2>5. v[i][g] = Replacing(ms, new)
    BY <1>4, <2>1
  <2> HIDE DEF new, ms
  <2>6. For(ms, c) \subseteq All(c, g)
    BY <2>2 DEF ms
  <2>7. /\ For(Replacing(ms, new), c) \subseteq All(c, g)
        /\ p # c => For(Replacing(ms, new), c) = For(ms, c)
        /\ p = c => For(Replacing(ms, new), c) = All(c, g)
    <3>1. new \subseteq All(p, g)
      BY <2>4
    <3> HIDE DEF p
    <3> QED BY <1>6, <2>3, <2>4, <2>6, <3>1
  <2>8. Good(i, v[i][g])
    BY <2>1, <2>2, <2>5, <2>7 DEF ms
  <2> HIDE DEF Good
  <2> QED BY <2>1, <2>8
<1>9. \A i \in 0..k : h[i] \in {TRUE}
  <2> HIDE DEF h
  <2> QED BY <1>2, <1>7, <1>8, Onwards
<1>10. Good(k, v[k][g])
  <2> HIDE DEF Good
  <2> QED BY <1>2, <1>9
<1>11. Prepared(pending, k, half) =
         IF half THEN [f \in Getter |-> Replacing(v[k][f], InstanceGetters(pending[k+1], f))]
         ELSE v[k]
  <2> HIDE DEF n
  <2> QED BY <1>1, <1>2, <1>3, Preparing
<1>12. CASE ~half
  BY <1>10, <1>11, <1>12
<1>13. CASE half
  <2> DEFINE p == pending[k+1]
             new == InstanceGetters(p, g)
  <2>1. Prepared(pending, k, half)[g] = Replacing(v[k][g], new)
    BY <1>11, <1>13
  <2>2. p \in DOMAIN classes /\ classes[p].uninit
    BY <1>2, <1>13
  <2>3. new \subseteq All(p, g)
    BY <2>2, OwnIsAll DEF PInv
  <2>4. For(v[k][g], c) \subseteq All(c, g)
    BY <1>10
  <2> HIDE DEF new
  <2>5. /\ For(Replacing(v[k][g], new), c) \subseteq All(c, g)
        /\ p # c => For(Replacing(v[k][g], new), c) = For(v[k][g], c)
    BY <1>6, <2>2, <2>3, <2>4
  <2>6. (\E j \in 1..k : pending[j] = c) \/ ~classes[c].uninit => p # c
    <3>1. ASSUME NEW j \in 1..k, pending[j] = p PROVE FALSE
      <4>1. j \in DOMAIN pending /\ k + 1 \in DOMAIN pending /\ j # k + 1
        <5>1. DOMAIN pending = 1..Len(pending)
          BY LenProperties
        <5> QED BY <1>2, <1>13, <5>1
      <4> QED BY <3>1, <4>1 DEF Distinct
    <3> QED BY <2>2, <3>1
  <2> QED BY <1>10, <2>1, <2>5, <2>6
<1> QED BY <1>12, <1>13

\* A definition leaves the methods as they are; there is none for the new class.
LEMMA PlacesDefining ==
  ASSUME IInv, PInv, Unprepared = FALSE, NEW n \in Name, NEW slots \in Seq(Slot),
         NEW supers \in Seq(DOMAIN classes), DefineClass(n, supers, slots)
  PROVE  PInv'
<1> DEFINE c == Len(classes) + 1
           r == make_class(n, supers, slots)
<1>1. classes \in Seq(ClassRecord) /\ Len(classes) \in Nat /\ DOMAIN classes = 1..Len(classes)
      /\ denoted \in [Name -> 0..Len(classes)] /\ getters \in MethodsUpTo(Len(classes))
      /\ c \notin DOMAIN classes
  <2>1. classes \in Seq(ClassRecord) /\ Len(classes) \in Nat /\ DOMAIN classes = 1..Len(classes)
    BY Records DEF IInv, Shape
  <2> QED BY <2>1 DEF IInv, Shape
<1>2. /\ DOMAIN classes' = DOMAIN classes \cup {c}
      /\ \A d \in DOMAIN classes : classes'[d] = classes[d]
      /\ classes'[c] = r /\ r.name = n /\ r.uninit = r.made
  BY Defined
<1> HIDE DEF r
<1>3. /\ denoted' = [denoted EXCEPT ![n] = c] /\ getters' = getters
      /\ denoted[n] # 0 => ~classes[denoted[n]].uninit
  BY DEF DefineClass
<1>4. StillNamed'
  <2>1. ASSUME NEW d \in DOMAIN classes', classes'[d].uninit PROVE denoted'[classes'[d].name] = d
    <3>1. CASE d = c
      BY <1>1, <1>2, <1>3, <3>1
    <3>2. CASE d # c
      <4>1. d \in DOMAIN classes /\ classes'[d] = classes[d] /\ classes[d].uninit
        BY <1>2, <2>1, <3>2
      <4>2. denoted[classes[d].name] = d
        BY <4>1 DEF PInv, StillNamed
      <4>3. d # 1 /\ d # 0
        BY <1>1, <4>1 DEF IInv, Waiting
      <4>4. classes[d].name \in Name
        BY <4>1, <4>3 DEF IInv, Named
      <4>5. classes[d].name # n
        BY <1>3, <4>1, <4>2, <4>3
      <4> QED BY <1>1, <1>3, <4>1, <4>2, <4>4, <4>5
    <3> QED BY <3>1, <3>2
  <2> QED BY <2>1 DEF StillNamed
<1>5. ASSUME NEW d \in DOMAIN classes', NEW g \in Getter
      PROVE  /\ For(getters'[g], d) \subseteq All(d, g)'
             /\ classes'[d].made /\ ~classes'[d].uninit => For(getters'[g], d) = All(d, g)'
  <2>1. CASE d \in DOMAIN classes
    <3>1. KeptIn(classes, classes', d)
      BY <1>2, <2>1 DEF KeptIn
    <3>2. All(d, g)' = All(d, g)
      BY <3>1, SameAll
    <3>3. classes'[d] = classes[d]
      BY <1>2, <2>1
    <3> QED BY <1>3, <2>1, <3>2, <3>3 DEF PInv, Placed
  <2>2. CASE d = c
    <3>1. getters[g] \subseteq [cls : 1..Len(classes), of : {0} \cup ClassNumber, at : Nat \ {0}]
      BY <1>1 DEF MethodsUpTo
    <3>2. For(getters[g], c) = {}
      <4>1. \A m \in getters[g] : m.cls \in DOMAIN classes
        BY <1>1, <3>1
      <4> QED BY <1>1, <4>1 DEF For
    <3> QED BY <1>2, <1>3, <2>2, <3>2
  <2> QED BY <1>2, <2>1, <2>2
<1>6. Placed'
  BY <1>5 DEF Placed, For
<1> QED BY <1>4, <1>6 DEF PInv

LEMMA PlacesSealing ==
  ASSUME IInv, PInv, NEW c \in DOMAIN classes, seal(c)
  PROVE  PInv'
<1>1. /\ DOMAIN classes' = DOMAIN classes
      /\ \A d \in DOMAIN classes :
           KeptIn(classes, classes', d) /\ classes'[d].uninit = classes[d].uninit
  BY Sealing
<1>2. denoted' = denoted /\ getters' = getters
  BY DEF seal
<1>3. StillNamed'
  BY <1>1, <1>2 DEF PInv, StillNamed, KeptIn
<1>4. ASSUME NEW d \in DOMAIN classes', NEW g \in Getter
      PROVE  /\ For(getters'[g], d) \subseteq All(d, g)'
             /\ classes'[d].made /\ ~classes'[d].uninit => For(getters'[g], d) = All(d, g)'
  <2>1. KeptIn(classes, classes', d) /\ classes'[d].uninit = classes[d].uninit /\ d \in DOMAIN classes
    BY <1>1
  <2>2. All(d, g)' = All(d, g)
    BY <2>1, SameAll
  <2> QED BY <1>2, <2>1, <2>2 DEF PInv, Placed, KeptIn
<1>5. Placed'
  BY <1>4 DEF Placed, For
<1> QED BY <1>3, <1>5 DEF PInv

LEMMA PlacesMaking ==
  ASSUME IInv, PInv, NEW c \in DOMAIN classes, Make(c)
  PROVE  PInv'
<1>1. /\ DOMAIN classes' = DOMAIN classes /\ denoted' = denoted
      /\ \A d \in DOMAIN classes : KeptIn(classes, classes', d)
  BY MakeDoes
<1>2. PICK k \in 0..Len(Pending(c)), half \in BOOLEAN :
        /\ half => k < Len(Pending(c))
        /\ getters' = Prepared(Pending(c), k, half)
        /\ \A d \in DOMAIN classes :
             classes'[d].uninit <=> classes[d].uninit /\ \A i \in 1..k : Pending(c)[i] # d
  BY MakeDoes
<1>3. Specialized(Len(classes), Pending(c)) /\ DOMAIN Pending(c) = 1..Len(Pending(c))
  BY PendingSpecialized
<1>4. Pending(c) \in Seq(DOMAIN classes) /\ Queue(Pending(c))
  BY PendingQueue DEF IInv, Shape, Ordered, Awaiting
<1> DEFINE pending == Pending(c)
<1>5. pending \in Seq(DOMAIN classes) /\ Distinct(pending) /\ Specialized(Len(classes), pending)
      /\ Waits(pending)
      /\ k \in 0..Len(pending) /\ (half => k < Len(pending))
      /\ getters' = Prepared(pending, k, half)
      /\ \A d \in DOMAIN classes :
             classes'[d].uninit <=> classes[d].uninit /\ \A i \in 1..k : pending[i] # d
  BY <1>2, <1>3, <1>4 DEF Queue, Waits
<1> HIDE DEF pending
<1>6. StillNamed'
  BY <1>1, <1>5 DEF PInv, StillNamed, KeptIn
<1>7. ASSUME NEW d \in DOMAIN classes', NEW g \in Getter
      PROVE  /\ For(getters'[g], d) \subseteq All(d, g)'
             /\ classes'[d].made /\ ~classes'[d].uninit => For(getters'[g], d) = All(d, g)'
  <2>1. KeptIn(classes, classes', d) /\ d \in DOMAIN classes
    BY <1>1
  <2>2. All(d, g)' = All(d, g)
    BY <2>1, SameAll
  <2>3. /\ For(getters'[g], d) \subseteq All(d, g)
        /\ (\E i \in 1..k : pending[i] = d) \/ (~classes[d].uninit /\ For(getters[g], d) = All(d, g)) =>
             For(getters'[g], d) = All(d, g)
    BY <1>5, <2>1, PreparedAll
  <2>4. classes'[d].made /\ ~classes'[d].uninit =>
          (\E i \in 1..k : pending[i] = d) \/ (~classes[d].uninit /\ For(getters[g], d) = All(d, g))
    BY <1>5, <2>1 DEF PInv, Placed, KeptIn
  <2> QED BY <2>2, <2>3, <2>4
<1>8. Placed'
  BY <1>7 DEF Placed, For
<1> QED BY <1>6, <1>8 DEF PInv

LEMMA PlacesInit == Init => PInv
<1> SUFFICES ASSUME Init PROVE PInv
  OBVIOUS
<1>1. /\ DOMAIN classes = {1} /\ ~classes[1].uninit /\ classes[1].own = <<>> /\ classes[1].ins = <<>>
      /\ classes[1].each = <<>>
  BY DEF Init
<1>2. \A g \in Getter : getters[g] = {}
  BY DEF Init
<1>3. ASSUME NEW g \in Getter PROVE For(getters[g], 1) = All(1, g)
  <2>1. Layout(1) = <<>> /\ DOMAIN <<>> = {}
    BY <1>1 DEF Layout
  <2> QED BY <1>1, <1>2, <2>1 DEF For, All
<1> QED BY <1>1, <1>3 DEF PInv, StillNamed, Placed

LEMMA PlacesKept ==
  ASSUME IInv, PInv, Unprepared = FALSE, [Next]_vars
  PROVE  PInv'
<1>1. ASSUME NEW n \in Name, NEW slots \in SlotLists, NEW k \in 1..MaxSupers,
             NEW supers \in [1..k -> DOMAIN classes], DefineClass(n, supers, slots)
      PROVE  PInv'
  <2>1. slots \in Seq(Slot)
    BY FormsAssumption
  <2>2. k \in Nat
    OBVIOUS
  <2>3. supers \in Seq(DOMAIN classes)
    BY <2>2, SeqDef
  <2> QED BY <1>1, <2>1, <2>3, PlacesDefining
<1>2. ASSUME NEW c \in Sealable \cap DOMAIN classes, seal(c) PROVE PInv'
  BY <1>2, PlacesSealing
<1>3. ASSUME NEW c \in DOMAIN classes \ {1}, Make(c) PROVE PInv'
  BY <1>3, PlacesMaking
<1>4. CASE UNCHANGED vars
  <2>1. classes' = classes /\ denoted' = denoted /\ getters' = getters
    BY <1>4 DEF vars
  <2>2. StillNamed'
    BY <2>1 DEF PInv, StillNamed
  <2>3. ASSUME NEW d \in DOMAIN classes', NEW g \in Getter
        PROVE  /\ For(getters'[g], d) \subseteq All(d, g)'
               /\ classes'[d].made /\ ~classes'[d].uninit => For(getters'[g], d) = All(d, g)'
    <3>1. All(d, g)' = All(d, g)
      BY <2>1 DEF All, Layout
    <3> QED BY <2>1, <3>1 DEF PInv, Placed
  <2>4. Placed'
    BY <2>3 DEF Placed, For
  <2> QED BY <2>2, <2>4 DEF PInv
<1> QED BY <1>1, <1>2, <1>3, <1>4 DEF Next

\* The methods for c itself are the ones that are run for an instance of c, if there is one.
LEMMA ChosenOwn ==
  ASSUME IInv, NEW c \in DOMAIN classes, classes[c].cpl # <<>>, NEW g \in Getter,
         NEW m0, For(getters[g], c) = {m0}
  PROVE  Chosen(c, g) = {m0}
<1> DEFINE app == {m \in getters[g] : m.cls = c \/ Below(c, m.cls)}
<1>1. m0 \in app /\ m0.cls = c
  BY DEF For
<1>2. \A p \in app : p # m0 => p.cls # c /\ Below(c, p.cls)
  BY DEF For
<1>3. ASSUME NEW p \in app, p # m0 PROVE ~Below(p.cls, c)
  <2> SUFFICES ASSUME Below(p.cls, c) PROVE FALSE
    OBVIOUS
  <2> DEFINE d == p.cls
  <2>1. d # c /\ Contains(classes[c].cpl, d) /\ Contains(classes[d].cpl, c)
    BY <1>2, <1>3 DEF Below
  <2>2. classes[c].cpl \in Seq(1..c) /\ c \in Nat
    BY DEF IInv, Ordered, InOrder, Known
  <2>3. d \in ToSet(classes[c].cpl)
    BY <2>1, <2>2, InSequence
  <2>4. d \in 1..c /\ d \in DOMAIN classes
    BY <2>2, <2>3, InSequence, AboveOf
  <2> HIDE DEF d
  <2>5. classes[d].cpl # <<>>
    BY <2>1 DEF Contains
  <2>6. classes[d].cpl \in Seq(1..d)
    BY <2>4, <2>5 DEF IInv, Ordered, InOrder
  <2>7. c \in ToSet(classes[d].cpl)
    BY <2>1, <2>6, InSequence
  <2>8. c \in 1..d
    BY <2>6, <2>7, InSequence
  <2> QED BY <2>1, <2>2, <2>4, <2>8
<1>4. Chosen(c, g) = {m \in app : \A p \in app \ {m} :
         \/ Below(m.cls, p.cls)
         \/ /\ ~Below(p.cls, m.cls)
            /\ Position(classes[c].cpl, m.cls) < Position(classes[c].cpl, p.cls)}
  BY DEF Chosen
<1> HIDE DEF app
<1>5. m0 \in Chosen(c, g)
  BY <1>1, <1>2, <1>4
<1>6. ASSUME NEW m \in Chosen(c, g), m # m0 PROVE FALSE
  <2>1. m \in app /\ m0 \in app \ {m}
    BY <1>1, <1>4, <1>6
  <2>2. Below(m.cls, c) \/ ~Below(c, m.cls)
    BY <1>1, <1>4, <2>1
  <2>3. ~Below(m.cls, c) /\ Below(c, m.cls)
    BY <1>2, <1>3, <1>6, <2>1
  <2> QED BY <2>2, <2>3
<1> QED BY <1>5, <1>6

\* Every instance slot of the class of an instance and of the classes above it has one place in
\* the instance, which is the one its getter reads; the getter of an each-subclass slot reads the
\* class slots of that class (class.c:741-797, 1178-1243).  It is so as long as a program makes an
\* instance of a class before it binds the name of the class again.
THEOREM SlotsPlaced ==
  ASSUME Unprepared = FALSE
  PROVE  Spec => []SlotsInPlace
<1>1. Init => PInv
  BY PlacesInit
<1>2. IInv /\ PInv /\ [Next]_vars => PInv'
  BY PlacesKept
<1>3. IInv /\ PInv => SlotsInPlace
  <2> SUFFICES ASSUME IInv, PInv, NEW c \in DOMAIN classes, classes[c].made, ~classes[c].uninit
               PROVE
                 /\ \A d \in ToSet(classes[c].cpl) : \A i \in DOMAIN classes[d].own :
                      LET places == {j \in DOMAIN Layout(c) : Layout(c)[j] = classes[d].own[i]}
                      IN  /\ Cardinality(places) = 1
                          /\ {[of |-> m.of, at |-> m.at] : m \in Chosen(c, classes[d].own[i])} =
                               {[of |-> 0, at |-> j] : j \in places}
                 /\ \A i \in DOMAIN classes[c].each :
                      {[of |-> m.of, at |-> m.at] : m \in Chosen(c, classes[c].each[i])} =
                        {[of |-> c, at |-> i]}
    BY DEF SlotsInPlace
  <2> DEFINE l == Layout(c)
             each == classes[c].each
  <2>1. /\ classes \in Seq(ClassRecord) /\ classes[c].cpl # <<>> /\ Apart(classes[c])
        /\ \A d \in ToSet(classes[c].cpl) : ToSet(classes[d].own) \subseteq ToSet(l)
    BY DEF IInv, Shape, Ordered, SlotsThere, Layout
  <2>2. Distinct(l) /\ Distinct(each) /\ \A x \in ToSet(l) : x \notin ToSet(each)
    BY <2>1 DEF Apart, Layout
  <2>3. \A d \in DOMAIN classes : classes[d].own \in Seq(Getter) /\ classes[d].each \in Seq(Getter)
    BY <2>1, Records
  <2>4. ASSUME NEW g \in Getter
        PROVE  For(getters[g], c) = {[cls |-> c, of |-> 0, at |-> i] : i \in {i \in DOMAIN l : l[i] = g}} \cup
                                    {[cls |-> c, of |-> c, at |-> i] : i \in {i \in DOMAIN each : each[i] = g}}
    BY DEF PInv, Placed, All
  <2> HIDE DEF l
  <2>5. ASSUME NEW d \in ToSet(classes[c].cpl), NEW i \in DOMAIN classes[d].own
        PROVE  LET places == {j \in DOMAIN l : l[j] = classes[d].own[i]}
               IN  /\ Cardinality(places) = 1
                   /\ {[of |-> m.of, at |-> m.at] : m \in Chosen(c, classes[d].own[i])} =
                        {[of |-> 0, at |-> j] : j \in places}
    <3> DEFINE g == classes[d].own[i]
               places == {j \in DOMAIN l : l[j] = g}
    <3>1. d \in DOMAIN classes
      BY <2>1, AboveOf
    <3>2. g \in Getter
      BY <2>3, <3>1, LenProperties, ElementOfSeq
    <3>3. g \in ToSet(l)
      BY <2>1 DEF ToSet
    <3> HIDE DEF g
    <3>4. PICK j \in DOMAIN l : l[j] = g
      BY <3>3 DEF ToSet
    <3>5. places = {j}
      BY <2>2, <3>4 DEF Distinct
    <3>6. {k \in DOMAIN each : each[k] = g} = {}
      <4>1. g \notin ToSet(each)
        BY <2>2, <3>3
      <4> HIDE DEF each
      <4> QED BY <4>1 DEF ToSet
    <3>7. For(getters[g], c) = {[cls |-> c, of |-> 0, at |-> j]}
      <4>1. For(getters[g], c) = {[cls |-> c, of |-> 0, at |-> k] : k \in places} \cup
                                 {[cls |-> c, of |-> c, at |-> k] : k \in {k \in DOMAIN each : each[k] = g}}
        BY <2>4, <3>2
      <4> HIDE DEF places
      <4> QED BY <3>5, <3>6, <4>1
    <3>8. Chosen(c, g) = {[cls |-> c, of |-> 0, at |-> j]}
      BY <2>1, <3>2, <3>7, ChosenOwn
    <3>9. Cardinality(places) = 1
      <4> HIDE DEF places
      <4> QED BY <3>5, FS_Singleton
    <3>10. {[of |-> m.of, at |-> m.at] : m \in Chosen(c, g)} = {[of |-> 0, at |-> k] : k \in places}
      <4> HIDE DEF places
      <4> QED BY <3>5, <3>8
    <3> QED BY <3>9, <3>10 DEF g
  <2>6. ASSUME NEW i \in DOMAIN each
        PROVE  {[of |-> m.of, at |-> m.at] : m \in Chosen(c, each[i])} = {[of |-> c, at |-> i]}
    <3> DEFINE g == each[i]
    <3>1. g \in Getter
      BY <2>3, LenProperties, ElementOfSeq
    <3>2. g \in ToSet(each)
      BY DEF ToSet
    <3>3. {k \in DOMAIN each : each[k] = g} = {i}
      BY <2>2 DEF Distinct
    <3>4. {k \in DOMAIN l : l[k] = g} = {}
      <4>1. g \notin ToSet(l)
        BY <2>2, <3>2
      <4> HIDE DEF g
      <4> QED BY <4>1 DEF ToSet
    <3> HIDE DEF g
    <3>5. For(getters[g], c) = {[cls |-> c, of |-> c, at |-> i]}
      <4> DEFINE E == {k \in DOMAIN each : each[k] = g}
                 I == {k \in DOMAIN l : l[k] = g}
      <4>1. For(getters[g], c) = {[cls |-> c, of |-> 0, at |-> k] : k \in I} \cup
                                 {[cls |-> c, of |-> c, at |-> k] : k \in E}
        BY <2>4, <3>1
      <4>2. E = {i} /\ I = {}
        BY <3>3, <3>4
      <4> HIDE DEF E, I
      <4> QED BY <4>1, <4>2
    <3>6. Chosen(c, g) = {[cls |-> c, of |-> c, at |-> i]}
      BY <2>1, <3>1, <3>5, ChosenOwn
    <3> QED BY <3>6 DEF g
  <2> QED BY <2>5, <2>6 DEF l
<1> QED BY <1>1, <1>2, <1>3, Invariance, PTL DEF Spec

=============================================================================
