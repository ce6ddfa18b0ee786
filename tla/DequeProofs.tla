---------------------------- MODULE DequeProofs ----------------------------
(***************************************************************************)
(* Proofs about DequeHistory, for any values, indices and bounds: the      *)
(* links lead through the entries pushed and not popped, the loop of       *)
(* element stays among them, a deque implements the sequence of DequeSpec, *)
(* and an iteration never loses count.                                     *)
(***************************************************************************)
EXTENDS DequeHistory, SequenceTheorems, NatFacts, TLAPS

----------------------------------------------------------------------------
(* The invariant.                                                          *)

Ent  == [prev : Nat, value : Value, next : Nat]
Walk == [op : {"none", "element", "element-setter"}, i : Int, el : Nat, arg : Outcome]

\* What of TypeOK this invariant needs; the rest is Numbers, below.
Typed ==
  /\ entry \in Seq(Ent)
  /\ \A e \in 1..Len(entry) : entry[e].prev <= Len(entry) /\ entry[e].next <= Len(entry)
  /\ first \in 0..Len(entry) /\ last \in 0..Len(entry)
  /\ state.head \in 0..Len(entry)
  /\ walk \in Walk /\ walk.el <= Len(entry)
  /\ ids \in Seq(Nat) /\ \A k \in 1..Len(ids) : ids[k] \in 1..Len(entry)

\* Linked, with its parts apart.
Distinct == \A k, l \in 1..Len(ids) : ids[k] = ids[l] => k = l
Ends     == /\ first = IF Len(ids) = 0 THEN 0 ELSE ids[1]
            /\ Len(ids) # 0 => last = ids[Len(ids)]
Forth    == \A k \in 1..Len(ids) :
              entry[ids[k]].next = IF k = Len(ids) THEN 0 ELSE ids[k + 1]
Back     == /\ \A k \in 2..Len(ids) : entry[ids[k]].prev = ids[k - 1]
            /\ Len(ids) # 0 => \A l \in 1..Len(ids) : entry[ids[1]].prev # ids[l]

\* Walking, and what the loop will give.
OnTheWay ==
  walk.el # 0 =>
    /\ \/ walk.op = "element" /\ walk.arg \in {"default", "error"}
       \/ walk.op = "element-setter" /\ walk.arg \in Value
    /\ \E k \in 1..Len(ids) :
         /\ walk.el = ids[k]
         /\ walk.i + k - 1 \in Index
         /\ walk.i < 0 => walk.i + k - 1 < 0

IInv == Typed /\ Distinct /\ Ends /\ Forth /\ Back /\ OnTheWay

----------------------------------------------------------------------------
(* Sequences.                                                              *)

\* A sequence with one element changed.
LEMMA Changed ==
  ASSUME NEW S, NEW s \in Seq(S), NEW j \in 1..Len(s), NEW x \in S
  PROVE  /\ [s EXCEPT ![j] = x] \in Seq(S) /\ Len([s EXCEPT ![j] = x]) = Len(s)
         /\ \A i \in 1..Len(s) : [s EXCEPT ![j] = x][i] = IF i = j THEN x ELSE s[i]
BY ExceptSeq

\* One with an element changed and another one appended.
LEMMA Extended ==
  ASSUME NEW S, NEW s \in Seq(S), NEW j \in 1..Len(s), NEW y \in S, NEW x \in S,
         NEW t, t = Append([s EXCEPT ![j] = y], x)
  PROVE  /\ t \in Seq(S) /\ Len(t) = Len(s) + 1
         /\ \A i \in 1..Len(s) : t[i] = IF i = j THEN y ELSE s[i]
         /\ t[Len(s) + 1] = x
<1> DEFINE z == [s EXCEPT ![j] = y]
<1>1. z \in Seq(S) /\ Len(z) = Len(s) /\ \A i \in 1..Len(s) : z[i] = IF i = j THEN y ELSE s[i]
  BY Changed
<1> HIDE DEF z
<1>2. /\ Append(z, x) \in Seq(S) /\ Len(Append(z, x)) = Len(z) + 1
      /\ \A i \in 1..Len(z) : Append(z, x)[i] = z[i]
      /\ Append(z, x)[Len(z) + 1] = x
  BY <1>1, AppendProperties
<1>3. t = Append(z, x)
  BY DEF z
<1> QED BY <1>1, <1>2, <1>3, Zenon

\* A number that is neither 0 nor 1.
LEMMA AtLeastTwo ==
  ASSUME NEW n \in Nat, n # 0, n # 1
  PROVE  n >= 2
OBVIOUS

\* One without its first or without its last element.
LEMMA FirstDropped ==
  ASSUME NEW S, NEW s \in Seq(S), Len(s) # 0
  PROVE  /\ SubSeq(s, 2, Len(s)) \in Seq(S) /\ Len(SubSeq(s, 2, Len(s))) = Len(s) - 1
         /\ \A i \in 1..(Len(s) - 1) : SubSeq(s, 2, Len(s))[i] = s[i + 1]
<1> DEFINE n == Len(s)
           t == SubSeq(s, 2, n)
<1>1. n \in Nat /\ n >= 1
  BY LenProperties
<1>2. \A i \in 1..n : s[i] \in S
  BY ElementOfSeq
<1> HIDE DEF n
<1>3. n \in Int /\ 2 \in Int /\ \A i \in 2..n : s[i] \in S
  BY <1>1, <1>2
<1>4. /\ t \in Seq(S) /\ Len(t) = IF 2 <= n THEN n - 2 + 1 ELSE 0
      /\ \A i \in 1..(n - 2 + 1) : t[i] = s[2 + i - 1]
  BY <1>3, SubSeqProperties
<1> HIDE DEF t
<1>5. t \in Seq(S) /\ Len(t) = n - 1 /\ \A i \in 1..(n - 1) : t[i] = s[i + 1]
  BY <1>1, <1>4
<1> QED BY <1>5 DEF n, t

LEMMA LastDropped ==
  ASSUME NEW S, NEW s \in Seq(S), Len(s) # 0
  PROVE  /\ SubSeq(s, 1, Len(s) - 1) \in Seq(S)
         /\ Len(SubSeq(s, 1, Len(s) - 1)) = Len(s) - 1
         /\ \A i \in 1..(Len(s) - 1) : SubSeq(s, 1, Len(s) - 1)[i] = s[i]
<1> DEFINE n == Len(s)
           m == n - 1
           t == SubSeq(s, 1, m)
<1>1. n \in Nat /\ n >= 1
  BY LenProperties
<1>2. \A i \in 1..n : s[i] \in S
  BY ElementOfSeq
<1> HIDE DEF n
<1>3. m \in Nat /\ m \in Int /\ 1 \in Int /\ \A i \in 1..m : s[i] \in S
  BY <1>1, <1>2
<1> HIDE DEF m
<1>4. /\ t \in Seq(S) /\ Len(t) = IF 1 <= m THEN m - 1 + 1 ELSE 0
      /\ \A i \in 1..(m - 1 + 1) : t[i] = s[1 + i - 1]
  BY <1>3, SubSeqProperties
<1> HIDE DEF t
<1>5. t \in Seq(S) /\ Len(t) = m /\ \A i \in 1..m : t[i] = s[i]
  BY <1>3, <1>4
<1> QED BY <1>5 DEF n, m, t

----------------------------------------------------------------------------
(* What the operations do to the entries.                                  *)

\* The invariant, for numbers and entries.
LEMMA Sizes ==
  ASSUME IInv
  PROVE  /\ Len(entry) \in Nat /\ Len(ids) \in Nat /\ New = Len(entry) + 1
         /\ \A e \in 1..Len(entry) : entry[e] \in Ent
         /\ \A k \in 1..Len(ids) : ids[k] \in 1..Len(entry)
         /\ first = 0 <=> Len(ids) = 0
<1>1. entry \in Seq(Ent) /\ Len(entry) \in Nat /\ Len(ids) \in Nat /\ New = Len(entry) + 1
  BY DEF IInv, Typed, New
<1>2. \A k \in 1..Len(ids) : ids[k] \in 1..Len(entry)
  BY DEF IInv, Typed
<1>3. first = 0 <=> Len(ids) = 0
  BY <1>1, <1>2 DEF IInv, Ends
<1> QED BY <1>1, <1>2, <1>3, ElementOfSeq

\* deque_push: the first entry gets one in front of it.
LEMMA PushEntries ==
  ASSUME IInv, NEW new \in Value, Push(new)
  PROVE  /\ entry' \in Seq(Ent) /\ Len(entry') = New
         /\ \A e \in 1..Len(entry) :
              /\ entry'[e].value = entry[e].value
              /\ entry'[e].next = entry[e].next
              /\ entry'[e].prev = IF e = first THEN New ELSE entry[e].prev
         /\ entry'[New].prev = 0 /\ entry'[New].next = first /\ entry'[New].value = new
<1> DEFINE x == [prev |-> 0, value |-> new, next |-> first]
<1>1. entry \in Seq(Ent) /\ x \in Ent /\ first \in 0..Len(entry)
  BY Sizes DEF IInv, Typed, Ent
<1>2. CASE first = 0
  <2>1. entry' = Append(entry, x)
    BY <1>2 DEF Push
  <2> HIDE DEF x
  <2>2. /\ entry' \in Seq(Ent) /\ Len(entry') = New /\ entry'[New] = x
        /\ \A e \in 1..Len(entry) : entry'[e] = entry[e]
    BY <1>1, <2>1, Sizes, AppendProperties
  <2> QED BY <1>2, <2>2, Sizes DEF x
<1>3. CASE first # 0
  <2> DEFINE y == [entry[first] EXCEPT !.prev = New]
  <2>1. first \in 1..Len(entry) /\ entry[first] \in Ent
    BY <1>1, <1>3, Sizes
  <2>2. y \in Ent /\ y.prev = New /\ y.next = entry[first].next /\ y.value = entry[first].value
    BY <2>1, Sizes DEF Ent
  <2>3. entry' = Append([entry EXCEPT ![first] = y], x)
    BY <1>3 DEF Push
  <2> HIDE DEF x, y
  <2>4. /\ entry' \in Seq(Ent) /\ Len(entry') = Len(entry) + 1 /\ entry'[Len(entry) + 1] = x
        /\ \A e \in 1..Len(entry) : entry'[e] = IF e = first THEN y ELSE entry[e]
    BY <1>1, <2>1, <2>2, <2>3, Extended
  <2> QED BY <2>2, <2>4, Sizes DEF x
<1> QED BY <1>2, <1>3

\* deque_push_last: the last entry gets one after it.
LEMMA PushLastEntries ==
  ASSUME IInv, NEW new \in Value, PushLast(new)
  PROVE  /\ entry' \in Seq(Ent) /\ Len(entry') = New
         /\ \A e \in 1..Len(entry) :
              /\ entry'[e].value = entry[e].value
              /\ entry'[e].next = IF first # 0 /\ e = last THEN New ELSE entry[e].next
              /\ entry'[e].prev = entry[e].prev
         /\ entry'[New].prev = last /\ entry'[New].next = 0 /\ entry'[New].value = new
<1> DEFINE x == [prev |-> last, value |-> new, next |-> 0]
<1>1. entry \in Seq(Ent) /\ x \in Ent /\ last \in 0..Len(entry)
  BY Sizes DEF IInv, Typed, Ent
<1>2. CASE first = 0
  <2>1. entry' = Append(entry, x)
    BY <1>2 DEF PushLast
  <2> HIDE DEF x
  <2>2. /\ entry' \in Seq(Ent) /\ Len(entry') = New /\ entry'[New] = x
        /\ \A e \in 1..Len(entry) : entry'[e] = entry[e]
    BY <1>1, <2>1, Sizes, AppendProperties
  <2> QED BY <1>2, <2>2, Sizes DEF x
<1>3. CASE first # 0
  <2> DEFINE y == [entry[last] EXCEPT !.next = New]
  <2>1. last \in 1..Len(entry) /\ entry[last] \in Ent
    BY <1>1, <1>3, Sizes DEF IInv, Ends
  <2>2. y \in Ent /\ y.next = New /\ y.prev = entry[last].prev /\ y.value = entry[last].value
    BY <2>1, Sizes DEF Ent
  <2>3. entry' = Append([entry EXCEPT ![last] = y], x)
    BY <1>3 DEF PushLast
  <2> HIDE DEF x, y
  <2>4. /\ entry' \in Seq(Ent) /\ Len(entry') = Len(entry) + 1 /\ entry'[Len(entry) + 1] = x
        /\ \A e \in 1..Len(entry) : entry'[e] = IF e = last THEN y ELSE entry[e]
    BY <1>1, <2>1, <2>2, <2>3, Extended
  <2> QED BY <1>3, <2>2, <2>4, Sizes DEF x
<1> QED BY <1>2, <1>3

\* deque_pop: the second entry has none in front of it any more.
LEMMA PopEntries ==
  ASSUME IInv, Pop
  PROVE  /\ Len(ids) # 0 /\ first = ids[1]
         /\ first' = IF Len(ids) = 1 THEN 0 ELSE ids[2]
         /\ entry' \in Seq(Ent) /\ Len(entry') = Len(entry)
         /\ \A e \in 1..Len(entry) :
              /\ entry'[e].value = entry[e].value
              /\ entry'[e].next = entry[e].next
              /\ entry'[e].prev = IF Len(ids) # 1 /\ e = ids[2] THEN 0 ELSE entry[e].prev
<1> DEFINE second == IF Len(ids) = 1 THEN 0 ELSE ids[2]
<1>1. Len(ids) # 0 /\ first = ids[1] /\ Len(ids) \in Nat
  BY Sizes DEF Pop, IInv, Ends
<1>2. entry[first].next = second
  <2>1. 1 \in 1..Len(ids)
    BY <1>1
  <2>2. entry[ids[1]].next = IF 1 = Len(ids) THEN 0 ELSE ids[1 + 1]
    BY <2>1 DEF IInv, Forth
  <2> QED BY <1>1, <2>2
<1>3. /\ first' = second
      /\ entry' = IF second = 0 THEN entry ELSE [entry EXCEPT ![second].prev = 0]
  BY <1>2 DEF Pop
<1>4. entry \in Seq(Ent)
  BY DEF IInv, Typed
<1>5. CASE Len(ids) = 1
  BY <1>1, <1>3, <1>4, <1>5
<1>6. CASE Len(ids) # 1
  <2>1. 2 \in 1..Len(ids) /\ second = ids[2]
    BY <1>1, <1>6
  <2>2. second \in 1..Len(entry) /\ entry[second] \in Ent
    BY <2>1, Sizes
  <2> HIDE DEF second
  <2> DEFINE y == [entry[second] EXCEPT !.prev = 0]
  <2>3. y \in Ent /\ y.prev = 0 /\ y.next = entry[second].next /\ y.value = entry[second].value
    BY <2>2 DEF Ent
  <2>4. entry' = [entry EXCEPT ![second] = y]
    BY <1>3, <2>2, Sizes
  <2> HIDE DEF y
  <2>5. /\ entry' \in Seq(Ent) /\ Len(entry') = Len(entry)
        /\ \A e \in 1..Len(entry) : entry'[e] = IF e = second THEN y ELSE entry[e]
    BY <1>4, <2>2, <2>3, <2>4, Changed
  <2> QED BY <1>1, <1>3, <1>6, <2>1, <2>3, <2>5
<1> QED BY <1>5, <1>6

\* deque_pop_last: the last but one is the end.
LEMMA PopLastEntries ==
  ASSUME IInv, PopLast
  PROVE  /\ Len(ids) # 0 /\ first = ids[1] /\ last = ids[Len(ids)]
         /\ first' = IF Len(ids) = 1 THEN 0 ELSE ids[1]
         /\ last' = IF Len(ids) = 1 THEN 0 ELSE ids[Len(ids) - 1]
         /\ entry' \in Seq(Ent) /\ Len(entry') = Len(entry)
         /\ \A e \in 1..Len(entry) :
              /\ entry'[e].value = entry[e].value
              /\ entry'[e].next = IF Len(ids) # 1 /\ e = ids[Len(ids) - 1] THEN 0 ELSE entry[e].next
              /\ entry'[e].prev = entry[e].prev
<1>1. Len(ids) # 0 /\ first = ids[1] /\ last = ids[Len(ids)] /\ Len(ids) \in Nat
  BY Sizes DEF PopLast, IInv, Ends
<1>2. first = last <=> Len(ids) = 1
  <2>1. 1 \in 1..Len(ids) /\ Len(ids) \in 1..Len(ids)
    BY <1>1
  <2> QED BY <1>1, <2>1 DEF IInv, Distinct
<1>3. entry \in Seq(Ent)
  BY DEF IInv, Typed
<1>4. CASE Len(ids) = 1
  BY <1>1, <1>2, <1>3, <1>4 DEF PopLast
<1>5. CASE Len(ids) # 1
  <2> DEFINE p == ids[Len(ids) - 1]
             y == [entry[p] EXCEPT !.next = 0]
  <2>1. Len(ids) - 1 \in 1..Len(ids) /\ Len(ids) \in 2..Len(ids)
    BY <1>1, <1>5
  <2>2. p \in 1..Len(entry) /\ entry[p] \in Ent /\ p # 0
    BY <2>1, Sizes
  <2>3. entry[last].prev = p
    BY <1>1, <2>1 DEF IInv, Back
  <2>4. y \in Ent /\ y.next = 0 /\ y.prev = entry[p].prev /\ y.value = entry[p].value
    BY <2>2 DEF Ent
  <2> HIDE DEF p
  <2>5. entry' = [entry EXCEPT ![p] = y] /\ last' = p /\ first' = first
    BY <1>2, <1>5, <2>2, <2>3 DEF PopLast
  <2> HIDE DEF y
  <2>6. /\ entry' \in Seq(Ent) /\ Len(entry') = Len(entry)
        /\ \A e \in 1..Len(entry) : entry'[e] = IF e = p THEN y ELSE entry[e]
    BY <1>3, <2>2, <2>4, <2>5, Changed
  <2> QED BY <1>1, <1>5, <2>4, <2>5, <2>6 DEF p
<1> QED BY <1>4, <1>5

\* The value of an entry is set.
LEMMA SetEntries ==
  ASSUME IInv, NEW j \in 1..Len(entry), NEW v \in Value, entry' = [entry EXCEPT ![j].value = v]
  PROVE  /\ entry' \in Seq(Ent) /\ Len(entry') = Len(entry)
         /\ \A e \in 1..Len(entry) :
              /\ entry'[e].value = IF e = j THEN v ELSE entry[e].value
              /\ entry'[e].next = entry[e].next
              /\ entry'[e].prev = entry[e].prev
<1> DEFINE y == [entry[j] EXCEPT !.value = v]
<1>1. entry[j] \in Ent /\ entry \in Seq(Ent)
  BY Sizes DEF IInv, Typed
<1>2. y \in Ent /\ y.value = v /\ y.next = entry[j].next /\ y.prev = entry[j].prev
  BY <1>1 DEF Ent
<1>3. entry' = [entry EXCEPT ![j] = y]
  OBVIOUS
<1> HIDE DEF y
<1>4. /\ entry' \in Seq(Ent) /\ Len(entry') = Len(entry)
      /\ \A e \in 1..Len(entry) : entry'[e] = IF e = j THEN y ELSE entry[e]
  BY <1>1, <1>2, <1>3, Changed
<1> QED BY <1>2, <1>4

----------------------------------------------------------------------------
(* Initial states, and the steps one by one.                               *)

\* make(<deque>) links as many entries as were asked for.
LEMMA InitHolds ==
  ASSUME HInit
  PROVE  IInv
<1> USE DequeAssumption
<1>1. PICK n \in 0..MaxMade, fill \in Value :
        /\ entry = [k \in 1..n |-> [prev |-> k - 1, value |-> fill,
                                    next |-> IF k = n THEN 0 ELSE k + 1]]
        /\ first = IF n = 0 THEN 0 ELSE 1
        /\ last = n
  BY DEF HInit, Init
<1>2. n \in Nat /\ entry \in Seq(Ent) /\ Len(entry) = n
  BY <1>1 DEF Ent
<1>3. ids \in Seq(Nat) /\ Len(ids) = n /\ \A k \in 1..n : ids[k] = k
  BY <1>2 DEF HInit
<1>4. Typed
  BY <1>1, <1>2, <1>3 DEF HInit, Init, Typed, Walk, NoWalk, Outcome
<1>5. Distinct /\ Ends /\ Forth /\ Back
  BY <1>1, <1>2, <1>3, SMTT(20) DEF Distinct, Ends, Forth, Back
<1>6. OnTheWay
  BY DEF HInit, Init, NoWalk, OnTheWay
<1> QED BY <1>4, <1>5, <1>6 DEF IInv

\* push makes the new entry the first of the deque.
LEMMA PushHolds ==
  ASSUME IInv, NEW new \in Value, Push(new), ids' = <<New>> \o ids
  PROVE  IInv'
<1>1. Len(entry) \in Nat /\ Len(ids) \in Nat /\ New = Len(entry) + 1
  BY Sizes
<1>2. /\ entry' \in Seq(Ent) /\ Len(entry') = New
      /\ \A e \in 1..Len(entry) :
           /\ entry'[e].value = entry[e].value
           /\ entry'[e].next = entry[e].next
           /\ entry'[e].prev = IF e = first THEN New ELSE entry[e].prev
      /\ entry'[New].prev = 0 /\ entry'[New].next = first /\ entry'[New].value = new
  BY PushEntries
<1>3. /\ ids' \in Seq(Nat) /\ Len(ids') = Len(ids) + 1
      /\ ids'[1] = New
      /\ \A k \in 2..(Len(ids) + 1) : ids'[k] = ids[k - 1]
  BY <1>1 DEF IInv, Typed
<1>a. /\ \A k \in 1..Len(ids) : ids[k] \in 1..Len(entry)
      /\ \A e \in 1..Len(entry) : entry[e].prev <= Len(entry) /\ entry[e].next <= Len(entry)
      /\ first \in 0..Len(entry)
  BY DEF IInv, Typed
<1>b. \A k \in 1..(Len(ids) + 1) : k = 1 \/ (k - 1 \in 1..Len(ids) /\ k - 1 + 1 = k)
  BY <1>1
<1>c. \A k \in 1..(Len(ids) + 1) :
        \/ k = 1 /\ ids'[k] = New
        \/ k - 1 \in 1..Len(ids) /\ ids'[k] = ids[k - 1] /\ ids[k - 1] \in 1..Len(entry) /\ ids'[k] \in 1..Len(entry)
  <2> TAKE k \in 1..(Len(ids) + 1)
  <2>1. CASE k = 1
    BY <2>1, <1>3
  <2>2. CASE k # 1
    <3>1. k - 1 \in 1..Len(ids) /\ k \in 2..(Len(ids) + 1)
      BY <2>2, <1>1
    <3> QED BY <3>1, <1>3, <1>a
  <2> QED BY <2>1, <2>2
<1>d. \A e \in 1..New : e \in 1..Len(entry) \/ e = New
  BY <1>1
<1>4. Typed'
  <2>1. \A k \in 1..Len(ids') : ids'[k] \in 1..Len(entry')
    <3>1. New \in 1..New /\ 1..Len(entry) \subseteq 1..New
      BY <1>1
    <3> QED BY <1>2, <1>3, <1>c, <3>1
  <2>2. \A e \in 1..Len(entry') : entry'[e].prev <= Len(entry') /\ entry'[e].next <= Len(entry')
    <3> TAKE e \in 1..Len(entry')
    <3>1. CASE e = New
      BY <3>1, <1>1, <1>2, <1>a
    <3>2. CASE e \in 1..Len(entry)
      <4>1. /\ entry[e].prev <= Len(entry) /\ entry[e].next <= Len(entry)
            /\ entry'[e].next = entry[e].next
            /\ entry'[e].prev = New \/ entry'[e].prev = entry[e].prev
        BY <3>2, <1>2, <1>a
      <4>2. entry[e] \in Ent
        BY <3>2, ElementOfSeq DEF IInv, Typed
      <4> QED BY <4>1, <4>2, <1>1, <1>2, SMTT(20) DEF Ent
    <3> QED BY <3>1, <3>2, <1>2, <1>d
  <2>3. first' \in 0..Len(entry') /\ last' \in 0..Len(entry')
    BY <1>1, <1>2 DEF Push, IInv, Typed
  <2>4. state'.head \in 0..Len(entry') /\ walk' \in Walk /\ walk'.el <= Len(entry')
    BY <1>1, <1>2 DEF Push, IInv, Typed, Walk
  <2> QED BY <1>2, <1>3, <2>1, <2>2, <2>3, <2>4 DEF Typed
<1>5. Distinct'
  <2> SUFFICES ASSUME NEW k \in 1..(Len(ids) + 1), NEW l \in 1..(Len(ids) + 1), ids'[k] = ids'[l]
               PROVE  k = l
    BY <1>3 DEF Distinct
  <2>1. CASE k = 1 \/ l = 1
    BY <2>1, <1>1, <1>c
  <2>2. CASE k # 1 /\ l # 1
    <3>1. k - 1 = l - 1
      BY <2>2, <1>1, <1>c DEF IInv, Distinct
    <3> QED BY <3>1
  <2> QED BY <2>1, <2>2
<1>6. Ends'
  BY <1>1, <1>3, SMTT(20) DEF IInv, Typed, Ends, Push
<1>7. Forth'
  <2> SUFFICES ASSUME NEW k \in 1..(Len(ids) + 1)
               PROVE  entry'[ids'[k]].next = IF k = Len(ids) + 1 THEN 0 ELSE ids'[k + 1]
    BY <1>3 DEF Forth
  <2>1. CASE k = 1
    BY <2>1, <1>1, <1>2, <1>3 DEF IInv, Ends
  <2>2. CASE k # 1
    <3>1. /\ k - 1 \in 1..Len(ids) /\ ids'[k] = ids[k - 1] /\ ids[k - 1] \in 1..Len(entry)
          /\ k # Len(ids) + 1 => ids'[k + 1] = ids[k - 1 + 1]
      BY <2>2, <1>1, <1>3, <1>c
    <3>2. entry[ids[k - 1]].next = IF k - 1 = Len(ids) THEN 0 ELSE ids[k - 1 + 1]
      BY <3>1 DEF IInv, Forth
    <3> QED BY <3>1, <3>2, <1>1, <1>2, SMTT(20)
  <2> QED BY <2>1, <2>2
<1>8. Back'
  <2>1. ASSUME NEW k \in 2..(Len(ids) + 1)
        PROVE  entry'[ids'[k]].prev = ids'[k - 1]
    <3>1. k - 1 \in 1..Len(ids) /\ ids'[k] = ids[k - 1] /\ ids[k - 1] \in 1..Len(entry)
      BY <1>1, <1>3, <1>a
    <3>2. CASE k = 2
      BY <3>1, <3>2, <1>1, <1>2, <1>3 DEF IInv, Ends
    <3>3. CASE k # 2
      <4>1. ids[k - 1] # ids[1] /\ first = ids[1]
        BY <3>1, <3>3, <1>1 DEF IInv, Ends, Distinct
      <4>2. entry[ids[k - 1]].prev = ids[k - 2]
        BY <3>1, <3>3, <1>1 DEF IInv, Back
      <4> QED BY <4>1, <4>2, <3>1, <3>3, <1>1, <1>2, <1>3, SMTT(20)
    <3> QED BY <3>2, <3>3
  <2>2. \A l \in 1..(Len(ids) + 1) : entry'[ids'[1]].prev # ids'[l]
    BY <1>1, <1>2, <1>3, <1>c
  <2> QED BY <2>1, <2>2, <1>3 DEF Back
<1>9. OnTheWay'
  BY DEF OnTheWay, Push
<1> QED BY <1>4, <1>5, <1>6, <1>7, <1>8, <1>9 DEF IInv

\* push-last makes it the last one; what is left in DEQUELAST by pop is
\* none of the deque's entries when the deque is empty.
LEMMA PushLastHolds ==
  ASSUME IInv, NEW new \in Value, PushLast(new), ids' = Append(ids, New)
  PROVE  IInv'
<1>1. /\ Len(entry) \in Nat /\ Len(ids) \in Nat /\ New = Len(entry) + 1
      /\ first = 0 <=> Len(ids) = 0
  BY Sizes
<1>2. /\ entry' \in Seq(Ent) /\ Len(entry') = New
      /\ \A e \in 1..Len(entry) :
           /\ entry'[e].value = entry[e].value
           /\ entry'[e].next = IF first # 0 /\ e = last THEN New ELSE entry[e].next
           /\ entry'[e].prev = entry[e].prev
      /\ entry'[New].prev = last /\ entry'[New].next = 0 /\ entry'[New].value = new
  BY PushLastEntries
<1>3. /\ ids' \in Seq(Nat) /\ Len(ids') = Len(ids) + 1
      /\ ids'[Len(ids) + 1] = New
      /\ \A k \in 1..Len(ids) : ids'[k] = ids[k]
  BY <1>1 DEF IInv, Typed
<1>a. /\ \A k \in 1..Len(ids) : ids[k] \in 1..Len(entry)
      /\ \A e \in 1..Len(entry) : entry[e].prev <= Len(entry) /\ entry[e].next <= Len(entry)
      /\ first \in 0..Len(entry) /\ last \in 0..Len(entry)
  BY DEF IInv, Typed
<1>b. \A k \in 1..(Len(ids) + 1) :
        \/ k = Len(ids) + 1 /\ ids'[k] = New
        \/ k \in 1..Len(ids) /\ ids'[k] = ids[k] /\ ids[k] \in 1..Len(entry)
  BY <1>1, <1>3, <1>a
<1>c. \A e \in 1..New : e \in 1..Len(entry) \/ e = New
  BY <1>1
<1>4. Typed'
  <2>1. \A k \in 1..Len(ids') : ids'[k] \in 1..Len(entry')
    <3>1. New \in 1..New /\ 1..Len(entry) \subseteq 1..New
      BY <1>1
    <3> QED BY <1>2, <1>3, <1>b, <3>1
  <2>2. \A e \in 1..Len(entry') : entry'[e].prev <= Len(entry') /\ entry'[e].next <= Len(entry')
    <3> TAKE e \in 1..Len(entry')
    <3>1. CASE e = New
      BY <3>1, <1>1, <1>2, <1>a
    <3>2. CASE e \in 1..Len(entry)
      <4>1. /\ entry[e].prev <= Len(entry) /\ entry[e].next <= Len(entry)
            /\ entry'[e].prev = entry[e].prev
            /\ entry'[e].next = New \/ entry'[e].next = entry[e].next
        BY <3>2, <1>2, <1>a
      <4>2. entry[e] \in Ent
        BY <3>2, ElementOfSeq DEF IInv, Typed
      <4> QED BY <4>1, <4>2, <1>1, <1>2, SMTT(20) DEF Ent
    <3> QED BY <3>1, <3>2, <1>2, <1>c
  <2>3. first' \in 0..Len(entry') /\ last' \in 0..Len(entry')
    BY <1>1, <1>2 DEF PushLast, IInv, Typed
  <2>4. state'.head \in 0..Len(entry') /\ walk' \in Walk /\ walk'.el <= Len(entry')
    BY <1>1, <1>2 DEF PushLast, IInv, Typed, Walk
  <2> QED BY <1>2, <1>3, <2>1, <2>2, <2>3, <2>4 DEF Typed
<1>5. Distinct'
  <2> SUFFICES ASSUME NEW k \in 1..(Len(ids) + 1), NEW l \in 1..(Len(ids) + 1), ids'[k] = ids'[l]
               PROVE  k = l
    BY <1>3 DEF Distinct
  <2>1. CASE k = Len(ids) + 1 \/ l = Len(ids) + 1
    BY <2>1, <1>1, <1>b
  <2>2. CASE k \in 1..Len(ids) /\ l \in 1..Len(ids)
    BY <2>2, <1>3 DEF IInv, Distinct
  <2> QED BY <2>1, <2>2, <1>b
<1>6. Ends'
  BY <1>1, <1>3 DEF IInv, Ends, PushLast
<1>7. Forth'
  <2> SUFFICES ASSUME NEW k \in 1..(Len(ids) + 1)
               PROVE  entry'[ids'[k]].next = IF k = Len(ids) + 1 THEN 0 ELSE ids'[k + 1]
    BY <1>3 DEF Forth
  <2>1. CASE k = Len(ids) + 1
    BY <2>1, <1>2, <1>3
  <2>2. CASE k \in 1..Len(ids)
    <3>1. /\ ids'[k] = ids[k] /\ ids[k] \in 1..Len(entry) /\ first # 0 /\ k # Len(ids) + 1
          /\ last = ids[Len(ids)] /\ Len(ids) \in 1..Len(ids)
      BY <2>2, <1>1, <1>b DEF IInv, Ends
    <3>2. entry[ids[k]].next = IF k = Len(ids) THEN 0 ELSE ids[k + 1]
      BY <2>2 DEF IInv, Forth
    <3>3. CASE k = Len(ids)
      BY <3>1, <3>3, <1>2, <1>3
    <3>4. CASE k # Len(ids)
      <4>1. ids[k] # last /\ k + 1 \in 1..Len(ids)
        BY <2>2, <3>1, <3>4, <1>1 DEF IInv, Distinct
      <4> QED BY <4>1, <3>1, <3>2, <3>4, <1>2, <1>3, SMTT(20)
    <3> QED BY <3>3, <3>4
  <2> QED BY <2>1, <2>2, <1>b
<1>8. Back'
  <2>1. ASSUME NEW k \in 2..(Len(ids) + 1)
        PROVE  entry'[ids'[k]].prev = ids'[k - 1]
    <3>1. k - 1 \in 1..Len(ids) /\ ids'[k - 1] = ids[k - 1] /\ Len(ids) # 0
      BY <1>1, <1>3
    <3>2. CASE k = Len(ids) + 1
      BY <3>1, <3>2, <1>1, <1>2, <1>3 DEF IInv, Ends
    <3>3. CASE k # Len(ids) + 1
      <4>1. k \in 2..Len(ids) /\ k \in 1..Len(ids)
        BY <3>3, <1>1
      <4>2. ids'[k] = ids[k] /\ ids[k] \in 1..Len(entry)
        BY <4>1, <1>3, <1>a
      <4>3. entry[ids[k]].prev = ids[k - 1]
        BY <4>1 DEF IInv, Back
      <4> QED BY <4>2, <4>3, <3>1, <1>2
    <3> QED BY <3>2, <3>3
  <2>2. \A l \in 1..(Len(ids) + 1) : entry'[ids'[1]].prev # ids'[l]
    <3>1. CASE Len(ids) = 0
      BY <3>1, <1>1, <1>2, <1>3, <1>a
    <3>2. CASE Len(ids) # 0
      <4>1. 1 \in 1..Len(ids) /\ ids'[1] = ids[1] /\ ids[1] \in 1..Len(entry)
        BY <3>2, <1>1, <1>3, <1>a
      <4>2. entry'[ids'[1]].prev = entry[ids[1]].prev /\ entry[ids[1]].prev <= Len(entry)
        BY <4>1, <1>2, <1>a
      <4>3. \A l \in 1..Len(ids) : entry[ids[1]].prev # ids[l]
        BY <3>2 DEF IInv, Back
      <4> QED BY <4>2, <4>3, <1>1, <1>b
    <3> QED BY <3>1, <3>2
  <2> QED BY <2>1, <2>2, <1>3 DEF Back
<1>9. OnTheWay'
  BY DEF OnTheWay, PushLast
<1> QED BY <1>4, <1>5, <1>6, <1>7, <1>8, <1>9 DEF IInv

\* The entries left by pop and by pop-last.
LessTheFirst == ids' = SubSeq(ids, 2, Len(ids))
LessTheLast  == ids' = SubSeq(ids, 1, Len(ids) - 1)

\* pop takes the first entry off.
LEMMA PopHolds ==
  ASSUME IInv, Pop, LessTheFirst
  PROVE  IInv'
<1>1. Len(entry) \in Nat /\ Len(ids) \in Nat /\ Len(ids) # 0
  BY Sizes DEF Pop
<1>s. Len(ids) # 1 => Len(ids) >= 2
  BY <1>1, AtLeastTwo
<1>2. /\ Len(ids) # 0 /\ first = ids[1]
      /\ first' = IF Len(ids) = 1 THEN 0 ELSE ids[2]
      /\ entry' \in Seq(Ent) /\ Len(entry') = Len(entry)
      /\ \A e \in 1..Len(entry) :
           /\ entry'[e].value = entry[e].value
           /\ entry'[e].next = entry[e].next
           /\ entry'[e].prev = IF Len(ids) # 1 /\ e = ids[2] THEN 0 ELSE entry[e].prev
  BY PopEntries
<1>3. /\ ids' \in Seq(Nat) /\ Len(ids') = Len(ids) - 1
      /\ \A k \in 1..(Len(ids) - 1) : ids'[k] = ids[k + 1]
  <2>1. ids \in Seq(Nat)
    BY DEF IInv, Typed
  <2> QED BY <2>1, <1>1, FirstDropped DEF LessTheFirst
<1>a. /\ \A k \in 1..Len(ids) : ids[k] \in 1..Len(entry)
      /\ \A e \in 1..Len(entry) : entry[e].prev <= Len(entry) /\ entry[e].next <= Len(entry)
      /\ first \in 0..Len(entry) /\ last \in 0..Len(entry)
  BY DEF IInv, Typed
<1>b. \A k \in 1..(Len(ids) - 1) :
        k + 1 \in 1..Len(ids) /\ ids'[k] = ids[k + 1] /\ ids[k + 1] \in 1..Len(entry)
  BY <1>1, <1>3, <1>a
<1>4. Typed'
  <2>1. \A k \in 1..Len(ids') : ids'[k] \in 1..Len(entry')
    BY <1>2, <1>3, <1>b
  <2>2. \A e \in 1..Len(entry') : entry'[e].prev <= Len(entry') /\ entry'[e].next <= Len(entry')
    BY <1>1, <1>2, <1>a
  <2>3. first' \in 0..Len(entry') /\ last' \in 0..Len(entry')
    <3>1. CASE Len(ids) = 1
      BY <3>1, <1>1, <1>2, <1>a DEF Pop
    <3>2. CASE Len(ids) # 1
      <4>1. 2 \in 1..Len(ids)
        BY <3>2, <1>1, <1>s
      <4> QED BY <4>1, <3>2, <1>1, <1>2, <1>a DEF Pop
    <3> QED BY <3>1, <3>2
  <2>4. state'.head \in 0..Len(entry') /\ walk' \in Walk /\ walk'.el <= Len(entry')
    BY <1>1, <1>2 DEF Pop, IInv, Typed, Walk
  <2> QED BY <1>2, <1>3, <2>1, <2>2, <2>3, <2>4 DEF Typed
<1>5. Distinct'
  <2> SUFFICES ASSUME NEW k \in 1..(Len(ids) - 1), NEW l \in 1..(Len(ids) - 1), ids'[k] = ids'[l]
               PROVE  k = l
    BY <1>3 DEF Distinct
  <2>1. k + 1 = l + 1
    BY <1>b DEF IInv, Distinct
  <2> QED BY <2>1
<1>6. Ends'
  <2>1. CASE Len(ids) = 1
    BY <2>1, <1>2, <1>3 DEF Ends
  <2>2. CASE Len(ids) # 1
    <3>1. 1 \in 1..(Len(ids) - 1) /\ Len(ids) - 1 \in 1..(Len(ids) - 1) /\ (Len(ids) - 1) + 1 = Len(ids)
      BY <2>2, <1>1, <1>s
    <3>2. ids'[1] = ids[2] /\ ids'[Len(ids) - 1] = ids[Len(ids)]
      BY <3>1, <1>3
    <3>3. last' = ids[Len(ids)]
      BY <1>2 DEF IInv, Ends, Pop
    <3> QED BY <2>2, <3>2, <3>3, <1>1, <1>2, <1>3 DEF Ends
  <2> QED BY <2>1, <2>2
<1>7. Forth'
  <2> SUFFICES ASSUME NEW k \in 1..(Len(ids) - 1)
               PROVE  entry'[ids'[k]].next = IF k = Len(ids) - 1 THEN 0 ELSE ids'[k + 1]
    BY <1>3 DEF Forth
  <2>1. entry'[ids'[k]].next = IF k + 1 = Len(ids) THEN 0 ELSE ids[k + 1 + 1]
    <3>1. k + 1 \in 1..Len(ids) /\ ids'[k] = ids[k + 1] /\ ids[k + 1] \in 1..Len(entry)
      BY <1>b
    <3>2. entry[ids[k + 1]].next = IF k + 1 = Len(ids) THEN 0 ELSE ids[k + 1 + 1]
      BY <3>1 DEF IInv, Forth
    <3> QED BY <3>1, <3>2, <1>2
  <2>2. CASE k = Len(ids) - 1
    BY <2>1, <2>2, <1>1
  <2>3. CASE k # Len(ids) - 1
    <3>1. k + 1 \in 1..(Len(ids) - 1)
      BY <2>3, <1>1
    <3> QED BY <2>1, <2>3, <3>1, <1>1, <1>3
  <2> QED BY <2>2, <2>3
<1>8. Back'
  <2>1. ASSUME NEW k \in 2..(Len(ids) - 1)
        PROVE  entry'[ids'[k]].prev = ids'[k - 1]
    <3>1. /\ k \in 1..(Len(ids) - 1) /\ k - 1 \in 1..(Len(ids) - 1) /\ k + 1 \in 2..Len(ids)
          /\ k + 1 # 2 /\ 2 \in 1..Len(ids) /\ (k - 1) + 1 = k /\ (k + 1) - 1 = k
      BY <1>1
    <3>2. ids'[k] = ids[k + 1] /\ ids[k + 1] \in 1..Len(entry) /\ ids'[k - 1] = ids[k]
      BY <3>1, <1>b
    <3>3. ids[k + 1] # ids[2]
      BY <3>1 DEF IInv, Distinct
    <3>4. entry[ids[k + 1]].prev = ids[k]
      BY <3>1 DEF IInv, Back
    <3> QED BY <3>2, <3>3, <3>4, <1>2
  <2>2. ASSUME Len(ids) # 1, NEW l \in 1..(Len(ids) - 1)
        PROVE  entry'[ids'[1]].prev # ids'[l]
    <3>1. 1 \in 1..(Len(ids) - 1)
      BY <2>2, <1>1, <1>2
    <3>2. ids'[1] = ids[2] /\ ids[2] \in 1..Len(entry)
      BY <3>1, <1>b
    <3>3. entry'[ids'[1]].prev = 0
      BY <2>2, <3>2, <1>2
    <3> QED BY <3>3, <1>b
  <2> QED BY <2>1, <2>2, <1>3 DEF Back
<1>9. OnTheWay'
  BY DEF OnTheWay, Pop
<1> QED BY <1>4, <1>5, <1>6, <1>7, <1>8, <1>9 DEF IInv

\* pop-last takes the last entry off.
LEMMA PopLastHolds ==
  ASSUME IInv, PopLast, LessTheLast
  PROVE  IInv'
<1>1. Len(entry) \in Nat /\ Len(ids) \in Nat /\ Len(ids) # 0
  BY Sizes DEF PopLast
<1>s. Len(ids) # 1 => Len(ids) >= 2
  BY <1>1, AtLeastTwo
<1>2. /\ Len(ids) # 0 /\ first = ids[1] /\ last = ids[Len(ids)]
      /\ first' = IF Len(ids) = 1 THEN 0 ELSE ids[1]
      /\ last' = IF Len(ids) = 1 THEN 0 ELSE ids[Len(ids) - 1]
      /\ entry' \in Seq(Ent) /\ Len(entry') = Len(entry)
      /\ \A e \in 1..Len(entry) :
           /\ entry'[e].value = entry[e].value
           /\ entry'[e].next = IF Len(ids) # 1 /\ e = ids[Len(ids) - 1] THEN 0 ELSE entry[e].next
           /\ entry'[e].prev = entry[e].prev
  BY PopLastEntries
<1>3. /\ ids' \in Seq(Nat) /\ Len(ids') = Len(ids) - 1
      /\ \A k \in 1..(Len(ids) - 1) : ids'[k] = ids[k]
  <2>1. ids \in Seq(Nat)
    BY DEF IInv, Typed
  <2> QED BY <2>1, <1>1, LastDropped DEF LessTheLast
<1>a. /\ \A k \in 1..Len(ids) : ids[k] \in 1..Len(entry)
      /\ \A e \in 1..Len(entry) : entry[e].prev <= Len(entry) /\ entry[e].next <= Len(entry)
      /\ first \in 0..Len(entry) /\ last \in 0..Len(entry)
  BY DEF IInv, Typed
<1>b. \A k \in 1..(Len(ids) - 1) :
        k \in 1..Len(ids) /\ ids'[k] = ids[k] /\ ids[k] \in 1..Len(entry)
  BY <1>1, <1>3, <1>a
<1>4. Typed'
  <2>1. \A k \in 1..Len(ids') : ids'[k] \in 1..Len(entry')
    BY <1>2, <1>3, <1>b
  <2>2. \A e \in 1..Len(entry') : entry'[e].prev <= Len(entry') /\ entry'[e].next <= Len(entry')
    BY <1>1, <1>2, <1>a
  <2>3. first' \in 0..Len(entry') /\ last' \in 0..Len(entry')
    <3>1. CASE Len(ids) = 1
      BY <3>1, <1>1, <1>2
    <3>2. CASE Len(ids) # 1
      <4>1. 1 \in 1..Len(ids) /\ Len(ids) - 1 \in 1..Len(ids)
        BY <3>2, <1>1, <1>s
      <4> QED BY <4>1, <3>2, <1>1, <1>2, <1>a
    <3> QED BY <3>1, <3>2
  <2>4. state'.head \in 0..Len(entry') /\ walk' \in Walk /\ walk'.el <= Len(entry')
    BY <1>1, <1>2 DEF PopLast, IInv, Typed, Walk
  <2> QED BY <1>2, <1>3, <2>1, <2>2, <2>3, <2>4 DEF Typed
<1>5. Distinct'
  BY <1>3, <1>b DEF IInv, Distinct
<1>6. Ends'
  <2>1. CASE Len(ids) = 1
    BY <2>1, <1>2, <1>3 DEF Ends
  <2>2. CASE Len(ids) # 1
    <3>1. 1 \in 1..(Len(ids) - 1) /\ Len(ids) - 1 \in 1..(Len(ids) - 1)
      BY <2>2, <1>1, <1>s
    <3> QED BY <2>2, <3>1, <1>2, <1>3 DEF Ends
  <2> QED BY <2>1, <2>2
<1>7. Forth'
  <2> SUFFICES ASSUME NEW k \in 1..(Len(ids) - 1)
               PROVE  entry'[ids'[k]].next = IF k = Len(ids) - 1 THEN 0 ELSE ids'[k + 1]
    BY <1>3 DEF Forth
  <2>1. CASE k = Len(ids) - 1
    <3>1. Len(ids) # 1
      BY <2>1, <1>1
    <3> QED BY <2>1, <3>1, <1>2, <1>b
  <2>2. CASE k # Len(ids) - 1
    <3>1. k + 1 \in 1..(Len(ids) - 1) /\ k # Len(ids) /\ Len(ids) - 1 \in 1..Len(ids)
      BY <2>2, <1>1, <1>s
    <3>2. ids[k] # ids[Len(ids) - 1]
      BY <2>2, <3>1, <1>b DEF IInv, Distinct
    <3>3. entry[ids[k]].next = ids[k + 1]
      BY <3>1, <1>b DEF IInv, Forth
    <3> QED BY <2>2, <3>1, <3>2, <3>3, <1>2, <1>b
  <2> QED BY <2>1, <2>2
<1>8. Back'
  <2>1. ASSUME NEW k \in 2..(Len(ids) - 1)
        PROVE  entry'[ids'[k]].prev = ids'[k - 1]
    <3>1. k \in 1..(Len(ids) - 1) /\ k - 1 \in 1..(Len(ids) - 1) /\ k \in 2..Len(ids)
      BY <1>1
    <3>2. entry[ids[k]].prev = ids[k - 1]
      BY <3>1 DEF IInv, Back
    <3> QED BY <3>1, <3>2, <1>2, <1>b
  <2>2. ASSUME NEW l \in 1..(Len(ids) - 1)
        PROVE  entry'[ids'[1]].prev # ids'[l]
    <3>1. 1 \in 1..(Len(ids) - 1)
      BY <1>1
    <3>2. entry[ids[1]].prev # ids[l]
      BY <1>2, <1>b DEF IInv, Back
    <3> QED BY <3>1, <3>2, <1>2, <1>b
  <2> QED BY <2>1, <2>2, <1>3 DEF Back
<1>9. OnTheWay'
  BY DEF OnTheWay, PopLast
<1> QED BY <1>4, <1>5, <1>6, <1>7, <1>8, <1>9 DEF IInv

\* A step that leaves the links alone: what remains to be shown is that the
\* loop and the iteration stand on entries.
LEMMA SameLinks ==
  ASSUME IInv,
         entry' \in Seq(Ent) /\ Len(entry') = Len(entry),
         \A e \in 1..Len(entry) :
           entry'[e].next = entry[e].next /\ entry'[e].prev = entry[e].prev,
         first' = first /\ last' = last /\ ids' = ids,
         state'.head \in 0..Len(entry), walk' \in Walk /\ walk'.el <= Len(entry), OnTheWay'
  PROVE  IInv'
<1>1. Typed'
  BY DEF IInv, Typed
<1>2. Distinct' /\ Ends'
  BY DEF IInv, Distinct, Ends
<1>3. \A k \in 1..Len(ids) : ids[k] \in 1..Len(entry)
  BY DEF IInv, Typed
<1>4. Forth'
  BY <1>3 DEF IInv, Forth
<1>5. Back'
  <2>1. Len(ids) \in Nat
    BY Sizes
  <2>2. \A k \in 2..Len(ids) : k \in 1..Len(ids) /\ entry'[ids[k]].prev = entry[ids[k]].prev
    BY <2>1, <1>3
  <2>3. Len(ids) # 0 => 1 \in 1..Len(ids) /\ entry'[ids[1]].prev = entry[ids[1]].prev
    BY <2>1, <1>3
  <2> QED BY <2>2, <2>3 DEF IInv, Back
<1> QED BY <1>1, <1>2, <1>4, <1>5 DEF IInv

\* A link leads to an entry, or nowhere.
LEMMA LinkTargets ==
  ASSUME IInv, NEW e \in 1..Len(entry)
  PROVE  entry[e].next \in 0..Len(entry) /\ entry[e].prev \in 0..Len(entry)
<1>1. entry[e] \in Ent /\ Len(entry) \in Nat
  BY Sizes
<1>2. entry[e].prev <= Len(entry) /\ entry[e].next <= Len(entry)
  BY DEF IInv, Typed
<1> QED BY <1>1, <1>2 DEF Ent

\* Steps that at most move the iteration.
LEMMA LookHolds ==
  ASSUME IInv, UNCHANGED <<entry, first, last, walk, ids>>, state'.head \in 0..Len(entry)
  PROVE  IInv'
<1>1. walk' \in Walk /\ walk'.el <= Len(entry) /\ entry \in Seq(Ent)
  BY DEF IInv, Typed
<1>2. OnTheWay'
  BY DEF IInv, OnTheWay
<1> QED BY <1>1, <1>2, SameLinks

\* element and element-setter begin at the first entry.
LEMMA StartHolds ==
  ASSUME IInv, UNCHANGED <<entry, first, last, state, ids>>, first # 0,
         NEW i \in Index, NEW arg,
         \/ /\ arg \in {"default", "error"}
            /\ walk' = [op |-> "element", i |-> i, el |-> first, arg |-> arg]
         \/ /\ arg \in Value
            /\ walk' = [op |-> "element-setter", i |-> i, el |-> first, arg |-> arg]
  PROVE  IInv'
<1>1. /\ Len(entry) \in Nat /\ first \in 1..Len(entry) /\ state.head \in 0..Len(entry)
      /\ entry \in Seq(Ent) /\ i \in Int
  BY Sizes, DequeAssumption DEF IInv, Typed
<1>2. 1 \in 1..Len(ids) /\ first = ids[1]
  BY Sizes DEF IInv, Ends
<1>3. walk' \in Walk /\ walk'.el <= Len(entry)
  BY <1>1 DEF Walk, Outcome
<1>4. walk'.i = i /\ walk'.el = first /\ walk'.i + 1 - 1 = i
  BY <1>1
<1>5. \/ walk'.op = "element" /\ walk'.arg \in {"default", "error"}
      \/ walk'.op = "element-setter" /\ walk'.arg \in Value
  <2>1. CASE /\ arg \in {"default", "error"}
             /\ walk' = [op |-> "element", i |-> i, el |-> first, arg |-> arg]
    <3>1. walk'.op = "element" /\ walk'.arg = arg
      BY <2>1
    <3> QED BY <2>1, <3>1
  <2>2. CASE /\ arg \in Value
             /\ walk' = [op |-> "element-setter", i |-> i, el |-> first, arg |-> arg]
    <3>1. walk'.op = "element-setter" /\ walk'.arg = arg
      BY <2>2
    <3> QED BY <2>2, <3>1
  <2> QED BY <2>1, <2>2
<1>6. \E k \in 1..Len(ids') :
        /\ walk'.el = ids'[k]
        /\ walk'.i + k - 1 \in Index
        /\ walk'.i < 0 => walk'.i + k - 1 < 0
  BY <1>2, <1>4
<1>7. OnTheWay'
  BY <1>5, <1>6 DEF OnTheWay
<1> QED BY <1>1, <1>3, <1>7, SameLinks

\* A time round the loop goes one entry on, or ends the loop.
LEMMA StepHolds ==
  ASSUME IInv, Step, UNCHANGED ids
  PROVE  IInv'
<1>1. PICK k \in 1..Len(ids) :
        /\ walk.el = ids[k]
        /\ walk.i + k - 1 \in Index
        /\ walk.i < 0 => walk.i + k - 1 < 0
  BY DEF IInv, OnTheWay, Step
<1>2. Len(ids) \in Nat /\ walk.el \in 1..Len(entry)
  BY <1>1, Sizes
<1>3. walk \in Walk /\ entry \in Seq(Ent) /\ state.head \in 0..Len(entry) /\ Len(entry) \in Nat
  BY Sizes DEF IInv, Typed
<1>4. CASE entry[walk.el].next = 0
  <2>1. walk' = NoWalk /\ UNCHANGED <<entry, first, last, state>>
    BY <1>4 DEF Step
  <2>2. walk' \in Walk /\ walk'.el <= Len(entry) /\ OnTheWay'
    BY <2>1, <1>3 DEF NoWalk, Walk, Outcome, OnTheWay
  <2> QED BY <2>1, <2>2, <1>3, SameLinks
<1>5. CASE entry[walk.el].next # 0
  <2> DEFINE next == entry[walk.el].next
  <2>1. next \in 0..Len(entry)
    BY <1>2, LinkTargets
  <2>2. k # Len(ids) /\ next = ids[k + 1]
    BY <1>1, <1>5 DEF IInv, Forth
  <2>3. walk' = [walk EXCEPT !.i = @ - 1, !.el = next] /\ UNCHANGED <<entry, first, last, state>>
    BY <1>5 DEF Step
  <2> HIDE DEF next
  <2>4. /\ walk' \in Walk /\ walk'.el = next /\ walk'.i = walk.i - 1
        /\ walk'.op = walk.op /\ walk'.arg = walk.arg
    <3>1. next \in Nat /\ walk.i - 1 \in Int
      BY <2>1, <1>3 DEF Walk
    <3>2. walk' = [op |-> walk.op, i |-> walk.i - 1, el |-> next, arg |-> walk.arg]
      BY <2>3, <1>3 DEF Walk
    <3>3. walk.op \in {"none", "element", "element-setter"} /\ walk.arg \in Outcome
      BY <1>3 DEF Walk
    <3> QED BY <3>1, <3>2, <3>3 DEF Walk
  <2>5. k + 1 \in 1..Len(ids) /\ walk.i \in Int /\ walk.i # 0
    BY <2>2, <1>2, <1>3 DEF Walk, Step
  <2>6. walk'.i + (k + 1) - 1 = walk.i + k - 1 /\ (walk'.i < 0 => walk.i < 0)
    BY <2>4, <2>5
  <2>7. \/ walk.op = "element" /\ walk.arg \in {"default", "error"}
        \/ walk.op = "element-setter" /\ walk.arg \in Value
    BY DEF IInv, OnTheWay, Step
  <2>8. OnTheWay'
    BY <1>1, <2>2, <2>4, <2>5, <2>6, <2>7 DEF OnTheWay
  <2>9. walk'.el <= Len(entry)
    BY <2>1, <2>4, <1>3
  <2> QED BY <2>3, <2>4, <2>8, <2>9, <1>3, SameLinks
<1> QED BY <1>4, <1>5

\* The loop ends at the entry asked for.
LEMMA ArriveHolds ==
  ASSUME IInv, Arrive, UNCHANGED ids
  PROVE  IInv'
<1>1. walk.el # 0 /\ walk' = NoWalk /\ UNCHANGED <<first, last, state>>
  BY DEF Arrive
<1>2. walk.el \in 1..Len(entry)
  BY <1>1, Sizes DEF IInv, OnTheWay
<1>3. entry \in Seq(Ent) /\ state.head \in 0..Len(entry) /\ Len(entry) \in Nat
  BY Sizes DEF IInv, Typed
<1>4. walk' \in Walk /\ walk'.el <= Len(entry) /\ OnTheWay'
  BY <1>1, <1>3 DEF NoWalk, Walk, Outcome, OnTheWay
<1>5. CASE walk.op = "element-setter" /\ entry' = [entry EXCEPT ![walk.el].value = walk.arg]
  <2>1. walk.arg \in Value
    BY <1>1, <1>5 DEF IInv, OnTheWay
  <2> QED BY <1>1, <1>2, <1>3, <1>4, <1>5, <2>1, SetEntries, SameLinks
<1>6. CASE entry' = entry
  BY <1>1, <1>3, <1>4, <1>6, SameLinks
<1> QED BY <1>5, <1>6 DEF Arrive

\* The element of an iteration is set.
LEMMA CurrentElementSetterHolds ==
  ASSUME IInv, NEW new \in Value, CurrentElementSetter(new), UNCHANGED ids
  PROVE  IInv'
<1>1. /\ state.head \in 1..Len(entry) /\ UNCHANGED <<first, last, state, walk>>
      /\ entry' = [entry EXCEPT ![state.head].value = new]
  BY Sizes DEF CurrentElementSetter, IInv, Typed
<1>2. /\ entry' \in Seq(Ent) /\ Len(entry') = Len(entry)
      /\ \A e \in 1..Len(entry) :
           entry'[e].next = entry[e].next /\ entry'[e].prev = entry[e].prev
  BY <1>1, SetEntries
<1>3. walk' \in Walk /\ walk'.el <= Len(entry) /\ state'.head \in 0..Len(entry)
  BY <1>1 DEF IInv, Typed
<1>4. OnTheWay'
  BY <1>1 DEF IInv, OnTheWay
<1> QED BY <1>1, <1>2, <1>3, <1>4, SameLinks

\* Every step keeps the invariant.
LEMMA NextHolds ==
  ASSUME IInv, [HNext]_hvars
  PROVE  IInv'
<1>1. CASE Reshape
  <2>1. ASSUME NEW new \in Value, Push(new), ids' = <<New>> \o ids
        PROVE  IInv'
    BY <2>1, PushHolds
  <2>2. ASSUME NEW new \in Value, PushLast(new), ids' = Append(ids, New)
        PROVE  IInv'
    BY <2>2, PushLastHolds
  <2>3. ASSUME Pop, ids' = SubSeq(ids, 2, Len(ids))
        PROVE  IInv'
    BY <2>3, PopHolds DEF LessTheFirst
  <2>4. ASSUME PopLast, ids' = SubSeq(ids, 1, Len(ids) - 1)
        PROVE  IInv'
    BY <2>4, PopLastHolds DEF LessTheLast
  <2> QED BY <1>1, <2>1, <2>2, <2>3, <2>4 DEF Reshape
<1>2. CASE Begin
  <2>1. UNCHANGED <<entry, first, last, walk, ids>> /\ state'.head \in {first, last}
    BY <1>2 DEF Begin, InitialState, FinalState
  <2>2. state'.head \in 0..Len(entry)
    BY <2>1 DEF IInv, Typed
  <2> QED BY <2>1, <2>2, LookHolds
<1>3. CASE Use
  <2>0. UNCHANGED ids /\ Len(entry) \in Nat /\ state.head \in 0..Len(entry)
    BY <1>3, Sizes DEF Use, IInv, Typed
  <2>1. ASSUME UNCHANGED <<entry, first, last, walk>>, UNCHANGED state
        PROVE  IInv'
    BY <2>0, <2>1, LookHolds
  <2>2. ASSUME PopEmpty \/ \E default \in BOOLEAN : First(default) \/ Last(default)
        PROVE  IInv'
    BY <2>1, <2>2 DEF PopEmpty, First, Last
  <2>3. ASSUME NEW i \in Index, NEW default \in BOOLEAN, StartElement(i, default)
        PROVE  IInv'
    <3>1. /\ UNCHANGED <<entry, first, last, state>> /\ first # 0
          /\ walk' = [op |-> "element", i |-> i, el |-> first, arg |-> Absent(default)]
      BY <2>3 DEF StartElement
    <3>2. Absent(default) \in {"default", "error"}
      BY DEF Absent
    <3> QED BY <2>0, <3>1, <3>2, StartHolds
  <2>4. ASSUME NEW i \in Index, NEW new \in Value, StartElementSetter(i, new)
        PROVE  IInv'
    <3>1. CASE first = 0
      BY <2>1, <2>4, <3>1 DEF StartElementSetter
    <3>2. CASE first # 0
      BY <2>0, <2>4, <3>2, StartHolds DEF StartElementSetter
    <3> QED BY <3>1, <3>2
  <2>5. ASSUME Step
        PROVE  IInv'
    BY <2>0, <2>5, StepHolds
  <2>6. ASSUME Arrive
        PROVE  IInv'
    BY <2>0, <2>6, ArriveHolds
  <2>7. ASSUME NextState \/ PreviousState
        PROVE  IInv'
    <3>1. state.head \in 1..Len(entry) /\ UNCHANGED <<entry, first, last, walk>>
      BY <2>0, <2>7 DEF NextState, PreviousState
    <3>2. state'.head \in {entry[state.head].next, entry[state.head].prev}
      BY <2>7 DEF NextState, PreviousState
    <3>3. state'.head \in 0..Len(entry)
      BY <3>1, <3>2, LinkTargets
    <3> QED BY <2>0, <3>1, <3>3, LookHolds
  <2>8. ASSUME NEW new \in Value, CurrentElementSetter(new)
        PROVE  IInv'
    BY <2>0, <2>8, CurrentElementSetterHolds
  <2> QED BY <1>3, <2>2, <2>3, <2>4, <2>5, <2>6, <2>7, <2>8 DEF Use
<1>4. CASE UNCHANGED hvars
  <2>1. UNCHANGED <<entry, first, last, walk, ids>> /\ UNCHANGED state
    BY <1>4 DEF hvars, vars
  <2>2. state'.head \in 0..Len(entry)
    BY <2>1 DEF IInv, Typed
  <2> QED BY <2>1, <2>2, LookHolds
<1> QED BY <1>1, <1>2, <1>3, <1>4 DEF HNext

\* The invariant holds in every state.
LEMMA Invariance == HSpec => []IInv
<1>1. HInit => IInv
  BY InitHolds
<1>2. IInv /\ [HNext]_hvars => IInv'
  BY NextHolds
<1> QED BY <1>1, <1>2, PTL DEF HSpec

----------------------------------------------------------------------------
(* What the invariant says.                                                *)

\* The links lead through the entries pushed and not popped, from the first
\* to the last and back, after any sequence of pushes and pops at the two
\* ends (deque.c:143-204).
THEOREM LinksHold == HSpec => []Linked
<1>1. IInv => Linked
  <2> SUFFICES ASSUME IInv
               PROVE  Linked
    OBVIOUS
  <2>1. ids \in Seq(Nat) /\ Len(ids) \in Nat /\ DOMAIN ids = 1..Len(ids)
    BY Sizes DEF IInv, Typed
  <2>2. ids = <<>> <=> Len(ids) = 0
    BY <2>1, EmptySeq
  <2>3. IsInjective(ids)
    BY <2>1 DEF IsInjective, IInv, Distinct
  <2>4. first = IF ids = <<>> THEN 0 ELSE ids[1]
    BY <2>2 DEF IInv, Ends
  <2>5. ids # <<>> => last = ids[Len(ids)]
    BY <2>2 DEF IInv, Ends
  <2>6. ASSUME NEW k \in DOMAIN ids
        PROVE  /\ entry[ids[k]].next = IF k = Len(ids) THEN 0 ELSE ids[k + 1]
               /\ IF k = 1 THEN \A l \in DOMAIN ids : entry[ids[1]].prev # ids[l]
                           ELSE entry[ids[k]].prev = ids[k - 1]
    <3>1. k \in 1..Len(ids) /\ Len(ids) # 0 /\ (k # 1 => k \in 2..Len(ids))
      BY <2>1
    <3> QED BY <2>1, <3>1 DEF IInv, Forth, Back
  <2> QED BY <2>3, <2>4, <2>5, <2>6 DEF Linked
<1> QED BY <1>1, Invariance, PTL

\* The loop of element and element-setter never leaves the entries of the
\* deque, and counts to an index that was asked for (deque.c:232-275).
THEOREM LoopStaysInside == HSpec => []Walking
<1>1. IInv => Walking
  <2> SUFFICES ASSUME IInv, walk.el # 0
               PROVE  \E k \in DOMAIN ids :
                        /\ walk.el = ids[k]
                        /\ walk.i + k - 1 \in Index
                        /\ walk.i < 0 => walk.i + k - 1 < 0
    BY DEF Walking
  <2>1. DOMAIN ids = 1..Len(ids)
    BY DEF IInv, Typed
  <2> QED BY <2>1 DEF IInv, OnTheWay
<1> QED BY <1>1, Invariance, PTL

----------------------------------------------------------------------------
(* The refinement: the values the links lead through are the sequence of   *)
(* DequeSpec.                                                              *)

\* The values at some entries, as a sequence.
LEMMA ValuesOf ==
  ASSUME NEW e \in Seq(Ent), NEW d \in Seq(Nat), \A k \in 1..Len(d) : d[k] \in 1..Len(e),
         NEW t, t = [k \in DOMAIN d |-> e[d[k]].value]
  PROVE  /\ t \in Seq(Value) /\ Len(t) = Len(d) /\ DOMAIN t = 1..Len(d)
         /\ \A k \in 1..Len(d) : t[k] = e[d[k]].value /\ t[k] \in Value
<1>1. DOMAIN d = 1..Len(d) /\ Len(d) \in Nat
  BY LenProperties
<1>2. ASSUME NEW k \in 1..Len(d)
      PROVE  e[d[k]].value \in Value
  <2>1. e[d[k]] \in Ent
    BY ElementOfSeq
  <2> QED BY <2>1 DEF Ent
<1> QED BY <1>1, <1>2

\* The sequence before a step and after it.
LEMMA ItemsBefore ==
  ASSUME IInv
  PROVE  /\ Items \in Seq(Value) /\ Len(Items) = Len(ids) /\ DOMAIN Items = 1..Len(ids)
         /\ \A k \in 1..Len(ids) : Items[k] = entry[ids[k]].value /\ Items[k] \in Value
         /\ Items = <<>> <=> Len(ids) = 0
<1>1. /\ Items \in Seq(Value) /\ Len(Items) = Len(ids) /\ DOMAIN Items = 1..Len(ids)
      /\ \A k \in 1..Len(ids) : Items[k] = entry[ids[k]].value /\ Items[k] \in Value
  BY ValuesOf DEF IInv, Typed, Items
<1>2. Items = <<>> <=> Len(Items) = 0
  BY <1>1, EmptySeq
<1> QED BY <1>1, <1>2

LEMMA ItemsAfter ==
  ASSUME IInv'
  PROVE  /\ Items' \in Seq(Value) /\ Len(Items') = Len(ids') /\ DOMAIN Items' = 1..Len(ids')
         /\ \A k \in 1..Len(ids') : Items'[k] = entry'[ids'[k]].value
BY ValuesOf DEF IInv, Typed, Items

\* push and pop at both ends.
LEMMA PushImplements ==
  ASSUME IInv, IInv', NEW new \in Value, Push(new), ids' = <<New>> \o ids
  PROVE  Promise!Push(new)
<1> DEFINE t == <<new>> \o Items
<1>1. Len(ids) \in Nat /\ Len(entry) \in Nat
  BY Sizes
<1>2. t \in Seq(Value) /\ Len(t) = Len(ids) + 1
      /\ t[1] = new /\ \A k \in 2..(Len(ids) + 1) : t[k] = Items[k - 1]
  BY ItemsBefore, <1>1
<1>3. Len(ids') = Len(ids) + 1 /\ ids'[1] = New /\ \A k \in 2..(Len(ids) + 1) : ids'[k] = ids[k - 1]
  BY <1>1 DEF IInv, Typed
<1>4. \A k \in 1..Len(t) : Items'[k] = t[k]
  <2> TAKE k \in 1..Len(t)
  <2>1. Items'[k] = entry'[ids'[k]].value
    BY <1>2, <1>3, ItemsAfter
  <2>2. CASE k = 1
    BY <2>1, <2>2, <1>2, <1>3, PushEntries
  <2>3. CASE k # 1
    <3>1. k \in 2..(Len(ids) + 1) /\ k - 1 \in 1..Len(ids)
      BY <2>3, <1>1, <1>2
    <3>2. t[k] = entry[ids[k - 1]].value /\ ids[k - 1] \in 1..Len(entry)
      BY <3>1, <1>2, ItemsBefore, Sizes
    <3> QED BY <2>1, <3>1, <3>2, <1>3, PushEntries
  <2> QED BY <2>2, <2>3
<1> HIDE DEF t
<1>5. Items' = t
  BY <1>2, <1>3, <1>4, ItemsAfter, SeqEqual
<1>6. out' = <<"push", "deque">>
  BY DEF Push
<1> QED BY <1>5, <1>6 DEF Promise!Push, t

LEMMA PushLastImplements ==
  ASSUME IInv, IInv', NEW new \in Value, PushLast(new), ids' = Append(ids, New)
  PROVE  Promise!PushLast(new)
<1> DEFINE t == Append(Items, new)
<1>1. Len(ids) \in Nat /\ Len(entry) \in Nat
  BY Sizes
<1>2. t \in Seq(Value) /\ Len(t) = Len(ids) + 1
      /\ t[Len(ids) + 1] = new /\ \A k \in 1..Len(ids) : t[k] = Items[k]
  BY ItemsBefore, AppendProperties
<1>3. Len(ids') = Len(ids) + 1 /\ ids'[Len(ids) + 1] = New /\ \A k \in 1..Len(ids) : ids'[k] = ids[k]
  BY <1>1 DEF IInv, Typed
<1>4. \A k \in 1..Len(t) : Items'[k] = t[k]
  <2> TAKE k \in 1..Len(t)
  <2>1. Items'[k] = entry'[ids'[k]].value
    BY <1>2, <1>3, ItemsAfter
  <2>2. CASE k = Len(ids) + 1
    BY <2>1, <2>2, <1>2, <1>3, PushLastEntries
  <2>3. CASE k # Len(ids) + 1
    <3>1. k \in 1..Len(ids)
      BY <2>3, <1>1, <1>2
    <3>2. t[k] = entry[ids[k]].value /\ ids[k] \in 1..Len(entry)
      BY <3>1, <1>2, ItemsBefore, Sizes
    <3> QED BY <2>1, <3>1, <3>2, <1>3, PushLastEntries
  <2> QED BY <2>2, <2>3
<1> HIDE DEF t
<1>5. Items' = t
  BY <1>2, <1>3, <1>4, ItemsAfter, SeqEqual
<1>6. out' = <<"push-last", "deque">>
  BY DEF PushLast
<1> QED BY <1>5, <1>6 DEF Promise!PushLast, t

LEMMA PopImplements ==
  ASSUME IInv, IInv', Pop, LessTheFirst
  PROVE  Promise!Pop
<1> DEFINE t == Tail(Items)
<1>1. Len(ids) \in Nat /\ Len(ids) # 0 /\ Items # <<>> /\ first = ids[1]
  BY Sizes, ItemsBefore, PopEntries
<1>2. t \in Seq(Value) /\ Len(t) = Len(ids) - 1
      /\ \A k \in 1..(Len(ids) - 1) : t[k] = Items[k + 1]
  BY <1>1, ItemsBefore, HeadTailProperties
<1>3. Len(ids') = Len(ids) - 1 /\ \A k \in 1..(Len(ids) - 1) : ids'[k] = ids[k + 1]
  <2>1. ids \in Seq(Nat)
    BY DEF IInv, Typed
  <2> QED BY <2>1, <1>1, FirstDropped DEF LessTheFirst
<1>4. \A k \in 1..Len(t) : Items'[k] = t[k]
  <2> TAKE k \in 1..Len(t)
  <2>1. k \in 1..(Len(ids) - 1) /\ k + 1 \in 1..Len(ids)
    BY <1>1, <1>2
  <2>2. Items'[k] = entry'[ids[k + 1]].value
    BY <2>1, <1>3, ItemsAfter
  <2>3. t[k] = entry[ids[k + 1]].value /\ ids[k + 1] \in 1..Len(entry)
    BY <2>1, <1>2, ItemsBefore, Sizes
  <2> QED BY <2>2, <2>3, PopEntries
<1>5. Head(Items) = entry[first].value
  <2>1. Head(Items) = Items[1] /\ 1 \in 1..Len(ids)
    BY <1>1, ItemsBefore
  <2> QED BY <2>1, <1>1, ItemsBefore
<1> HIDE DEF t
<1>6. Items' = t
  BY <1>2, <1>3, <1>4, ItemsAfter, SeqEqual
<1>7. out' = <<"pop", Head(Items)>>
  BY <1>5 DEF Pop
<1> QED BY <1>1, <1>6, <1>7 DEF Promise!Pop, t

LEMMA PopLastImplements ==
  ASSUME IInv, IInv', PopLast, LessTheLast
  PROVE  Promise!PopLast
<1> DEFINE t == SubSeq(Items, 1, Len(Items) - 1)
<1>1. Len(ids) \in Nat /\ Len(ids) # 0 /\ Items # <<>> /\ last = ids[Len(ids)]
  BY Sizes, ItemsBefore, PopLastEntries
<1>2. t \in Seq(Value) /\ Len(t) = Len(ids) - 1
      /\ \A k \in 1..(Len(ids) - 1) : t[k] = Items[k]
  BY <1>1, ItemsBefore, LastDropped
<1>3. Len(ids') = Len(ids) - 1 /\ \A k \in 1..(Len(ids) - 1) : ids'[k] = ids[k]
  <2>1. ids \in Seq(Nat)
    BY DEF IInv, Typed
  <2> QED BY <2>1, <1>1, LastDropped DEF LessTheLast
<1> HIDE DEF t
<1>4. \A k \in 1..Len(t) : Items'[k] = t[k]
  <2> TAKE k \in 1..Len(t)
  <2>1. k \in 1..(Len(ids) - 1) /\ k \in 1..Len(ids)
    BY <1>1, <1>2
  <2>2. Items'[k] = entry'[ids[k]].value
    BY <2>1, <1>3, ItemsAfter
  <2>3. t[k] = entry[ids[k]].value /\ ids[k] \in 1..Len(entry)
    BY <2>1, <1>2, ItemsBefore, Sizes
  <2> QED BY <2>2, <2>3, PopLastEntries
<1>5. Items[Len(Items)] = entry[last].value
  <2>1. Len(ids) \in 1..Len(ids)
    BY <1>1
  <2> QED BY <2>1, <1>1, ItemsBefore
<1>6. Items' = t
  BY <1>2, <1>3, <1>4, ItemsAfter, SeqEqual
<1>7. out' = <<"pop-last", Items[Len(Items)]>>
  BY <1>5 DEF PopLast
<1> QED BY <1>1, <1>6, <1>7 DEF Promise!PopLast, t

\* An entry of the deque is given a value, or one that is left over.
LEMMA SetItem ==
  ASSUME IInv, IInv', UNCHANGED ids, NEW j \in 1..Len(entry), NEW v \in Value,
         entry' = [entry EXCEPT ![j].value = v]
  PROVE  /\ \A k \in 1..Len(ids) : j = ids[k] => Items' = [Items EXCEPT ![k] = v]
         /\ (\A k \in 1..Len(ids) : j # ids[k]) => Items' = Items
<1>1. \A k \in 1..Len(ids) : Items'[k] = IF ids[k] = j THEN v ELSE Items[k]
  BY Sizes, SetEntries, ItemsBefore, ItemsAfter
<1>2. Items' \in Seq(Value) /\ Len(Items') = Len(ids) /\ Items \in Seq(Value) /\ Len(Items) = Len(ids)
  BY ItemsBefore, ItemsAfter
<1>3. ASSUME NEW k \in 1..Len(ids), j = ids[k]
      PROVE  Items' = [Items EXCEPT ![k] = v]
  <2> DEFINE t == [Items EXCEPT ![k] = v]
  <2>1. /\ t \in Seq(Value) /\ Len(t) = Len(ids)
        /\ \A l \in 1..Len(ids) : t[l] = IF l = k THEN v ELSE Items[l]
    BY <1>2, Changed
  <2>2. \A l \in 1..Len(ids) : ids[l] = j <=> l = k
    BY <1>3 DEF IInv, Distinct
  <2> HIDE DEF t
  <2>3. \A l \in 1..Len(Items') : Items'[l] = t[l]
    BY <1>1, <1>2, <2>1, <2>2
  <2>4. Items' = t
    BY <1>2, <2>1, <2>3, SeqEqual
  <2> QED BY <2>4 DEF t
<1>4. ASSUME \A k \in 1..Len(ids) : j # ids[k]
      PROVE  Items' = Items
  <2>1. \A l \in 1..Len(Items') : Items'[l] = Items[l]
    BY <1>1, <1>2, <1>4
  <2> QED BY <1>2, <2>1, SeqEqual
<1> QED BY <1>3, <1>4

\* Where an index leads, and that there is no element at the end of a loop
\* that has not come to 0.
LEMMA IndexOfWalk ==
  ASSUME IInv, walk.el # 0
  PROVE  \E k \in 1..Len(ids), i \in Index :
           /\ walk.el = ids[k] /\ i = walk.i + k - 1
           /\ walk.i = 0 => i + 1 = k
           /\ walk.i # 0 /\ entry[walk.el].next = 0 => i + 1 \notin 1..Len(ids)
<1>1. PICK k \in 1..Len(ids) :
        /\ walk.el = ids[k]
        /\ walk.i + k - 1 \in Index
        /\ walk.i < 0 => walk.i + k - 1 < 0
  BY DEF IInv, OnTheWay
<1> DEFINE i == walk.i + k - 1
<1>2. walk.i \in Int /\ Len(ids) \in Nat /\ i \in Int /\ i \in Index
  BY <1>1, Sizes DEF IInv, Typed, Walk
<1>3. walk.i = 0 => i + 1 = k
  BY <1>2
<1>4. ASSUME walk.i # 0, entry[walk.el].next = 0
      PROVE  i + 1 \notin 1..Len(ids)
  <2>1. k = Len(ids)
    <3>1. k # Len(ids) => ids[k + 1] = 0 /\ k + 1 \in 1..Len(ids)
      BY <1>1, <1>2, <1>4 DEF IInv, Forth
    <3> QED BY <3>1, Sizes
  <2>2. walk.i > 0 \/ i < 0
    BY <1>1, <1>2, <1>4
  <2> QED BY <2>1, <2>2, <1>2
<1> QED BY <1>1, <1>2, <1>3, <1>4

\* A loop ends with the element at an index, or having set it.
LEMMA ArriveImplements ==
  ASSUME IInv, IInv', Arrive, UNCHANGED ids
  PROVE  \/ \E i \in Index, default \in BOOLEAN : Promise!Element(i, default)
         \/ \E i \in Index, new \in Value : Promise!ElementSetter(i, new)
<1>1. PICK k \in 1..Len(ids), i \in Index : walk.el = ids[k] /\ i + 1 = k
  BY IndexOfWalk DEF Arrive
<1>2. DOMAIN Items = 1..Len(ids) /\ Items[k] = entry[walk.el].value /\ walk.el \in 1..Len(entry)
  BY <1>1, ItemsBefore, Sizes
<1>3. CASE walk.op = "element"
  <2>1. entry' = entry /\ out' = <<"element", entry[walk.el].value>>
    BY <1>3 DEF Arrive
  <2>2. UNCHANGED Items
    BY <2>1 DEF Items
  <2>3. Promise!Element(i, TRUE)
    BY <1>1, <1>2, <2>1, <2>2 DEF Promise!Element, Promise!At
  <2> QED BY <2>3
<1>4. CASE walk.op = "element-setter"
  <2>1. /\ entry' = [entry EXCEPT ![walk.el].value = walk.arg]
        /\ out' = <<"element-setter", "unspecified">>
    BY <1>4 DEF Arrive
  <2>2. walk.arg \in Value
    BY <1>4 DEF IInv, OnTheWay, Arrive
  <2>3. Items' = [Items EXCEPT ![k] = walk.arg]
    <3> DEFINE el == walk.el
               v == walk.arg
    <3>1. /\ el \in 1..Len(entry) /\ el = ids[k] /\ v \in Value
          /\ entry' = [entry EXCEPT ![el].value = v]
      BY <1>1, <1>2, <2>1, <2>2
    <3> HIDE DEF el, v
    <3>2. Items' = [Items EXCEPT ![k] = v]
      BY <3>1, SetItem
    <3> QED BY <3>2 DEF v
  <2>4. Promise!ElementSetter(i, walk.arg)
    BY <1>1, <1>2, <2>1, <2>3 DEF Promise!ElementSetter
  <2> QED BY <2>2, <2>4
<1> QED BY <1>3, <1>4 DEF Arrive

\* A loop ends without an element, or goes on.
LEMMA StepImplements ==
  ASSUME IInv, Step, UNCHANGED ids
  PROVE  \/ \E i \in Index, default \in BOOLEAN : Promise!Element(i, default)
         \/ \E i \in Index, new \in Value : Promise!ElementSetter(i, new)
         \/ UNCHANGED <<Items, out>>
<1>1. UNCHANGED Items
  BY DEF Step, Items
<1>2. CASE entry[walk.el].next = 0
  <2>1. PICK i \in Index : i + 1 \notin 1..Len(ids)
    BY <1>2, IndexOfWalk DEF Step
  <2>2. i + 1 \notin DOMAIN Items
    BY <2>1, ItemsBefore
  <2>3. CASE walk.op = "element" /\ walk.arg \in {"default", "error"}
    <3>1. out' = <<"element", walk.arg>>
      BY <1>2, <2>3 DEF Step
    <3>2. Promise!Element(i, walk.arg = "default")
      BY <1>1, <2>2, <2>3, <3>1 DEF Promise!Element, Promise!At, Promise!Absent
    <3> QED BY <3>2
  <2>4. CASE walk.op = "element-setter" /\ walk.arg \in Value
    <3>1. out' = <<"element-setter", "error">>
      BY <1>2, <2>4 DEF Step
    <3>2. Promise!ElementSetter(i, walk.arg)
      BY <1>1, <2>2, <3>1 DEF Promise!ElementSetter
    <3> QED BY <2>4, <3>2
  <2> QED BY <2>3, <2>4 DEF IInv, OnTheWay, Step
<1>3. CASE entry[walk.el].next # 0
  BY <1>1, <1>3 DEF Step
<1> QED BY <1>2, <1>3

\* What an iteration assigns, in the deque or left over.
LEMMA CurrentElementSetterImplements ==
  ASSUME IInv, IInv', NEW new \in Value, CurrentElementSetter(new), UNCHANGED ids
  PROVE  Promise!CurrentElementSetter(new)
<1>1. /\ state.head \in 1..Len(entry) /\ out' = <<"current-element-setter", new>>
      /\ entry' = [entry EXCEPT ![state.head].value = new]
  BY Sizes DEF CurrentElementSetter, IInv, Typed
<1>2. CASE \E k \in 1..Len(ids) : state.head = ids[k]
  <2>1. PICK k \in 1..Len(ids) : state.head = ids[k]
    BY <1>2
  <2>2. Items' = [Items EXCEPT ![k] = new] /\ k \in DOMAIN Items
    BY <1>1, <2>1, SetItem, ItemsBefore
  <2> QED BY <1>1, <2>2 DEF Promise!CurrentElementSetter
<1>3. CASE \A k \in 1..Len(ids) : state.head # ids[k]
  <2>1. Items' = Items
    BY <1>1, <1>3, SetItem
  <2> QED BY <1>1, <2>1 DEF Promise!CurrentElementSetter
<1> QED BY <1>2, <1>3

\* Operations that change nothing.
LEMMA LooksImplement ==
  ASSUME IInv, LastOfEmptied = FALSE, UNCHANGED ids
  PROVE  /\ PopEmpty => Promise!Pop \/ Promise!PopLast
         /\ \A default \in BOOLEAN : First(default) => Promise!First(default)
         /\ \A default \in BOOLEAN : Last(default) => Promise!Last(default)
         /\ \A i \in Index, new \in Value :
              StartElementSetter(i, new) => Promise!ElementSetter(i, new) \/ UNCHANGED <<Items, out>>
<1>1. /\ DOMAIN Items = 1..Len(ids) /\ Len(Items) = Len(ids) /\ Len(ids) \in Nat
      /\ Items = <<>> <=> Len(ids) = 0
      /\ first = 0 <=> Len(ids) = 0
      /\ \A k \in 1..Len(ids) : Items[k] = entry[ids[k]].value
  BY Sizes, ItemsBefore
<1>2. ASSUME UNCHANGED entry
      PROVE  UNCHANGED Items
  BY <1>2 DEF Items
<1>3. ASSUME PopEmpty
      PROVE  Promise!Pop \/ Promise!PopLast
  <2>1. UNCHANGED Items /\ Items = <<>>
    BY <1>1, <1>2, <1>3 DEF PopEmpty
  <2>2. out' = <<"pop", "error">> \/ out' = <<"pop-last", "error">>
    BY <1>3 DEF PopEmpty
  <2> QED BY <2>1, <2>2 DEF Promise!Pop, Promise!PopLast
<1>4. ASSUME NEW default \in BOOLEAN, First(default)
      PROVE  Promise!First(default)
  <2>1. UNCHANGED Items
    BY <1>2, <1>4 DEF First
  <2>2. first # 0 => 1 \in 1..Len(ids) /\ first = ids[1]
    BY <1>1 DEF IInv, Ends
  <2>3. CASE first = 0
    <3>1. 0 + 1 \notin DOMAIN Items /\ out' = <<"first", Absent(default)>>
      BY <1>1, <1>4, <2>3 DEF First
    <3> QED BY <2>1, <3>1 DEF Absent, Promise!First, Promise!At, Promise!Absent
  <2>4. CASE first # 0
    <3>1. 0 + 1 \in DOMAIN Items /\ Items[0 + 1] = entry[first].value
      BY <1>1, <2>2, <2>4
    <3>2. out' = <<"first", entry[first].value>>
      BY <1>4, <2>4 DEF First
    <3> QED BY <2>1, <3>1, <3>2 DEF Promise!First, Promise!At
  <2> QED BY <2>3, <2>4
<1>5. ASSUME NEW default \in BOOLEAN, Last(default)
      PROVE  Promise!Last(default)
  <2>1. UNCHANGED Items
    BY <1>2, <1>5 DEF Last
  <2>2. first # 0 => Len(ids) \in 1..Len(ids) /\ last = ids[Len(ids)] /\ last # 0
    BY <1>1, Sizes DEF IInv, Ends
  <2>3. first = 0 => last = 0
    BY <1>5 DEF Last, LastIsAsked
  <2>4. CASE first = 0
    <3>1. Len(Items) - 1 + 1 \notin DOMAIN Items
      BY <1>1, <2>4
    <3>2. out' = <<"last", Absent(default)>>
      BY <1>5, <2>3, <2>4 DEF Last
    <3> QED BY <2>1, <3>1, <3>2 DEF Absent, Promise!Last, Promise!At, Promise!Absent
  <2>5. CASE first # 0
    <3>1. Len(Items) - 1 + 1 \in DOMAIN Items /\ Items[Len(Items) - 1 + 1] = entry[last].value
      BY <1>1, <2>2, <2>5
    <3>2. out' = <<"last", entry[last].value>>
      BY <1>5, <2>2, <2>5 DEF Last
    <3> QED BY <2>1, <3>1, <3>2 DEF Promise!Last, Promise!At
  <2> QED BY <2>4, <2>5
<1>6. ASSUME NEW i \in Index, NEW new \in Value, StartElementSetter(i, new)
      PROVE  Promise!ElementSetter(i, new) \/ UNCHANGED <<Items, out>>
  <2>1. UNCHANGED Items
    BY <1>2, <1>6 DEF StartElementSetter
  <2>2. CASE first = 0
    <3>1. i + 1 \notin DOMAIN Items /\ out' = <<"element-setter", "error">>
      BY <1>1, <1>6, <2>2 DEF StartElementSetter
    <3> QED BY <2>1, <3>1 DEF Promise!ElementSetter
  <2>3. CASE first # 0
    BY <1>6, <2>1, <2>3 DEF StartElementSetter
  <2> QED BY <2>2, <2>3
<1> QED BY <1>3, <1>4, <1>5, <1>6

\* Every step does what DequeSpec allows, or nothing that it sees.
LEMMA NextImplements ==
  ASSUME IInv, IInv', LastOfEmptied = FALSE, [HNext]_hvars
  PROVE  [Promise!Next]_(Promise!vars)
<1>1. CASE Reshape
  <2>1. ASSUME NEW new \in Value, Push(new), ids' = <<New>> \o ids
        PROVE  Promise!Push(new)
    BY <2>1, PushImplements
  <2>2. ASSUME NEW new \in Value, PushLast(new), ids' = Append(ids, New)
        PROVE  Promise!PushLast(new)
    BY <2>2, PushLastImplements
  <2>3. ASSUME Pop, ids' = SubSeq(ids, 2, Len(ids))
        PROVE  Promise!Pop
    BY <2>3, PopImplements DEF LessTheFirst
  <2>4. ASSUME PopLast, ids' = SubSeq(ids, 1, Len(ids) - 1)
        PROVE  Promise!PopLast
    BY <2>4, PopLastImplements DEF LessTheLast
  <2> QED BY <1>1, <2>1, <2>2, <2>3, <2>4 DEF Reshape, Promise!Next
<1>2. ASSUME UNCHANGED <<entry, ids, out>>
      PROVE  UNCHANGED Promise!vars
  BY <1>2 DEF Items, Promise!vars
<1>3. CASE Begin
  BY <1>2, <1>3 DEF Begin, InitialState, FinalState
<1>4. CASE Use
  <2>0. UNCHANGED ids
    BY <1>4 DEF Use
  <2>1. ASSUME PopEmpty
        PROVE  Promise!Pop \/ Promise!PopLast
    BY <2>0, <2>1, LooksImplement
  <2>2. ASSUME NEW default \in BOOLEAN, First(default) \/ Last(default)
        PROVE  Promise!First(default) \/ Promise!Last(default)
    BY <2>0, <2>2, LooksImplement
  <2>3. ASSUME NEW i \in Index, NEW default \in BOOLEAN, StartElement(i, default)
        PROVE  UNCHANGED Promise!vars
    BY <1>2, <2>0, <2>3 DEF StartElement
  <2>4. ASSUME NEW i \in Index, NEW new \in Value, StartElementSetter(i, new)
        PROVE  Promise!ElementSetter(i, new) \/ UNCHANGED Promise!vars
    BY <2>0, <2>4, LooksImplement DEF Promise!vars
  <2>5. ASSUME Step
        PROVE  \/ \E i \in Index, default \in BOOLEAN : Promise!Element(i, default)
               \/ \E i \in Index, new \in Value : Promise!ElementSetter(i, new)
               \/ UNCHANGED Promise!vars
    BY <2>0, <2>5, StepImplements DEF Promise!vars
  <2>6. ASSUME Arrive
        PROVE  \/ \E i \in Index, default \in BOOLEAN : Promise!Element(i, default)
               \/ \E i \in Index, new \in Value : Promise!ElementSetter(i, new)
    BY <2>0, <2>6, ArriveImplements
  <2>7. ASSUME NextState \/ PreviousState
        PROVE  UNCHANGED Promise!vars
    BY <1>2, <2>0, <2>7 DEF NextState, PreviousState
  <2>8. ASSUME NEW new \in Value, CurrentElementSetter(new)
        PROVE  Promise!CurrentElementSetter(new)
    BY <2>0, <2>8, CurrentElementSetterImplements
  <2> QED BY <1>4, <2>1, <2>2, <2>3, <2>4, <2>5, <2>6, <2>7, <2>8 DEF Use, Promise!Next
<1>5. CASE UNCHANGED hvars
  BY <1>2, <1>5 DEF hvars, vars
<1> QED BY <1>1, <1>3, <1>4, <1>5 DEF HNext

\* make gives equal values.
LEMMA InitImplements ==
  ASSUME HInit
  PROVE  Promise!Init
<1> USE DequeAssumption
<1>1. PICK n \in 0..MaxMade, fill \in Value :
        entry = [k \in 1..n |-> [prev |-> k - 1, value |-> fill,
                                 next |-> IF k = n THEN 0 ELSE k + 1]]
  BY DEF HInit, Init
<1>2. n \in Nat /\ Len(entry) = n
  BY <1>1
<1>3. Items = [k \in 1..n |-> fill]
  <2>1. ids = [k \in 1..n |-> k] /\ DOMAIN ids = 1..n
    BY <1>2 DEF HInit
  <2>2. \A k \in 1..n : entry[ids[k]].value = fill
    BY <1>1, <2>1
  <2> QED BY <2>1, <2>2 DEF Items
<1>4. out = <<"make", "deque">>
  BY DEF HInit, Init
<1> QED BY <1>3, <1>4 DEF Promise!Init

\* The deque of deque.c does what a sequence of values does that grows and
\* shrinks at both ends: every operation gives what DequeSpec promises, and
\* each time round the loop of element changes nothing of it (deque.c:85-275).
\* last is not asked of a deque that pop has emptied.
THEOREM DequeImplements ==
  ASSUME LastOfEmptied = FALSE
  PROVE  HSpec => Implements
<1>1. HInit => Promise!Init
  BY InitImplements
<1>2. IInv /\ IInv' /\ [HNext]_hvars => [Promise!Next]_(Promise!vars)
  BY NextImplements
<1> QED BY <1>1, <1>2, Invariance, PTL DEF HSpec, Implements, Promise!Spec

----------------------------------------------------------------------------
(* Counting.                                                               *)

\* There are no more entries in the deque than have been made.
LEMMA NoMoreThanMade ==
  ASSUME IInv
  PROVE  Len(ids) <= Len(entry)
<1>1. /\ Len(ids) \in Nat /\ Len(entry) \in Nat /\ DOMAIN ids = 1..Len(ids)
      /\ ids \in [1..Len(ids) -> 1..Len(entry)]
  <2>1. ids \in Seq(Nat) /\ \A k \in 1..Len(ids) : ids[k] \in 1..Len(entry)
    BY DEF IInv, Typed
  <2>2. ids \in [1..Len(ids) -> Nat]
    BY <2>1
  <2> QED BY <2>1, <2>2, Sizes
<1>a. ASSUME NEW n \in Nat
      PROVE  IsFiniteSet(1..n) /\ Cardinality(1..n) = n
  <2>1. 1 \in Int /\ n \in Int
    OBVIOUS
  <2>2. IsFiniteSet(1..n) /\ Cardinality(1..n) = IF 1 > n THEN 0 ELSE n - 1 + 1
    BY <2>1, FS_Interval
  <2> QED BY <2>2
<1>2. IsFiniteSet(1..Len(ids)) /\ Cardinality(1..Len(ids)) = Len(ids)
  BY <1>1, <1>a
<1>3. IsFiniteSet(1..Len(entry)) /\ Cardinality(1..Len(entry)) = Len(entry)
  BY <1>1, <1>a
<1>4. ids \in Injection(1..Len(ids), 1..Len(entry))
  BY <1>1 DEF IInv, Distinct, Injection, IsInjective
<1>5. Cardinality(1..Len(ids)) <= Cardinality(1..Len(entry))
  BY <1>3, <1>4, FS_Injection, Zenon
<1> QED BY <1>2, <1>3, <1>5

\* size counts the entries of the deque, by following the links.
LEMMA SizeCounts ==
  ASSUME IInv
  PROVE  Size = Len(ids)
<1> DEFINE N == Len(entry)
           n == Len(ids)
           After(f) == [i \in 0..N |-> IF i = 0 THEN first
                                       ELSE IF f[i - 1] = 0 THEN 0 ELSE entry[f[i - 1]].next]
           Th == [i \in 0..N |-> IF i < n THEN ids[i + 1] ELSE 0]
           after == CHOOSE f : f = After(f)
<1>1. n \in Nat /\ N \in Nat /\ n <= N /\ \A k \in 1..n : ids[k] \in 1..N
  BY Sizes, NoMoreThanMade
<1>2. ASSUME NEW i \in 1..N
      PROVE  Th[i] = IF Th[i - 1] = 0 THEN 0 ELSE entry[Th[i - 1]].next
  <2>1. i - 1 \in 0..N /\ i \in 0..N /\ i - 1 + 1 = i
    BY <1>1
  <2>2. CASE i - 1 < n
    <3>1. i \in 1..n /\ Th[i - 1] = ids[i] /\ ids[i] # 0
      BY <1>1, <2>1, <2>2
    <3>2. entry[ids[i]].next = IF i = n THEN 0 ELSE ids[i + 1]
      BY <3>1 DEF IInv, Forth
    <3>3. i < n <=> i # n
      BY <3>1, <1>1
    <3> QED BY <2>1, <3>1, <3>2, <3>3
  <2>3. CASE ~ (i - 1 < n)
    BY <1>1, <2>1, <2>3
  <2> QED BY <2>2, <2>3
<1>3. Th[0] = first
  <2>1. n # 0 => 1 \in 1..n
    BY <1>1
  <2> QED BY <1>1, <2>1, Sizes DEF IInv, Ends
<1>4. Th = After(Th)
  <2> DEFINE g == [i \in 0..N |-> IF i = 0 THEN first
                                  ELSE IF Th[i - 1] = 0 THEN 0 ELSE entry[Th[i - 1]].next]
  <2>1. \A i \in 0..N : i = 0 \/ i \in 1..N
    BY <1>1
  <2>2. ASSUME NEW i \in 0..N
        PROVE  Th[i] = g[i]
    <3> HIDE DEF Th
    <3> QED BY <1>2, <1>3, <2>1
  <2>3. Th = [i \in 0..N |-> Th[i]]
    OBVIOUS
  <2>4. Th = g
    <3> HIDE DEF Th
    <3> QED BY <2>2, <2>3
  <2> QED BY <2>4
<1> HIDE DEF After
<1>5. after = After(after)
  BY <1>4
<1> HIDE DEF after
<1> USE DEF After
<1>6. \A i \in 0..N : after[i] = Th[i]
  <2> DEFINE f == [i \in 0..N |-> after[i] = Th[i]]
  <2>1. after[0] = first /\ 0 \in 0..N
    BY <1>1, <1>5
  <2>2. f[0] \in {TRUE}
    BY <2>1, <1>3
  <2>3. ASSUME NEW i \in 0 + 1..N, f[i - 1] \in {TRUE}
        PROVE  f[i] \in {TRUE}
    <3>1. i \in 1..N /\ i \in 0..N /\ i - 1 \in 0..N /\ i # 0
      BY <1>1
    <3>2. after[i - 1] = Th[i - 1]
      BY <2>3, <3>1
    <3>3. after[i] = IF after[i - 1] = 0 THEN 0 ELSE entry[after[i - 1]].next
      BY <1>5, <3>1
    <3>4. Th[i] = IF Th[i - 1] = 0 THEN 0 ELSE entry[Th[i - 1]].next
      BY <1>2, <3>1
    <3> HIDE DEF Th
    <3>5. after[i] = Th[i]
      BY <3>2, <3>3, <3>4
    <3> QED BY <3>1, <3>5
  <2> HIDE DEF f
  <2>4. \A i \in 0..N : f[i] \in {TRUE}
    BY <1>1, <2>2, <2>3, Onwards
  <2> QED BY <2>4 DEF f
<1>7. Size = CHOOSE k \in 0..N : after[k] = 0 /\ \A m \in 0..(k - 1) : after[m] # 0
  BY DEF Size, after
<1>8. n \in 0..N /\ after[n] = 0 /\ \A m \in 0..(n - 1) : after[m] # 0
  BY <1>1, <1>6
<1>9. ASSUME NEW k \in 0..N, after[k] = 0, \A m \in 0..(k - 1) : after[m] # 0
      PROVE  k = n
  <2>1. ~ (k < n)
    BY <1>1, <1>8, <1>9
  <2>2. ~ (n < k)
    BY <1>1, <1>8, <1>9
  <2> QED BY <1>1, <2>1, <2>2
<1> HIDE DEF n
<1> QED BY <1>7, <1>8, <1>9 DEF n

----------------------------------------------------------------------------
(* The key of an iteration.                                                *)

\* Every entry ever made keeps a place, also when it has been popped: the
\* entries of the deque stand in a row after b, a link leads to the next
\* place, and the key tells the place the iteration is at.
InARow(p, b)   == \A k \in 1..Len(ids) : p[ids[k]] = b + k
Neighbours(p)  == \A e \in 1..Len(entry) :
                    /\ entry[e].next # 0 => p[entry[e].next] = p[e] + 1
                    /\ entry[e].prev # 0 => p[entry[e].prev] = p[e] - 1
LeftBehind(p, b) == Len(ids) = 0 /\ last # 0 => p[last] = b
AtTheKey(p, b)   == state.head # 0 => p[state.head] = b + 1 + state.tail + shift

Fits(p, b) ==
  /\ p \in [1..Len(entry) -> Int] /\ b \in Int
  /\ InARow(p, b) /\ Neighbours(p) /\ LeftBehind(p, b) /\ AtTheKey(p, b)

Placed == \E p, b : Fits(p, b)

\* The rest of TypeOK.
Numbers ==
  /\ state \in [head : Nat, tail : Int]
  /\ shift \in Int
  /\ out \in Operation \X Outcome

KInv == IInv /\ Numbers /\ Placed

\* The places of the entries of a deque just made are their numbers.
LEMMA InitPlaced ==
  ASSUME HInit, IInv
  PROVE  Placed
<1> USE DequeAssumption
<1>1. PICK n \in 0..MaxMade, fill \in Value :
        /\ entry = [k \in 1..n |-> [prev |-> k - 1, value |-> fill,
                                    next |-> IF k = n THEN 0 ELSE k + 1]]
        /\ last = n
  BY DEF HInit, Init
<1>2. n \in Nat /\ Len(entry) = n
  BY <1>1
<1>3. Len(ids) = n /\ \A k \in 1..n : ids[k] = k
  BY <1>2 DEF HInit
<1> DEFINE p == [e \in 1..n |-> e]
<1>4. p \in [1..Len(entry) -> Int] /\ 0 \in Int
  BY <1>2
<1>5. InARow(p, 0)
  BY <1>2, <1>3 DEF InARow
<1>6. Neighbours(p)
  <2> SUFFICES ASSUME NEW e \in 1..n
               PROVE  /\ entry[e].next # 0 => p[entry[e].next] = p[e] + 1
                      /\ entry[e].prev # 0 => p[entry[e].prev] = p[e] - 1
    BY <1>2 DEF Neighbours
  <2>1. entry[e].prev = e - 1 /\ entry[e].next = IF e = n THEN 0 ELSE e + 1
    BY <1>1
  <2> QED BY <2>1, <1>2
<1>7. LeftBehind(p, 0) /\ AtTheKey(p, 0)
  BY <1>1, <1>2, <1>3 DEF LeftBehind, AtTheKey, HInit, Init
<1> HIDE DEF p
<1>8. Fits(p, 0)
  BY <1>4, <1>5, <1>6, <1>7 DEF Fits
<1> QED BY <1>8 DEF Placed

\* The row begins a place before or a place further on.
LEMMA RowMoved ==
  ASSUME NEW b \in Int, NEW t \in Int, NEW s \in Int
  PROVE  /\ b + 1 + t + s = b - 1 + 1 + t + (s + 1)
         /\ b + 1 + t + s = b + 1 + 1 + t + (s - 1)
OBVIOUS

\* push: the new entry is put in the place before the first.
LEMMA PushPlaced ==
  ASSUME IInv, Numbers, Placed, IInv', NEW new \in Value, Push(new), ids' = <<New>> \o ids, shift' = shift + 1
  PROVE  Placed'
<1>1. PICK p, b : Fits(p, b)
  BY DEF Placed
<1>2. /\ Len(entry) \in Nat /\ Len(ids) \in Nat /\ New = Len(entry) + 1
      /\ \A k \in 1..Len(ids) : ids[k] \in 1..Len(entry)
      /\ first = 0 <=> Len(ids) = 0
  BY Sizes
<1>3. /\ entry' \in Seq(Ent) /\ Len(entry') = New
      /\ \A e \in 1..Len(entry) :
           /\ entry'[e].next = entry[e].next
           /\ entry'[e].prev = IF e = first THEN New ELSE entry[e].prev
      /\ entry'[New].prev = 0 /\ entry'[New].next = first
  BY PushEntries
<1>4. /\ Len(ids') = Len(ids) + 1 /\ ids'[1] = New
      /\ \A k \in 2..(Len(ids) + 1) : ids'[k] = ids[k - 1]
  <2>1. ids \in Seq(Nat) /\ New \in Nat
    BY <1>2 DEF IInv, Typed
  <2> QED BY <2>1, <1>2
<1>5. p \in [1..Len(entry) -> Int] /\ b \in Int
  BY <1>1 DEF Fits
<1>6. \A e \in 1..Len(entry) : entry[e].next \in 0..Len(entry) /\ entry[e].prev \in 0..Len(entry)
  BY LinkTargets
<1>7. first # 0 => first \in 1..Len(entry) /\ p[first] = b + 1
  <2>1. first # 0 => 1 \in 1..Len(ids) /\ first = ids[1]
    BY <1>2 DEF IInv, Ends
  <2> QED BY <2>1, <1>1, <1>2 DEF Fits, InARow
<1>q. PICK q : q = [e \in 1..New |-> IF e = New THEN b ELSE p[e]]
  OBVIOUS
<1>8. /\ q \in [1..New -> Int] /\ b - 1 \in Int /\ q[New] = b
      /\ \A e \in 1..Len(entry) : e \in 1..New /\ e # New /\ q[e] = p[e]
      /\ \A e \in 1..New : e \in 1..Len(entry) \/ e = New
  BY <1>2, <1>5, <1>q
<1>9. InARow(q, b - 1)'
  <2> SUFFICES ASSUME NEW k \in 1..(Len(ids) + 1)
               PROVE  q[ids'[k]] = b - 1 + k
    BY <1>4 DEF InARow
  <2>1. CASE k = 1
    BY <2>1, <1>4, <1>5, <1>8
  <2>2. CASE k # 1
    <3>1. k - 1 \in 1..Len(ids) /\ ids'[k] = ids[k - 1]
      BY <2>2, <1>2, <1>4
    <3>2. p[ids[k - 1]] = b + (k - 1) /\ ids[k - 1] \in 1..Len(entry)
      BY <3>1, <1>1, <1>2 DEF Fits, InARow
    <3> QED BY <3>1, <3>2, <1>5, <1>8
  <2> QED BY <2>1, <2>2
<1>10. Neighbours(q)'
  <2> SUFFICES ASSUME NEW e \in 1..New
               PROVE  /\ entry'[e].next # 0 => q[entry'[e].next] = q[e] + 1
                      /\ entry'[e].prev # 0 => q[entry'[e].prev] = q[e] - 1
    BY <1>3 DEF Neighbours
  <2>1. CASE e = New
    BY <2>1, <1>3, <1>5, <1>7, <1>8
  <2>2. CASE e \in 1..Len(entry)
    <3>1. /\ entry[e].next # 0 => p[entry[e].next] = p[e] + 1
          /\ entry[e].prev # 0 => p[entry[e].prev] = p[e] - 1
      BY <2>2, <1>1 DEF Fits, Neighbours
    <3>2. entry'[e].next # 0 => q[entry'[e].next] = q[e] + 1
      <4>1. entry[e].next # 0 => entry[e].next \in 1..Len(entry)
        BY <2>2, <1>2, <1>6
      <4>2. entry'[e].next = entry[e].next /\ q[e] = p[e]
        BY <2>2, <1>3, <1>8
      <4>3. entry[e].next # 0 => q[entry[e].next] = p[entry[e].next]
        BY <4>1, <1>8
      <4> QED BY <3>1, <4>2, <4>3
    <3>3. entry'[e].prev # 0 => q[entry'[e].prev] = q[e] - 1
      <4>1. CASE e = first
        <5>1. first # 0 /\ p[e] = b + 1 /\ q[e] = p[e] /\ entry'[e].prev = New
          BY <2>2, <4>1, <1>2, <1>3, <1>7, <1>8
        <5> QED BY <5>1, <1>5, <1>8
      <4>2. CASE e # first
        <5>1. entry[e].prev # 0 => entry[e].prev \in 1..Len(entry)
          BY <2>2, <1>2, <1>6
        <5>2. entry'[e].prev = entry[e].prev /\ q[e] = p[e]
          BY <2>2, <4>2, <1>3, <1>8
        <5>3. entry[e].prev # 0 => q[entry[e].prev] = p[entry[e].prev]
          BY <5>1, <1>8
        <5> QED BY <3>1, <5>2, <5>3
      <4> QED BY <4>1, <4>2
    <3> QED BY <3>2, <3>3
  <2> QED BY <2>1, <2>2, <1>8
<1>11. LeftBehind(q, b - 1)'
  BY <1>2, <1>4 DEF LeftBehind
<1>12. AtTheKey(q, b - 1)'
  <2>1. state' = state /\ state.head \in 0..Len(entry) /\ state.tail \in Int /\ shift \in Int
    BY DEF Push, IInv, Typed, Numbers
  <2>2. state.head # 0 => state.head \in 1..Len(entry) /\ p[state.head] = b + 1 + state.tail + shift
    BY <2>1, <1>1, <1>2 DEF Fits, AtTheKey
  <2>3. b + 1 + state.tail + shift = b - 1 + 1 + state.tail + (shift + 1)
    <3>1. b \in Int /\ state.tail \in Int /\ shift \in Int
      BY <2>1, <1>5
    <3> QED BY <3>1, RowMoved
  <2> QED BY <2>1, <2>2, <2>3, <1>8 DEF AtTheKey
<1>13. Fits(q, b - 1)'
  BY <1>3, <1>8, <1>9, <1>10, <1>11, <1>12 DEF Fits
<1> QED BY <1>13 DEF Placed

\* push-last: in the place after the last, and after the one that pop has
\* left in DEQUELAST when the deque is empty.
LEMMA PushLastPlaced ==
  ASSUME IInv, Numbers, Placed, NEW new \in Value, PushLast(new), ids' = Append(ids, New), UNCHANGED shift
  PROVE  Placed'
<1>1. PICK p, b : Fits(p, b)
  BY DEF Placed
<1>2. /\ Len(entry) \in Nat /\ Len(ids) \in Nat /\ New = Len(entry) + 1
      /\ \A k \in 1..Len(ids) : ids[k] \in 1..Len(entry)
      /\ first = 0 <=> Len(ids) = 0
  BY Sizes
<1>3. /\ entry' \in Seq(Ent) /\ Len(entry') = New
      /\ \A e \in 1..Len(entry) :
           /\ entry'[e].next = IF first # 0 /\ e = last THEN New ELSE entry[e].next
           /\ entry'[e].prev = entry[e].prev
      /\ entry'[New].prev = last /\ entry'[New].next = 0
  BY PushLastEntries
<1>4. /\ Len(ids') = Len(ids) + 1 /\ ids'[Len(ids) + 1] = New
      /\ \A k \in 1..Len(ids) : ids'[k] = ids[k]
  <2>1. ids \in Seq(Nat) /\ New \in Nat
    BY <1>2 DEF IInv, Typed
  <2> QED BY <2>1, <1>2
<1>5. p \in [1..Len(entry) -> Int] /\ b \in Int
  BY <1>1 DEF Fits
<1>6. \A e \in 1..Len(entry) : entry[e].next \in 0..Len(entry) /\ entry[e].prev \in 0..Len(entry)
  BY LinkTargets
<1> DEFINE n == b + Len(ids) + 1
<1>7. last # 0 => last \in 1..Len(entry) /\ p[last] = n - 1
  <2>1. last \in 0..Len(entry)
    BY DEF IInv, Typed
  <2>2. CASE Len(ids) = 0
    BY <2>1, <2>2, <1>1, <1>2, <1>5 DEF Fits, LeftBehind
  <2>3. CASE Len(ids) # 0
    <3>1. Len(ids) \in 1..Len(ids) /\ last = ids[Len(ids)]
      BY <2>3, <1>2 DEF IInv, Ends
    <3>2. p[last] = b + Len(ids)
      BY <3>1, <1>1 DEF Fits, InARow
    <3> QED BY <3>2, <2>1, <1>2, <1>5
  <2> QED BY <2>2, <2>3
<1>q. PICK q : q = [e \in 1..New |-> IF e = New THEN n ELSE p[e]]
  OBVIOUS
<1>8. /\ q \in [1..New -> Int] /\ n \in Int /\ q[New] = n
      /\ \A e \in 1..Len(entry) : e \in 1..New /\ e # New /\ q[e] = p[e]
      /\ \A e \in 1..New : e \in 1..Len(entry) \/ e = New
  BY <1>2, <1>5, <1>q
<1>9. InARow(q, b)'
  <2> SUFFICES ASSUME NEW k \in 1..(Len(ids) + 1)
               PROVE  q[ids'[k]] = b + k
    BY <1>4 DEF InARow
  <2>1. CASE k = Len(ids) + 1
    BY <2>1, <1>2, <1>4, <1>5, <1>8
  <2>2. CASE k # Len(ids) + 1
    <3>1. k \in 1..Len(ids)
      BY <2>2, <1>2
    <3>2. p[ids[k]] = b + k /\ ids[k] \in 1..Len(entry)
      BY <3>1, <1>1, <1>2 DEF Fits, InARow
    <3> QED BY <3>1, <3>2, <1>4, <1>8
  <2> QED BY <2>1, <2>2
<1> HIDE DEF n
<1>10. Neighbours(q)'
  <2> SUFFICES ASSUME NEW e \in 1..New
               PROVE  /\ entry'[e].next # 0 => q[entry'[e].next] = q[e] + 1
                      /\ entry'[e].prev # 0 => q[entry'[e].prev] = q[e] - 1
    BY <1>3 DEF Neighbours
  <2>1. CASE e = New
    BY <2>1, <1>3, <1>7, <1>8
  <2>2. CASE e \in 1..Len(entry)
    <3>1. /\ entry[e].next # 0 => p[entry[e].next] = p[e] + 1
          /\ entry[e].prev # 0 => p[entry[e].prev] = p[e] - 1
      BY <2>2, <1>1 DEF Fits, Neighbours
    <3>2. entry'[e].prev # 0 => q[entry'[e].prev] = q[e] - 1
      <4>1. entry[e].prev # 0 => entry[e].prev \in 1..Len(entry)
        BY <2>2, <1>2, <1>6
      <4>2. entry'[e].prev = entry[e].prev /\ q[e] = p[e]
        BY <2>2, <1>3, <1>8
      <4>3. entry[e].prev # 0 => q[entry[e].prev] = p[entry[e].prev]
        BY <4>1, <1>8
      <4> QED BY <3>1, <4>2, <4>3
    <3>3. entry'[e].next # 0 => q[entry'[e].next] = q[e] + 1
      <4>1. CASE first # 0 /\ e = last
        <5>1. p[e] = n - 1 /\ entry'[e].next = New /\ q[e] = p[e]
          BY <2>2, <4>1, <1>2, <1>3, <1>7, <1>8
        <5> QED BY <5>1, <1>8
      <4>2. CASE ~ (first # 0 /\ e = last)
        <5>1. entry[e].next # 0 => entry[e].next \in 1..Len(entry)
          BY <2>2, <1>2, <1>6
        <5>2. entry'[e].next = entry[e].next /\ q[e] = p[e]
          BY <2>2, <4>2, <1>3, <1>8
        <5>3. entry[e].next # 0 => q[entry[e].next] = p[entry[e].next]
          BY <5>1, <1>8
        <5> QED BY <3>1, <5>2, <5>3
      <4> QED BY <4>1, <4>2
    <3> QED BY <3>2, <3>3
  <2> QED BY <2>1, <2>2, <1>8
<1>11. LeftBehind(q, b)'
  BY <1>2, <1>4 DEF LeftBehind
<1>12. AtTheKey(q, b)'
  <2>1. state' = state /\ state.head \in 0..Len(entry)
    BY DEF PushLast, IInv, Typed
  <2>2. state.head # 0 => state.head \in 1..Len(entry) /\ p[state.head] = b + 1 + state.tail + shift
    BY <2>1, <1>1, <1>2 DEF Fits, AtTheKey
  <2> QED BY <2>1, <2>2, <1>8 DEF AtTheKey
<1>13. Fits(q, b)'
  BY <1>3, <1>5, <1>8, <1>9, <1>10, <1>11, <1>12 DEF Fits
<1> QED BY <1>13 DEF Placed

\* pop: the row begins one place further on, and what is left in DEQUELAST of
\* an emptied deque is in the place before it.
LEMMA PopPlaced ==
  ASSUME IInv, Numbers, Placed, Pop, LessTheFirst, shift' = shift - 1
  PROVE  Placed'
<1>1. PICK p, b : Fits(p, b)
  BY DEF Placed
<1>2. /\ Len(entry) \in Nat /\ Len(ids) \in Nat /\ Len(ids) # 0
      /\ \A k \in 1..Len(ids) : ids[k] \in 1..Len(entry)
      /\ p \in [1..Len(entry) -> Int] /\ b \in Int
  BY <1>1, Sizes, PopEntries DEF Fits
<1>3. /\ Len(entry') = Len(entry)
      /\ \A e \in 1..Len(entry) :
           /\ entry'[e].next = entry[e].next
           /\ entry'[e].prev \in {0, entry[e].prev}
  BY PopEntries
<1>4. /\ Len(ids') = Len(ids) - 1
      /\ \A k \in 1..(Len(ids) - 1) : ids'[k] = ids[k + 1]
  <2>1. ids \in Seq(Nat)
    BY DEF IInv, Typed
  <2> QED BY <2>1, <1>2, FirstDropped DEF LessTheFirst
<1>5. InARow(p, b + 1)'
  <2> SUFFICES ASSUME NEW k \in 1..(Len(ids) - 1)
               PROVE  p[ids'[k]] = b + 1 + k
    BY <1>4 DEF InARow
  <2>1. k + 1 \in 1..Len(ids) /\ ids'[k] = ids[k + 1]
    BY <1>2, <1>4
  <2>2. p[ids[k + 1]] = b + (k + 1)
    BY <2>1, <1>1 DEF Fits, InARow
  <2> QED BY <2>1, <2>2, <1>2
<1>6. Neighbours(p)'
  BY <1>1, <1>3 DEF Fits, Neighbours
<1>7. LeftBehind(p, b + 1)'
  <2> SUFFICES ASSUME Len(ids) = 1
               PROVE  p[last'] = b + 1
    BY <1>2, <1>4 DEF LeftBehind
  <2>1. 1 \in 1..Len(ids) /\ last' = ids[1]
    BY DEF Pop, IInv, Ends
  <2> QED BY <2>1, <1>1 DEF Fits, InARow
<1>8. AtTheKey(p, b + 1)'
  <2>1. state' = state /\ state.tail \in Int /\ shift \in Int
    BY DEF Pop, Numbers
  <2>2. state.head # 0 => p[state.head] = b + 1 + state.tail + shift
    BY <1>1 DEF Fits, AtTheKey
  <2>a. b \in Int
    BY <1>2
  <2>3. b + 1 + state.tail + shift = b + 1 + 1 + state.tail + (shift - 1)
    BY <2>1, <2>a, RowMoved
  <2> QED BY <2>1, <2>2, <2>3 DEF AtTheKey
<1>9. b + 1 \in Int
  BY <1>2
<1>10. Fits(p, b + 1)'
  BY <1>2, <1>3, <1>5, <1>6, <1>7, <1>8, <1>9 DEF Fits
<1> QED BY <1>10 DEF Placed

\* pop-last: the row ends one place before.
LEMMA PopLastPlaced ==
  ASSUME IInv, Placed, PopLast, LessTheLast, UNCHANGED shift
  PROVE  Placed'
<1>1. PICK p, b : Fits(p, b)
  BY DEF Placed
<1>2. Len(ids) \in Nat /\ Len(ids) # 0 /\ p \in [1..Len(entry) -> Int] /\ b \in Int
  BY <1>1, Sizes, PopLastEntries DEF Fits
<1>3. /\ Len(entry') = Len(entry)
      /\ last' = IF Len(ids) = 1 THEN 0 ELSE ids[Len(ids) - 1]
      /\ \A e \in 1..Len(entry) :
           /\ entry'[e].next \in {0, entry[e].next}
           /\ entry'[e].prev = entry[e].prev
  BY PopLastEntries
<1>4. /\ Len(ids') = Len(ids) - 1
      /\ \A k \in 1..(Len(ids) - 1) : ids'[k] = ids[k]
  <2>1. ids \in Seq(Nat)
    BY DEF IInv, Typed
  <2> QED BY <2>1, <1>2, LastDropped DEF LessTheLast
<1>5. InARow(p, b)'
  <2>1. \A k \in 1..(Len(ids) - 1) : k \in 1..Len(ids) /\ ids'[k] = ids[k]
    BY <1>2, <1>4
  <2> QED BY <2>1, <1>1, <1>4 DEF Fits, InARow
<1>6. Neighbours(p)'
  BY <1>1, <1>3 DEF Fits, Neighbours
<1>7. LeftBehind(p, b)'
  BY <1>2, <1>3, <1>4 DEF LeftBehind
<1>8. AtTheKey(p, b)'
  BY <1>1 DEF PopLast, Fits, AtTheKey
<1>9. Fits(p, b)'
  BY <1>2, <1>3, <1>5, <1>6, <1>7, <1>8 DEF Fits
<1> QED BY <1>9 DEF Placed

\* The links stay, and the iteration stays where it is.
LEMMA SamePlaced ==
  ASSUME IInv, Placed, UNCHANGED <<last, ids, state, shift>>, Len(entry') = Len(entry),
         \A e \in 1..Len(entry) :
           entry'[e].next = entry[e].next /\ entry'[e].prev = entry[e].prev
  PROVE  Placed'
<1>1. PICK p, b : Fits(p, b)
  BY DEF Placed
<1>2. Neighbours(p)'
  BY <1>1 DEF Fits, Neighbours
<1>3. Fits(p, b)'
  BY <1>1, <1>2 DEF Fits, InARow, LeftBehind, AtTheKey
<1> QED BY <1>3 DEF Placed

\* An iteration begins at the first entry with key 0, or at the last one
\* with the last key.
LEMMA BeginPlaced ==
  ASSUME IInv, Placed, Begin
  PROVE  Placed' /\ state'.tail \in Int
<1>1. PICK p, b : Fits(p, b)
  BY DEF Placed
<1>2. UNCHANGED <<entry, first, last, ids>> /\ shift' = 0
  BY DEF Begin, InitialState, FinalState
<1>3. InARow(p, b)' /\ Neighbours(p)' /\ LeftBehind(p, b)' /\ p \in [1..Len(entry') -> Int] /\ b \in Int
  BY <1>1, <1>2 DEF Fits, InARow, Neighbours, LeftBehind
<1>4. Len(ids) \in Nat /\ (first = 0 <=> Len(ids) = 0)
  BY Sizes
<1>5. AtTheKey(p, b)' /\ state'.tail \in Int
  <2>1. CASE state' = [head |-> first, tail |-> 0]
    <3>1. first # 0 => 1 \in 1..Len(ids) /\ first = ids[1]
      BY <1>4 DEF IInv, Ends
    <3>2. first # 0 => p[first] = b + 1
      BY <3>1, <1>1 DEF Fits, InARow
    <3> QED BY <2>1, <3>2, <1>2, <1>3 DEF AtTheKey
  <2>2. CASE state' = [head |-> last, tail |-> Size - 1]
    <3>1. state'.head = last /\ state'.tail = Len(ids) - 1
      BY <2>2, SizeCounts
    <3>2. last # 0 => p[last] = b + Len(ids)
      <4>1. CASE Len(ids) = 0
        BY <4>1, <1>1, <1>3 DEF Fits, LeftBehind
      <4>2. CASE Len(ids) # 0
        <5>1. Len(ids) \in 1..Len(ids) /\ last = ids[Len(ids)]
          BY <4>2, <1>4 DEF IInv, Ends
        <5> QED BY <5>1, <1>1 DEF Fits, InARow
      <4> QED BY <4>1, <4>2
    <3> QED BY <3>1, <3>2, <1>2, <1>3, <1>4 DEF AtTheKey
  <2> QED BY <2>1, <2>2 DEF Begin, InitialState, FinalState
<1>6. Fits(p, b)'
  BY <1>3, <1>5 DEF Fits
<1> QED BY <1>5, <1>6 DEF Placed

\* next-state and previous-state follow a link and count by one.
LEMMA MovePlaced ==
  ASSUME IInv, Numbers, Placed, NextState \/ PreviousState, UNCHANGED <<ids, shift>>
  PROVE  Placed' /\ state'.tail \in Int
<1>1. PICK p, b : Fits(p, b)
  BY DEF Placed
<1>2. UNCHANGED <<entry, last, ids, shift>> /\ state.head # 0 /\ state.tail \in Int /\ shift \in Int
  BY DEF NextState, PreviousState, Numbers
<1>3. InARow(p, b)' /\ Neighbours(p)' /\ LeftBehind(p, b)' /\ p \in [1..Len(entry') -> Int] /\ b \in Int
  BY <1>1, <1>2 DEF Fits, InARow, Neighbours, LeftBehind
<1>4. state.head \in 1..Len(entry) /\ p[state.head] = b + 1 + state.tail + shift
  BY <1>1, <1>2, Sizes DEF IInv, Typed, Fits, AtTheKey
<1>5. /\ entry[state.head].next # 0 => p[entry[state.head].next] = p[state.head] + 1
      /\ entry[state.head].prev # 0 => p[entry[state.head].prev] = p[state.head] - 1
  BY <1>1, <1>4 DEF Fits, Neighbours
<1>6. AtTheKey(p, b)' /\ state'.tail \in Int
  <2>1. CASE state' = [head |-> entry[state.head].next, tail |-> state.tail + 1]
    <3>1. state'.head = entry[state.head].next /\ state'.tail = state.tail + 1
      BY <2>1
    <3> QED BY <3>1, <1>2, <1>3, <1>4, <1>5 DEF AtTheKey
  <2>2. CASE state' = [head |-> entry[state.head].prev, tail |-> state.tail - 1]
    <3>1. state'.head = entry[state.head].prev /\ state'.tail = state.tail - 1
      BY <2>2
    <3> QED BY <3>1, <1>2, <1>3, <1>4, <1>5 DEF AtTheKey
  <2> QED BY <2>1, <2>2 DEF NextState, PreviousState
<1>7. Fits(p, b)'
  BY <1>3, <1>6 DEF Fits
<1> QED BY <1>6, <1>7 DEF Placed

\* What the operations give.
LEMMA Given ==
  ASSUME IInv, Numbers, [HNext]_hvars
  PROVE  out' \in Operation \X Outcome
<1>1. /\ \A e \in 1..Len(entry) : entry[e].value \in Outcome
      /\ \A default \in BOOLEAN : Absent(default) \in Outcome
      /\ walk.op \in Operation /\ walk.arg \in Outcome
      /\ Value \subseteq Outcome /\ {"deque", "unspecified", "error"} \subseteq Outcome
  <2>1. walk \in Walk /\ \A e \in 1..Len(entry) : entry[e] \in Ent
    BY Sizes DEF IInv, Typed
  <2> QED BY <2>1 DEF Ent, Outcome, Absent, Walk, Operation
<1>2. CASE UNCHANGED out
  BY <1>2 DEF Numbers
<1>3. ASSUME NEW op \in Operation, NEW x \in Outcome, out' = <<op, x>>
      PROVE  out' \in Operation \X Outcome
  BY <1>3
<1>4. /\ first # 0 => first \in 1..Len(entry) /\ last \in 1..Len(entry)
      /\ last # 0 => last \in 1..Len(entry)
      /\ walk.el # 0 => walk.el \in 1..Len(entry)
  <2>1. first # 0 => Len(ids) \in 1..Len(ids) /\ last = ids[Len(ids)]
    BY Sizes DEF IInv, Ends
  <2> QED BY <2>1, Sizes DEF IInv, Typed, Walk
<1>5. CASE Reshape
  <2>1. ASSUME NEW new \in Value, Push(new) \/ PushLast(new)
        PROVE  out' \in Operation \X Outcome
    BY <2>1, <1>1, <1>3 DEF Push, PushLast, Operation
  <2>2. ASSUME Pop \/ PopLast
        PROVE  out' \in Operation \X Outcome
    BY <2>2, <1>1, <1>3, <1>4 DEF Pop, PopLast, Operation
  <2> QED BY <1>5, <2>1, <2>2 DEF Reshape
<1>6. CASE Begin
  BY <1>2, <1>6 DEF Begin, InitialState, FinalState
<1>7. CASE Use
  <2>1. ASSUME PopEmpty
        PROVE  out' \in Operation \X Outcome
    BY <2>1, <1>1 DEF PopEmpty, Operation
  <2>2. ASSUME NEW default \in BOOLEAN, First(default) \/ Last(default)
        PROVE  out' \in Operation \X Outcome
    BY <2>2, <1>1, <1>3, <1>4 DEF First, Last, Operation
  <2>3. ASSUME NEW i \in Index, NEW default \in BOOLEAN, StartElement(i, default)
        PROVE  out' \in Operation \X Outcome
    BY <2>3, <1>2 DEF StartElement
  <2>4. ASSUME NEW i \in Index, NEW new \in Value, StartElementSetter(i, new)
        PROVE  out' \in Operation \X Outcome
    BY <2>4, <1>1, <1>2, <1>3 DEF StartElementSetter, Operation
  <2>5. ASSUME Step
        PROVE  out' \in Operation \X Outcome
    BY <2>5, <1>1, <1>2, <1>3 DEF Step
  <2>6. ASSUME Arrive
        PROVE  out' \in Operation \X Outcome
    BY <2>6, <1>1, <1>3, <1>4 DEF Arrive
  <2>7. ASSUME NextState \/ PreviousState
        PROVE  out' \in Operation \X Outcome
    BY <2>7, <1>2 DEF NextState, PreviousState
  <2>8. ASSUME NEW new \in Value, CurrentElementSetter(new)
        PROVE  out' \in Operation \X Outcome
    BY <2>8, <1>1, <1>3 DEF CurrentElementSetter, Operation
  <2> QED BY <1>7, <2>1, <2>2, <2>3, <2>4, <2>5, <2>6, <2>7, <2>8 DEF Use
<1>8. CASE UNCHANGED hvars
  BY <1>2, <1>8 DEF hvars, vars
<1> QED BY <1>5, <1>6, <1>7, <1>8 DEF HNext

\* Every step keeps the places, and counts in integers.
LEMMA NextPlaced ==
  ASSUME KInv, IInv', [HNext]_hvars
  PROVE  KInv'
<1> USE DEF KInv
<1>1. ASSUME Placed', state'.tail \in Int, DOMAIN state' = {"head", "tail"},
             state' = [head |-> state'.head, tail |-> state'.tail], shift' \in Int
      PROVE  KInv'
  <2>1. state'.head \in Nat
    BY DEF IInv, Typed
  <2>2. state' \in [head : Nat, tail : Int]
    BY <1>1, <2>1
  <2> QED BY <1>1, <2>2, Given DEF Numbers
<1>2. ASSUME Placed', UNCHANGED state, shift' \in Int
      PROVE  KInv'
  BY <1>2, Given DEF Numbers
<1>3. shift \in Int /\ shift + 1 \in Int /\ shift - 1 \in Int
  BY DEF Numbers
<1>4. CASE Reshape
  <2>1. ASSUME NEW new \in Value, Push(new), ids' = <<New>> \o ids, shift' = shift + 1
        PROVE  KInv'
    BY <2>1, <1>2, <1>3, PushPlaced DEF Push
  <2>2. ASSUME NEW new \in Value, PushLast(new), ids' = Append(ids, New), UNCHANGED shift
        PROVE  KInv'
    BY <2>2, <1>2, <1>3, PushLastPlaced DEF PushLast
  <2>3. ASSUME Pop, LessTheFirst, shift' = shift - 1
        PROVE  KInv'
    BY <2>3, <1>2, <1>3, PopPlaced DEF Pop
  <2>4. ASSUME PopLast, LessTheLast, UNCHANGED shift
        PROVE  KInv'
    BY <2>4, <1>2, <1>3, PopLastPlaced DEF PopLast
  <2> QED BY <1>4, <2>1, <2>2, <2>3, <2>4 DEF Reshape, LessTheFirst, LessTheLast
<1>5. CASE Begin
  <2>1. Placed' /\ state'.tail \in Int
    BY <1>5, BeginPlaced
  <2>2. shift' \in Int
    BY <1>5 DEF Begin
  <2>3. DOMAIN state' = {"head", "tail"} /\ state' = [head |-> state'.head, tail |-> state'.tail]
    BY <1>5 DEF Begin, InitialState, FinalState
  <2> QED BY <1>1, <2>1, <2>2, <2>3
<1>6. CASE Use
  <2>0. UNCHANGED <<ids, shift>>
    BY <1>6 DEF Use
  <2>a. ASSUME UNCHANGED <<entry, last, state>>
        PROVE  KInv'
    BY <2>0, <2>a, <1>2, <1>3, SamePlaced
  <2>b. ASSUME NEW j \in 1..Len(entry), NEW v \in Value, entry' = [entry EXCEPT ![j].value = v],
               UNCHANGED <<last, state>>
        PROVE  KInv'
    BY <2>0, <2>b, <1>2, <1>3, SetEntries, SamePlaced
  <2>1. ASSUME PopEmpty \/ Step \/ \E default \in BOOLEAN : First(default) \/ Last(default)
        PROVE  KInv'
    BY <2>1, <2>a DEF PopEmpty, First, Last, Step
  <2>2. ASSUME NEW i \in Index, NEW default \in BOOLEAN, StartElement(i, default)
        PROVE  KInv'
    BY <2>2, <2>a DEF StartElement
  <2>3. ASSUME NEW i \in Index, NEW new \in Value, StartElementSetter(i, new)
        PROVE  KInv'
    BY <2>3, <2>a DEF StartElementSetter
  <2>4. ASSUME Arrive
        PROVE  KInv'
    <3>1. CASE walk.op = "element-setter" /\ entry' = [entry EXCEPT ![walk.el].value = walk.arg]
      <4>1. walk.el \in 1..Len(entry) /\ walk.arg \in Value
        BY <2>4, <3>1, Sizes DEF IInv, OnTheWay, Arrive
      <4>2. UNCHANGED <<last, state>>
        BY <2>4 DEF Arrive
      <4> QED BY <3>1, <4>1, <4>2, <2>b
    <3>2. CASE entry' = entry
      BY <2>4, <3>2, <2>a DEF Arrive
    <3> QED BY <2>4, <3>1, <3>2 DEF Arrive
  <2>5. ASSUME NextState \/ PreviousState
        PROVE  KInv'
    <3>1. Placed' /\ state'.tail \in Int
      BY <2>0, <2>5, MovePlaced
    <3>2. DOMAIN state' = {"head", "tail"} /\ state' = [head |-> state'.head, tail |-> state'.tail]
      BY <2>5 DEF NextState, PreviousState
    <3> QED BY <1>1, <1>3, <2>0, <3>1, <3>2
  <2>6. ASSUME NEW new \in Value, CurrentElementSetter(new)
        PROVE  KInv'
    <3>1. /\ state.head \in 1..Len(entry) /\ UNCHANGED <<last, state>>
          /\ entry' = [entry EXCEPT ![state.head].value = new]
      BY <2>6, Sizes DEF CurrentElementSetter, IInv, Typed
    <3> QED BY <3>1, <2>b
  <2> QED BY <1>6, <2>1, <2>2, <2>3, <2>4, <2>5, <2>6 DEF Use
<1>7. CASE UNCHANGED hvars
  <2>1. UNCHANGED <<entry, last, state, ids, shift>>
    BY <1>7 DEF hvars, vars
  <2> QED BY <2>1, <1>2, <1>3, SamePlaced
<1> QED BY <1>4, <1>5, <1>6, <1>7 DEF HNext

LEMMA Counting == HSpec => []KInv
<1>1. HInit => KInv
  <2> SUFFICES ASSUME HInit
               PROVE  KInv
    OBVIOUS
  <2>1. Numbers
    BY DEF HInit, Init, Numbers, Operation, Outcome
  <2> QED BY <2>1, InitHolds, InitPlaced DEF KInv
<1>2. KInv /\ IInv' /\ [HNext]_hvars => KInv'
  BY NextPlaced
<1> QED BY <1>1, <1>2, Invariance, PTL DEF HSpec

\* Every variable has its type, for any values, indices and bounds.
THEOREM DequeTypes == HSpec => []TypeOK
<1>1. KInv => TypeOK
  <2> SUFFICES ASSUME KInv
               PROVE  TypeOK
    OBVIOUS
  <2> DEFINE N == Len(entry)
  <2>1. /\ N \in Nat /\ entry \in Seq(Ent)
        /\ \A e \in 1..N : entry[e] \in Ent /\ entry[e].next \in 0..N /\ entry[e].prev \in 0..N
    BY Sizes, LinkTargets DEF KInv, IInv, Typed
  <2>2. entry \in Seq([prev : 0..N, value : Value, next : 0..N])
    <3> DEFINE E == [prev : 0..N, value : Value, next : 0..N]
    <3>1. \A e \in 1..N : entry[e] \in E
      BY <2>1 DEF Ent
    <3> HIDE DEF E
    <3>2. entry \in [1..N -> E]
      BY <2>1, <3>1
    <3>3. entry \in Seq(E)
      <4> HIDE DEF N
      <4> QED BY <2>1, <3>2, SeqDef
    <3> QED BY <3>3 DEF E
  <2>3. first \in 0..N /\ last \in 0..N /\ shift \in Int /\ out \in Operation \X Outcome
    BY DEF KInv, IInv, Typed, Numbers
  <2>4. state \in [head : 0..N, tail : Int]
    <3>1. state \in [head : Nat, tail : Int] /\ state.head \in 0..N
      BY DEF KInv, IInv, Typed, Numbers
    <3> QED BY <3>1
  <2>5. walk \in [op : Operation, i : Int, el : 0..N, arg : Outcome]
    <3>1. walk \in Walk /\ walk.el <= N
      BY DEF KInv, IInv, Typed
    <3>2. walk.el \in 0..N
      BY <2>1, <3>1 DEF Walk
    <3> QED BY <3>1, <3>2 DEF Walk, Operation
  <2>6. ids \in Seq(1..N)
    <3>1. ids \in Seq(Nat) /\ Len(ids) \in Nat /\ \A k \in 1..Len(ids) : ids[k] \in 1..N
      BY Sizes DEF KInv, IInv, Typed
    <3> DEFINE S == 1..N
    <3> HIDE DEF N, S
    <3>2. ids \in [1..Len(ids) -> S]
      BY <3>1 DEF S
    <3>3. ids \in Seq(S)
      BY <3>1, <3>2, SeqDef
    <3> QED BY <3>3 DEF S
  <2> QED BY <2>2, <2>3, <2>4, <2>5, <2>6 DEF TypeOK
<1> QED BY <1>1, Counting, PTL

\* An iteration never loses count: the key of an element of the deque is its
\* index, but for what was pushed and popped in front since the iteration
\* began, whatever is done at the two ends, also while the iteration stands
\* on an entry that has been popped (init.dylan:2176-2199).
THEOREM KeysCount == HSpec => []CurrentKey
<1>1. KInv => CurrentKey
  <2> SUFFICES ASSUME KInv, NEW k \in DOMAIN ids, state.head = ids[k]
               PROVE  k - 1 = state.tail + shift
    BY DEF CurrentKey
  <2>1. PICK p, b : Fits(p, b)
    BY DEF KInv, Placed
  <2>2. DOMAIN ids = 1..Len(ids) /\ ids[k] # 0 /\ k \in 1..Len(ids) /\ Len(ids) \in Nat
    BY Sizes DEF KInv, IInv, Typed
  <2>3. p[ids[k]] = b + k /\ p[ids[k]] = b + 1 + state.tail + shift
    BY <2>1, <2>2 DEF Fits, InARow, AtTheKey
  <2>4. b \in Int /\ state.tail \in Int /\ shift \in Int
    BY <2>1 DEF Fits, KInv, Numbers
  <2> QED BY <2>2, <2>3, <2>4
<1> QED BY <1>1, Counting, PTL
=============================================================================
