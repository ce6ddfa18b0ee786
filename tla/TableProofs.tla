---------------------------- MODULE TableProofs -----------------------------
(***************************************************************************)
(* Proofs about Table, for any keys, contents, hashes and sizes: rows hold *)
(* the entries that belong to them, searches find what was entered, loops  *)
(* give each entry once, and a table implements the function of TableSpec. *)
(***************************************************************************)
EXTENDS Table, NatFacts, SequenceTheorems

----------------------------------------------------------------------------
(* The invariant.                                                          *)

EntryType == [row : Rows, key : Key, value : Value, next : Nat]
CallType  == [op : {"none", "element", "element-setter"}, key : Key,
              arg : Value \cup Default, entry : Nat]

Typed ==
  /\ entries \in Seq(EntryType)
  /\ table \in [Rows -> Nat]
  /\ content \in [Key -> Content]
  /\ call \in CallType
  /\ call.op = "element-setter" => call.arg \in Value
  /\ call.op = "element" => call.arg \in Default
  /\ call.entry <= Len(entries)
  /\ cursor \in 0..Len(entries) /\ calls \in 0..MaxCalls
  /\ given \subseteq Entry /\ present \subseteq Entry /\ touched \subseteq Key

\* n is the newest of the entries of row h older than b, or 0.
NewestBelow(n, h, b) ==
  /\ n < b
  /\ n # 0 => entries[n].row = h
  /\ \A f \in Entry : f < b /\ entries[f].row = h => f <= n

\* The links lead through all entries of a row, from the newest to the oldest.
Chained ==
  /\ \A h \in Rows : NewestBelow(table[h], h, Len(entries) + 1)
  /\ \A e \in Entry : NewestBelow(entries[e].next, entries[e].row, e)

\* Entries are in the row of their key, unless it was changed.
Placed == \A e \in Entry : entries[e].key \notin touched => entries[e].row = Row(entries[e].key)

\* What a search has passed is not what it looks for.
Searched ==
  ~Idle =>
    /\ call.entry # 0 => entries[call.entry].row = Row(call.key)
    /\ \A f \in Entry : f > call.entry /\ entries[f].row = Row(call.key)
                          => ~Equal(entries[f].key, call.key)

\* No two keys in the table are equal, unless one was changed.
Distinct ==
  touched = {} => \A e, f \in Entry : Equal(entries[e].key, entries[f].key) => e = f

\* A loop comes to p after e.
Ahead(p, e) ==
  \/ entries[p].row > entries[e].row
  \/ entries[p].row = entries[e].row /\ p < e

Looped ==
  /\ cursor # 0 =>
       /\ cursor \in given
       /\ \A g \in given : g = cursor \/ Ahead(cursor, g)
       /\ \A p \in present : p \in given \/ Ahead(p, cursor)
  /\ AllGiven

IInv == Typed /\ Chained /\ Placed /\ Searched /\ Distinct /\ Looped

----------------------------------------------------------------------------
(* Rows.                                                                   *)

LEMMA RowInRows ==
  ASSUME TableAssumption, content \in [Key -> Content], NEW k \in Key
  PROVE  Row(k) \in Rows
<1>1. hash[content[k]] \in Int
  BY DEF TableAssumption
<1> DEFINE a == IF hash[content[k]] < 0 THEN -hash[content[k]] ELSE hash[content[k]]
<1>2. a \in Nat
  BY <1>1
<1>3. \A x \in Nat : x % Size \in Rows
  BY DEF TableAssumption, Rows
<1> QED BY <1>2, <1>3 DEF Row

LEMMA EntryFields ==
  ASSUME Typed, NEW e \in Entry
  PROVE  /\ e \in Nat /\ e # 0
         /\ entries[e] \in EntryType
         /\ entries[e].row \in Rows /\ entries[e].row \in Int
         /\ entries[e].key \in Key /\ entries[e].value \in Value /\ entries[e].next \in Nat
<1>1. entries[e] \in EntryType /\ e \in Nat /\ e # 0
  BY DEF Typed, Entry
<1> QED BY <1>1 DEF EntryType, Rows

\* The first entry from row h on: none are there, or it is ahead of the others.
LEMMA HeadIsFirst ==
  ASSUME TableAssumption, Typed, Chained, NEW h \in Nat
  PROVE  \/ /\ HeadFrom(h) = 0
            /\ \A p \in Entry : entries[p].row < h
         \/ /\ HeadFrom(h) \in Entry /\ entries[HeadFrom(h)].row >= h
            /\ \A p \in Entry : entries[p].row >= h =>
                  p = HeadFrom(h) \/ Ahead(p, HeadFrom(h))
<1> DEFINE full == {i \in Rows : i >= h /\ table[i] # 0}
<1>0. full \subseteq Nat
  BY DEF Rows
<1>1. ASSUME NEW p \in Entry, entries[p].row >= h
      PROVE  entries[p].row \in full /\ p <= table[entries[p].row]
  <2>1. entries[p].row \in Rows /\ p \in Nat /\ p < Len(entries) + 1 /\ p # 0
    BY EntryFields DEF Entry, Typed
  <2>2. p <= table[entries[p].row]
    BY <2>1 DEF Chained, NewestBelow
  <2> QED BY <2>1, <2>2, <1>1 DEF Typed
<1>2. CASE full = {}
  <2>1. HeadFrom(h) = 0
    BY <1>2 DEF HeadFrom
  <2>2. \A p \in Entry : entries[p].row < h
    <3> SUFFICES ASSUME NEW p \in Entry, ~(entries[p].row < h) PROVE FALSE
      OBVIOUS
    <3>1. entries[p].row >= h
      BY EntryFields
    <3> QED BY <3>1, <1>1, <1>2
  <2> QED BY <2>1, <2>2
<1>3. CASE full # {}
  <2> DEFINE m == CHOOSE i \in full : \A j \in full : i <= j
  <2>1. m \in full /\ \A j \in full : m <= j
    <3> HIDE DEF full
    <3> QED BY <1>0, <1>3, LeastChosen
  <2>2. HeadFrom(h) = table[m]
    BY <1>3 DEF HeadFrom
  <2> HIDE DEF m
  <2>3. m \in Rows /\ m \in Nat /\ m >= h /\ table[m] # 0
    BY <2>1, <1>0
  <2>4. table[m] \in Entry /\ entries[table[m]].row = m
    BY <2>3 DEF Chained, NewestBelow, Typed, Entry
  <2>5. ASSUME NEW p \in Entry, entries[p].row >= h
        PROVE  p = table[m] \/ Ahead(p, table[m])
    <3>1. m <= entries[p].row /\ p <= table[entries[p].row]
      BY <1>1, <2>1, <2>5
    <3>2. entries[p].row \in Int /\ p \in Nat /\ table[m] \in Nat
      BY EntryFields, <2>3 DEF Typed
    <3> QED BY <3>1, <3>2, <2>3, <2>4 DEF Ahead
  <2> QED BY <2>2, <2>3, <2>4, <2>5
<1> QED BY <1>2, <1>3

\* What comes after an entry: none are ahead of it, or the first of those.
LEMMA AfterIsNext ==
  ASSUME TableAssumption, Typed, Chained, NEW e \in Entry
  PROVE  \/ /\ After(e) = 0
            /\ \A p \in Entry : ~Ahead(p, e)
         \/ /\ After(e) \in Entry /\ Ahead(After(e), e)
            /\ \A p \in Entry : Ahead(p, e) => p = After(e) \/ Ahead(p, After(e))
<1> DEFINE n == entries[e].next
           h == entries[e].row
<1>1. /\ n \in Nat /\ h \in Nat /\ e \in Nat /\ e <= Len(entries) /\ Len(entries) \in Nat
      /\ n < e /\ (n # 0 => entries[n].row = h)
      /\ \A f \in Entry : f < e /\ entries[f].row = h => f <= n
  BY EntryFields DEF Chained, NewestBelow, Entry, Rows, Typed
<1>2. \A p \in Entry : p \in Nat /\ p # 0 /\ entries[p].row \in Int
  BY EntryFields
<1>3. CASE n # 0
  <2>1. After(e) = n
    BY <1>3 DEF After
  <2>2. n \in Entry
    BY <1>1, <1>3 DEF Entry
  <2> HIDE DEF n, h
  <2>3. Ahead(n, e)
    BY <1>1, <1>3 DEF Ahead, h
  <2>4. \A p \in Entry : Ahead(p, e) => p = n \/ Ahead(p, n)
    BY <1>1, <1>2, <1>3 DEF Ahead, h
  <2> QED BY <2>1, <2>2, <2>3, <2>4
<1>4. CASE n = 0
  <2>1. After(e) = HeadFrom(h + 1)
    BY <1>4 DEF After
  <2>2. \A p \in Entry : Ahead(p, e) <=> entries[p].row >= h + 1
    <3> TAKE p \in Entry
    <3>1. p \in Nat /\ p # 0 /\ entries[p].row \in Int
      BY <1>2
    <3>2. ~(p < e /\ entries[p].row = h)
      BY <1>1, <1>4, <3>1
    <3> HIDE DEF n
    <3>3. Ahead(p, e) <=> entries[p].row > h
      BY <3>2 DEF Ahead
    <3> HIDE DEF h
    <3> QED BY <1>1, <3>1, <3>3
  <2>3. h + 1 \in Nat
    BY <1>1
  <2>4. \/ /\ HeadFrom(h + 1) = 0
           /\ \A p \in Entry : entries[p].row < h + 1
        \/ /\ HeadFrom(h + 1) \in Entry /\ entries[HeadFrom(h + 1)].row >= h + 1
           /\ \A p \in Entry : entries[p].row >= h + 1 =>
                 p = HeadFrom(h + 1) \/ Ahead(p, HeadFrom(h + 1))
    BY <2>3, HeadIsFirst
  <2> HIDE DEF h
  <2>5. \A p \in Entry : entries[p].row < h + 1 => ~(entries[p].row >= h + 1)
    BY <1>1, <1>2, <2>3
  <2> QED BY <2>1, <2>2, <2>4, <2>5
<1> QED BY <1>3, <1>4

----------------------------------------------------------------------------
(* The invariant is kept.                                                  *)

\* Steps that enter nothing.
SameRows ==
  /\ Len(entries') = Len(entries)
  /\ \A e \in Entry : /\ entries'[e].row = entries[e].row
                      /\ entries'[e].key = entries[e].key
                      /\ entries'[e].next = entries[e].next

LEMMA RowsKept ==
  ASSUME IInv, SameRows, UNCHANGED <<table, content, touched>>
  PROVE  Chained' /\ Placed' /\ Distinct'
<1>1. Entry' = Entry /\ Rows' = Rows
  BY DEF SameRows, Entry, Rows
<1>2. \A e \in Entry : /\ entries'[e].row = entries[e].row
                       /\ entries'[e].key = entries[e].key
                       /\ entries'[e].next = entries[e].next
  BY DEF SameRows
<1>3. \A n, h, b : n \in Nat /\ b <= Len(entries) + 1 /\ b \in Int /\ NewestBelow(n, h, b) => NewestBelow(n, h, b)'
  <2> SUFFICES ASSUME NEW n \in Nat, NEW h, NEW b \in Int, b <= Len(entries) + 1, NewestBelow(n, h, b)
               PROVE  NewestBelow(n, h, b)'
    OBVIOUS
  <2>1. n # 0 => n \in Entry
    BY DEF NewestBelow, Entry, IInv, Typed
  <2> QED BY <1>1, <1>2, <2>1 DEF NewestBelow
<1>4. Chained'
  <2>1. ASSUME NEW h \in Rows PROVE NewestBelow(table[h], h, Len(entries) + 1)'
    <3>1. NewestBelow(table[h], h, Len(entries) + 1) /\ table[h] \in Nat /\ Len(entries) \in Nat
      BY DEF IInv, Chained, Typed
    <3> QED BY <1>3, <3>1 DEF SameRows
  <2>2. ASSUME NEW e \in Entry PROVE NewestBelow(entries[e].next, entries[e].row, e)'
    <3>1. NewestBelow(entries[e].next, entries[e].row, e) /\ entries[e].next \in Nat /\ e \in Int
      BY EntryFields DEF IInv, Chained
    <3>2. e <= Len(entries) + 1
      BY DEF Entry, IInv, Typed
    <3> QED BY <1>2, <1>3, <3>1, <3>2
  <2> QED BY <1>1, <2>1, <2>2 DEF Chained
<1>5. Placed'
  BY <1>1, <1>2 DEF Placed, IInv, Row
<1>6. Distinct'
  BY <1>1, <1>2 DEF Distinct, IInv, Equal
<1> QED BY <1>4, <1>5, <1>6

LEMMA LoopKept ==
  ASSUME IInv, SameRows, UNCHANGED loop
  PROVE  Looped'
<1>1. \A p, e \in Entry : Ahead(p, e) => Ahead(p, e)'
  BY DEF SameRows, Ahead
<1>2. given \subseteq Entry /\ present \subseteq Entry /\ (cursor # 0 => cursor \in Entry)
  BY DEF IInv, Typed, Entry
<1>3. \A p \in Entry : cursor # 0 /\ Ahead(p, cursor) => Ahead(p, cursor)'
  BY <1>1, <1>2 DEF loop
<1>4. \A p \in Entry : cursor # 0 /\ Ahead(cursor, p) => Ahead(cursor, p)'
  BY <1>1, <1>2 DEF loop
<1> QED BY <1>2, <1>3, <1>4 DEF IInv, Looped, AllGiven, loop

\* What is not changed at all.
LEMMA Unchanged ==
  ASSUME UNCHANGED entries
  PROVE  SameRows
BY DEF SameRows

\* A value is changed.
LEMMA ValueChanged ==
  ASSUME Typed, NEW e \in Entry, NEW v \in Value, entries' = [entries EXCEPT ![e].value = v]
  PROVE  SameRows /\ entries' \in Seq(EntryType) /\ Entry' = Entry
         /\ \A f \in Entry : entries'[f].value = IF f = e THEN v ELSE entries[f].value
<1>1. entries \in Seq(EntryType) /\ e \in 1..Len(entries)
  BY DEF Typed, Entry
<1>2. [entries[e] EXCEPT !.value = v] \in EntryType
  BY EntryFields DEF EntryType
<1>3. /\ entries' \in Seq(EntryType) /\ Len(entries') = Len(entries)
      /\ \A f \in 1..Len(entries) :
           entries'[f] = IF f = e THEN [entries[e] EXCEPT !.value = v] ELSE entries[f]
  BY <1>1, <1>2, ExceptSeq
<1>4. \A f \in Entry : entries[f] \in EntryType
  BY EntryFields
<1> QED BY <1>1, <1>3, <1>4 DEF SameRows, Entry, EntryType

LEMMA InitHolds ==
  ASSUME TableAssumption, Init
  PROVE  IInv
<1>1. Len(entries) = 0 /\ entries \in Seq(EntryType) /\ Entry = {}
  BY DEF Init, Entry
<1>2. content \in [Key -> Content]
  BY DEF Init, TableAssumption
<1>3. NoCall \in CallType /\ NoCall.op = "none" /\ NoCall.entry = 0
  BY DEF NoCall, CallType, TableAssumption, Default
<1>4. Typed
  BY <1>1, <1>2, <1>3 DEF Typed, Init, Rows, TableAssumption
<1>5. Chained
  BY <1>1 DEF Init, Chained, NewestBelow
<1>6. Placed /\ Searched /\ Distinct /\ Looped
  BY <1>1, <1>3 DEF Init, Placed, Searched, Distinct, Looped, AllGiven, Idle
<1> QED BY <1>4, <1>5, <1>6 DEF IInv

LEMMA SearchKeeps ==
  ASSUME TableAssumption, IInv, NEW op \in {"element", "element-setter"}, NEW k \in Key,
         NEW arg \in Value \cup Default, Search(op, k, arg),
         op = "element" => arg \in Default, op = "element-setter" => arg \in Value
  PROVE  IInv'
<1> USE DEF IInv
<1>1. UNCHANGED <<table, entries, content, cursor, given, present, touched>>
  BY DEF Search, loop
<1>2. Row(k) \in Rows
  BY RowInRows DEF Typed
<1>3. /\ call' = [op |-> op, key |-> k, arg |-> arg, entry |-> table[Row(k)]]
      /\ calls' \in 0..MaxCalls
  BY DEF Search, Typed, TableAssumption
<1>4. /\ table[Row(k)] < Len(entries) + 1 /\ table[Row(k)] \in Nat /\ Len(entries) \in Nat
      /\ table[Row(k)] # 0 => entries[table[Row(k)]].row = Row(k)
      /\ \A f \in Entry : f < Len(entries) + 1 /\ entries[f].row = Row(k) => f <= table[Row(k)]
  BY <1>2 DEF Typed, Chained, NewestBelow
<1>5. Typed'
  <2> DEFINE n == table[Row(k)]
  <2>1. n \in Nat /\ n <= Len(entries) /\ call' = [op |-> op, key |-> k, arg |-> arg, entry |-> n]
    BY <1>3, <1>4
  <2> HIDE DEF n
  <2>2. /\ call' \in CallType /\ call'.entry <= Len(entries)
        /\ call'.op = "element-setter" => call'.arg \in Value
        /\ call'.op = "element" => call'.arg \in Default
    BY <2>1 DEF CallType
  <2> QED BY <1>1, <1>3, <2>2 DEF Typed, CallType, EntryType, Rows, Entry
<1>6. Searched'
  <2>1. \A f \in Entry : f \in Nat /\ f < Len(entries) + 1
    BY <1>4 DEF Entry
  <2>2. \A f \in Entry : f > table[Row(k)] => entries[f].row # Row(k)
    BY <1>4, <2>1
  <2> QED BY <1>1, <1>3, <1>4, <2>2 DEF Searched, Row, Entry, Equal
<1>7. Chained' /\ Placed' /\ Distinct' /\ Looped'
  BY <1>1, Unchanged, RowsKept, LoopKept DEF loop
<1> QED BY <1>5, <1>6, <1>7

LEMMA PassesKeeps ==
  ASSUME TableAssumption, IInv, Passes
  PROVE  IInv'
<1> USE DEF IInv
<1>1. UNCHANGED <<table, entries, content, calls, cursor, given, present, touched>>
  BY DEF Passes, loop
<1>2. call.entry \in Entry /\ call \in CallType /\ ~Idle
  BY DEF Passes, Typed, Entry, CallType
<1>3. call' = [call EXCEPT !.entry = entries[call.entry].next]
  BY DEF Passes
<1>4. call' = [op |-> call.op, key |-> call.key, arg |-> call.arg, entry |-> entries[call.entry].next]
  BY <1>2, <1>3 DEF CallType
<1> DEFINE n == entries[call.entry].next
<1>5. /\ n \in Nat /\ n < call.entry
      /\ n # 0 => entries[n].row = entries[call.entry].row
      /\ \A f \in Entry : f < call.entry /\ entries[f].row = entries[call.entry].row => f <= n
  BY <1>2, EntryFields DEF Chained, NewestBelow
<1>6. entries[call.entry].row = Row(call.key)
  BY <1>2 DEF Searched, Passes
<1>7. Typed'
  <2>1. n <= Len(entries)
    BY <1>2, <1>5 DEF Entry, Typed
  <2> QED BY <1>1, <1>2, <1>4, <1>5, <2>1 DEF Typed, CallType, EntryType, Rows, Entry
<1>8. Searched'
  <2>1. ASSUME NEW f \in Entry, f > n, entries[f].row = Row(call.key)
        PROVE  ~Equal(entries[f].key, call.key)
    <3>1. f \in Nat /\ call.entry \in Nat
      BY <1>2 DEF Entry
    <3>2. CASE f = call.entry
      BY <3>2 DEF Passes
    <3>3. CASE f # call.entry
      <4>1. f > call.entry
        BY <1>5, <1>6, <2>1, <3>1, <3>3
      <4> QED BY <4>1, <2>1, <1>2 DEF Searched
    <3> QED BY <3>2, <3>3
  <2> HIDE DEF n
  <2>2. call'.entry = n /\ call'.key = call.key
    BY <1>4 DEF n
  <2> QED BY <1>1, <1>5, <1>6, <2>1, <2>2 DEF Searched, Row, Entry, Equal
<1>9. Chained' /\ Placed' /\ Distinct' /\ Looped'
  BY <1>1, Unchanged, RowsKept, LoopKept DEF loop
<1> QED BY <1>7, <1>8, <1>9

\* A call that is done has nothing to search.
LEMMA NoneSearched ==
  ASSUME TableAssumption, call' = NoCall
  PROVE  /\ Searched'
         /\ call' \in CallType /\ call'.op = "none" /\ call'.entry = 0
BY DEF Searched, Idle, NoCall, CallType, TableAssumption, Default

LEMMA MatchesKeeps ==
  ASSUME TableAssumption, IInv, Matches
  PROVE  IInv'
<1> USE DEF IInv
<1>1. UNCHANGED <<table, content, calls, cursor, given, present, touched>> /\ call' = NoCall
  BY DEF Matches, loop, Done
<1>2. call.entry \in Entry
  BY DEF Matches, Typed, Entry, CallType
<1>3. SameRows /\ entries' \in Seq(EntryType) /\ Entry' = Entry
  <2>1. CASE UNCHANGED entries
    BY <2>1, Unchanged DEF Typed, Entry
  <2>2. CASE ~(UNCHANGED entries)
    <3>1. entries' = [entries EXCEPT ![call.entry].value = call.arg] /\ call.arg \in Value
      BY <2>2 DEF Matches, Typed
    <3> QED BY <1>2, <3>1, ValueChanged
  <2> QED BY <2>1, <2>2
<1>4. Typed'
  <2>1. Len(entries') = Len(entries) /\ Len(entries) \in Nat
    BY <1>3 DEF SameRows, Typed
  <2> QED BY <1>1, <1>3, <2>1, NoneSearched DEF Typed, CallType, EntryType, Rows
<1>5. Chained' /\ Placed' /\ Distinct' /\ Looped' /\ Searched'
  BY <1>1, <1>3, RowsKept, LoopKept, NoneSearched DEF loop
<1> QED BY <1>4, <1>5

\* The sequence of entries with one more.
LEMMA Extended ==
  ASSUME NEW S, NEW s \in Seq(S), NEW x \in S
  PROVE  /\ Append(s, x) \in Seq(S) /\ Len(Append(s, x)) = Len(s) + 1
         /\ Append(s, x)[Len(s) + 1] = x
         /\ \A i \in 1..Len(s) : Append(s, x)[i] = s[i]
BY AppendProperties

\* What Add does.
LEMMA Added ==
  ASSUME TableAssumption, Typed, NEW k \in Key, NEW v \in Value, Add(k, v)
  PROVE  /\ Len(entries) \in Nat /\ Len(entries') = Len(entries) + 1
         /\ Entry' = Entry \cup {Len(entries) + 1} /\ Len(entries) + 1 \notin Entry
         /\ entries' \in Seq(EntryType) /\ table' \in [Rows -> Nat]
         /\ \A e \in Entry : entries'[e] = entries[e]
         /\ entries'[Len(entries) + 1]
              = [row |-> Row(k), key |-> k, value |-> v, next |-> table[Row(k)]]
         /\ \A h \in Rows : table'[h] = IF h = Row(k) THEN Len(entries) + 1 ELSE table[h]
<1> DEFINE x == [row |-> Row(k), key |-> k, value |-> v, next |-> table[Row(k)]]
<1>1. Row(k) \in Rows
  BY RowInRows DEF Typed
<1>2. x \in EntryType
  BY <1>1 DEF EntryType, Typed
<1>3. entries \in Seq(EntryType) /\ Len(entries) \in Nat
  BY DEF Typed
<1>4. entries' = Append(entries, x)
  BY DEF Add
<1> HIDE DEF x
<1>5. /\ entries' \in Seq(EntryType) /\ Len(entries') = Len(entries) + 1
      /\ entries'[Len(entries) + 1] = x
      /\ \A i \in 1..Len(entries) : entries'[i] = entries[i]
  BY <1>2, <1>3, <1>4, Extended
<1>6. Entry' = Entry \cup {Len(entries) + 1} /\ Len(entries) + 1 \notin Entry
  BY <1>3, <1>5 DEF Entry
<1>7. /\ table' \in [Rows -> Nat]
      /\ \A h \in Rows : table'[h] = IF h = Row(k) THEN Len(entries) + 1 ELSE table[h]
  BY <1>1, <1>3 DEF Add, Typed
<1> QED BY <1>3, <1>5, <1>6, <1>7 DEF Entry, x

\* The entry that is added has no equal in the table.
LEMMA NoneEqual ==
  ASSUME IInv, ~Idle, call.entry = 0, NEW e \in Entry, entries[e].key \notin touched
  PROVE  ~Equal(entries[e].key, call.key)
<1> USE DEF IInv
<1>1. SUFFICES ASSUME Equal(entries[e].key, call.key) PROVE FALSE
  OBVIOUS
<1>2. entries[e].row = Row(call.key)
  BY <1>1 DEF Placed, Equal, Row
<1>3. e > 0
  BY DEF Entry
<1> QED BY <1>1, <1>2, <1>3 DEF Searched

LEMMA AddKeeps ==
  ASSUME TableAssumption, IInv, ~Idle, call.entry = 0, call.arg \in Value,
         Add(call.key, call.arg), call' = NoCall,
         UNCHANGED <<content, calls, cursor, given, present, touched>>
  PROVE  IInv'
<1> USE DEF IInv
<1> DEFINE k == call.key
           new == Len(entries) + 1
<1>1. k \in Key
  BY DEF Typed, CallType
<1>2. /\ Len(entries) \in Nat /\ Len(entries') = new
      /\ Entry' = Entry \cup {new} /\ new \notin Entry
      /\ entries' \in Seq(EntryType) /\ table' \in [Rows -> Nat]
      /\ \A e \in Entry : entries'[e] = entries[e]
      /\ entries'[new] = [row |-> Row(k), key |-> k, value |-> call.arg, next |-> table[Row(k)]]
      /\ \A h \in Rows : table'[h] = IF h = Row(k) THEN new ELSE table[h]
  BY <1>1, Added
<1>3. Row(k) \in Rows /\ \A e \in Entry : e \in Nat /\ e # 0 /\ e < new
  BY <1>1, <1>2, RowInRows DEF Typed, Entry
<1> HIDE DEF k, new
<1>4. Typed'
  <2>1. 0..Len(entries) \subseteq 0..Len(entries') /\ Entry \subseteq Entry' /\ Len(entries') \in Nat
    BY <1>2 DEF new
  <2>2. /\ call' \in CallType /\ call'.op = "none" /\ call'.entry <= Len(entries')
    BY <2>1, NoneSearched
  <2>3. EntryType' = EntryType /\ CallType' = CallType /\ Rows' = Rows
    BY DEF EntryType, CallType, Rows, Default
  <2> QED BY <1>2, <2>1, <2>2, <2>3 DEF Typed
<1>5. Chained'
  <2>1. ASSUME NEW h \in Rows PROVE NewestBelow(table[h], h, Len(entries) + 1)'
    <3>1. CASE h = Row(k)
      <4>1. table'[h] = new /\ entries'[new].row = h
        BY <1>2, <3>1
      <4>2. \A f \in Entry' : f <= new
        BY <1>2, <1>3 DEF new
      <4> QED BY <1>2, <4>1, <4>2 DEF NewestBelow, new
    <3>2. CASE h # Row(k)
      <4>1. NewestBelow(table[h], h, new) /\ table[h] \in Nat
        BY DEF Chained, new, Typed
      <4>2. table'[h] = table[h] /\ entries'[new].row # h
        BY <1>2, <3>2
      <4>3. table[h] # 0 => table[h] \in Entry
        BY <1>2, <4>1 DEF NewestBelow, Entry, new
      <4>4. table[h] < new + 1 /\ new \in Nat
        BY <1>2, <4>1 DEF NewestBelow, new
      <4>5. \A f \in Entry' : entries'[f].row = h => f <= table[h]
        BY <1>2, <1>3, <4>1, <4>2 DEF NewestBelow
      <4> QED BY <1>2, <4>1, <4>2, <4>3, <4>4, <4>5 DEF NewestBelow
    <3> QED BY <3>1, <3>2
  <2>2. ASSUME NEW e \in Entry' PROVE NewestBelow(entries[e].next, entries[e].row, e)'
    <3>1. CASE e = new
      <4>1. NewestBelow(table[Row(k)], Row(k), new) /\ table[Row(k)] \in Nat
        BY <1>3 DEF Chained, new, Typed
      <4>2. table[Row(k)] # 0 => table[Row(k)] \in Entry
        BY <1>2, <4>1 DEF NewestBelow, Entry, new
      <4>3. entries'[e].next = table[Row(k)] /\ entries'[e].row = Row(k)
        BY <1>2, <3>1
      <4>4. ~(new < new)
        BY <1>2 DEF new
      <4> QED BY <1>2, <3>1, <4>1, <4>2, <4>3, <4>4 DEF NewestBelow
    <3>2. CASE e \in Entry
      <4>1. NewestBelow(entries[e].next, entries[e].row, e) /\ entries[e].next \in Nat
        BY <3>2, EntryFields DEF Chained
      <4>2. entries[e].next # 0 => entries[e].next \in Entry
        BY <1>2, <1>3, <3>2, <4>1 DEF NewestBelow, Entry, new
      <4>3. e < new /\ e \in Nat /\ new \in Nat
        BY <1>2, <1>3, <3>2 DEF new
      <4>4. ~(new < e)
        BY <4>3
      <4> QED BY <1>2, <3>2, <4>1, <4>2, <4>4 DEF NewestBelow
    <3> QED BY <1>2, <3>1, <3>2
  <2> QED BY <2>1, <2>2 DEF Chained, Rows
<1>6. Placed'
  BY <1>2, SMTT(20) DEF Placed, Row
<1>7. Distinct'
  <2>1. SUFFICES ASSUME touched = {}, NEW e \in Entry', NEW f \in Entry',
                        content[entries'[e].key] = content[entries'[f].key]
                 PROVE  e = f
    BY DEF Distinct, Equal
  <2>2. \A g \in Entry : content[entries[g].key] # content[k]
    BY <2>1, NoneEqual DEF Equal, k
  <2>3. entries'[new].key = k
    BY <1>2
  <2>4. CASE e \in Entry /\ f \in Entry
    BY <1>2, <2>1, <2>4 DEF Distinct, Equal
  <2> QED BY <1>2, <2>1, <2>2, <2>3, <2>4
<1>8. Looped'
  <2>1. \A p, e \in Entry : Ahead(p, e) => Ahead(p, e)'
    BY <1>2 DEF Ahead
  <2>2. given \subseteq Entry /\ present \subseteq Entry /\ (cursor # 0 => cursor \in Entry)
    BY DEF Typed, Entry
  <2>3. \A p \in Entry : cursor # 0 /\ Ahead(p, cursor) => Ahead(p, cursor)'
    BY <2>1, <2>2
  <2>4. \A p \in Entry : cursor # 0 /\ Ahead(cursor, p) => Ahead(cursor, p)'
    BY <2>1, <2>2
  <2> QED BY <2>2, <2>3, <2>4 DEF Looped, AllGiven
<1> QED BY <1>4, <1>5, <1>6, <1>7, <1>8, NoneSearched

LEMMA MissesKeeps ==
  ASSUME TableAssumption, IInv, Misses
  PROVE  IInv'
<1>1. /\ ~Idle /\ call.entry = 0 /\ call' = NoCall
      /\ UNCHANGED <<content, calls, cursor, given, present, touched>>
  BY DEF Misses, Done, loop
<1>2. CASE UNCHANGED <<table, entries>>
  <2>1. Chained' /\ Placed' /\ Distinct' /\ Looped' /\ Searched'
    BY <1>1, <1>2, Unchanged, RowsKept, LoopKept, NoneSearched DEF loop
  <2>2. Typed'
    BY <1>1, <1>2, NoneSearched DEF IInv, Typed, CallType, EntryType, Rows, Entry
  <2> QED BY <2>1, <2>2 DEF IInv
<1>3. CASE call.op = "element-setter" /\ Add(call.key, call.arg)
  <2>1. call.arg \in Value
    BY <1>3 DEF IInv, Typed
  <2> QED BY <1>1, <1>3, <2>1, AddKeeps
<1> QED BY <1>2, <1>3 DEF Misses

LEMMA ChangeKeeps ==
  ASSUME TableAssumption, IInv, NEW k \in Key, NEW c \in Content, Change(k, c)
  PROVE  IInv'
<1> USE DEF IInv
<1>1. /\ UNCHANGED <<table, entries, call, calls, cursor, given, present>>
      /\ content' = [content EXCEPT ![k] = c] /\ Idle
      /\ touched' \in SUBSET Key
      /\ touched \subseteq touched'
      /\ (\E e \in Entry : entries[e].key = k) => k \in touched'
  BY DEF Change, loop, Typed
<1>2. Typed'
  BY <1>1 DEF Typed, CallType, EntryType, Rows, Entry
<1>3. Chained' /\ Looped' /\ Searched'
  BY <1>1 DEF Chained, NewestBelow, Looped, AllGiven, Ahead, Entry, Rows, Searched, Idle
<1>4. \A e \in Entry : entries[e].key \notin touched' =>
         /\ entries[e].key \in Key /\ entries[e].key \notin touched
         /\ content'[entries[e].key] = content[entries[e].key]
  <2> SUFFICES ASSUME NEW e \in Entry, entries[e].key \notin touched'
               PROVE  /\ entries[e].key \in Key /\ entries[e].key \notin touched
                      /\ content'[entries[e].key] = content[entries[e].key]
    OBVIOUS
  <2>1. entries[e].key # k /\ entries[e].key \notin touched /\ entries[e].key \in Key
    BY <1>1, EntryFields
  <2> QED BY <1>1, <2>1 DEF Typed
<1>5. Placed'
  BY <1>1, <1>4 DEF Placed, Row, Entry
<1>6. Distinct'
  <2>1. touched' = {} => touched = {}
    BY <1>1
  <2> QED BY <1>1, <1>4, <2>1 DEF Distinct, Equal, Entry
<1> QED BY <1>2, <1>3, <1>5, <1>6

\* A loop that begins or goes on.
LEMMA ArriveKeeps ==
  ASSUME TableAssumption, IInv, Idle, NEW e, NEW before \in SUBSET Entry, Arrive(e, before),
         present' \in SUBSET Entry,
         \/ e = 0 /\ present' \subseteq before
         \/ /\ e \in Entry
            /\ \A g \in before : Ahead(e, g)
            /\ \A p \in present' : p \in before \/ p = e \/ Ahead(p, e)
  PROVE  IInv'
<1> USE DEF IInv
<1>1. /\ UNCHANGED <<table, entries, content, call, touched>>
      /\ cursor' = e /\ calls' = 0
      /\ given' = IF e = 0 THEN before ELSE before \cup {e}
  BY DEF Arrive
<1>2. e \in 0..Len(entries) /\ (e \in Entry => e # 0)
  BY DEF Entry, Typed
<1>3. Typed'
  <2>1. /\ EntryType' = EntryType /\ CallType' = CallType /\ Rows' = Rows /\ Entry' = Entry
        /\ Len(entries') = Len(entries)
    BY <1>1 DEF EntryType, CallType, Rows, Default, Entry
  <2>2. calls' \in 0..MaxCalls
    BY <1>1 DEF TableAssumption
  <2>3. given' \subseteq Entry
    BY <1>1, <1>2 DEF Typed
  <2> QED BY <1>1, <1>2, <2>1, <2>2, <2>3 DEF Typed
<1>4. Chained' /\ Placed' /\ Distinct'
  BY <1>1, Unchanged, RowsKept
<1>5. Searched'
  BY <1>1 DEF Searched, Idle
<1>6. Looped'
  <2>1. CASE e = 0
    BY <1>1, <2>1, <1>2 DEF Looped, AllGiven
  <2>2. CASE e # 0
    BY <1>1, <2>2 DEF Looped, AllGiven, Ahead
  <2> QED BY <2>1, <2>2
<1> QED BY <1>3, <1>4, <1>5, <1>6

LEMMA InitialStateKeeps ==
  ASSUME TableAssumption, IInv, InitialState
  PROVE  IInv'
<1>1. \/ /\ HeadFrom(0) = 0
         /\ \A p \in Entry : entries[p].row < 0
      \/ /\ HeadFrom(0) \in Entry /\ entries[HeadFrom(0)].row >= 0
         /\ \A p \in Entry : entries[p].row >= 0 => p = HeadFrom(0) \/ Ahead(p, HeadFrom(0))
  BY HeadIsFirst DEF IInv
<1>2. \A p \in Entry : entries[p].row >= 0 /\ ~(entries[p].row < 0)
  <2> TAKE p \in Entry
  <2>1. entries[p].row \in Rows
    BY EntryFields DEF IInv
  <2> QED BY <2>1 DEF Rows
<1>3. Idle /\ present' = Entry /\ Arrive(HeadFrom(0), {})
  BY DEF InitialState
<1>4. \/ HeadFrom(0) = 0 /\ present' \subseteq {}
      \/ /\ HeadFrom(0) \in Entry
         /\ \A p \in present' : p \in {} \/ p = HeadFrom(0) \/ Ahead(p, HeadFrom(0))
  BY <1>1, <1>2, <1>3
<1> HIDE DEF InitialState
<1> QED BY <1>3, <1>4, ArriveKeeps

LEMMA AheadTransitive ==
  ASSUME Typed, NEW p \in Entry, NEW q \in Entry, NEW r \in Entry, Ahead(p, q), Ahead(q, r)
  PROVE  Ahead(p, r)
<1>1. /\ p \in Nat /\ q \in Nat /\ r \in Nat
      /\ entries[p].row \in Int /\ entries[q].row \in Int /\ entries[r].row \in Int
  BY EntryFields
<1> QED BY <1>1 DEF Ahead

\* What NextState comes to.
LEMMA NextIsAhead ==
  ASSUME TableAssumption, IInv, NextState
  PROVE  /\ cursor \in Entry
         /\ \/ After(cursor) = 0 /\ present \subseteq given
            \/ /\ After(cursor) \in Entry
               /\ \A g \in given : Ahead(After(cursor), g)
               /\ \A p \in present : p \in given \/ p = After(cursor) \/ Ahead(p, After(cursor))
<1> USE DEF IInv
<1>1. cursor # 0 /\ cursor \in Entry /\ given \subseteq Entry /\ present \subseteq Entry
  BY DEF NextState, Typed, Entry
<1>2. \/ /\ After(cursor) = 0
         /\ \A p \in Entry : ~Ahead(p, cursor)
      \/ /\ After(cursor) \in Entry /\ Ahead(After(cursor), cursor)
         /\ \A p \in Entry : Ahead(p, cursor) => p = After(cursor) \/ Ahead(p, After(cursor))
  BY <1>1, AfterIsNext
<1>3. /\ \A g \in given : g = cursor \/ Ahead(cursor, g)
      /\ \A p \in present : p \in given \/ Ahead(p, cursor)
  BY <1>1 DEF Looped
<1>4. CASE After(cursor) = 0 /\ \A p \in Entry : ~Ahead(p, cursor)
  BY <1>1, <1>3, <1>4
<1>5. CASE /\ After(cursor) \in Entry /\ Ahead(After(cursor), cursor)
           /\ \A p \in Entry : Ahead(p, cursor) => p = After(cursor) \/ Ahead(p, After(cursor))
  <2>1. ASSUME NEW g \in given PROVE Ahead(After(cursor), g)
    BY <1>1, <1>3, <1>5, AheadTransitive
  <2> QED BY <1>1, <1>3, <1>5, <2>1
<1> QED BY <1>2, <1>4, <1>5, <1>1

LEMMA NextStateKeeps ==
  ASSUME TableAssumption, IInv, NextState
  PROVE  IInv'
<1>1. Idle /\ present' = present /\ Arrive(After(cursor), given)
  BY DEF NextState
<1>2. given \in SUBSET Entry /\ present' \in SUBSET Entry
  BY <1>1 DEF IInv, Typed
<1> QED BY <1>1, <1>2, NextIsAhead, ArriveKeeps

LEMMA CurrentElementKeeps ==
  ASSUME TableAssumption, IInv, CurrentElement
  PROVE  IInv'
<1>1. UNCHANGED <<table, entries, content, call, calls, cursor, given, present, touched>> /\ Idle
  BY DEF CurrentElement, loop
<1>2. Chained' /\ Placed' /\ Distinct' /\ Looped'
  BY <1>1, Unchanged, RowsKept, LoopKept DEF loop
<1>3. Typed' /\ Searched'
  BY <1>1 DEF IInv, Typed, CallType, EntryType, Rows, Entry, Searched, Idle
<1> QED BY <1>2, <1>3 DEF IInv

LEMMA CurrentElementSetterKeeps ==
  ASSUME TableAssumption, IInv, NEW v \in Value, CurrentElementSetter(v)
  PROVE  IInv'
<1>1. /\ UNCHANGED <<table, content, call, calls, cursor, given, present, touched>> /\ Idle
      /\ cursor \in Entry /\ entries' = [entries EXCEPT ![cursor].value = v]
  BY DEF CurrentElementSetter, loop, IInv, Typed, Entry
<1>2. SameRows /\ entries' \in Seq(EntryType) /\ Entry' = Entry
  BY <1>1, ValueChanged DEF IInv
<1>3. Chained' /\ Placed' /\ Distinct' /\ Looped'
  BY <1>1, <1>2, RowsKept, LoopKept DEF loop
<1>4. Typed'
  <2>1. Len(entries') = Len(entries)
    BY <1>2 DEF SameRows
  <2>2. EntryType' = EntryType /\ CallType' = CallType /\ Rows' = Rows
    BY DEF EntryType, CallType, Rows, Default
  <2>3. call'.op = call.op /\ call'.arg = call.arg /\ call'.entry = call.entry
    BY <1>1
  <2> QED BY <1>1, <1>2, <2>1, <2>2, <2>3 DEF IInv, Typed
<1>5. Searched'
  BY <1>1 DEF Searched, Idle
<1> QED BY <1>3, <1>4, <1>5 DEF IInv

LEMMA StepKeeps ==
  ASSUME TableAssumption, IInv, [Next]_vars
  PROVE  IInv'
<1>1. CASE UNCHANGED vars
  <2>1. UNCHANGED <<table, entries, content, call, calls, cursor, given, present, touched>>
    BY <1>1 DEF vars
  <2>2. Chained' /\ Placed' /\ Distinct' /\ Looped'
    BY <2>1, Unchanged, RowsKept, LoopKept DEF loop
  <2>3. Typed' /\ Searched'
    BY <2>1 DEF IInv, Typed, CallType, EntryType, Rows, Entry, Searched, Idle, Equal, Row
  <2> QED BY <2>2, <2>3 DEF IInv
<1>2. ASSUME NEW k \in Key, NEW default \in Default, Element(k, default) PROVE IInv'
  BY <1>2, SearchKeeps DEF Element
<1>3. ASSUME NEW k \in Key, NEW v \in Value, ElementSetter(k, v) PROVE IInv'
  BY <1>3, SearchKeeps DEF ElementSetter
<1>4. CASE Passes
  BY <1>4, PassesKeeps
<1>5. CASE Matches
  BY <1>5, MatchesKeeps
<1>6. CASE Misses
  BY <1>6, MissesKeeps
<1>7. ASSUME NEW k \in Key, NEW c \in Content, Change(k, c) PROVE IInv'
  BY <1>7, ChangeKeeps
<1>8. CASE InitialState
  BY <1>8, InitialStateKeeps
<1>9. CASE NextState
  BY <1>9, NextStateKeeps
<1>10. CASE CurrentElement
  BY <1>10, CurrentElementKeeps
<1>11. ASSUME NEW v \in Value, CurrentElementSetter(v) PROVE IInv'
  BY <1>11, CurrentElementSetterKeeps
<1> QED BY <1>1, <1>2, <1>3, <1>4, <1>5, <1>6, <1>7, <1>8, <1>9, <1>10, <1>11 DEF Next

LEMMA InvariantHolds == Spec => []IInv
<1>1. Init => IInv
  BY InitHolds, TableAssumption
<1>2. IInv /\ [Next]_vars => IInv'
  BY StepKeeps, TableAssumption
<1> QED BY <1>1, <1>2, PTL DEF Spec

----------------------------------------------------------------------------
(* What follows.                                                           *)

\* The rows, the call and the loop have their types; a link leads to an older entry
\* (table.c: entries are added in front of a row).
THEOREM TablesTyped == Spec => []TypeOK
<1>1. IInv => TypeOK
  <2> SUFFICES ASSUME IInv PROVE TypeOK
    OBVIOUS
  <2> USE DEF IInv
  <2>1. table \in [Rows -> 0..Len(entries)]
    <3>1. \A h \in Rows : table[h] \in 0..Len(entries)
      BY DEF Chained, NewestBelow, Typed
    <3> QED BY <3>1 DEF Typed
  <2>2. ASSUME NEW e \in Entry
        PROVE  /\ entries[e].row \in Rows /\ entries[e].key \in Key /\ entries[e].value \in Value
               /\ entries[e].next \in 0..(e - 1)
    <3>1. entries[e].next \in Nat /\ entries[e].next < e /\ e \in Nat
      BY EntryFields DEF Chained, NewestBelow
    <3> QED BY <3>1, EntryFields
  <2> QED BY <2>1, <2>2 DEF TypeOK, Typed, CallType
<1> QED BY <1>1, InvariantHolds, PTL

\* A search that ends without an entry misses none whose key is as it was entered
\* (table_element_handle).
THEOREM UntouchedKeysFound == Spec => UntouchedFound
<1>1. IInv /\ [Next]_vars =>
        [Misses => \A e \in Entry : entries[e].key \notin touched
                                      => ~Equal(entries[e].key, call.key)]_vars
  BY NoneEqual DEF Misses
<1> QED BY <1>1, InvariantHolds, PTL DEF Spec, UntouchedFound

\* A loop gives no entry twice (table_next_state).
THEOREM LoopGivesOnce == Spec => GivenOnce
<1>1. IInv /\ [Next]_vars => [NextState => cursor' = 0 \/ cursor' \notin given]_vars
  <2> SUFFICES ASSUME IInv, NextState, cursor' # 0, cursor' \in given PROVE FALSE
    OBVIOUS
  <2>1. cursor' = After(cursor)
    BY DEF NextState, Arrive
  <2>2. cursor' \in Entry /\ Ahead(cursor', cursor')
    BY <2>1, NextIsAhead, TableAssumption DEF Entry
  <2>3. entries[cursor'].row \in Int /\ cursor' \in Nat
    BY <2>2, EntryFields DEF IInv
  <2> QED BY <2>2, <2>3 DEF Ahead
<1> QED BY <1>1, InvariantHolds, PTL DEF Spec, GivenOnce

\* A loop that is over has given what was there when it began.
THEOREM LoopGivesAll == Spec => []AllGiven
<1>1. IInv => AllGiven
  BY DEF IInv, Looped
<1> QED BY <1>1, InvariantHolds, PTL

----------------------------------------------------------------------------
(* A table is a function.                                                  *)

LEMMA ContentOf ==
  ASSUME IInv, NEW e \in Entry
  PROVE  content[entries[e].key] \in Content
BY EntryFields DEF IInv, Typed

\* Where no key was changed, an entry is the only one for the content of its key.
LEMMA OneHolds ==
  ASSUME IInv, touched = {}, NEW e \in Entry
  PROVE  /\ Holding(content[entries[e].key]) = {e}
         /\ AbstractMap[content[entries[e].key]] = entries[e].value
<1> DEFINE c == content[entries[e].key]
<1>1. Holding(c) = {e}
  BY DEF Holding, IInv, Distinct, Equal
<1>2. c \in Content
  BY ContentOf
<1> HIDE DEF c
<1>3. AbstractMap[c] = entries[CHOOSE f \in Holding(c) : TRUE].value
  BY <1>1, <1>2 DEF AbstractMap
<1>4. (CHOOSE f \in Holding(c) : TRUE) = e
  BY <1>1
<1> QED BY <1>1, <1>3, <1>4 DEF c

\* The arguments of the function.
LEMMA KeysAreContents ==
  ASSUME TableAssumption, IInv, touched = {}
  PROVE  Abstract!Keys = KeysOf(Entry)
<1>1. ASSUME NEW c \in Content, Holding(c) = {}
      PROVE  AbstractMap[c] = NoValue /\ c \notin KeysOf(Entry)
  BY <1>1 DEF AbstractMap, KeysOf, Holding
<1>2. ASSUME NEW c \in Content, Holding(c) # {}
      PROVE  AbstractMap[c] # NoValue /\ c \in KeysOf(Entry)
  <2>1. PICK e \in Entry : content[entries[e].key] = c
    BY <1>2 DEF Holding
  <2>2. AbstractMap[c] = entries[e].value /\ entries[e].value \in Value
    BY <2>1, OneHolds, EntryFields DEF IInv
  <2> QED BY <2>1, <2>2 DEF KeysOf, TableAssumption
<1>3. KeysOf(Entry) \subseteq Content
  BY ContentOf DEF KeysOf
<1> QED BY <1>1, <1>2, <1>3 DEF Abstract!Keys

\* A function with one value changed.
LEMMA ExceptPoint ==
  ASSUME NEW S, NEW f, f = [x \in S |-> f[x]], NEW k, NEW v
  PROVE  [f EXCEPT ![k] = v] = [x \in S |-> IF x = k THEN v ELSE f[x]]
OBVIOUS

LEMMA MapIsFunction ==
  /\ AbstractMap = [c \in Content |-> AbstractMap[c]]
  /\ AbstractMap' = [c \in Content |-> AbstractMap'[c]]
BY DEF AbstractMap

\* The function depends on the entries and on what their keys consist of.
LEMMA SameMap ==
  ASSUME UNCHANGED entries, \A e \in Entry : content'[entries[e].key] = content[entries[e].key]
  PROVE  /\ AbstractMap' = AbstractMap
         /\ \A es \in SUBSET Entry : {content'[entries'[e].key] : e \in es} = KeysOf(es)
<1>1. \A c : Holding(c)' = Holding(c)
  BY DEF Holding, Entry
<1>2. AbstractMap' = AbstractMap
  <2>1. ASSUME NEW c \in Content PROVE AbstractMap'[c] = AbstractMap[c]
    <3>1. AbstractMap'[c] = IF Holding(c)' = {} THEN NoValue
                            ELSE entries'[CHOOSE f \in Holding(c)' : TRUE].value
      BY DEF AbstractMap
    <3>2. AbstractMap[c] = IF Holding(c) = {} THEN NoValue
                           ELSE entries[CHOOSE f \in Holding(c) : TRUE].value
      BY DEF AbstractMap
    <3> QED BY <1>1, <3>1, <3>2
  <2> QED BY <2>1, MapIsFunction
<1>3. \A es \in SUBSET Entry : {content'[entries'[e].key] : e \in es} = KeysOf(es)
  BY DEF KeysOf
<1> QED BY <1>2, <1>3

\* A value that is set changes the function at one argument.
LEMMA SetMap ==
  ASSUME IInv, touched = {}, NEW e \in Entry, NEW v \in Value,
         entries' = [entries EXCEPT ![e].value = v], UNCHANGED content
  PROVE  /\ AbstractMap' = [AbstractMap EXCEPT ![content[entries[e].key]] = v]
         /\ \A es \in SUBSET Entry : {content'[entries'[f].key] : f \in es} = KeysOf(es)
<1>1. /\ Entry' = Entry
      /\ \A f \in Entry : entries'[f].key = entries[f].key
      /\ \A f \in Entry : entries'[f].value = IF f = e THEN v ELSE entries[f].value
  BY ValueChanged DEF IInv, SameRows
<1>2. \A c : Holding(c)' = Holding(c)
  BY <1>1 DEF Holding
<1> DEFINE k == content[entries[e].key]
<1>3. k \in Content /\ Holding(k) = {e}
  BY ContentOf, OneHolds
<1> HIDE DEF k
<1>4. ASSUME NEW c \in Content
      PROVE  AbstractMap'[c] = IF c = k THEN v ELSE AbstractMap[c]
  <2>0. AbstractMap'[c] = IF Holding(c)' = {} THEN NoValue
                          ELSE entries'[CHOOSE f \in Holding(c)' : TRUE].value
    BY DEF AbstractMap
  <2>1. AbstractMap'[c] = IF Holding(c) = {} THEN NoValue
                          ELSE entries'[CHOOSE f \in Holding(c) : TRUE].value
    BY <1>2, <2>0
  <2>2. CASE c = k
    BY <1>1, <1>3, <2>1, <2>2
  <2>3. CASE c # k /\ Holding(c) # {}
    <3> DEFINE g == CHOOSE f \in Holding(c) : TRUE
    <3>1. g \in Entry /\ content[entries[g].key] = c
      BY <2>3 DEF Holding
    <3>2. g # e
      BY <3>1, <2>3 DEF k
    <3> QED BY <1>1, <2>1, <2>3, <3>1, <3>2 DEF AbstractMap
  <2>4. CASE c # k /\ Holding(c) = {}
    BY <2>1, <2>4 DEF AbstractMap
  <2> QED BY <2>2, <2>3, <2>4
<1>5. AbstractMap' = [AbstractMap EXCEPT ![k] = v]
  <2>1. [AbstractMap EXCEPT ![k] = v] = [c \in Content |-> IF c = k THEN v ELSE AbstractMap[c]]
    BY MapIsFunction, ExceptPoint
  <2> QED BY <1>4, <2>1, MapIsFunction
<1>6. \A es \in SUBSET Entry : {content'[entries'[f].key] : f \in es} = KeysOf(es)
  BY <1>1 DEF KeysOf
<1> QED BY <1>5, <1>6 DEF k

\* An entry that is added adds an argument to the function.
LEMMA AddMap ==
  ASSUME TableAssumption, IInv, touched = {}, ~Idle, call.entry = 0, NEW v \in Value,
         Add(call.key, v), UNCHANGED content
  PROVE  /\ AbstractMap' = [AbstractMap EXCEPT ![content[call.key]] = v]
         /\ \A es \in SUBSET Entry : {content'[entries'[f].key] : f \in es} = KeysOf(es)
         /\ \A f \in Entry : entries'[f].key = entries[f].key
<1> DEFINE new == Len(entries) + 1
           k == content[call.key]
<1>1. /\ Entry' = Entry \cup {new} /\ new \notin Entry
      /\ \A e \in Entry : entries'[e] = entries[e]
      /\ entries'[new].key = call.key /\ entries'[new].value = v
  <2>1. Typed /\ call.key \in Key
    BY DEF IInv, Typed, CallType
  <2>2. entries'[new] = [row |-> Row(call.key), key |-> call.key, value |-> v, next |-> table[Row(call.key)]]
    BY <2>1, Added
  <2> QED BY <2>1, <2>2, Added
<1>2. k \in Content
  BY DEF IInv, Typed, CallType
<1>3. \A e \in Entry : content[entries[e].key] # k
  BY NoneEqual DEF Equal
<1> HIDE DEF new
<1>4. \A c : Holding(c)' = IF c = k THEN {new} ELSE Holding(c)
  BY <1>1, <1>3 DEF Holding
<1> HIDE DEF k
<1>5. ASSUME NEW c \in Content
      PROVE  AbstractMap'[c] = IF c = k THEN v ELSE AbstractMap[c]
  <2>1. AbstractMap'[c] = IF Holding(c)' = {} THEN NoValue
                          ELSE entries'[CHOOSE f \in Holding(c)' : TRUE].value
    BY DEF AbstractMap
  <2>2. CASE c = k
    BY <1>1, <1>4, <2>1, <2>2
  <2>3. CASE c # k /\ Holding(c) # {}
    <3> DEFINE g == CHOOSE f \in Holding(c) : TRUE
    <3>1. g \in Entry
      BY <2>3 DEF Holding
    <3>2. AbstractMap'[c] = entries'[g].value
      BY <1>4, <2>1, <2>3
    <3>3. AbstractMap[c] = entries[g].value
      BY <2>3 DEF AbstractMap
    <3> HIDE DEF g
    <3> QED BY <1>1, <2>3, <3>1, <3>2, <3>3
  <2>4. CASE c # k /\ Holding(c) = {}
    BY <1>4, <2>1, <2>4 DEF AbstractMap
  <2> QED BY <2>2, <2>3, <2>4
<1>6. AbstractMap' = [AbstractMap EXCEPT ![k] = v]
  <2>1. [AbstractMap EXCEPT ![k] = v] = [c \in Content |-> IF c = k THEN v ELSE AbstractMap[c]]
    BY MapIsFunction, ExceptPoint
  <2> QED BY <1>5, <2>1, MapIsFunction
<1>7. \A es \in SUBSET Entry : {content'[entries'[f].key] : f \in es} = KeysOf(es)
  BY <1>1 DEF KeysOf
<1> QED BY <1>1, <1>6, <1>7 DEF k

AbstractAt == IF cursor = 0 THEN NoContent ELSE content[entries[cursor].key]

\* The loop of the function where the entries of the table's loop keep their keys.
LEMMA LoopMapped ==
  ASSUME IInv, UNCHANGED loop,
         \A es \in SUBSET Entry : {content'[entries'[e].key] : e \in es} = KeysOf(es),
         \A e \in Entry : content'[entries'[e].key] = content[entries[e].key]
  PROVE  UNCHANGED <<AbstractAt, KeysOf(present), KeysOf(given)>>
<1>1. present \in SUBSET Entry /\ given \in SUBSET Entry /\ (cursor # 0 => cursor \in Entry)
  BY DEF IInv, Typed, Entry
<1>2. KeysOf(present)' = KeysOf(present) /\ KeysOf(given)' = KeysOf(given)
  BY <1>1 DEF KeysOf, loop
<1>3. AbstractAt' = AbstractAt
  BY <1>1 DEF AbstractAt, loop
<1> QED BY <1>2, <1>3

\* Steps the function does not see.
LEMMA StutterMapped ==
  ASSUME IInv, UNCHANGED <<entries, out, loop>>,
         \A e \in Entry : content'[entries[e].key] = content[entries[e].key]
  PROVE  UNCHANGED <<AbstractMap, AbstractAt, KeysOf(present), KeysOf(given), out>>
BY SameMap, LoopMapped

LEMMA MatchesMapped ==
  ASSUME TableAssumption, IInv, touched = {}, Matches
  PROVE  \/ \E c \in Content, default \in {"default", "error"} : Abstract!Find(c, default)
         \/ \E c \in Content, v \in Value : Abstract!Enter(c, v)
<1> DEFINE e == call.entry
           c == content[call.key]
<1>1. /\ e \in Entry /\ call.key \in Key /\ c \in Content /\ content[entries[e].key] = c
      /\ UNCHANGED <<content, loop>>
  BY DEF Matches, Typed, IInv, Entry, CallType, Equal
<1>2. AbstractMap[c] = entries[e].value /\ c \in KeysOf(Entry)
  BY <1>1, OneHolds DEF KeysOf
<1>3. CASE call.op = "element" /\ out' = <<call.op, entries[e].value>> /\ UNCHANGED entries
  <2>1. UNCHANGED <<AbstractMap, AbstractAt, KeysOf(present), KeysOf(given)>>
    BY <1>1, <1>3, SameMap, LoopMapped
  <2>2. c \in Abstract!Keys
    BY <1>2, KeysAreContents
  <2>3. out' = <<"element", IF c \in Abstract!Keys THEN AbstractMap[c] ELSE "error">>
    BY <1>2, <1>3, <2>2
  <2> HIDE DEF c
  <2>4. Abstract!Find(c, "error")
    BY <2>1, <2>3 DEF Abstract!Find, AbstractAt
  <2> QED BY <1>1, <2>4
<1>4. CASE /\ call.op = "element-setter" /\ out' = <<call.op, "unspecified">>
           /\ entries' = [entries EXCEPT ![e].value = call.arg]
  <2>1. call.arg \in Value
    BY <1>4 DEF IInv, Typed
  <2>2. /\ AbstractMap' = [AbstractMap EXCEPT ![c] = call.arg]
        /\ \A es \in SUBSET Entry : {content'[entries'[f].key] : f \in es} = KeysOf(es)
    BY <1>1, <1>4, <2>1, SetMap
  <2>3. \A f \in Entry : content'[entries'[f].key] = content[entries[f].key]
    BY <1>1, <1>4, <2>1, ValueChanged DEF IInv, SameRows
  <2>4. UNCHANGED <<AbstractAt, KeysOf(present), KeysOf(given)>>
    BY <1>1, <2>2, <2>3, LoopMapped
  <2> HIDE DEF c
  <2>5. Abstract!Enter(c, call.arg)
    BY <1>4, <2>2, <2>4 DEF Abstract!Enter, AbstractAt
  <2> QED BY <1>1, <2>1, <2>5
<1> QED BY <1>3, <1>4 DEF Matches, Done

LEMMA MissesMapped ==
  ASSUME TableAssumption, IInv, touched = {}, Misses
  PROVE  \/ \E c \in Content, default \in {"default", "error"} : Abstract!Find(c, default)
         \/ \E c \in Content, v \in Value : Abstract!Enter(c, v)
<1> DEFINE c == content[call.key]
<1>1. /\ ~Idle /\ call.entry = 0 /\ call.key \in Key /\ c \in Content
      /\ UNCHANGED <<content, loop>>
  BY DEF Misses, Typed, IInv, CallType
<1>2. CASE call.op = "element" /\ out' = <<call.op, call.arg>> /\ UNCHANGED entries
  <2>1. UNCHANGED <<AbstractMap, AbstractAt, KeysOf(present), KeysOf(given)>>
    BY <1>1, <1>2, SameMap, LoopMapped
  <2>2. c \notin Abstract!Keys
    <3>1. \A e \in Entry : content[entries[e].key] # c
      BY <1>1, NoneEqual DEF Equal
    <3> QED BY <3>1, KeysAreContents DEF KeysOf
  <2>3. call.arg \in {"default", "error"}
    BY <1>2 DEF IInv, Typed, Default
  <2>4. out' = <<"element", IF c \in Abstract!Keys THEN AbstractMap[c] ELSE call.arg>>
    BY <1>2, <2>2
  <2> HIDE DEF c
  <2>5. Abstract!Find(c, call.arg)
    BY <2>1, <2>4 DEF Abstract!Find, AbstractAt
  <2> QED BY <1>1, <2>3, <2>5
<1>3. CASE call.op = "element-setter" /\ out' = <<call.op, "unspecified">> /\ Add(call.key, call.arg)
  <2>1. call.arg \in Value
    BY <1>3 DEF IInv, Typed
  <2>2. /\ AbstractMap' = [AbstractMap EXCEPT ![c] = call.arg]
        /\ \A es \in SUBSET Entry : {content'[entries'[f].key] : f \in es} = KeysOf(es)
        /\ \A f \in Entry : entries'[f].key = entries[f].key
    BY <1>1, <1>3, <2>1, AddMap
  <2>3. UNCHANGED <<AbstractAt, KeysOf(present), KeysOf(given)>>
    BY <1>1, <2>2, LoopMapped
  <2> HIDE DEF c
  <2>4. Abstract!Enter(c, call.arg)
    BY <1>3, <2>2, <2>3 DEF Abstract!Enter, AbstractAt
  <2> QED BY <1>1, <2>1, <2>4
<1> QED BY <1>2, <1>3 DEF Misses, Done

\* A loop that comes to an entry gives its key.
LEMMA ArriveMapped ==
  ASSUME TableAssumption, IInv, touched = {}, NEW e, NEW before \in SUBSET Entry,
         Arrive(e, before), present' \in SUBSET Entry,
         \/ e = 0 /\ present' \subseteq before
         \/ e \in Entry /\ e \notin before
  PROVE  /\ Abstract!Give(KeysOf(before))
         /\ KeysOf(present)' = {content[entries[p].key] : p \in present'}
<1>1. /\ UNCHANGED <<entries, content, out>> /\ cursor' = e
      /\ given' = IF e = 0 THEN before ELSE before \cup {e}
  BY DEF Arrive
<1>2. AbstractMap' = AbstractMap
  BY <1>1, SameMap
<1>3. KeysOf(present)' = {content[entries[p].key] : p \in present'}
  BY <1>1 DEF KeysOf
<1>4. KeysOf(given)' = {content[entries[p].key] : p \in given'}
  BY <1>1 DEF KeysOf
<1>5. CASE e = 0 /\ present' \subseteq before
  <2>1. KeysOf(given)' = KeysOf(before) /\ KeysOf(present)' \subseteq KeysOf(before)
    BY <1>1, <1>3, <1>4, <1>5 DEF KeysOf
  <2>2. AbstractAt' = NoContent
    BY <1>1, <1>5 DEF AbstractAt
  <2> QED BY <1>1, <1>2, <1>3, <2>1, <2>2 DEF Abstract!Give, AbstractAt
<1>6. CASE e \in Entry /\ e \notin before
  <2>1. e # 0
    BY <1>6 DEF Entry
  <2> DEFINE c == content[entries[e].key]
  <2>2. c \in KeysOf(Entry) /\ c \notin KeysOf(before)
    BY <1>6 DEF KeysOf, IInv, Distinct, Equal
  <2>3. AbstractAt' = c /\ KeysOf(given)' = KeysOf(before) \cup {c}
    BY <1>1, <1>4, <2>1 DEF AbstractAt, KeysOf
  <2>4. c \in Abstract!Keys
    BY <2>2, KeysAreContents
  <2> HIDE DEF c
  <2> QED BY <1>1, <1>2, <1>3, <2>2, <2>3, <2>4 DEF Abstract!Give, AbstractAt
<1> QED BY <1>5, <1>6

LEMMA InitialStateMapped ==
  ASSUME TableAssumption, IInv, touched = {}, InitialState
  PROVE  Abstract!StartLoop
<1>1. present' = Entry /\ Arrive(HeadFrom(0), {})
  BY DEF InitialState
<1>2. \/ /\ HeadFrom(0) = 0
         /\ \A p \in Entry : entries[p].row < 0
      \/ HeadFrom(0) \in Entry
  BY HeadIsFirst DEF IInv
<1>3. \A p \in Entry : ~(entries[p].row < 0)
  <2> TAKE p \in Entry
  <2>1. entries[p].row \in Rows
    BY EntryFields DEF IInv
  <2> QED BY <2>1 DEF Rows
<1>4. \/ HeadFrom(0) = 0 /\ present' \subseteq {}
      \/ HeadFrom(0) \in Entry /\ HeadFrom(0) \notin {}
  BY <1>1, <1>2, <1>3
<1>5. Abstract!Give(KeysOf({})) /\ KeysOf(present)' = KeysOf(Entry)
  <2>1. {} \in SUBSET Entry /\ present' \in SUBSET Entry
    BY <1>1
  <2>2. /\ Abstract!Give(KeysOf({}))
        /\ KeysOf(present)' = {content[entries[p].key] : p \in present'}
    BY <1>1, <1>4, <2>1, ArriveMapped
  <2>3. {content[entries[p].key] : p \in present'} = KeysOf(Entry)
    BY <1>1 DEF KeysOf
  <2> QED BY <2>2, <2>3
<1>6. KeysOf({}) = {}
  BY DEF KeysOf
<1> QED BY <1>5, <1>6, KeysAreContents DEF Abstract!StartLoop

LEMMA NextStateMapped ==
  ASSUME TableAssumption, IInv, touched = {}, NextState
  PROVE  Abstract!NextRound
<1>1. present' = present /\ Arrive(After(cursor), given) /\ cursor # 0 /\ cursor \in Entry
  BY DEF NextState, IInv, Typed, Entry
<1>2. given \in SUBSET Entry /\ present' \in SUBSET Entry
  BY <1>1 DEF IInv, Typed
<1>3. \/ After(cursor) = 0 /\ present' \subseteq given
      \/ After(cursor) \in Entry /\ After(cursor) \notin given
  <2>1. \A e \in Entry : ~Ahead(e, e)
    <3> TAKE e \in Entry
    <3>1. e \in Nat /\ entries[e].row \in Int
      BY EntryFields DEF IInv
    <3> QED BY <3>1 DEF Ahead
  <2> QED BY <1>1, <2>1, NextIsAhead
<1>4. Abstract!Give(KeysOf(given)) /\ KeysOf(present)' = KeysOf(present)
  <2>1. /\ Abstract!Give(KeysOf(given))
        /\ KeysOf(present)' = {content[entries[p].key] : p \in present'}
    BY <1>1, <1>2, <1>3, ArriveMapped
  <2>2. {content[entries[p].key] : p \in present'} = KeysOf(present)
    BY <1>1 DEF KeysOf
  <2> QED BY <2>1, <2>2
<1>5. AbstractAt # NoContent
  BY <1>1, ContentOf DEF AbstractAt, TableAssumption
<1> QED BY <1>4, <1>5 DEF Abstract!NextRound, AbstractAt

LEMMA CurrentMapped ==
  ASSUME TableAssumption, IInv, touched = {}, cursor # 0
  PROVE  /\ CurrentElement => Abstract!Current
         /\ \A v \in Value : CurrentElementSetter(v) => Abstract!CurrentSetter(v)
<1>1. cursor \in Entry
  BY DEF IInv, Typed, Entry
<1>2. /\ AbstractAt # NoContent /\ AbstractAt = content[entries[cursor].key]
      /\ AbstractMap[AbstractAt] = entries[cursor].value
  BY <1>1, ContentOf, OneHolds DEF AbstractAt, TableAssumption
<1>3. ASSUME CurrentElement PROVE Abstract!Current
  <2>1. UNCHANGED <<entries, content, loop>> /\ out' = <<"current-element", entries[cursor].value>>
    BY <1>3 DEF CurrentElement
  <2>2. UNCHANGED <<AbstractMap, AbstractAt, KeysOf(present), KeysOf(given)>>
    BY <2>1, SameMap, LoopMapped
  <2> QED BY <1>2, <2>1, <2>2 DEF Abstract!Current, AbstractAt
<1>4. ASSUME NEW v \in Value, CurrentElementSetter(v) PROVE Abstract!CurrentSetter(v)
  <2>1. /\ entries' = [entries EXCEPT ![cursor].value = v] /\ UNCHANGED <<content, loop>>
        /\ out' = <<"current-element-setter", "unspecified">>
    BY <1>4 DEF CurrentElementSetter
  <2>2. /\ AbstractMap' = [AbstractMap EXCEPT ![AbstractAt] = v]
        /\ \A es \in SUBSET Entry : {content'[entries'[f].key] : f \in es} = KeysOf(es)
    BY <1>1, <1>2, <2>1, SetMap
  <2>3. \A f \in Entry : content'[entries'[f].key] = content[entries[f].key]
    BY <1>1, <2>1, ValueChanged DEF IInv, SameRows
  <2>4. UNCHANGED <<AbstractAt, KeysOf(present), KeysOf(given)>>
    BY <2>1, <2>2, <2>3, LoopMapped
  <2> QED BY <1>2, <2>1, <2>2, <2>4 DEF Abstract!CurrentSetter, AbstractAt
<1> QED BY <1>3, <1>4

LEMMA StepMapped ==
  ASSUME TableAssumption, IInv, [Next]_vars
  PROVE  [Abstract!ANext]_(Abstract!avars)
<1>1. CASE touched' # {}
  BY <1>1 DEF Abstract!ANext
<1>2. CASE touched' = {}
  <2>1. touched = {}
    BY <1>2 DEF Next, vars, Element, ElementSetter, Search, Passes, Matches, Misses, Change,
                InitialState, NextState, Arrive, CurrentElement, CurrentElementSetter
  <2>2. SUFFICES
          \/ UNCHANGED <<AbstractMap, AbstractAt, KeysOf(present), KeysOf(given), out>>
          \/ Abstract!Promised
    BY <1>2, <2>1 DEF Abstract!ANext, Abstract!avars, AbstractAt
  <2>3. CASE UNCHANGED vars
    BY <2>3, StutterMapped DEF vars, loop
  <2>4. ASSUME NEW op, NEW k, NEW arg, Search(op, k, arg)
        PROVE  UNCHANGED <<AbstractMap, AbstractAt, KeysOf(present), KeysOf(given), out>>
    BY <2>4, StutterMapped DEF Search
  <2>5. CASE Passes
    BY <2>5, StutterMapped DEF Passes
  <2>6. CASE Matches
    BY <2>1, <2>6, MatchesMapped DEF Abstract!Promised
  <2>7. CASE Misses
    BY <2>1, <2>7, MissesMapped DEF Abstract!Promised
  <2>8. ASSUME NEW k \in Key, NEW c \in Content, Change(k, c)
        PROVE  UNCHANGED <<AbstractMap, AbstractAt, KeysOf(present), KeysOf(given), out>>
    <3>1. UNCHANGED <<entries, out, loop>> /\ content' = [content EXCEPT ![k] = c]
      BY <2>8 DEF Change
    <3>2. \A e \in Entry : entries[e].key # k
      BY <1>2, <2>8 DEF Change
    <3>3. \A e \in Entry : content'[entries[e].key] = content[entries[e].key]
      BY <3>1, <3>2, EntryFields DEF IInv, Typed
    <3> QED BY <3>1, <3>3, StutterMapped
  <2>9. CASE InitialState
    BY <2>1, <2>9, InitialStateMapped DEF Abstract!Promised
  <2>10. CASE NextState
    BY <2>1, <2>10, NextStateMapped DEF Abstract!Promised
  <2>11. CASE CurrentElement
    <3>1. cursor # 0
      BY <2>11 DEF CurrentElement
    <3> QED BY <2>1, <2>11, <3>1, CurrentMapped DEF Abstract!Promised
  <2>12. ASSUME NEW v \in Value, CurrentElementSetter(v) PROVE Abstract!Promised
    <3>1. cursor # 0
      BY <2>12 DEF CurrentElementSetter
    <3> QED BY <2>1, <2>12, <3>1, CurrentMapped DEF Abstract!Promised
  <2> QED BY <2>3, <2>4, <2>5, <2>6, <2>7, <2>8, <2>9, <2>10, <2>11, <2>12
          DEF Next, Element, ElementSetter
<1> QED BY <1>1, <1>2

LEMMA InitMapped ==
  ASSUME TableAssumption, Init
  PROVE  Abstract!AInit
<1>1. Entry = {}
  BY DEF Init, Entry
<1>2. \A c : Holding(c) = {}
  BY <1>1 DEF Holding
<1>3. AbstractMap = [c \in Content |-> NoValue]
  BY <1>2 DEF AbstractMap
<1>4. KeysOf({}) = {}
  BY DEF KeysOf
<1> QED BY <1>3, <1>4 DEF Init, Abstract!AInit

\* A table is a function from the contents of keys to values, and its loop gives each of the
\* keys once, as long as no key in the table is changed (table.c).
THEOREM TableImplements == Spec => Implements
<1>1. Init => Abstract!AInit
  BY InitMapped, TableAssumption
<1>2. IInv /\ [Next]_vars => [Abstract!ANext]_(Abstract!avars)
  BY StepMapped, TableAssumption
<1> QED BY <1>1, <1>2, InvariantHolds, PTL DEF Spec, Implements, Abstract!ASpec
=============================================================================
