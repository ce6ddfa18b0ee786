------------------------------- MODULE Table -------------------------------
(***************************************************************************)
(* Hash tables (table.c; table.dyl in init.dylan): a fixed number of rows, *)
(* each a list of entries to which new ones are added in front.  No entry  *)
(* is ever removed.  An entry is known by its number, in order of age.     *)
(*                                                                         *)
(* A search compares one entry per step, since `=' is a call into Dylan.   *)
(* Between two operations a program may change the contents of a key, also *)
(* of one in the table: keys are objects, and collections among them are   *)
(* hashed and compared by their elements.  The method cache is a table of  *)
(* vectors and has the same search (table_element_by_vector); it compares  *)
(* elements by identity, and never changes a key.                          *)
(*                                                                         *)
(* One loop over the table may be in progress; its body enters and looks   *)
(* up keys.  given, present and touched are history: the entries the loop  *)
(* has given, those there when it began, and the keys that were changed    *)
(* while in the table.  No operation reads them.                           *)
(***************************************************************************)
EXTENDS Integers, Sequences, FiniteSets

CONSTANTS
  Key,         \* objects used as keys
  Content,     \* what they consist of, as far as = tells
  hash,        \* equal_hash of each content
  Mutable,     \* the keys a program changes
  fixed,       \* what the others consist of
  Value,
  NoValue, NoContent,
  Size,        \* the number of rows, DEFAULT_TABLE_SIZE or that given to make
  MaxEntries,  \* bound: entries ever made
  MaxCalls     \* bound: operations in one round of a loop

ASSUME TableAssumption ==
  /\ Key # {} /\ Mutable \subseteq Key
  /\ hash \in [Content -> Int]
  /\ fixed \in [Key -> Content]
  /\ Size \in Nat \ {0} /\ MaxEntries \in Nat /\ MaxCalls \in Nat
  /\ NoValue \notin Value /\ NoContent \notin Content

VARIABLES
  table,    \* TABLETABLE: the first entry of each row, or 0
  entries,  \* [row, key, value, next], the fields of struct table_entry
  content,  \* what each key consists of now
  call,     \* the element or element-setter in progress: its arguments, and the entry looked at
  cursor,   \* the state of the loop: an entry, or 0 when there is none
  calls,    \* operations of this round
  out,      \* the last operation, and what it gave
  given, present, touched

vars    == <<table, entries, content, call, cursor, calls, out, given, present, touched>>
loop    == <<cursor, given, present>>

Rows    == 0..(Size - 1)
Entry   == 1..Len(entries)
Default == {"default", "error"}
NoCall  == [op |-> "none", key |-> CHOOSE k \in Key : TRUE, arg |-> "error", entry |-> 0]
Idle    == call.op = "none"

\* The row of a key: abs of its hash, modulo the size.  make_integer has hashes of the
\* width of an int; INT_MIN, of which abs is undefined, is not among the contents.
Row(k) == (IF hash[content[k]] < 0 THEN -hash[content[k]] ELSE hash[content[k]]) % Size

\* Slip: keys are compared by ==.
Identical(k, l) == k = l

Equal(k, l) == content[k] = content[l]

Init ==
  /\ table = [h \in Rows |-> 0]
  /\ entries = <<>>
  /\ \E f \in [Mutable -> Content] :
       content = [k \in Key |-> IF k \in Mutable THEN f[k] ELSE fixed[k]]
  /\ call = NoCall
  /\ cursor = 0 /\ calls = 0
  /\ out = <<"make", "table">>
  /\ given = {} /\ present = {} /\ touched = {}

----------------------------------------------------------------------------
(* element and element-setter.                                             *)

\* table_element_handle begins at the first entry of the row.
Search(op, k, arg) ==
  /\ Idle
  /\ cursor # 0 => calls < MaxCalls
  /\ calls' = IF cursor = 0 THEN 0 ELSE calls + 1
  /\ call' = [op |-> op, key |-> k, arg |-> arg, entry |-> table[Row(k)]]
  /\ UNCHANGED <<table, entries, content, out, loop, touched>>

Element(k, default) == Search("element", k, default)
ElementSetter(k, v) == Len(entries) < MaxEntries /\ Search("element-setter", k, v)

Done(result) ==
  /\ call' = NoCall
  /\ out' = <<call.op, result>>

\* = gives #f for the entry looked at.
Passes ==
  /\ ~Idle /\ call.entry # 0
  /\ ~Equal(entries[call.entry].key, call.key)
  /\ call' = [call EXCEPT !.entry = entries[@].next]
  /\ UNCHANGED <<table, entries, content, calls, out, loop, touched>>

\* = gives #t: the handle leads to the value.
Matches ==
  /\ ~Idle /\ call.entry # 0
  /\ Equal(entries[call.entry].key, call.key)
  /\ \/ /\ call.op = "element"
        /\ Done(entries[call.entry].value)
        /\ UNCHANGED entries
     \/ /\ call.op = "element-setter"
        /\ Done("unspecified")
        /\ entries' = [entries EXCEPT ![call.entry].value = call.arg]
  /\ UNCHANGED <<table, content, calls, loop, touched>>

\* Slip: the new entry forgets those of its row.
AddBare(k, v) ==
  /\ entries' = Append(entries, [row |-> Row(k), key |-> k, value |-> v, next |-> 0])
  /\ table' = [table EXCEPT ![Row(k)] = Len(entries) + 1]

\* Slip: the row is set before its old first entry is read.
AddCyclic(k, v) ==
  /\ entries' = Append(entries, [row |-> Row(k), key |-> k, value |-> v, next |-> Len(entries) + 1])
  /\ table' = [table EXCEPT ![Row(k)] = Len(entries) + 1]

\* make_table_entry, in front of the row.
Add(k, v) ==
  /\ entries' = Append(entries, [row |-> Row(k), key |-> k, value |-> v, next |-> table[Row(k)]])
  /\ table' = [table EXCEPT ![Row(k)] = Len(entries) + 1]

\* The row is at its end.
Misses ==
  /\ ~Idle /\ call.entry = 0
  /\ \/ /\ call.op = "element"
        /\ Done(call.arg)
        /\ UNCHANGED <<table, entries>>
     \/ /\ call.op = "element-setter"
        /\ Done("unspecified")
        /\ Add(call.key, call.arg)
  /\ UNCHANGED <<content, calls, loop, touched>>

Continue == Passes \/ Matches \/ Misses

\* The program changes a key, such as by push or element-setter.
Change(k, c) ==
  /\ Idle /\ k \in Mutable
  /\ content' = [content EXCEPT ![k] = c]
  /\ touched' = IF \E e \in Entry : entries[e].key = k THEN touched \cup {k} ELSE touched
  /\ UNCHANGED <<table, entries, call, calls, out, loop>>

----------------------------------------------------------------------------
(* Iteration.                                                              *)

\* Slip: the row of the entry is looked at again.
HeadAgain(h) ==
  LET full == {i \in Rows : i >= h - 1 /\ table[i] # 0}
  IN  IF full = {} THEN 0 ELSE table[CHOOSE i \in full : \A j \in full : i <= j]

\* The first entry of the rows from h on; 0 for #f.
HeadFrom(h) ==
  LET full == {i \in Rows : i >= h /\ table[i] # 0}
  IN  IF full = {} THEN 0 ELSE table[CHOOSE i \in full : \A j \in full : i <= j]

\* Slip: the rest of the row is passed over.
AfterRow(e) == HeadFrom(entries[e].row + 1)

After(e) == IF entries[e].next # 0 THEN entries[e].next ELSE HeadFrom(entries[e].row + 1)

\* The loop comes to e, or ends.
Arrive(e, before) ==
  /\ cursor' = e
  /\ given' = IF e = 0 THEN before ELSE before \cup {e}
  /\ calls' = 0
  /\ UNCHANGED <<table, entries, content, call, out, touched>>

\* table_initial_state
InitialState ==
  /\ Idle /\ cursor = 0
  /\ present' = Entry
  /\ Arrive(HeadFrom(0), {})

\* table_next_state
NextState ==
  /\ Idle /\ cursor # 0
  /\ Arrive(After(cursor), given)
  /\ UNCHANGED present

CurrentElement ==
  /\ Idle /\ cursor # 0
  /\ out' = <<"current-element", entries[cursor].value>>
  /\ UNCHANGED <<table, entries, content, call, calls, loop, touched>>

CurrentElementSetter(v) ==
  /\ Idle /\ cursor # 0
  /\ entries' = [entries EXCEPT ![cursor].value = v]
  /\ out' = <<"current-element-setter", "unspecified">>
  /\ UNCHANGED <<table, content, call, calls, loop, touched>>

Next ==
  \/ \E k \in Key, default \in Default : Element(k, default)
  \/ \E k \in Key, v \in Value : ElementSetter(k, v)
  \/ Passes \/ Matches \/ Misses
  \/ \E k \in Key, c \in Content : Change(k, c)
  \/ InitialState \/ NextState
  \/ CurrentElement
  \/ \E v \in Value : CurrentElementSetter(v)

Spec == Init /\ [][Next]_vars

\* A call that has begun goes on, and so does a loop whose body is through: the interpreter
\* has nothing else to do.  A body is through after MaxCalls operations.
FairSpec == Spec /\ WF_vars(Continue) /\ WF_vars(NextState)

----------------------------------------------------------------------------
(* Properties.                                                             *)

\* The rows hold the entries they say, the newest first.
TypeOK ==
  /\ table \in [Rows -> 0..Len(entries)]
  /\ \A e \in Entry :
       /\ entries[e].row \in Rows /\ entries[e].key \in Key /\ entries[e].value \in Value
       /\ entries[e].next \in 0..(e - 1)
  /\ content \in [Key -> Content]
  /\ call.op \in {"none", "element", "element-setter"} /\ call.key \in Key
  /\ call.entry \in 0..Len(entries)
  /\ cursor \in 0..Len(entries) /\ calls \in 0..MaxCalls
  /\ given \subseteq Entry /\ present \subseteq Entry /\ touched \subseteq Key

\* A key that was changed while in the table may be lost (equal_hash, table.c:299), but it
\* takes no other along: no search misses an entry whose own key is as it was entered.
UntouchedFound ==
  [][Misses =>
       \A e \in Entry : entries[e].key \notin touched => ~Equal(entries[e].key, call.key)]_vars

\* A loop gives no entry twice, whatever its body enters and changes (table_next_state).
GivenOnce == [][NextState => cursor' = 0 \/ cursor' \notin given]_vars

\* A loop that is over has given all entries that were there when it began.
AllGiven == cursor = 0 => present \subseteq given

\* A loop ends, even when each round of it enters another key: what is entered goes to the
\* front of a row, and the loop only goes to later entries or later rows.
LoopEnds == cursor # 0 ~> cursor = 0

\* The function a table stands for, and the keys of a set of entries.
Holding(c) == {e \in Entry : content[entries[e].key] = c}
AbstractMap ==
  [c \in Content |-> IF Holding(c) = {} THEN NoValue
                     ELSE entries[CHOOSE e \in Holding(c) : TRUE].value]
KeysOf(es) == {content[entries[e].key] : e \in es}

Abstract == INSTANCE TableSpec WITH
  map   <- AbstractMap,
  at    <- IF cursor = 0 THEN NoContent ELSE content[entries[cursor].key],
  due   <- KeysOf(present),
  given <- KeysOf(given),
  loose <- touched # {}

\* The table implements a function from contents to values, and its loop gives each of the
\* function's arguments once, unless a key was changed while in the table.
Implements == Abstract!ASpec
=============================================================================
