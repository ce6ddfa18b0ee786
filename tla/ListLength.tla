----------------------------- MODULE ListLength -----------------------------
(***************************************************************************)
(* The length of a list (list_length, list.c:375).  It is found without a  *)
(* count of the pairs there are and without a mark in them: the tails are  *)
(* turned round one by one, until the walk is at the end, or back at the   *)
(* head of a list with a cycle; then they are turned round once more.      *)
(* Until that is done no list that shares a pair with this one is whole.   *)
(***************************************************************************)
EXTENDS Heap

VARIABLES
  heap,
  lst,        \* the argument
  fore,       \* fore_list: what is still to be turned
  back,       \* back_list: what was turned last
  len,
  phase,      \* "idle", "forth", "back", "done"
  before      \* history: the heap when the call began

lvars == <<heap, lst, fore, back, len, phase, before>>

LengthInit ==
  /\ heap \in Seq(Pair) /\ before = heap
  /\ lst = Nil /\ fore = Nil /\ back = Nil
  /\ len = 0 /\ phase = "idle"

Free == phase \in {"idle", "done"}

\* The two lists that need no walk.
Short(l) ==
  /\ Free
  /\ \/ EMPTYLISTP(l) /\ len' = 0
     \/ PAIRP(heap, l) /\ CDR(heap, l) = l /\ len' = -1
  /\ lst' = l /\ before' = heap /\ phase' = "done"
  /\ UNCHANGED <<heap, fore, back>>

Begin(l) ==
  /\ Free
  /\ PAIRP(heap, l) /\ CDR(heap, l) # l
  /\ len' = 1
  /\ back' = l /\ fore' = CDR(heap, l)
  /\ heap' = [heap EXCEPT ![l].cdr = Nil]
  /\ lst' = l /\ before' = heap /\ phase' = "forth"

\* The first loop.
TurnForth ==
  /\ phase = "forth" /\ PAIRP(heap, fore)
  /\ heap' = [heap EXCEPT ![fore].cdr = back]
  /\ back' = fore /\ fore' = CDR(heap, fore)
  /\ len' = len + 1
  /\ UNCHANGED <<lst, phase, before>>

\* Slip: a walk that came back to the head is not told from one that ended.
JudgeAsEnded ==
  /\ phase = "forth" /\ ~PAIRP(heap, fore)
  /\ phase' = "back"
  /\ UNCHANGED <<heap, lst, fore, back, len, before>>

Judge ==
  /\ phase = "forth" /\ ~PAIRP(heap, fore)
  /\ len' = IF back = lst /\ PAIRP(heap, CDR(heap, back)) THEN -1 ELSE len
  /\ phase' = "back"
  /\ UNCHANGED <<heap, lst, fore, back, before>>

\* Slip: the pair is turned and the walk stays at it.
TurnBackStays ==
  /\ phase = "back" /\ PAIRP(heap, back)
  /\ heap' = [heap EXCEPT ![back].cdr = fore]
  /\ fore' = back
  /\ UNCHANGED <<back, lst, len, phase, before>>

\* The second loop.
TurnBack ==
  /\ phase = "back" /\ PAIRP(heap, back)
  /\ heap' = [heap EXCEPT ![back].cdr = fore]
  /\ fore' = back /\ back' = CDR(heap, back)
  /\ UNCHANGED <<lst, len, phase, before>>

\* Slip: the second loop ends at the head.
ReturnAtHead ==
  /\ phase = "back" /\ back = lst
  /\ phase' = "done"
  /\ UNCHANGED <<heap, lst, fore, back, len, before>>

Return ==
  /\ phase = "back" /\ ~PAIRP(heap, back)
  /\ phase' = "done"
  /\ UNCHANGED <<heap, lst, fore, back, len, before>>

LengthStep == TurnForth \/ Judge \/ TurnBack \/ Return

\* Whatever else the program does with pairs, it does between two calls.
Elsewhere ==
  /\ Free
  /\ heap' \in Seq(Pair) /\ before' = heap'
  /\ phase' = "idle"
  /\ UNCHANGED <<lst, fore, back, len>>

LengthNext == Elsewhere \/ LengthStep \/ \E l \in Object : Short(l) \/ Begin(l)
LengthSpec == LengthInit /\ [][LengthNext]_lvars

\* A call leaves every pair as it found it: the pairs of lists that end in the empty list, of
\* lists that end in something else, of lists that come back to their head and of lists that
\* run into a cycle further on.
HeapRestored == phase = "done" => heap = before
=============================================================================
