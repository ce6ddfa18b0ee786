----------------------------- MODULE TableSpec -----------------------------
(***************************************************************************)
(* What an <object-table> promises: a partial function from the contents   *)
(* of keys to values, and a loop over it that gives each key once.  Table  *)
(* has the rows and entries table.c keeps instead.                         *)
(*                                                                         *)
(* A program that changes the contents of a key which is in the table is   *)
(* promised nothing (loose).                                               *)
(***************************************************************************)

CONSTANTS
  Content,    \* what keys are compared by
  Value,
  NoValue,    \* stands for no entry
  NoContent   \* stands for no key

VARIABLES
  map,    \* the value of each content
  at,     \* the key the loop is at
  due,    \* the keys that were there when the loop began
  given,  \* the keys the loop has given
  loose,
  out     \* the last operation, and what it gave

avars == <<map, at, due, given, loose, out>>

Keys == {c \in Content : map[c] # NoValue}

AInit ==
  /\ map = [c \in Content |-> NoValue]
  /\ at = NoContent /\ due = {} /\ given = {}
  /\ loose = FALSE
  /\ out = <<"make", "table">>

Find(c, default) ==
  /\ out' = <<"element", IF c \in Keys THEN map[c] ELSE default>>
  /\ UNCHANGED <<map, at, due, given>>

Enter(c, v) ==
  /\ map' = [map EXCEPT ![c] = v]
  /\ out' = <<"element-setter", "unspecified">>
  /\ UNCHANGED <<at, due, given>>

\* The loop comes to a key not given before, or ends when all due have been.
Give(before) ==
  /\ \/ at' = NoContent /\ given' = before /\ due' \subseteq given'
     \/ at' \in Keys \ before /\ given' = before \cup {at'}
  /\ UNCHANGED <<map, out>>

StartLoop == due' = Keys /\ Give({})
NextRound == at # NoContent /\ due' = due /\ Give(given)

Current ==
  /\ at # NoContent
  /\ out' = <<"current-element", map[at]>>
  /\ UNCHANGED <<map, at, due, given>>

CurrentSetter(v) ==
  /\ at # NoContent
  /\ map' = [map EXCEPT ![at] = v]
  /\ out' = <<"current-element-setter", "unspecified">>
  /\ UNCHANGED <<at, due, given>>

Promised ==
  \/ \E c \in Content, default \in {"default", "error"} : Find(c, default)
  \/ \E c \in Content, v \in Value : Enter(c, v)
  \/ StartLoop \/ NextRound
  \/ Current
  \/ \E v \in Value : CurrentSetter(v)

ANext ==
  \/ loose'
  \/ ~loose /\ ~loose' /\ Promised

ASpec == AInit /\ [][ANext]_avars
=============================================================================
