------------------------------ MODULE Divergence ------------------------------
(***************************************************************************)
(* The expressions for which Forms and LexicalScope are known to differ,   *)
(* by their text alone.  Two things go wrong with scopes:                  *)
(*                                                                         *)
(*  - the first clause of case and select leaves its entry on              *)
(*    binding_stack (dylan.y:471-483, 544-556).  Each body around takes    *)
(*    the entry inside it for its own (dylan.y:216), and leaves a wrong    *)
(*    number of scopes unless all these numbers are the same;              *)
(*  - for-each that is ended by its test and has no result forms does not  *)
(*    leave its scope (syntax.c:1613).                                     *)
(*                                                                         *)
(* The others give a wrong value or error: some clauses of for, a #rest    *)
(* variable of let, and defaults of keyword parameters.                    *)
(***************************************************************************)
EXTENDS LexicalScope

\* The expressions e is made of, its bodies, and its clauses.
Operands(e) ==
  CASE e[1] = "set!" -> {e[3]}
    [] e[1] \in {"call", "and", "or"} -> Range(e[2])
    [] e[1] \in {"if", "unless", "while", "until"} -> {e[2]}
    [] e[1] = "select" -> {e[2], e[3]}
    [] e[1] = "for"    -> UNION {Range(c.exprs) : c \in Range(e[2])} \cup {e[3]}
    [] e[1] = "method" -> {k.default : k \in Range(e[2].keys)}
    [] e[1] = "let"    -> {e[4]}
    [] e[1] = "local"  -> {<<"method", f.params, f.body>> : f \in Range(e[2])}
    [] OTHER -> {}

Bodies(e) ==
  CASE e[1] = "begin" -> {e[2]}
    [] e[1] \in {"unless", "while", "until", "method"} -> {e[3]}
    [] e[1] = "if"  -> {e[3], e[4]}
    [] e[1] = "for" -> {e[4], e[5]}
    [] OTHER -> {}

ClausesOf(e) ==
  CASE e[1] = "case" -> e[2] [] e[1] = "select" -> e[4] [] OTHER -> <<>>

RECURSIVE Within(_), Miscounts(_, _), MiscountsBody(_, _)

Parts(e) == Operands(e) \cup UNION {Range(b) : b \in Bodies(e)}
              \cup UNION {Range(c.label) \cup Range(c.body) : c \in Range(ClausesOf(e))}

\* e and all expressions in it.
Within(e) == {e} \cup UNION {Within(p) : p \in Parts(e)}

\* How many scopes the declarations of a body enter, and those before its ith constituent.
Declared(b)     == Len(SelectSeq(b, LAMBDA e : e[1] \in {"let", "local"}))
DeclaredTo(i, b) == Declared(SubSeq(b, 1, i - 1))

\* around: the numbers of scopes the bodies around have entered so far.
MiscountsBody(b, around) ==
  \E i \in DOMAIN b : Miscounts(b[i], around \cup {DeclaredTo(i, b)})

\* The entries of the clauses before the kth one are below its own.
MiscountsClause(cs, k, around) ==
  LET below == around \cup {Declared(cs[j].body) : j \in 1..(k - 1)}
  IN  \/ \E i \in DOMAIN cs[k].label : Miscounts(cs[k].label[i], below)
      \/ MiscountsBody(cs[k].body, below)

\* Some case or select leaves an entry that differs from one below it.
Miscounts(e, around) ==
  LET cs == ClausesOf(e)
  IN  \/ cs # <<>> /\ around \cup {Declared(cs[1].body)} # {Declared(cs[1].body)}
      \/ \E k \in DOMAIN cs : MiscountsClause(cs, k, around)
      \/ \E p \in Operands(e) : Miscounts(p, around)
      \/ \E b \in Bodies(e) : MiscountsBody(b, around)

\* for-each without result forms, and with a test.
Unpopped(e) ==
  e[1] = "core" /\ e[2][1] = "for-each" /\ e[2][5] = <<>> /\ e[2][4] # Literal(False)

\* Clauses of for whose variable is given the empty list between two rounds, whose bound is
\* evaluated in each round, or whose increment stands where a bound should.
UnlikeClause(c) ==
  \/ c.kind = "in" /\ c.var.type # "object"
  \/ c.kind = "range" /\ c.term # "none" /\ c.exprs[2][1] # "literal"
  \/ c.kind = "range" /\ c.term = "none" /\ c.by

\* Of a single value nothing is left for a #rest variable, which is #f then.
UnlikeLet(e) ==
  e[2] # <<>> /\ e[3] # <<>> /\ ~(e[4][1] = "call" /\ e[4][2][1] = <<"var", "values">> /\ Len(e[4][2]) > 2)

\* Defaults are evaluated from the last name to the first, and not as they are written.
UnlikeKeys(keys) ==
  \E i, j \in DOMAIN keys :
    /\ i # j
    /\ keys[i].default[1] # "literal"
    /\ keys[i].default[1] = "var" => keys[i].default[2] = keys[j].var.sym

Unlike(e) ==
  CASE e[1] = "for"    -> \E i \in DOMAIN e[2] : UnlikeClause(e[2][i])
    [] e[1] = "let"    -> UnlikeLet(e)
    [] e[1] = "method" -> UnlikeKeys(e[2].keys)
    [] OTHER -> FALSE

\* What goes wrong when p is entered: with scopes, or with values.
Divergences(p) == {d \in {"scopes", "values"} :
                     CASE d = "scopes" -> Miscounts(p, {}) \/ Unpopped(p)
                       [] d = "values" -> \E e \in Within(p) : Unlike(e)}
=============================================================================
