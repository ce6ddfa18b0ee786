------------------------------- MODULE Syntax -------------------------------
(***************************************************************************)
(* The parser's part in the scope of local declarations (dylan.y).         *)
(*                                                                         *)
(* A local declaration takes effect where it stands and enters a scope;    *)
(* the parser counts the declarations of a body, on binding_stack, and     *)
(* has the body leave that many scopes at its end.  Forms are what is      *)
(* parsed: an expression, or a constituent of a body, is a tuple whose     *)
(* first element names its kind; a body is a sequence of constituents.     *)
(* Each rule gives the form the evaluator is handed and the binding_stack  *)
(* it leaves, in the order in which the rules are reduced.                 *)
(***************************************************************************)
EXTENDS Integers, Sequences

Unspecified == <<"values", <<>>>>
Literal(v)  == <<"literal", v>>

push_bindings(stk)      == <<0>> \o stk
pop_bindings(stk)       == Tail(stk)
bindings_top(stk)       == Head(stk)
bindings_increment(stk) == <<Head(stk) + 1>> \o Tail(stk)

RECURSIVE expression(_, _), expressions(_, _), case_tail(_, _), for_clauses(_, _)

\* A body that is not empty: it is given an end of its scopes when it declares something.
nonempty_body(b, stk) ==
  LET r == expressions(b, push_bindings(stk))
      n == bindings_top(r.stk)
  IN  [form |-> IF n > 0 THEN <<"unbinding-begin", n, r.form>>
                ELSE IF Len(r.form) > 1 THEN <<"begin", r.form>>
                ELSE r.form[1],
       stk  |-> pop_bindings(r.stk)]

body(b, stk) ==
  IF b = <<>> THEN [form |-> Literal(Unspecified), stk |-> stk] ELSE nonempty_body(b, stk)

\* The clauses of case and select, at least one.  Each has an entry of its own on
\* binding_stack while its body is parsed; the first one's is left there.
case_clauses(clauses, stk) ==
  LET label == expressions(clauses[1].label, stk)
      own   == expressions(clauses[1].body, push_bindings(label.stk))
      rest  == case_tail(Tail(clauses), own.stk)
  IN  [form |-> <<[label |-> label.form,
                   body  |-> IF own.form = <<>> THEN <<>>
                             ELSE <<<<"unbinding-begin", bindings_top(rest.stk), own.form>>>>]>>
                \o rest.form,
       stk  |-> rest.stk]

\* The clauses after one: the first of them is popped when it is reduced.
case_tail(clauses, stk) ==
  IF clauses = <<>> THEN [form |-> <<>>, stk |-> stk]
  ELSE LET r == case_clauses(clauses, stk) IN [r EXCEPT !.stk = pop_bindings(@)]

\* The rule of the first clause pushes an entry and pops none.
case_body(clauses, stk) ==
  IF clauses = <<>> THEN [form |-> <<>>, stk |-> stk] ELSE case_clauses(clauses, stk)

\* A clause of for: the expressions it has, in the order they are written.
for_clause(c, stk) ==
  LET r == expressions(c.exprs, stk)
  IN  [form |-> [c EXCEPT !.exprs = r.form], stk |-> r.stk]

for_clauses(cs, stk) ==
  IF cs = <<>> THEN [form |-> <<>>, stk |-> stk]
  ELSE LET c    == for_clause(cs[1], stk)
           rest == for_clauses(Tail(cs), c.stk)
       IN  [form |-> <<c.form>> \o rest.form, stk |-> rest.stk]

\* A statement of a test and a body.
test_and_body(e, stk) ==
  LET test == expression(e[2], stk)
      b    == body(e[3], test.stk)
  IN  [form |-> <<e[1], test.form, <<b.form>>>>, stk |-> b.stk]

if_statement(e, stk) ==
  LET test == expression(e[2], stk)
      then == nonempty_body(e[3], test.stk)
      else == nonempty_body(e[4], then.stk)
  IN  [form |-> <<"if", test.form, then.form, else.form>>, stk |-> else.stk]

case_statement(e, stk) ==
  LET r == case_body(e[2], stk) IN [form |-> <<"cond", r.form>>, stk |-> r.stk]

\* select has a target, a test, which is == unless one is written, and clauses.
select_statement(e, stk) ==
  LET target == expression(e[2], stk)
      test   == expression(e[3], target.stk)
      r      == case_body(e[4], test.stk)
  IN  [form |-> <<"select", target.form, test.form, r.form>>, stk |-> r.stk]

for_statement(e, stk) ==
  LET clauses == for_clauses(e[2], stk)
      test    == expression(e[3], clauses.stk)
      b       == body(e[4], test.stk)
      results == IF e[5] = <<>> THEN [form |-> <<>>, stk |-> b.stk]
                 ELSE LET f == body(e[5], b.stk) IN [form |-> <<f.form>>, stk |-> f.stk]
  IN  [form |-> <<"for", clauses.form, test.form, results.form, <<b.form>>>>,
       stk  |-> results.stk]

\* A method: the defaults of its keyword parameters, then its body.
method_definition(params, b, stk) ==
  LET defaults == expressions([i \in DOMAIN params.keys |-> params.keys[i].default], stk)
      r        == body(b, defaults.stk)
      keys     == [i \in DOMAIN params.keys |->
                     [params.keys[i] EXCEPT !.default = defaults.form[i]]]
  IN  [form |-> <<"method", [params EXCEPT !.keys = keys], <<r.form>>>>, stk |-> r.stk]

\* let has variables, perhaps a #rest variable, and an initial value; the methods of a
\* local declaration are the values of one combination.
local_declaration(e, stk) ==
  IF e[1] = "let"
  THEN LET init == expression(e[4], stk)
       IN  [form |-> <<"local-bind", e[2], e[3], init.form>>,
            stk  |-> bindings_increment(init.stk)]
  ELSE LET named == e[2]
           r     == expressions([i \in DOMAIN named |->
                                   <<"method", named[i].params, named[i].body>>], stk)
           vars  == [i \in DOMAIN named |-> [sym |-> named[i].sym, type |-> "object"]]
           init  == <<"call", <<<<"var", "values">>>> \o r.form>>
       IN  [form |-> <<"local-bind-rec", vars, <<>>, init>>,
            stk  |-> bindings_increment(r.stk)]

\* An expression, or any other constituent of a body.  What %eval is given is a form as it
\* stands; with it goes an expression that should mean the same.
expression(e, stk) ==
  CASE e[1] \in {"literal", "var", "bound?"} -> [form |-> e, stk |-> stk]
    [] e[1] = "set!" ->
         LET r == expression(e[3], stk) IN [form |-> <<"set!", e[2], r.form>>, stk |-> r.stk]
    [] e[1] \in {"call", "and", "or"} ->
         LET r == expressions(e[2], stk) IN [form |-> <<e[1], r.form>>, stk |-> r.stk]
    [] e[1] \in {"unless", "while", "until"} -> test_and_body(e, stk)
    [] e[1] = "begin"  -> body(e[2], stk)
    [] e[1] = "if"     -> if_statement(e, stk)
    [] e[1] = "case"   -> case_statement(e, stk)
    [] e[1] = "select" -> select_statement(e, stk)
    [] e[1] = "for"    -> for_statement(e, stk)
    [] e[1] = "method" -> method_definition(e[2], e[3], stk)
    [] e[1] \in {"let", "local"} -> local_declaration(e, stk)
    [] e[1] = "core"   -> [form |-> e[2], stk |-> stk]

\* Constituents, arguments or constants from left to right.
expressions(es, stk) ==
  IF es = <<>> THEN [form |-> <<>>, stk |-> stk]
  ELSE LET first == expression(es[1], stk)
           rest  == expressions(Tail(es), first.stk)
       IN  [form |-> <<first.form>> \o rest.form, stk |-> rest.stk]
=============================================================================
