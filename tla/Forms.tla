-------------------------------- MODULE Forms --------------------------------
(***************************************************************************)
(* Special forms, methods and the environments they are evaluated in       *)
(* (eval.c, syntax.c, apply.c, env.c).                                     *)
(*                                                                         *)
(* The environment is one global, the_env: a chain of frames.  A form that *)
(* needs a scope pushes a frame and has to leave the_env as it found it,   *)
(* by popping as many frames as it pushed, by putting a saved the_env      *)
(* back, or, when its last form is a tail call, by leaving that to the     *)
(* combination the tail call goes back to.                                 *)
(*                                                                         *)
(* The interpreter's state s has the_env (env), all frames ever made, the  *)
(* order in which the compiled map evaluates arguments (ltr), what a local *)
(* variable that is not set holds (garbage), and failed: an error is a     *)
(* longjmp to the prompt, so a failed state is changed by nothing.  Frame  *)
(* 1 is the top level's, and has none behind it: where that one is looked  *)
(* at, the program has crashed.  A form's outcome is a value, a state and, *)
(* for a longjmp to the combination around, the tail call.                 *)
(***************************************************************************)
EXTENDS Syntax, SequencesExt

Integer(n) == <<"integer", n>>
List(seq)  == <<"list", seq>>
True       == <<"boolean", TRUE>>
False      == <<"boolean", FALSE>>
ElseLabel  == <<Literal(<<"keyword", "else:">>)>>

PAIRP(form)   == form[1] \notin {"literal", "var"}
VALUESP(val)  == val[1] = "values"

\* instance, on the types a variable may be declared to have.
instance(val, type) == type = "object" \/ val[1] = type

Returns(val, s)  == [val |-> val, s |-> s, tail |-> <<>>]
marlais_error(s) == Returns(Unspecified, [s EXCEPT !.failed = TRUE])

\* The frame behind the top level's is NULL.
crash(s) == [s EXCEPT !.failed = TRUE, !.crashed = TRUE]

-----------------------------------------------------------------------------
(* Frames and bindings (env.c). *)

push_scope(s) ==
  IF s.env = 0 THEN crash(s)
  ELSE [s EXCEPT !.frames = Append(@, [next |-> s.env, vars |-> <<>>]),
                 !.env    = Len(s.frames) + 1]

pop_scope(s) == IF s.env = 0 THEN crash(s) ELSE [s EXCEPT !.env = s.frames[@].next]

RECURSIVE pop_scopes(_, _)
pop_scopes(n, s) == IF n = 0 \/ s.failed THEN s ELSE pop_scopes(n - 1, pop_scope(s))

\* Slip: the value is entered whatever its type is.
add_bindingAny(var, val, e, s) ==
  IF s.failed THEN s
  ELSE [s EXCEPT !.frames[e].vars = Append(@, [sym |-> var.sym, type |-> var.type, val |-> val])]

\* Enters a variable in frame e, unless its value is not of its type.
add_binding(var, val, e, s) ==
  IF s.failed THEN s
  ELSE IF ~instance(val, var.type) THEN marlais_error(s).s
  ELSE [s EXCEPT !.frames[e].vars = Append(@, [sym |-> var.sym, type |-> var.type, val |-> val])]

RECURSIVE symbol_binding(_, _, _), add_bindings(_, _, _, _)

\* The place of the binding seen from frame e: the first of the nearest frame that has one.
symbol_binding(sym, e, s) ==
  IF e = 0 THEN <<>>
  ELSE LET i == SelectInSeq(s.frames[e].vars, LAMBDA b : b.sym = sym)
       IN  IF i # 0 THEN <<e, i>> ELSE symbol_binding(sym, s.frames[e].next, s)

symbol_value(sym, s) ==
  LET at == symbol_binding(sym, s.env, s)
  IN  IF at = <<>> THEN <<>> ELSE <<s.frames[at[1]].vars[at[2]].val>>

\* An error, unless there is no environment to look in.
unbound(s) == IF s.env = 0 THEN crash(s) ELSE marlais_error(s).s

\* add_bindings, and a loop of add_binding.
add_bindings(vars, vals, e, s) ==
  IF vars = <<>> THEN s
  ELSE add_bindings(Tail(vars), Tail(vals), e, add_binding(vars[1], vals[1], e, s))

\* The type of the variable is not looked at.
change_binding(sym, val, s) ==
  LET at == symbol_binding(sym, s.env, s)
  IN  IF s.failed \/ at = <<>> THEN s ELSE [s EXCEPT !.frames[at[1]].vars[at[2]].val = val]

modify_value(sym, val, s) ==
  LET at == symbol_binding(sym, s.env, s)
  IN  IF s.failed THEN s
      ELSE IF at = <<>> THEN unbound(s)
      ELSE IF ~instance(val, s.frames[at[1]].vars[at[2]].type) THEN marlais_error(s).s
      ELSE [s EXCEPT !.frames[at[1]].vars[at[2]].val = val]

\* Of no values at all the code reads what is behind them.
FIRSTVAL(val, s) ==
  IF ~VALUESP(val) THEN val ELSE IF val[2] = <<>> THEN s.garbage ELSE val[2][1]

\* The first of several values; there has to be one.
devalue(val, s) ==
  IF ~VALUESP(val) THEN Returns(val, s)
  ELSE IF val[2] = <<>> THEN marlais_error(s)
  ELSE Returns(val[2][1], s)

-----------------------------------------------------------------------------
(* Combinations and tail calls (eval.c). *)

RECURSIVE eval(_, _), tail_calls(_), map_eval(_, _), eval_body(_, _, _), eval_each(_, _, _),
          combination(_, _), bind_keywords(_, _, _, _, _), bind_defaults(_, _),
          or_each(_, _), or_rest(_, _), select_label(_, _, _, _), select_clauses(_, _, _, _, _),
          exhausted_from(_, _, _, _, _), for_loop(_, _, _), for_next(_, _),
          for_each_loop(_, _, _), for_each_next(_, _, _)

\* The outcome when the tail call r ends in has been made, and those that one ends in.
tail_calls(r) == IF r.tail = <<>> THEN r ELSE tail_calls(combination(r.tail[1], r.s))

\* The environment is put back only when there has been a tail call.
after_tail_calls(r, env) == IF r.tail = <<>> THEN r ELSE [tail_calls(r) EXCEPT !.s.env = env]

\* Slip: the environment of the last tail call is left in place.
eval_combinationKeeps(form, s) == tail_calls(combination(form, s))

eval_combination(form, s) == after_tail_calls(combination(form, s), s.env)

eval(form, s) ==
  IF s.failed THEN Returns(Unspecified, s)
  ELSE IF form[1] = "literal" THEN Returns(form[2], s)
  ELSE IF form[1] = "var"
  THEN LET val == symbol_value(form[2], s)
       IN  IF val = <<>> THEN Returns(Unspecified, unbound(s)) ELSE Returns(val[1], s)
  ELSE eval_combination(form, s)

\* A pair is not evaluated here: longjmp takes it to the combination in progress.
tail_eval(form, s) ==
  IF PAIRP(form) /\ ~s.failed THEN [val |-> Unspecified, s |-> s, tail |-> <<form>>]
  ELSE eval(form, s)

\* The last form is a tail call.
eval_body(forms, null, s) ==
  IF forms = <<>> THEN Returns(null, s)
  ELSE IF Len(forms) = 1 THEN tail_eval(forms[1], s)
  ELSE eval_body(Tail(forms), null, eval(forms[1], s).s)

\* The loops over a body that make no tail call.
eval_each(forms, null, s) ==
  IF forms = <<>> THEN Returns(null, s)
  ELSE LET r == eval(forms[1], s) IN eval_each(Tail(forms), r.val, r.s)

\* map(eval, forms): cons(eval(first), map(eval, rest)), in the order the compiler chose.
map_eval(forms, s) ==
  IF forms = <<>> THEN [val |-> <<>>, s |-> s]
  ELSE IF s.ltr
  THEN LET first == eval(forms[1], s)
           rest  == map_eval(Tail(forms), first.s)
       IN  [val |-> <<first.val>> \o rest.val, s |-> rest.s]
  ELSE LET rest  == map_eval(Tail(forms), s)
           first == eval(forms[1], rest.s)
       IN  [val |-> <<first.val>> \o rest.val, s |-> first.s]

-----------------------------------------------------------------------------
(* Functions (apply.c, function.c). *)

\* The functions of init.dylan the forms and the programs call, on arguments they accept.
Accepts(name, args) ==
  CASE name \in {"+", "<", "<=", ">", ">="} ->
         Len(args) = 2 /\ \A i \in 1..2 : args[i][1] = "integer"
    [] name = "=="  -> Len(args) = 2
    [] name = "not" -> Len(args) = 1
    [] name \in {"list", "values"} -> TRUE

prim(name, args) ==
  CASE name = "+"  -> Integer(args[1][2] + args[2][2])
    [] name = "<"  -> <<"boolean", args[1][2] < args[2][2]>>
    [] name = "<=" -> <<"boolean", args[1][2] <= args[2][2]>>
    [] name = ">"  -> <<"boolean", args[1][2] > args[2][2]>>
    [] name = ">=" -> <<"boolean", args[1][2] >= args[2][2]>>
    [] name = "==" -> <<"boolean", args[1] = args[2]>>
    [] name = "not"    -> <<"boolean", args[1] = False>>
    [] name = "list"   -> List(args)
    [] name = "values" -> IF Len(args) = 1 THEN args[1] ELSE <<"values", args>>

\* Each is inserted in front of the first one that does not come after it by name.
keyword_list(keys) == SortSeq(keys, LAMBDA a, b : a.rank > b.rank)

\* The keyword arguments that are present: a parameter is bound to the first one of its
\* name and taken off keys; seen has the names bound.
bind_keywords(args, keys, seen, m, s) ==
  IF s.failed \/ args = <<>> THEN [keys |-> keys, s |-> s]
  ELSE IF args[1][1] # "keyword"
  THEN IF m.params.rest = <<>> THEN [keys |-> keys, s |-> marlais_error(s).s]
       ELSE bind_keywords(Tail(args), keys, seen, m, s)
  ELSE LET i    == SelectInSeq(keys, LAMBDA k : k.key = args[1][2])
           rest == SubSeq(args, 3, Len(args))
       IN  IF i # 0
           THEN bind_keywords(rest, RemoveAt(keys, i), seen \cup {args[1][2]}, m,
                              add_binding(keys[i].var, args[2], s.env, s))
           ELSE IF args[1][2] \in seen THEN bind_keywords(rest, keys, seen, m, s)
           ELSE [keys |-> keys, s |-> marlais_error(s).s]

\* The others, in the order of the list, each seen by the defaults after it.
bind_defaults(keys, s) ==
  IF keys = <<>> THEN s
  ELSE LET r == eval(keys[1].default, s)
       IN  bind_defaults(Tail(keys), add_binding(keys[1].var, r.val, r.s.env, r.s))

\* A required parameter's type is a condition on the argument, and not kept with the variable.
RECURSIVE bind_required(_, _, _)
bind_required(req, args, s) ==
  IF req = <<>> \/ args = <<>> THEN s
  ELSE IF ~instance(args[1], req[1].type) THEN marlais_error(s).s
  ELSE bind_required(Tail(req), Tail(args),
                     add_binding([req[1] EXCEPT !.type = "object"], args[1], s.env, s))

\* The #rest and keyword parameters of m, from the arguments after the required ones.
bind_optional(m, extra, s) ==
  LET rest  == IF m.params.rest = <<>> THEN s
               ELSE add_binding([sym |-> m.params.rest[1], type |-> "object"], List(extra), s.env, s)
      given == bind_keywords(extra, keyword_list(m.params.keys), {}, m, rest)
  IN  IF m.params.keys # <<>> THEN bind_defaults(given.keys, given.s)
      ELSE IF m.params.rest # <<>> \/ extra = <<>> THEN rest
      ELSE marlais_error(s).s

\* Binds the parameters of m in the new frame.
bind_parameters(m, args, s) ==
  LET n   == Len(m.params.req)
      all == bind_optional(m, SubSeq(args, n + 1, Len(args)), bind_required(m.params.req, args, s))
  IN  IF Len(args) < n THEN marlais_error(all).s ELSE all

\* The environment is put back, or scopes are left, at the end of a body that makes no tail call.
restored(r, env) == IF r.tail # <<>> THEN r ELSE [r EXCEPT !.s.env = env]
popped(n, r)     == IF r.tail # <<>> THEN r ELSE [r EXCEPT !.s = pop_scopes(n, @)]

\* A method is applied in the environment it was made in.
apply_method(m, args, s) ==
  restored(eval_body(m.body, Unspecified,
                     bind_parameters(m, args, push_scope([s EXCEPT !.env = m.env]))), s.env)

\* Several values given as one argument count as the first of them; there has to be one.
apply_internal(fun, args, s) ==
  LET plain == [i \in DOMAIN args |-> FIRSTVAL(args[i], s)]
  IN  IF s.failed THEN Returns(Unspecified, s)
      ELSE IF \E i \in DOMAIN args : args[i] = Unspecified THEN marlais_error(s)
      ELSE CASE fun[1] = "method"    -> apply_method(fun[2], plain, s)
             [] fun[1] = "primitive" -> IF Accepts(fun[2], plain)
                                        THEN Returns(prim(fun[2], plain), s)
                                        ELSE marlais_error(s)
             [] OTHER -> marlais_error(s)

\* apply, as the forms call it: a combination of a function and its arguments.
apply(fun, args, s) == after_tail_calls(apply_internal(fun, args, s), s.env)

application(form, s) ==
  LET fun  == eval(form[2][1], s)
      args == map_eval(Tail(form[2]), fun.s)
  IN  apply_internal(fun.val, args.val, args.s)
-----------------------------------------------------------------------------
(* Scopes: let, local, bind, and the end of a body (syntax.c). *)

\* The variables of a let and what is left for its #rest variable.  A single value leaves
\* nothing, and then the words after the first one are variables, #rest among them.
bind_variables(vars, rest, init, e, s) ==
  LET r      == eval(init, s)
      vals   == IF VALUESP(r.val) THEN r.val[2] ELSE <<r.val>>
      val(i) == IF i <= Len(vals) THEN vals[i] ELSE False
      bound  == add_bindings(vars, [i \in DOMAIN vars |-> val(i)], e, r.s)
      object(sym) == [sym |-> sym, type |-> "object"]
  IN  IF rest = <<>> THEN bound
      ELSE IF VALUESP(r.val) \/ vars = <<>>
      THEN add_binding(object(rest[1]), List(SubSeq(vals, Len(vars) + 1, Len(vals))), e, bound)
      ELSE add_bindings(<<object("#rest"), object(rest[1])>>, <<False, False>>, e, bound)

\* The initial value is evaluated outside the new scope, which stays in force.
local_bind_eval(form, s) ==
  LET inner == push_scope(s)
      bound == bind_variables(form[2], form[3], form[4], inner.env, [inner EXCEPT !.env = s.env])
  IN  Returns(Unspecified, [bound EXCEPT !.env = inner.env])

\* The methods are made inside the new scope.
local_bind_rec_eval(form, s) ==
  LET inner == push_scope(s)
  IN  Returns(Unspecified, bind_variables(form[2], form[3], form[4], inner.env, inner))

\* Slip: one scope too few is left.
unbinding_begin_evalShort(form, s) == popped(form[2] - 1, eval_body(form[3], Unspecified, s))

\* Leaves as many scopes as the body has declarations.
unbinding_begin_eval(form, s) == popped(form[2], eval_body(form[3], Unspecified, s))

begin_eval(form, s) == eval_body(form[2], Unspecified, s)

\* Each binding is made in a scope of its own, seen by the bindings after it.
bind_eval(form, s) ==
  restored(eval_body(form[3], Unspecified,
                     FoldLeft(LAMBDA t, b : local_bind_eval(<<"bind", b[1], b[2], b[3]>>, t).s,
                              s, form[2])),
           s.env)

method_value(form, s) == <<"method", [params |-> form[2], body |-> form[3], env |-> s.env]>>

\* Names bound to #f first, then to methods that see all of them.
bind_methods_eval(form, s) ==
  LET named == form[2]
      vars  == [i \in DOMAIN named |-> [sym |-> named[i].sym, type |-> "object"]]
      inner == push_scope(s)
      dummy == add_bindings(vars, [i \in DOMAIN named |-> False], inner.env, inner)
      made  == FoldLeft(LAMBDA t, d : modify_value(d.sym,
                          method_value(<<"method", d.params, d.body>>, t), t), dummy, named)
  IN  popped(1, eval_body(form[3], Unspecified, made))

-----------------------------------------------------------------------------
(* Conditionals and assignment (syntax.c). *)

\* The last value is handed on whole, an earlier one counts by its first.
and_eval(form, s) ==
  LET RECURSIVE each(_, _)
      each(es, t) ==
        LET r == eval(es[1], t)
        IN  IF Len(es) = 1 \/ r.s.failed \/ FIRSTVAL(r.val, s) = False
            THEN [r EXCEPT !.val = IF Len(es) = 1 THEN @ ELSE False]
            ELSE each(Tail(es), r.s)
  IN  each(form[2], s)

or_eval(form, s) == or_each(form[2], s)

or_each(es, s) ==
  IF Len(es) = 1 THEN tail_eval(es[1], s) ELSE or_rest(Tail(es), eval(es[1], s))

or_rest(es, r) ==
  IF r.s.failed \/ FIRSTVAL(r.val, r.s) # False THEN [r EXCEPT !.val = FIRSTVAL(@, r.s)] ELSE or_each(es, r.s)

if_eval(form, s) ==
  LET test == eval(form[2], s)
  IN  IF test.val = False THEN tail_eval(form[4], test.s) ELSE tail_eval(form[3], test.s)

unless_eval(form, s) ==
  LET test == eval(form[2], s)
  IN  IF test.val = False THEN eval_body(form[3], False, test.s) ELSE Returns(False, test.s)

\* Clauses with a test each.
cond_eval(form, s) ==
  LET RECURSIVE each(_, _)
      each(clauses, t) ==
        IF clauses = <<>> THEN Returns(False, t)
        ELSE LET test == eval(clauses[1].label[1], t)
                 val  == FIRSTVAL(test.val, test.s)
             IN  IF test.s.failed \/ val # False THEN eval_body(clauses[1].body, val, test.s)
                 ELSE each(Tail(clauses), test.s)
  IN  each(form[2], s)

\* Clauses with literals; there has to be one that matches.
case_eval(form, s) ==
  LET target == eval(form[2], s)
      i == SelectInSeq(form[3], LAMBDA c : \/ c.label = ElseLabel
                                          \/ \E j \in DOMAIN c.label : c.label[j][2] = target.val)
  IN  IF i = 0 THEN marlais_error(target.s) ELSE eval_each(form[3][i].body, False, target.s)

\* Clauses with expressions, each given to the test until one is found.
select_label(target, test, es, t) ==
  IF es = <<>> THEN Returns(False, t)
  ELSE LET e == eval(es[1], t)
           r == apply(test, <<target, e.val>>, e.s)
       IN  IF r.s.failed \/ r.val # False THEN r ELSE select_label(target, test, Tail(es), r.s)

\* ret is what the variable ret holds.  Nothing sets it before the first expression is tested.
select_clauses(target, test, clauses, ret, t) ==
  IF clauses = <<>> THEN Returns(False, t)
  ELSE IF clauses[1].label = ElseLabel THEN eval_each(clauses[1].body, ret, t)
  ELSE LET m == select_label(target, test, clauses[1].label, t)
       IN  IF m.s.failed \/ m.val # False THEN eval_each(clauses[1].body, False, m.s)
           ELSE select_clauses(target, test, Tail(clauses), False, m.s)

\* form[3]: the test; form[4]: the clauses.
select_eval(form, s) ==
  LET target == eval(form[2], s)
      test   == eval(form[3], target.s)
  IN  IF form[4] = <<>> THEN marlais_error(test.s)
      ELSE select_clauses(target.val, test.val, form[4], s.garbage, test.s)

set_eval(form, s) ==
  LET r == eval(form[3], s)
      v == devalue(r.val, r.s)
  IN  [v EXCEPT !.s = modify_value(form[2], v.val, v.s)]

boundp_eval(form, s) ==
  IF s.env = 0 THEN Returns(Unspecified, crash(s))
  ELSE Returns(<<"boolean", symbol_value(form[2], s) # <<>>>>, s)

-----------------------------------------------------------------------------
(* Loops (syntax.c). *)

\* The body while the test is true, or, for until, false.
while_eval(form, s) ==
  LET RECURSIVE loop(_)
      loop(t) ==
        LET test == eval(form[2], t)
        IN  IF test.s.failed \/ (test.val = False) = (form[1] = "while")
            THEN Returns(False, test.s)
            ELSE loop(eval_each(form[3], False, test.s).s)
  IN  loop(s)

\* form[3]: the bound; form[4]: the result forms, at most one; form[5]: the body.
dotimes_eval(form, s) ==
  LET RECURSIVE loop(_, _, _)
      loop(i, n, t) ==
        IF i >= n THEN t
        ELSE loop(i + 1, n, eval_each(form[5], False, change_binding(form[2], Integer(i), t)).s)
      bound == eval(form[3], s)
      inner == push_scope(bound.s)
      done  == loop(0, bound.val[2], add_binding([sym |-> form[2], type |-> "object"], False,
                                                 inner.env, inner))
      r     == eval_each(form[4], False, done)
  IN  IF bound.s.failed \/ bound.val[1] # "integer" THEN marlais_error(bound.s)
      ELSE [r EXCEPT !.s = pop_scopes(1, @)]

\* The iteration protocol of a list: a state is what is left of it, or #f.
initial_state(seq)   == IF seq = <<>> THEN False ELSE List(seq)
next_state(state)    == IF Len(state[2]) <= 1 THEN False ELSE List(Tail(state[2]))
current_element(state) == Head(state[2])

\* What a clause of for starts from: the initial value, and the increment or the state.  An
\* increment where a bound should stand is an error, found when the start has been evaluated.
get_vars_and_inits(clauses, s) ==
  LET clause(acc, c) ==
        LET first == eval(c.exprs[1], acc.s)
            bare  == c.kind = "range" /\ c.term = "none" /\ c.by
            by    == IF c.kind = "range" /\ c.by /\ ~bare
                     THEN eval(c.exprs[Len(c.exprs)], first.s) ELSE Returns(Integer(1), first.s)
            bad   == bare \/ by.val[1] # "integer"
        IN  [inits |-> Append(acc.inits, [val |-> first.val, by |-> by.val, state |-> False]),
             s     |-> IF bad THEN marlais_error(by.s).s ELSE by.s]
  IN  FoldLeft(clause, [inits |-> <<>>, s |-> s], clauses)

initialize_step_and_numeric_vars(clauses, inits, s) ==
  FoldLeft(LAMBDA t, i : IF clauses[i].kind = "in" THEN t
                         ELSE add_binding(clauses[i].var, inits[i].val, t.env, t),
           s, [i \in DOMAIN clauses |-> i])

initialize_collection_inits(clauses, inits, s) ==
  IF \E i \in DOMAIN clauses : clauses[i].kind = "in" /\ inits[i].val[1] # "list"
  THEN [inits |-> inits, s |-> marlais_error(s).s]
  ELSE [inits |-> [i \in DOMAIN clauses |->
                     IF clauses[i].kind = "in"
                     THEN [inits[i] EXCEPT !.state = initial_state(inits[i].val[2])] ELSE inits[i]],
        s |-> s]

\* Whether a numeric clause has passed its bound.  The bound is evaluated here, every time.
exhausted_numeric(c, init, s) ==
  LET negative == init.by[2] < 0
      op == CASE c.term = "to"    -> IF negative THEN "<" ELSE ">"
              [] c.term = "above" -> "<="
              [] c.term = "below" -> ">="
  IN  IF c.term = "none" THEN Returns(False, s)
      ELSE eval(<<"call", <<<<"var", op>>, Literal(init.val), c.exprs[2]>>>>, s)

\* From left to right until a clause is exhausted; later rounds step the collections here.
exhausted_from(i, clauses, ins, init_call, t) ==
  IF i > Len(clauses) \/ t.failed THEN [exhausted |-> FALSE, inits |-> ins, s |-> t]
  ELSE IF clauses[i].kind = "range"
  THEN LET r == exhausted_numeric(clauses[i], ins[i], t)
       IN  IF r.val = True THEN [exhausted |-> TRUE, inits |-> ins, s |-> r.s]
           ELSE exhausted_from(i + 1, clauses, ins, init_call, r.s)
  ELSE IF clauses[i].kind = "in"
  THEN LET state == IF init_call THEN ins[i].state ELSE next_state(ins[i].state)
           nxt   == [ins EXCEPT ![i].state = state]
       IN  IF state = False THEN [exhausted |-> TRUE, inits |-> nxt, s |-> t]
           ELSE exhausted_from(i + 1, clauses, nxt, init_call, t)
  ELSE exhausted_from(i + 1, clauses, ins, init_call, t)

exhausted_numeric_or_collection_clauses(clauses, inits, init_call, s) ==
  exhausted_from(1, clauses, inits, init_call, s)

initialize_collection_variables(clauses, inits, s) ==
  FoldLeft(LAMBDA t, i : IF clauses[i].kind # "in" THEN t
                         ELSE add_binding(clauses[i].var, current_element(inits[i].state), t.env, t),
           s, [i \in DOMAIN clauses |-> i])

\* All next values first, a numeric one from its variable, then all assignments.  The
\* variable of a collection is set to the empty list on the way.
update_explicit_and_numeric_clauses(clauses, inits, s) ==
  LET next(acc, i) ==
        LET c == clauses[i]
            r == CASE c.kind = "step"  -> eval(c.exprs[2], acc.s)
                   [] c.kind = "range" -> eval(<<"call", <<<<"var", "+">>, <<"var", c.var.sym>>,
                                                         Literal(inits[i].by)>>>>, acc.s)
                   [] c.kind = "in"    -> Returns(List(<<>>), acc.s)
        IN  [vals |-> Append(acc.vals, r.val), s |-> r.s]
      all == FoldLeft(next, [vals |-> <<>>, s |-> s], [i \in DOMAIN clauses |-> i])
  IN  [inits |-> [i \in DOMAIN inits |-> IF clauses[i].kind = "range"
                                         THEN [inits[i] EXCEPT !.val = all.vals[i]] ELSE inits[i]],
       s     |-> FoldLeft(LAMBDA t, i : modify_value(clauses[i].var.sym, all.vals[i], t),
                          all.s, [i \in DOMAIN clauses |-> i])]

\* The variable is looked up as it is written: with a type it is a list, which no frame has.
update_collection_variables(clauses, inits, s) ==
  FoldLeft(LAMBDA t, i : IF clauses[i].kind # "in" THEN t
                         ELSE IF clauses[i].var.type # "object" THEN marlais_error(t).s
                         ELSE modify_value(clauses[i].var.sym, current_element(inits[i].state), t),
           s, [i \in DOMAIN clauses |-> i])

\* The rounds after the first: all clauses are stepped, unless one is exhausted.
for_next(form, u) ==
  LET x == exhausted_numeric_or_collection_clauses(form[2], u.inits, FALSE, u.s)
  IN  IF x.s.failed \/ x.exhausted THEN x.s
      ELSE for_loop(form, x.inits, update_collection_variables(form[2], x.inits, x.s))

\* form[3]: the end test; form[5]: the body.
for_loop(form, inits, s) ==
  LET test == eval(form[3], s)
  IN  IF test.s.failed \/ test.val # False THEN test.s
      ELSE for_next(form, update_explicit_and_numeric_clauses(
                            form[2], inits, eval_each(form[5], False, test.s).s))

\* The variables of collections have a scope of their own, inside that of the others.
for_collections(form, cols) ==
  LET first == exhausted_numeric_or_collection_clauses(form[2], cols.inits, TRUE, cols.s)
  IN  IF first.s.failed \/ first.exhausted THEN first.s
      ELSE pop_scopes(1, for_loop(form, first.inits, initialize_collection_variables(
                                    form[2], first.inits, push_scope(first.s))))

\* form[4]: the result forms.
for_eval(form, s) ==
  LET start == get_vars_and_inits(form[2], s)
      outer == initialize_step_and_numeric_vars(form[2], start.inits, push_scope(start.s))
      ran   == for_collections(form, initialize_collection_inits(form[2], start.inits, outer))
  IN  [eval_each(form[4], False, ran) EXCEPT !.s = pop_scopes(1, @)]

for_each_assign(form, states, s) ==
  FoldLeft(LAMBDA t, i : modify_value(form[2][i], current_element(states[i]), t),
           s, [i \in DOMAIN states |-> i])

\* The body, and the next elements unless one of the lists is at its end.
for_each_next(form, next, s) ==
  IF \E i \in DOMAIN next : next[i] = False THEN Returns(False, pop_scopes(1, s))
  ELSE for_each_loop(form, next, for_each_assign(form, next, s))

\* form[4]: the end test; form[5]: the result forms; form[6]: the body.  Without result forms
\* the scope is not left at the end.
for_each_loop(form, states, s) ==
  LET test == eval(form[4], s)
  IN  IF test.s.failed THEN test
      ELSE IF test.val = False
      THEN for_each_next(form, [i \in DOMAIN states |-> next_state(states[i])],
                         eval_each(form[6], False, test.s).s)
      ELSE IF form[5] = <<>> THEN Returns(False, test.s)
      ELSE popped(1, eval_body(form[5], False, test.s))

\* form[2]: the variables; form[3]: their lists.
for_each_eval(form, s) ==
  LET vars == [i \in DOMAIN form[2] |-> [sym |-> form[2][i], type |-> "object"]]
      lists  == map_eval(form[3], s)
      states == [i \in DOMAIN lists.val |-> initial_state(lists.val[i][2])]
      inner  == push_scope(lists.s)
  IN  IF lists.s.failed \/ \E i \in DOMAIN lists.val : lists.val[i][1] # "list"
      THEN marlais_error(lists.s)
      ELSE IF \E i \in DOMAIN states : states[i] = False THEN Returns(False, lists.s)
      ELSE for_each_loop(form, states,
                         add_bindings(vars, [i \in DOMAIN states |-> current_element(states[i])],
                                      inner.env, inner))

-----------------------------------------------------------------------------

\* What syntax_function finds for the form's first word, or an application.
combination(form, s) ==
  CASE form[1] = "call"   -> application(form, s)
    [] form[1] = "and"    -> and_eval(form, s)
    [] form[1] = "or"     -> or_eval(form, s)
    [] form[1] = "begin"  -> begin_eval(form, s)
    [] form[1] = "bind"   -> bind_eval(form, s)
    [] form[1] = "bind-methods" -> bind_methods_eval(form, s)
    [] form[1] = "bound?" -> boundp_eval(form, s)
    [] form[1] = "case"   -> case_eval(form, s)
    [] form[1] = "cond"   -> cond_eval(form, s)
    [] form[1] = "dotimes"  -> dotimes_eval(form, s)
    [] form[1] = "for"      -> for_eval(form, s)
    [] form[1] = "for-each" -> for_each_eval(form, s)
    [] form[1] = "if"     -> if_eval(form, s)
    [] form[1] = "method" -> Returns(method_value(form, s), s)
    [] form[1] = "select" -> select_eval(form, s)
    [] form[1] = "set!"   -> set_eval(form, s)
    [] form[1] = "unless" -> unless_eval(form, s)
    [] form[1] \in {"while", "until"}   -> while_eval(form, s)
    [] form[1] = "local-bind"      -> local_bind_eval(form, s)
    [] form[1] = "local-bind-rec"  -> local_bind_rec_eval(form, s)
    [] form[1] = "unbinding-begin" -> unbinding_begin_eval(form, s)
=============================================================================
