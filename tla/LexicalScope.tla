----------------------------- MODULE LexicalScope -----------------------------
(***************************************************************************)
(* What the forms of the language mean: a reference for module Forms.      *)
(*                                                                         *)
(* A variable is a place in a store, and an environment a function from    *)
(* names to places.  Nothing is global: an expression is evaluated in an   *)
(* environment it is given, a declaration gives the rest of its body a     *)
(* larger one, a method keeps the one it was made in.  There are no        *)
(* frames, no counts of declarations and no tail calls, and the forms are  *)
(* those that are written, before the parser has translated them.          *)
(***************************************************************************)
EXTENDS Forms

\* s.store: the variables ever made, each with its type.
Answer(v, s) == [val |-> v, s |-> s]
Wrong(s)     == Answer(Unspecified, [s EXCEPT !.failed = TRUE])

\* The environment and the state with one more variable.
Declare(var, v, rho, s) ==
  [rho |-> (var.sym :> Len(s.store) + 1) @@ rho,
   s   |-> IF s.failed \/ ~instance(v, var.type) THEN [s EXCEPT !.failed = TRUE]
           ELSE [s EXCEPT !.store = Append(@, [val |-> v, type |-> var.type])]]

DeclareAll(vars, vals, rho, s) ==
  FoldLeft(LAMBDA acc, i : Declare(vars[i], vals[i], acc.rho, acc.s),
           [rho |-> rho, s |-> s], [i \in DOMAIN vars |-> i])

Assign(sym, v, rho, s) ==
  IF s.failed THEN s
  ELSE IF sym \notin DOMAIN rho \/ ~instance(v, s.store[rho[sym]].type)
  THEN [s EXCEPT !.failed = TRUE]
  ELSE [s EXCEPT !.store[rho[sym]].val = v]

Object(sym) == [sym |-> sym, type |-> "object"]

\* A parameter is declared with the type object, its own being a condition on the argument.
Fits(req, args) == /\ Len(args) >= Len(req)
                   /\ \A i \in DOMAIN req : instance(args[i], req[i].type)

\* The argument for a keyword parameter: the first one of its name.
KeyArgument(args, k) ==
  LET at == {i \in DOMAIN args : i % 2 = 1 /\ args[i] = <<"keyword", k.key>>}
  IN  {args[i + 1] : i \in {i \in at : \A j \in at : i <= j}}

RECURSIVE Value(_, _, _), Values(_, _, _), BodyValue(_, _, _), Defaults(_, _, _, _),
          Shortcut(_, _, _, _), Holds(_, _, _, _), Clauses(_, _, _, _), Round(_, _, _, _),
          NextRound(_, _, _), While(_, _, _)

BodyIn(b, d) == BodyValue(b, d.rho, d.s)

\* Keyword parameters from left to right: the argument, or the default, which sees the
\* parameters before it.
Defaults(keys, args, rho, s) ==
  IF keys = <<>> THEN [rho |-> rho, s |-> s]
  ELSE LET given == KeyArgument(args, keys[1])
           r     == IF given # {} THEN Answer(CHOOSE v \in given : TRUE, s)
                    ELSE Value(keys[1].default, rho, s)
           d     == Declare(keys[1].var, r.val, rho, r.s)
       IN  Defaults(Tail(keys), args, d.rho, d.s)

DefaultsIn(keys, args, d) == Defaults(keys, args, d.rho, d.s)

Required(m, args, s) ==
  DeclareAll([i \in DOMAIN m.params.req |-> Object(m.params.req[i].sym)], args, m.rho, s)

\* The #rest parameter, after the required ones, then the keyword parameters.
Parameters(m, extra, d) ==
  DefaultsIn(m.params.keys, extra,
             IF m.params.rest = <<>> THEN d
             ELSE Declare(Object(m.params.rest[1]), List(extra), d.rho, d.s))

Legal(m, extra) ==
  \/ m.params.rest # <<>> /\ m.params.keys = <<>>
  \/ \A i \in DOMAIN extra :
       i % 2 = 1 => extra[i][1] = "keyword" /\ extra[i][2] \in {k.key : k \in Range(m.params.keys)}

Apply(m, args, extra, s) ==
  IF Fits(m.params.req, args) /\ Legal(m, extra)
  THEN BodyIn(m.body, Parameters(m, extra, Required(m, args, s))) ELSE Wrong(s)

Call(fun, args, s) ==
  LET plain == [i \in DOMAIN args |-> FIRSTVAL(args[i], s)]
  IN  IF s.failed \/ \E i \in DOMAIN args : args[i] = Unspecified THEN Wrong(s)
      ELSE CASE fun[1] = "primitive" -> IF Accepts(fun[2], plain)
                                        THEN Answer(prim(fun[2], plain), s) ELSE Wrong(s)
             [] fun[1] = "method" ->
                  Apply(fun[2], plain, SubSeq(plain, Len(fun[2].params.req) + 1, Len(plain)), s)
             [] OTHER -> Wrong(s)

\* let: the variables have the values of r, or #f; then the rest.
LetValues(d, rho, r) ==
  LET vals == IF VALUESP(r.val) THEN r.val[2] ELSE <<r.val>>
      all  == DeclareAll(d[2], [i \in DOMAIN d[2] |-> IF i <= Len(vals) THEN vals[i] ELSE False],
                         rho, r.s)
  IN  IF d[3] = <<>> THEN all
      ELSE Declare(Object(d[3][1]), List(SubSeq(vals, Len(d[2]) + 1, Len(vals))), all.rho, all.s)

Let(d, rho, s) == LetValues(d, rho, Value(d[4], rho, s))

\* local: methods that see each other.
Local(d, rho, s) ==
  LET place == Len(s.store)
      inner == FoldLeft(LAMBDA env, i : (d[2][i].sym :> place + i) @@ env,
                        rho, [i \in DOMAIN d[2] |-> i])
  IN  [rho |-> inner,
       s   |-> IF s.failed THEN s
               ELSE [s EXCEPT !.store = @ \o [i \in DOMAIN d[2] |->
                       [val  |-> <<"method", [params |-> d[2][i].params, body |-> d[2][i].body,
                                              rho |-> inner]>>,
                        type |-> "object"]]]]

BodyValue(b, rho, s) ==
  IF b = <<>> THEN Answer(Unspecified, s)
  ELSE IF b[1][1] \in {"let", "local"}
  THEN BodyIn(Tail(b), IF b[1][1] = "let" THEN Let(b[1], rho, s) ELSE Local(b[1], rho, s))
  ELSE LET r == Value(b[1], rho, s)
       IN  IF Len(b) = 1 THEN r ELSE BodyValue(Tail(b), rho, r.s)

\* Arguments, in the order of the build.
Values(es, rho, s) ==
  IF es = <<>> THEN Answer(<<>>, s)
  ELSE IF s.ltr
  THEN LET first == Value(es[1], rho, s)
           rest  == Values(Tail(es), rho, first.s)
       IN  Answer(<<first.val>> \o rest.val, rest.s)
  ELSE LET rest  == Values(Tail(es), rho, s)
           first == Value(es[1], rho, rest.s)
       IN  Answer(<<first.val>> \o rest.val, first.s)

\* and, or: the last value, or the first one that decides.
Shortcut(e, es, rho, s) ==
  LET r == Value(es[1], rho, s)
  IN  IF Len(es) = 1 \/ r.s.failed THEN r
      ELSE IF (FIRSTVAL(r.val, s) = False) = (e[1] = "and") THEN Answer(FIRSTVAL(r.val, s), r.s)
      ELSE Shortcut(e, Tail(es), rho, r.s)

\* case: an expression is its own test; select: the test of the target and the expression.
Tested(target, v, s) ==
  IF target = <<>> THEN Answer(FIRSTVAL(v, s), s) ELSE Call(target[2], <<target[1], v>>, s)

\* The first test that comes out true.
Holds(target, es, rho, s) ==
  IF es = <<>> THEN Answer(False, s)
  ELSE LET e == Value(es[1], rho, s)
           r == Tested(target, e.val, e.s)
       IN  IF r.s.failed \/ r.val # False THEN r ELSE Holds(target, Tail(es), rho, r.s)

\* A clause without a body: case gives the test, select #f.
ClauseValue(target, b, test, rho, s) ==
  IF b # <<>> THEN BodyValue(b, rho, s) ELSE Answer(IF target = <<>> THEN test ELSE False, s)

\* The body of the first clause whose label holds.
Clauses(target, clauses, rho, s) ==
  IF clauses = <<>> THEN Answer(False, s)
  ELSE LET h == IF clauses[1].label = ElseLabel THEN Answer(ElseLabel[1][2], s)
                ELSE Holds(target, clauses[1].label, rho, s)
       IN  IF h.s.failed \/ h.val # False THEN ClauseValue(target, clauses[1].body, h.val, rho, h.s)
           ELSE Clauses(target, Tail(clauses), rho, h.s)

\* select has clauses; what it gives is not defined when the first is otherwise, and empty.
Select(e, target, rho, s) ==
  IF e[4] = <<>> THEN Wrong(s)
  ELSE IF e[4][1] = [label |-> ElseLabel, body |-> <<>>] THEN Answer(s.garbage, s)
  ELSE Clauses(target, e[4], rho, s)

\* The numbers and elements a clause of for still has: none is left when it is exhausted.
Left(c, r) ==
  CASE c.kind = "step"  -> TRUE
    [] c.kind = "in"    -> r.list # <<>>
    [] c.term = "none"  -> TRUE
    [] c.term = "to"    -> IF r.by < 0 THEN r.now >= r.bound ELSE r.now <= r.bound
    [] c.term = "above" -> r.now > r.bound
    [] c.term = "below" -> r.now < r.bound

AllLeft(clauses, rs) == \A i \in DOMAIN clauses : Left(clauses[i], rs[i])

\* The value of a clause's variable.
Now(c, r) == IF c.kind # "in" THEN r.init ELSE IF r.list = <<>> THEN List(<<>>) ELSE r.list[1]

Number(v) == IF v[1] = "integer" THEN v[2] ELSE 0

\* What a clause is given, from left to right; of two expressions with `then' the first.
Given(c, rho, s) ==
  FoldLeft(LAMBDA acc, r : LET v == Value(r, rho, acc.s) IN Answer(Append(acc.val, v.val), v.s),
           Answer(<<>>, s), IF c.kind = "step" THEN <<c.exprs[1]>> ELSE c.exprs)

Begin(c, acc, given) ==
  LET vals == given.val
  IN  [rs |-> Append(acc.rs,
                [init  |-> vals[1],
                 now   |-> Number(vals[1]),
                 list  |-> IF vals[1][1] = "list" THEN vals[1][2] ELSE <<>>,
                 bound |-> IF c.kind = "range" /\ c.term # "none" THEN Number(vals[2]) ELSE 0,
                 by    |-> IF c.kind = "range" /\ c.by THEN Number(vals[Len(vals)]) ELSE 1]),
       s  |-> [given.s EXCEPT !.failed = @ \/ (c.kind = "in" /\ vals[1][1] # "list")]]

\* The variables of the clauses of these kinds, declared, and assigned.
Variables(kinds, clauses, rs, rho, s) ==
  FoldLeft(LAMBDA acc, i : IF clauses[i].kind \in kinds
                           THEN Declare(clauses[i].var, Now(clauses[i], rs[i]), acc.rho, acc.s)
                           ELSE acc,
           [rho |-> rho, s |-> s], [i \in DOMAIN clauses |-> i])

Move(kinds, clauses, rs, rho, s) ==
  FoldLeft(LAMBDA t, i : IF clauses[i].kind \in kinds
                         THEN Assign(clauses[i].var.sym, Now(clauses[i], rs[i]), rho, t) ELSE t,
           s, [i \in DOMAIN clauses |-> i])

NextValue(c, r, rho, s) ==
  CASE c.kind = "step"  -> Value(c.exprs[2], rho, s)
    [] c.kind = "range" -> Call(<<"primitive", "+">>,
                                <<s.store[rho[c.var.sym]].val, Integer(r.by)>>, s)
    [] c.kind = "in"    -> Answer(False, s)

StepClause(c, r, acc, v) ==
  [rs |-> Append(acc.rs, IF c.kind = "in" THEN [r EXCEPT !.list = Tail(@)]
                         ELSE [r EXCEPT !.init = v.val, !.now = Number(v.val)]),
   s  |-> v.s]

Step(clauses, rs, rho, s) ==
  FoldLeft(LAMBDA acc, i : StepClause(clauses[i], rs[i], acc,
                                      NextValue(clauses[i], rs[i], rho, acc.s)),
           [rs |-> <<>>, s |-> s], [i \in DOMAIN clauses |-> i])

\* While every clause has something left and the end test is false, the body, and all
\* variables move on at once.
Round(e, rs, rho, s) ==
  LET test == Value(e[3], rho, s)
  IN  IF test.s.failed \/ test.val # False THEN test.s
      ELSE NextRound(e, rho, Step(e[2], rs, rho, BodyValue(e[4], rho, test.s).s))

NextRound(e, rho, step) ==
  LET others == Move({"step", "range"}, e[2], step.rs, rho, step.s)
  IN  IF step.s.failed THEN step.s
      ELSE IF ~AllLeft(e[2], step.rs) THEN others
      ELSE Round(e, step.rs, rho, Move({"in"}, e[2], step.rs, rho, others))

Rounds(e, rs, outer) ==
  LET inner == Variables({"in"}, e[2], rs, outer.rho, outer.s)
  IN  IF outer.s.failed \/ ~AllLeft(e[2], rs) THEN outer.s
      ELSE IF inner.s.failed THEN inner.s
      ELSE Round(e, rs, inner.rho, inner.s)

ForBegun(e, rho, begun) ==
  LET outer == Variables({"step", "range"}, e[2], begun.rs, rho, begun.s)
      ran   == Rounds(e, begun.rs, outer)
  IN  IF e[5] = <<>> THEN Answer(False, ran) ELSE BodyValue(e[5], outer.rho, ran)

\* for: everything a clause is given is evaluated once, outside.
For(e, rho, s) ==
  ForBegun(e, rho, FoldLeft(LAMBDA acc, c : Begin(c, acc, Given(c, rho, acc.s)),
                            [rs |-> <<>>, s |-> s], e[2]))

While(e, rho, s) ==
  LET test == Value(e[2], rho, s)
  IN  IF test.s.failed \/ (test.val = False) = (e[1] = "while") THEN Answer(False, test.s)
      ELSE While(e, rho, BodyValue(e[3], rho, test.s).s)

\* The value of expression e in environment rho.
Value(e, rho, s) ==
  IF s.failed THEN Answer(Unspecified, s)
  ELSE CASE e[1] = "literal" -> Answer(e[2], s)
    [] e[1] = "var"    -> IF e[2] \in DOMAIN rho THEN Answer(s.store[rho[e[2]]].val, s) ELSE Wrong(s)
    [] e[1] = "bound?" -> Answer(<<"boolean", e[2] \in DOMAIN rho>>, s)
    [] e[1] = "set!"   -> LET r == Value(e[3], rho, s)
                          IN  IF r.s.failed \/ r.val = Unspecified THEN Wrong(r.s)
                              ELSE Answer(FIRSTVAL(r.val, s), Assign(e[2], FIRSTVAL(r.val, s), rho, r.s))
    [] e[1] = "call"   -> LET f  == Value(e[2][1], rho, s)
                              vs == Values(Tail(e[2]), rho, f.s)
                          IN  Call(f.val, vs.val, vs.s)
    [] e[1] = "method" -> Answer(<<"method", [params |-> e[2], body |-> e[3], rho |-> rho]>>, s)
    [] e[1] = "begin"  -> BodyValue(e[2], rho, s)
    [] e[1] = "if"     -> LET t == Value(e[2], rho, s)
                          IN  BodyValue(IF t.val = False THEN e[4] ELSE e[3], rho, t.s)
    [] e[1] = "unless" -> LET t == Value(e[2], rho, s)
                          IN  IF t.val = False THEN BodyValue(e[3], rho, t.s) ELSE Answer(False, t.s)
    [] e[1] = "case"   -> Clauses(<<>>, e[2], rho, s)
    [] e[1] = "select" -> LET t == Value(e[2], rho, s)
                              f == Value(e[3], rho, t.s)
                          IN  Select(e, <<t.val, f.val>>, rho, f.s)
    [] e[1] = "for"    -> For(e, rho, s)
    [] e[1] = "core"   -> Value(e[3], rho, s)
    [] e[1] \in {"and", "or"}      -> Shortcut(e, e[2], rho, s)
    [] e[1] \in {"while", "until"} -> While(e, rho, s)
=============================================================================
