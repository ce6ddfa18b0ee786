------------------------------ MODULE Evaluator ------------------------------
(***************************************************************************)
(* The read-eval-print loop on expressions: each is parsed and evaluated   *)
(* in the state the ones before have left (main.c), and by the reference   *)
(* (module LexicalScope) in a state of its own, side by side.              *)
(***************************************************************************)
EXTENDS Divergence

CONSTANTS
  Program,    \* the expressions that are entered
  Global,     \* the variables of the top level: a sequence of [sym, type, val]
  MaxForms    \* bound: expressions entered

ASSUME MaxFormsAssumption == MaxForms \in Nat
ASSUME GlobalAssumption   == \A i \in DOMAIN Global : instance(Global[i].val, Global[i].type)

VARIABLES
  the_env,        \* the frame the next expression is evaluated in, main's cache_env too;
                  \* 0 is NULL
  frames,         \* all frames ever made
  binding_stack,  \* the parser's counts
  ltr,            \* whether this build evaluates arguments from left to right
  garbage,        \* what memory that is not set holds in this build
  crashed,        \* whether the program has looked at a frame that is NULL
  store,          \* the reference's variables
  answer,         \* the last expression's value, and the reference's
  astray,         \* the divergences of the expressions entered so far, a history
  count

vars == <<the_env, frames, binding_stack, ltr, garbage, crashed, store, answer, astray, count>>

\* Two values stand for all.
Garbage == {False, Integer(1)}

Primitive == <<"+", "<", "<=", ">", ">=", "==", "not", "list", "values">>

TopLevel == Global \o [i \in DOMAIN Primitive |->
                         [sym |-> Primitive[i], type |-> "object", val |-> <<"primitive", Primitive[i]>>]]

Init ==
  /\ the_env = 1
  /\ frames = <<[next |-> 0, vars |-> TopLevel]>>
  /\ binding_stack = <<>>
  /\ ltr \in BOOLEAN
  /\ garbage \in Garbage
  /\ crashed = FALSE
  /\ store = [i \in DOMAIN TopLevel |-> [val |-> TopLevel[i].val, type |-> TopLevel[i].type]]
  /\ answer = [code |-> Unspecified, ref |-> Unspecified]
  /\ astray = {}
  /\ count = 0

\* What can be seen of a value at the prompt: a method has no parts.
RECURSIVE Seen(_)
Seen(v) == IF v[1] = "method" THEN <<"method">>
           ELSE IF v[1] \in {"list", "values"} THEN <<v[1], [i \in DOMAIN v[2] |-> Seen(v[2][i])]>>
           ELSE v

Outcome(r) == IF r.s.failed THEN <<"error">> ELSE Seen(r.val)

\* The environment names of the top level are known by in the reference.
Names == [x \in {TopLevel[i].sym : i \in DOMAIN TopLevel} |->
            SelectInSeq(TopLevel, LAMBDA b : b.sym = x)]

DivergencesOf == [p \in Program |-> Divergences(p)]

\* After an error the environment is the one the prompt was in.
\* r is what the form is evaluated to, ref the value of the expression.
show(r, ref) ==
  /\ the_env' = IF r.s.failed THEN the_env ELSE r.s.env
  /\ frames' = r.s.frames
  /\ crashed' = r.s.crashed
  /\ store' = ref.s.store
  /\ answer' = [code |-> Outcome(r), ref |-> Outcome(ref)]

read_eval_print(p) ==
  LET read == expression(p, binding_stack)
  IN  /\ count < MaxForms
      /\ ~crashed
      /\ binding_stack' = read.stk
      /\ show(eval(read.form, [env |-> the_env, frames |-> frames, ltr |-> ltr,
                               garbage |-> garbage, failed |-> FALSE, crashed |-> FALSE]),
              Value(p, Names, [store |-> store, ltr |-> ltr, garbage |-> garbage, failed |-> FALSE]))
      /\ astray' = astray \cup DivergencesOf[p]
      /\ count' = count + 1
      /\ UNCHANGED <<ltr, garbage>>

Next == \E p \in Program : read_eval_print(p)

Spec == Init /\ [][Next]_vars

-----------------------------------------------------------------------------

\* The chain of frames goes back to the top level, and a variable with a type has a value
\* of that type.
TypeOK ==
  /\ the_env \in 0..Len(frames)
  /\ crashed \in BOOLEAN
  /\ \A e \in DOMAIN frames :
       /\ frames[e].next \in 0..(e - 1)
       /\ \A i \in DOMAIN frames[e].vars : instance(frames[e].vars[i].val, frames[e].vars[i].type)
  /\ binding_stack \in Seq(Nat)
  /\ astray \subseteq {"scopes", "values"}
  /\ count \in 0..MaxForms

\* Lexical scope: whatever was entered before, an expression has the value, or the error,
\* and the effect on the variables of the top level that it has by the text alone: if only
\* what has been entered is none of the expressions of Divergence.  Bodies in bodies, methods
\* that outlive their scope, tail calls and errors all have to keep the_env right for that.
LexicalScoping ==
  astray = {} =>
    /\ answer.code = answer.ref
    /\ \A i \in DOMAIN TopLevel : Seen(frames[1].vars[i].val) = Seen(store[i].val)

\* Every scope an expression has entered is left when it has been evaluated, by value, tail
\* call or error: the prompt stays in the environment of the top level.  Of the expressions
\* of Divergence only a case or select whose entry on binding_stack is taken for that of a
\* body around, and for-each ended by its test without result forms, do otherwise.
ScopesLeft == "scopes" \notin astray => the_env = 1
=============================================================================
