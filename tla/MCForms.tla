------------------------------- MODULE MCForms -------------------------------
(***************************************************************************)
(* Expressions for the evaluator: every block of a declaration or an       *)
(* assignment, a compound statement over every short body, and a last      *)
(* form; and a list of expressions for the forms and parameters the blocks *)
(* do not have.                                                            *)
(***************************************************************************)
EXTENDS Evaluator

Num(n)  == Literal(Integer(n))
Var(x)  == <<"var", x>>
Call_(f, es) == <<"call", <<f>> \o es>>
Op(f, es)    == Call_(Var(f), es)
Typed(x, t)  == [sym |-> x, type |-> t]
Let_(x, e)   == <<"let", <<Object(x)>>, <<>>, e>>
Set(x, e)    == <<"set!", x, e>>
NoParams     == [req |-> <<>>, rest |-> <<>>, keys |-> <<>>]
Params(xs)   == [NoParams EXCEPT !.req = [i \in DOMAIN xs |-> Object(xs[i])]]
Method(xs, b) == <<"method", Params(xs), b>>
LocalF(xs, b) == <<"local", <<[sym |-> "f", params |-> Params(xs), body |-> b]>>>>

MCGlobal == <<[sym |-> "x", type |-> "integer", val |-> Integer(0)],
              [sym |-> "g", type |-> "object",  val |-> False]>>

Starts == {Let_("x", Num(1)), Set("x", Num(1)), LocalF(<<"y">>, <<Set("x", Var("y")), Var("x")>>)}

Inner == {<<Let_("x", Num(2)), Var("x")>>,
          <<Let_("x", Op("+", <<Var("x"), Num(2)>>)), Set("x", Num(3))>>,
          <<Let_("y", Var("x")), LocalF(<<>>, <<Set("x", Num(4)), Var("y")>>), Set("g", Var("f")),
            Op("f", <<>>)>>,
          <<Set("x", Literal(False))>>}

Clause(label, b) == [label |-> label, body |-> b]
Otherwise(b)     == Clause(ElseLabel, b)
Select_(e, test, cs) == <<"select", e, Var(test), cs>>

Test == Op("==", <<Var("x"), Num(1)>>)

Compound(b) ==
  {<<"begin", b>>,
   <<"if", Test, b, <<Num(9)>>>>,
   <<"unless", Test, b>>,
   Call_(Method(<<"x">>, b), <<Num(5)>>),
   <<"for", <<[kind |-> "range", var |-> Object("i"), exprs |-> <<Num(1), Num(2)>>,
               term |-> "to", by |-> FALSE]>>, Literal(False), b, <<Var("x")>>>>,
   <<"case", <<Clause(<<Test>>, b), Otherwise(<<Num(9)>>)>>>>,
   Select_(Var("x"), "==", <<Clause(<<Num(7)>>, <<Let_("x", Num(8)), Num(9)>>),
                             Clause(<<Num(1), Num(0)>>, b)>>)}

Ends == {Var("x"), Op("list", <<Var("x"), Op("g", <<>>)>>)}

Blocks == {<<"begin", <<f, c, l>>>> : f \in Starts, c \in UNION {Compound(b) : b \in Inner}, l \in Ends}

Range_(x, es, term, by) == [kind |-> "range", var |-> Object(x), exprs |-> es, term |-> term, by |-> by]
In(x, e)   == [kind |-> "in", var |-> Object(x), exprs |-> <<e>>, term |-> "none", by |-> FALSE]
Then(x, es) == [kind |-> "step", var |-> Object(x), exprs |-> es, term |-> "none", by |-> FALSE]
For_(cs, test, b, fin) == <<"for", cs, test, b, fin>>
Numbers == Op("list", <<Num(5), Num(6), Num(7)>>)
Key(k, rank, x, d) == [key |-> k, rank |-> rank, var |-> Object(x), default |-> d]
Word(k)    == Literal(<<"keyword", k>>)
KeyMethod  == <<"method", [req |-> <<Typed("n", "integer")>>, rest |-> <<"r">>,
                           keys |-> <<Key("a", 1, "a", Var("n")), Key("b", 2, "b", Var("x"))>>],
                <<Op("list", <<Var("n"), Var("r"), Var("a"), Var("b")>>)>>>>
Sum == <<"local", <<[sym |-> "f", params |-> Params(<<"n", "t">>),
                     body |-> <<<<"if", Op("==", <<Var("n"), Num(0)>>), <<Var("t")>>,
                                  <<Op("f", <<Op("+", <<Var("n"), Num(-1)>>),
                                              Op("+", <<Var("n"), Var("t")>>)>>)>>>>>>]>>>>

Others ==
  { \* methods kept, and called after their scope has been left
    Set("g", Method(<<>>, <<Set("x", Op("+", <<Var("x"), Num(1)>>)), Var("x")>>)),
    Op("g", <<>>),
    Op("list", <<Op("g", <<>>), Var("x"), Op("g", <<>>)>>),
    Op("list", <<Set("x", Num(7)), Var("x")>>),
    Op("x", <<Set("x", Num(8))>>),
    <<"begin", <<Sum, Op("f", <<Num(3), Num(0)>>)>>>>,
    <<"begin", <<Let_("x", Num(1)), Sum, Set("x", Op("f", <<Num(2), Var("x")>>)), Var("x")>>>>,
    \* several values
    <<"begin", <<<<"let", <<Object("a"), Object("b")>>, <<"r">>,
                   Op("values", <<Num(1), Num(2), Num(3)>>)>>,
                 Op("list", <<Var("a"), Var("b"), Var("r")>>)>>>>,
    <<"begin", <<<<"let", <<Object("a"), Typed("b", "integer")>>, <<>>, Op("values", <<Num(1)>>)>>,
                 Var("a")>>>>,
    <<"and", <<Op("values", <<Num(1), Num(2)>>), Op("values", <<Var("x"), Num(3)>>)>>>>,
    <<"or",  <<<<"and", <<Test, Set("x", Num(6))>>>>, Op("g", <<>>), Var("x")>>>>,
    \* parameters
    Call_(KeyMethod, <<Num(1), Word("b"), Num(2), Word("b"), Num(3)>>),
    Call_(KeyMethod, <<Num(1), Word("c"), Num(2)>>),
    Call_(KeyMethod, <<Var("x"), Word("a"), Set("x", Num(2))>>),
    Call_(KeyMethod, <<Var("g")>>),
    <<"begin", <<Let_("x", Num(4)), Call_(KeyMethod, <<Num(1)>>)>>>>,
    <<"bound?", "f">>,
    \* loops
    For_(<<In("e", Numbers), Range_("i", <<Num(1), Num(2)>>, "to", FALSE)>>, Literal(False),
         <<Let_("e", Op("+", <<Var("e"), Var("i")>>)), Set("x", Var("e"))>>,
         <<Op("list", <<Var("i"), Var("x"), <<"bound?", "e">>>>)>>),
    For_(<<Then("a", <<Num(0), Var("b")>>), Then("b", <<Num(1), Op("+", <<Var("a"), Var("b")>>)>>)>>,
         Op(">", <<Var("b"), Num(4)>>), <<Set("x", Var("a"))>>, <<Op("list", <<Var("a"), Var("b")>>)>>),
    For_(<<Range_("i", <<Num(5), Num(0), Num(-2)>>, "above", TRUE), In("e", Numbers)>>,
         Op("==", <<Var("e"), Num(7)>>),
         <<Set("g", Method(<<>>, <<Op("list", <<Var("i"), Var("e")>>)>>))>>, <<Op("g", <<>>)>>),
    For_(<<Range_("i", <<Var("x")>>, "none", FALSE)>>, Op(">=", <<Var("i"), Num(2)>>),
         <<Set("i", Op("+", <<Var("i"), Num(1)>>))>>, <<>>),
    For_(<<In("e", Var("x"))>>, Literal(False), <<Var("e")>>, <<>>),
    For_(<<In("e", Op("list", <<>>))>>, Literal(False), <<Set("x", Num(9))>>, <<Var("x")>>),
    For_(<<Range_("i", <<Num(3), Num(1), Num(-1)>>, "to", TRUE)>>, Literal(False),
         <<Op("g", <<Var("i")>>)>>, <<Var("i")>>),
    For_(<<Range_("i", <<Num(0), Num(2)>>, "below", FALSE)>>, Literal(False),
         <<Let_("x", Var("i")), Set("g", Method(<<>>, <<Var("x")>>)), Num(0)>>, <<Op("g", <<>>)>>),
    <<"while", Op("<", <<Var("x"), Num(3)>>),
       <<Let_("y", Op("+", <<Var("x"), Num(1)>>)), Set("x", Var("y")), Var("y")>>>>,
    <<"until", Op(">", <<Var("x"), Num(2)>>), <<Set("x", Op("+", <<Var("x"), Num(1)>>))>>>>,
    \* case and select
    <<"case", <<Clause(<<Test>>, <<Num(1)>>),
                Clause(<<Op("not", <<Var("x")>>)>>, <<>>),
                Clause(<<Op(">", <<Var("x"), Num(1)>>)>>,
                       <<Let_("x", Num(2)), Set("x", Num(3)), Var("x")>>),
                Otherwise(<<Set("x", Num(1))>>)>>>>,
    <<"begin", <<Select_(Var("x"), "==",
                   <<Clause(<<Num(1), Op("g", <<>>)>>, <<Set("x", Num(2))>>),
                     Clause(<<Num(2), Num(3)>>,
                            <<Let_("x", Num(0)), Set("g", Method(<<>>, <<Var("x")>>)), Num(5)>>)>>),
                 Var("x")>>>>,
    Select_(Var("x"), "<", <<Clause(<<Num(1), Set("x", Num(2))>>, <<Num(1)>>),
                             Clause(<<Op("g", <<>>)>>, <<>>), Otherwise(<<>>)>>),
    <<"select", Num(1), Method(<<"u", "v">>, <<Set("x", Var("u")), Var("v")>>),
      <<Clause(<<Literal(False), Op("list", <<Var("x")>>)>>, <<Var("x")>>)>>>>,
    Select_(Var("x"), "==", <<Otherwise(<<>>), Clause(<<Num(1)>>, <<Num(1)>>)>>),
    Select_(Set("x", Num(1)), "==", <<>>),
    <<"case", <<>>>>,
    \* those whose entry a body around takes for its own
    <<"begin", <<Let_("x", Num(1)), <<"case", <<Clause(<<Test>>, <<Num(2)>>)>>>>, Var("x")>>>>,
    <<"begin", <<<<"case", <<Clause(<<Test>>, <<Let_("x", Num(2)), Num(3)>>)>>>>, Var("x")>>>>,
    <<"begin", <<Let_("x", Num(1)),
                 Set("g", Method(<<>>, <<<<"case", <<Clause(<<Test>>, <<Let_("y", Num(2)), Let_("z", Num(3)),
                                                                        Var("y")>>)>>>>, Var("x")>>)),
                 Op("g", <<>>)>>>>,
    \* forms the parser makes none of, given to %eval
    <<"core", <<"dotimes", "x", Num(2), <<Var("x")>>, <<Set("g", Var("x")), Set("x", Num(5))>>>>,
              <<"begin", <<Set("g", Num(1)), Num(5)>>>>>>,
    <<"core", <<"dotimes", "i", Num(0), <<>>, <<Set("g", Var("i"))>>>>, Literal(False)>>,
    <<"core", <<"bind", <<<<<<Object("x")>>, <<>>, Num(1)>>,
                          <<<<Typed("y", "integer")>>, <<>>, Op("+", <<Var("x"), Num(1)>>)>>>>,
                <<Set("g", Var("y")), Op("list", <<Var("x"), Var("g")>>)>>>>,
              <<"begin", <<Let_("x", Num(1)), <<"let", <<Typed("y", "integer")>>, <<>>,
                                               Op("+", <<Var("x"), Num(1)>>)>>,
                           Set("g", Var("y")), Op("list", <<Var("x"), Var("g")>>)>>>>>>,
    <<"core", <<"bind-methods", <<[sym |-> "f", params |-> Params(<<"n">>),
                                   body |-> <<<<"if", Op("==", <<Var("n"), Num(0)>>), Var("x"),
                                                Op("h", <<Var("n")>>)>>>>],
                                  [sym |-> "h", params |-> Params(<<"n">>),
                                   body |-> <<Set("x", Var("n")),
                                              Op("f", <<Op("+", <<Var("n"), Num(-1)>>)>>)>>]>>,
                <<Set("g", Op("f", <<Num(2)>>)), Var("x")>>>>,
              <<"begin", <<Set("x", Num(1)), Set("g", Num(1)), Var("x")>>>>>>,
    <<"core", <<"case", Var("x"), <<[label |-> <<Num(1), Num(2)>>, body |-> <<Set("x", Num(0)), Num(4)>>],
                                    [label |-> <<Num(0)>>, body |-> <<>>]>>>>,
              <<"begin", <<<<"if", <<"or", <<Op("==", <<Var("x"), Num(1)>>), Op("==", <<Var("x"), Num(2)>>)>>>>,
                             <<Set("x", Num(0)), Num(4)>>,
                             <<<<"if", Op("==", <<Var("x"), Num(0)>>), <<Literal(False)>>,
                                 <<Op("x", <<>>)>>>>>>>>>>>>>>,
    <<"core", <<"for-each", <<"x", "e">>, <<Numbers, Op("list", <<Var("x"), Var("g")>>)>>,
                Op("==", <<Var("x"), Num(6)>>), <<Set("g", Var("e")), Var("x")>>, <<Set("e", Num(0))>>>>,
              <<"begin", <<Set("g", Var("g")), Num(6)>>>>>>,
    <<"core", <<"for-each", <<"e">>, <<Numbers>>, Literal(False), <<>>, <<Set("x", Var("e"))>>>>,
              <<"begin", <<Set("x", Num(7)), Literal(False)>>>>>>
  }

\* What the code evaluates otherwise than it should.
Unlikes ==
  {For_(<<[In("e", Numbers) EXCEPT !.var = Typed("e", "integer")]>>, Literal(False),
        <<Set("g", Var("e"))>>, <<Var("g")>>),
   For_(<<Range_("i", <<Num(1), Var("x")>>, "to", FALSE)>>, Op(">", <<Var("i"), Num(3)>>),
        <<Set("x", Op("+", <<Var("x"), Num(1)>>))>>, <<Var("i")>>),
   For_(<<Range_("i", <<Set("x", Num(1)), Set("x", Num(2))>>, "none", TRUE)>>,
        Op(">", <<Var("i"), Num(3)>>), <<>>, <<Var("i")>>),
   <<"begin", <<<<"let", <<Object("a")>>, <<"r">>, Num(1)>>, Var("r")>>>>,
   Call_(<<"method", [NoParams EXCEPT !.keys = <<Key("a", 1, "a", Num(1)), Key("b", 2, "b", Var("a"))>>],
           <<Var("b")>>>>, <<>>),
   <<"core", <<"for-each", <<"x">>, <<Numbers>>, Op("==", <<Var("x"), Num(6)>>), <<>>,
                <<Set("g", Var("x"))>>>>,
             <<"begin", <<Set("g", Num(5)), Literal(False)>>>>>>}

MCProgram == Blocks \cup Others \cup Unlikes
=============================================================================
