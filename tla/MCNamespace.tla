---------------------------- MODULE MCNamespace -----------------------------
(***************************************************************************)
(* Namespace for TLC: two names, and modules that use dylan-user or one    *)
(* another.                                                                *)
(***************************************************************************)
EXTENDS Namespace, TLC

Methods == Permutations(Method)

MCModule == {"dylan", "dylan-user", "A", "B"}
MCName   == {"k", "f"}
MCOrder  == <<"k", "f">>

Same    == [n \in MCName |-> n]
Swapped == [n \in MCName |-> IF n = "k" THEN "f" ELSE "k"]

Use(m, all, as, exports) ==
  [kind |-> "use", used |-> m, all |-> all, as |-> as, exports |-> exports]
Export(names) == [kind |-> "export", names |-> names]

\* An interface to what is defined later; a module that re-exports it; another module of a
\* name that is taken, which renames what it uses, and then uses a list.
MCForms ==
  { [sym |-> "A", clauses |-> <<Use("dylan-user", TRUE, Same, {}), Export({"f"})>>],
    [sym |-> "B", clauses |-> <<Use("A", TRUE, Same, MCName),
                                Use("dylan-user", TRUE, Same, {}), Export(MCName)>>],
    [sym |-> "A", clauses |-> <<Use("B", TRUE, Swapped, {"f"}), Use("A", FALSE, Same, {})>>] }
=============================================================================
