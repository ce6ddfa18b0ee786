------------------------------ MODULE Control -------------------------------
(***************************************************************************)
(* The control of the evaluator: combinations, tail calls, blocks and      *)
(* their exit procedures, errors (eval.c, apply.c, env.c, syntax.c).       *)
(*                                                                         *)
(* Three stacks are kept apart in the code: the C stack, cut by longjmp;   *)
(* eval_stack, a list of entries, one per combination in progress; and     *)
(* ResultValueStack, the types a combination's values must have.  An exit  *)
(* and an error move the first two and leave the third as it is.           *)
(*                                                                         *)
(* A block expands (dylan.y) into                                          *)
(*     (bind-exit (exit)                                                   *)
(*       (unwind-protect                                                   *)
(*         (bind ((#rest vals body)) afterwards (apply exit vals))         *)
(*         cleanup))                                                       *)
(* so that it is left through its exit procedure even when its body        *)
(* completes; that is when its cleanup runs.                               *)
(*                                                                         *)
(* A type is the set of the values it has; a list of result types is cut   *)
(* down to the type of the first value.  marlais_error is modelled as left *)
(* by fail() or end of file, its debugger loop as evaluating nothing.      *)
(***************************************************************************)
EXTENDS Integers, Sequences, FiniteSets

CONSTANTS
  Value,         \* the values methods return
  ResultType,    \* the types they declare, each a subset of Value
  OwedBlocks,    \* whether blocks are entered and exits called below a pending declared result
  CleanupExits,  \* whether a cleanup may call the exit of a block it is not in
  MaxBlocks,     \* bound: blocks ever entered
  MaxDepth,      \* bound: entries of eval_stack
  MaxMethods,    \* bound: methods in progress
  MaxResults,    \* bound: entries of ResultValueStack
  MaxRuns        \* bound: runs of one cleanup

ASSUME TypesAssumption  == ResultType \subseteq SUBSET Value
ASSUME LimitsAssumption == /\ MaxBlocks \in Nat /\ MaxDepth \in Nat \ {0}
                           /\ MaxMethods \in Nat /\ MaxResults \in Nat /\ MaxRuns \in Nat

VARIABLES
  stack,    \* eval_stack, the innermost entry last; the first is the top level's
  results,  \* ResultValueStack, the newest last
  blocks,   \* the number of blocks entered; a block is known by its number
  runs,     \* runs[b]: how often the cleanup of block b has been started
  dropped   \* the blocks an error has dropped

vars == <<stack, results, blocks, runs, dropped>>

Block == 1..MaxBlocks
Any   == Value  \* <object>, the type default_result_value starts from

\* ctx: what the combination evaluates.  blk: its block, or the target of an exit.
\* decl: the result type of the method applied.  tail: that method is at its last form.
\* owes: the types of the methods whose value this combination's value is.
\* at: an exit's place in its walk down the stack, the entry whose cleanup it runs.
Entry == [ctx : {"top-level", "apply", "bind-exit", "unwind-protect", "bind", "exit"},
          blk : Block \cup {0}, decl : ResultType \cup {Any}, tail : BOOLEAN,
          owes : SUBSET ResultType, at : 0..MaxDepth]

TypeOK ==
  /\ stack \in Seq(Entry) /\ stack # <<>> /\ Len(stack) <= MaxDepth
  /\ results \in Seq(SUBSET Value) /\ Len(results) <= MaxResults
  /\ blocks \in 0..MaxBlocks
  /\ runs \in [Block -> 0..MaxRuns]
  /\ dropped \subseteq 1..blocks

NewEntry(ctx, b, owes) ==
  [ctx |-> ctx, blk |-> b, decl |-> Any, tail |-> FALSE, owes |-> owes, at |-> 0]

Init ==
  /\ stack = <<NewEntry("top-level", 0, {})>>
  /\ results = <<>>
  /\ blocks = 0
  /\ runs = [b \in Block |-> 0]
  /\ dropped = {}

-----------------------------------------------------------------------------
(* Combinations. *)

Top        == stack[Len(stack)]
Below(s)   == SubSeq(s, 1, Len(s) - 1)
Newest(s)  == s[Len(s)]

\* An exit that is running a cleanup.
Cleaning(e) == e.ctx = "exit" /\ e.at # 0

\* The innermost entry evaluates forms: every entry but an exit on its walk, and but the
\* first two of a block, whose only form is the next one.
Evaluating == Top.ctx \in {"top-level", "apply", "bind"} \/ Cleaning(Top)

\* eval_combination puts an entry on the stack and a fresh type on ResultValueStack.  One
\* that is the last form of a method takes over the entry, the type and what is owed.
Places ==
  {[stk |-> stack, res |-> Append(results, Any), owes |-> {}]} \cup
  (IF Top.tail THEN {[stk |-> Below(stack), res |-> results, owes |-> Top.owes]} ELSE {})

Fit(stk, res) ==
  /\ Len(stk) <= MaxDepth /\ Len(res) <= MaxResults
  /\ Cardinality({i \in DOMAIN stk : stk[i].ctx = "apply"}) <= MaxMethods

Owing == \E i \in DOMAIN stack : stack[i].owes # {}

\* The blocks on the stack from position i on.
BlocksFrom(i) == {stack[j].blk : j \in {k \in i..Len(stack) : stack[k].ctx = "bind-exit"}}

\* An error: longjmp to the read-eval-print loop, which starts a new eval_stack.
Error ==
  /\ stack' = <<NewEntry("top-level", 0, {})>>
  /\ dropped' = dropped \cup BlocksFrom(1)
  /\ UNCHANGED <<results, blocks, runs>>

\* Slip: the types exits have left behind are popped too, and one more.
DeliverTrims(stk, v) ==
  IF v \in Newest(results)
  THEN /\ stack' = stk
       /\ results' = SubSeq(Below(results), 1, Len(stk) - 2)
       /\ UNCHANGED <<blocks, runs, dropped>>
  ELSE Error

\* The end of eval_combination: it pops a type and checks the value against it.
Deliver(stk, v) ==
  IF v \in Newest(results)
  THEN /\ stack' = stk
       /\ results' = Below(results)
       /\ UNCHANGED <<blocks, runs, dropped>>
  ELSE Error

\* Slip: the type of the method applied last always counts.
narrowLast(old, new) == new

\* narrow_value_types, for one value: a type that is no subtype is ignored.
narrow(old, new) == IF new \subseteq old THEN new ELSE old

-----------------------------------------------------------------------------
(* Methods. *)

\* A combination that applies a method declared to return a t.
Apply(t) ==
  /\ Evaluating
  /\ \E p \in Places :
       /\ stack' = Append(p.stk, [NewEntry("apply", 0, p.owes) EXCEPT !.decl = t])
       /\ results' = p.res
       /\ Fit(stack', results')
  /\ UNCHANGED <<blocks, runs, dropped>>

\* Slip: a method that declares nothing is owed, too.
LastFormOwesAny ==
  /\ Top.ctx = "apply" /\ ~Top.tail
  /\ stack' = [stack EXCEPT ![Len(stack)].tail = TRUE,
                            ![Len(stack)].owes = @ \cup {Top.decl}]
  /\ results' = [results EXCEPT ![Len(results)] = narrow(@, Top.decl)]
  /\ UNCHANGED <<blocks, runs, dropped>>

\* apply_method comes to the last form: it narrows whatever type is on top.
LastForm ==
  /\ Top.ctx = "apply" /\ ~Top.tail
  /\ stack' = [stack EXCEPT ![Len(stack)].tail = TRUE,
                            ![Len(stack)].owes = @ \cup ({Top.decl} \ {Any})]
  /\ results' = [results EXCEPT ![Len(results)] = narrow(@, Top.decl)]
  /\ UNCHANGED <<blocks, runs, dropped>>

\* The last form has a value, of its own or from a primitive it applied.
Return(v) ==
  /\ Top.ctx = "apply" /\ Top.tail
  /\ Deliver(Below(stack), v)

-----------------------------------------------------------------------------
(* Blocks. *)

EnterBlock ==
  /\ Evaluating
  /\ blocks < MaxBlocks
  /\ OwedBlocks \/ ~Owing
  /\ LET b == blocks + 1 IN
     \E p \in Places :
       /\ stack' = p.stk \o <<NewEntry("bind-exit", b, p.owes),
                              NewEntry("unwind-protect", b, {}), NewEntry("bind", b, {})>>
       /\ results' = p.res \o <<Any, Any>>
       /\ Fit(stack', results')
       /\ blocks' = b
  /\ UNCHANGED <<runs, dropped>>

\* The blocks whose exit the running code may call, other than by completing them: any
\* that was ever entered, for an exit procedure is a value; where the run excludes it, no
\* block outside of the cleanup in progress.
Callable ==
  LET cleaning == {i \in DOMAIN stack : Cleaning(stack[i])}
  IN  IF CleanupExits \/ cleaning = {} THEN 1..blocks
      ELSE BlocksFrom(CHOOSE i \in cleaning : \A j \in cleaning : j <= i)

\* apply_exit: unwind_to_exit starts below the entry of its own combination.
CallExit(b) ==
  /\ Evaluating
  /\ b \in Callable
  /\ OwedBlocks \/ ~Owing
  /\ \E p \in Places :
       /\ stack' = Append(p.stk, NewEntry("exit", b, {}))
       /\ results' = p.res
       /\ Fit(stack', results')
  /\ UNCHANGED <<blocks, runs, dropped>>

\* The body has completed, and the afterwards clause: (apply exit vals).
CompleteBody ==
  /\ Top.ctx = "bind"
  /\ stack' = Append(stack, NewEntry("exit", Top.blk, {}))
  /\ results' = Append(results, Any)
  /\ Fit(stack', results')
  /\ UNCHANGED <<blocks, runs, dropped>>

-----------------------------------------------------------------------------
(* unwind_to_exit. *)

\* Slip: the walk stops only at the exit's own block.
StopsBlind ==
  {i \in 1..(Len(stack) - 1) :
     /\ Top.at # 0 => i < Top.at
     /\ stack[i].ctx = "bind-exit" /\ stack[i].blk = Top.blk}

\* Slip: the walk starts over from the innermost entry after each cleanup.
StopsAnew ==
  {i \in 1..(Len(stack) - 1) :
     \/ stack[i].ctx = "bind-exit" /\ stack[i].blk = Top.blk
     \/ stack[i].ctx = "unwind-protect"}

\* Where the walk of the innermost entry can stop: below where it is, at the block of
\* the exit or at an unwind-protect.
Stops ==
  {i \in 1..(Len(stack) - 1) :
     /\ Top.at # 0 => i < Top.at
     /\ \/ stack[i].ctx = "bind-exit" /\ stack[i].blk = Top.blk
        \/ stack[i].ctx = "unwind-protect"}

NextStop == CHOOSE i \in Stops : \A j \in Stops : j <= i

\* The walk meets an unwind-protect: its cleanup is evaluated where the exit was called,
\* with eval_stack as it is.
RunCleanup ==
  /\ Top.ctx = "exit"
  /\ Stops # {}
  /\ stack[NextStop].ctx = "unwind-protect"
  /\ LET b == stack[NextStop].blk IN
     /\ runs[b] < MaxRuns
     /\ runs' = [runs EXCEPT ![b] = @ + 1]
  /\ stack' = [stack EXCEPT ![Len(stack)].at = NextStop]
  /\ UNCHANGED <<results, blocks, dropped>>

\* The walk meets the block: longjmp to bind_exit_eval, whose combination ends.
ReachBlock(v) ==
  /\ Top.ctx = "exit"
  /\ Stops # {}
  /\ stack[NextStop].ctx = "bind-exit"
  /\ Deliver(SubSeq(stack, 1, NextStop - 1), v)

\* The walk meets the end of the stack: the block has been left already.
ReachEnd ==
  /\ Top.ctx = "exit"
  /\ Stops = {}
  /\ Error

\* Any form may signal an error.
SignalError == Evaluating /\ Error

Next ==
  \/ \E t \in ResultType \cup {Any} : Apply(t)
  \/ LastForm
  \/ \E v \in Value : Return(v)
  \/ EnterBlock
  \/ \E b \in Block : CallExit(b)
  \/ CompleteBody
  \/ RunCleanup
  \/ \E v \in Value : ReachBlock(v)
  \/ ReachEnd
  \/ SignalError

Spec == Init /\ [][Next]_vars

-----------------------------------------------------------------------------
(* Properties. *)

\* Every combination in progress finds a type on ResultValueStack when it ends (eval.c:172
\* takes the CAR without a test), whatever exits and errors have left there.
EnoughResults == Len(stack) - 1 <= Len(results)

\* A block that is no longer in progress, unless an error dropped it, has run its cleanup:
\* however it was left (DIFFERENCES:168-172).
LeftCleaned ==
  \A b \in 1..blocks : b \notin BlocksFrom(1) /\ b \notin dropped => runs[b] > 0

\* A cleanup runs once.  It does as long as no cleanup leaves a block it is not in.
CleanupOnce == \A b \in Block : runs[b] <= 1

\* The value of a method that declares its result, and of each method it is the value of
\* by tail calls, has the declared type (apply.c:338-351).  It does as long as no exit is
\* taken between the last form of such a method and its value, and of two declared types
\* one is below the other.
DeclaredResults ==
  [][\A v \in Value :
       results' # results =>
         /\ Return(v) => \A t \in Top.owes : v \in t
         /\ ReachBlock(v) => \A t \in stack[NextStop].owes : v \in t]_vars
=============================================================================
