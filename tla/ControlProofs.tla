--------------------------- MODULE ControlProofs ----------------------------
(***************************************************************************)
(* Proofs about Control, for any values, types and bounds: each            *)
(* combination finds its result type, a block that is left has run its     *)
(* cleanup, and, for the programs the constants restrict it to, has run it *)
(* once; and values have the types declared.                               *)
(***************************************************************************)
EXTENDS Control, NatFacts, SequenceTheorems

----------------------------------------------------------------------------
(* What an action does to the stack, entry by entry.                       *)

\* The entry of the top level is never left, and only a method comes to its last form.
Rooted ==
  /\ stack[1].ctx = "top-level"
  /\ \A i \in 1..Len(stack) : stack[i].tail => stack[i].ctx = "apply"

Typed == TypeOK /\ Rooted /\ EnoughResults

\* The first m entries are as they were.
Kept(m) == Len(stack') >= m /\ \A i \in 1..m : stack'[i] = stack[i]

\* All entries but perhaps that of a method, which its last form has taken over.
Handed(m) == /\ m \in 1..Len(stack)
             /\ m = Len(stack) \/ (m = Len(stack) - 1 /\ Top.ctx = "apply")

\* An entry is put on the others: that of a method or an exit.
Pushed(e) ==
  \E m \in 1..Len(stack) : /\ Handed(m) /\ Kept(m)
                           /\ Len(stack') = m + 1 /\ stack'[m + 1] = e

\* The first m entries are left.
Cut(m) == m \in 1..Len(stack) /\ Kept(m) /\ Len(stack') = m

\* Entry i of the stack has other fields.
Altered(i) ==
  /\ Len(stack') = Len(stack)
  /\ \A j \in 1..Len(stack) : j # i => stack'[j] = stack[j]

LEMMA Interval ==
  ASSUME NEW n \in Nat
  PROVE  /\ \A i \in 1..n - 1 : i \in 1..n /\ i # n
         /\ \A i \in 1..n : i = n \/ i \in 1..n - 1
         /\ \A i \in n..n : i = n
OBVIOUS

LEMMA SubInterval ==
  ASSUME NEW n \in Nat, NEW m \in 1..n, NEW i \in 1..m
  PROVE  \A j \in i..m : j \in 1..m /\ j \in i..n
OBVIOUS

LEMMA SeqOf ==
  ASSUME NEW S, NEW n \in Nat, NEW s \in [1..n -> S]
  PROVE  s \in Seq(S)
BY SeqDef

LEMMA StackFacts ==
  ASSUME Typed
  PROVE  /\ Len(stack) \in Nat /\ Len(stack) >= 1
         /\ stack \in [1..Len(stack) -> Entry]
         /\ Len(results) \in Nat /\ results \in [1..Len(results) -> SUBSET Value]
         /\ Top \in Entry
<1>1. stack \in Seq(Entry) /\ stack # <<>> /\ results \in Seq(SUBSET Value)
  BY DEF Typed, TypeOK
<1>2. Len(stack) \in Nat \ {0} /\ stack \in [1..Len(stack) -> Entry]
  BY <1>1, LenProperties, EmptySeq
<1>3. Len(results) \in Nat /\ results \in [1..Len(results) -> SUBSET Value]
  BY <1>1, LenProperties
<1> QED BY <1>2, <1>3 DEF Top

LEMMA NewEntryType ==
  ASSUME NEW ctx \in {"top-level", "apply", "bind-exit", "unwind-protect", "bind", "exit"},
         NEW b \in Block \cup {0}, NEW owes \in SUBSET ResultType
  PROVE  /\ NewEntry(ctx, b, owes) \in Entry
         /\ NewEntry(ctx, b, owes).ctx = ctx /\ NewEntry(ctx, b, owes).blk = b
         /\ NewEntry(ctx, b, owes).owes = owes /\ NewEntry(ctx, b, owes).at = 0
         /\ NewEntry(ctx, b, owes).tail = FALSE
BY LimitsAssumption DEF NewEntry, Entry, Any

LEMMA TopLevelType ==
  /\ NewEntry("top-level", 0, {}) \in Entry
  /\ NewEntry("top-level", 0, {}).ctx = "top-level"
  /\ NewEntry("top-level", 0, {}).owes = {}
  /\ NewEntry("top-level", 0, {}).tail = FALSE
BY LimitsAssumption DEF NewEntry, Entry, Any

\* Where a combination puts its entry and its type.
LEMMA PlaceFacts ==
  ASSUME Typed, NEW p \in Places
  PROVE  /\ p.stk \in Seq(Entry) /\ p.res \in Seq(SUBSET Value)
         /\ Handed(Len(p.stk)) /\ \A i \in 1..Len(p.stk) : p.stk[i] = stack[i]
         /\ Len(p.res) >= Len(p.stk)
         /\ p.owes \in SUBSET ResultType
         /\ \/ p.owes = {} /\ p.stk = stack /\ p.res = Append(results, Any)
            \/ /\ p.owes = Top.owes /\ p.res = results
               /\ Top.ctx = "apply" /\ Len(p.stk) = Len(stack) - 1
<1> USE StackFacts
<1>1. stack \in Seq(Entry) /\ results \in Seq(SUBSET Value) /\ Any \in SUBSET Value
  BY DEF Typed, TypeOK, Any
<1>2. CASE p = [stk |-> stack, res |-> Append(results, Any), owes |-> {}]
  <2>1. Append(results, Any) \in Seq(SUBSET Value) /\ Len(Append(results, Any)) = Len(results) + 1
    BY <1>1, AppendProperties
  <2>2. p.stk = stack /\ p.res = Append(results, Any) /\ p.owes = {}
    BY <1>2
  <2>3. Len(results) + 1 >= Len(stack)
    BY DEF Typed, EnoughResults
  <2>4. Handed(Len(p.stk)) /\ Len(p.res) >= Len(p.stk)
    BY <2>1, <2>2, <2>3 DEF Handed
  <2> QED BY <1>1, <2>1, <2>2, <2>4
<1>3. CASE Top.tail /\ p = [stk |-> Below(stack), res |-> results, owes |-> Top.owes]
  <2>1. Top.ctx = "apply" /\ Len(stack) > 1
    BY <1>3 DEF Typed, Rooted, Top
  <2>2. /\ Below(stack) \in Seq(Entry) /\ Len(Below(stack)) = Len(stack) - 1
        /\ \A i \in 1..Len(stack) - 1 : Below(stack)[i] = stack[i]
    <3>1. \A i \in 1..Len(stack) - 1 : stack[i] \in Entry
      OBVIOUS
    <3> QED BY <2>1, <3>1, SubSeqProperties DEF Below
  <2>3. Top.owes \in SUBSET ResultType
    BY DEF Entry
  <2>4. p.stk = Below(stack) /\ p.res = results /\ p.owes = Top.owes
    BY <1>3
  <2>5. Handed(Len(p.stk)) /\ Len(p.res) >= Len(p.stk)
    <3>1. Len(p.stk) = Len(stack) - 1
      BY <2>2, <2>4
    <3>2. Len(p.res) >= Len(p.stk)
      BY <2>4, <3>1 DEF Typed, EnoughResults
    <3>3. Handed(Len(stack) - 1)
      BY <2>1 DEF Handed
    <3> QED BY <3>1, <3>2, <3>3
  <2> QED BY <1>1, <2>1, <2>2, <2>3, <2>4, <2>5
<1> QED BY <1>2, <1>3 DEF Places

\* An entry is put on one of the places.
LEMMA PushFacts ==
  ASSUME Typed, NEW p \in Places, NEW e \in Entry, stack' = Append(p.stk, e)
  PROVE  /\ stack' \in Seq(Entry) /\ stack' # <<>> /\ Len(stack') = Len(p.stk) + 1
         /\ Kept(Len(p.stk)) /\ stack'[Len(p.stk) + 1] = e
         /\ Pushed(e)
<1> USE StackFacts
<1>1. /\ p.stk \in Seq(Entry) /\ Handed(Len(p.stk))
      /\ \A i \in 1..Len(p.stk) : p.stk[i] = stack[i]
  BY PlaceFacts
<1>2. /\ stack' \in Seq(Entry) /\ stack' # <<>> /\ Len(stack') = Len(p.stk) + 1
      /\ \A i \in 1..Len(p.stk) : stack'[i] = p.stk[i]
      /\ stack'[Len(p.stk) + 1] = e
  BY <1>1, AppendProperties
<1>3. Len(p.stk) \in 1..Len(stack)
  BY <1>1 DEF Handed
<1>4. Kept(Len(p.stk))
  BY <1>1, <1>2, <1>3 DEF Kept
<1> QED BY <1>1, <1>2, <1>3, <1>4 DEF Pushed

\* An error leaves the entry of the top level.
LEMMA ErrorFacts ==
  ASSUME Typed, Error
  PROVE  /\ stack' \in Seq(Entry) /\ stack' # <<>> /\ Len(stack') = 1
         /\ stack'[1] = NewEntry("top-level", 0, {})
<1> QED BY TopLevelType DEF Error

\* The end of a combination, below the first m entries.
LEMMA DeliverFacts ==
  ASSUME Typed, NEW m \in 1..Len(stack) - 1, NEW v \in Value, Deliver(SubSeq(stack, 1, m), v)
  PROVE  \/ /\ stack' \in Seq(Entry) /\ stack' # <<>> /\ Cut(m)
            /\ results' \in Seq(SUBSET Value) /\ Len(results') = Len(results) - 1
            /\ \A i \in 1..Len(results) - 1 : results'[i] = results[i]
            /\ v \in results[Len(results)]
            /\ UNCHANGED <<blocks, runs, dropped>>
         \/ Error
<1> USE StackFacts
<1> SUFFICES ASSUME v \in Newest(results), stack' = SubSeq(stack, 1, m), results' = Below(results),
                    UNCHANGED <<blocks, runs, dropped>>
             PROVE  /\ stack' \in Seq(Entry) /\ stack' # <<>> /\ Cut(m)
                    /\ results' \in Seq(SUBSET Value) /\ Len(results') = Len(results) - 1
                    /\ \A i \in 1..Len(results) - 1 : results'[i] = results[i]
                    /\ v \in results[Len(results)]
  BY DEF Deliver
<1>1. \A i \in 1..m : stack[i] \in Entry
  OBVIOUS
<1>2. /\ stack' \in Seq(Entry) /\ Len(stack') = m
      /\ \A i \in 1..m : stack'[i] = stack[i]
  BY <1>1, SubSeqProperties
<1>3. Len(results) >= 1
  BY DEF Typed, EnoughResults
<1>4. \A i \in 1..Len(results) - 1 : results[i] \in SUBSET Value
  BY <1>3, SMTT(20)
<1>5. /\ results' \in Seq(SUBSET Value) /\ Len(results') = Len(results) - 1
      /\ \A i \in 1..Len(results) - 1 : results'[i] = results[i]
  BY <1>3, <1>4, SubSeqProperties DEF Below
<1>6. stack' # <<>>
  BY <1>2, EmptySeq
<1>7. Cut(m)
  BY <1>2 DEF Cut, Kept
<1> QED BY <1>2, <1>3, <1>5, <1>6, <1>7 DEF Newest

----------------------------------------------------------------------------
(* Types, and enough results.                                              *)

LEMMA TypedInit == Init => Typed
<1> SUFFICES ASSUME Init PROVE Typed
  OBVIOUS
<1>1. NewEntry("top-level", 0, {}) \in Entry /\ NewEntry("top-level", 0, {}).ctx = "top-level"
      /\ NewEntry("top-level", 0, {}).tail = FALSE
  BY TopLevelType
<1>2. stack \in Seq(Entry) /\ Len(stack) = 1 /\ stack[1] = NewEntry("top-level", 0, {}) /\ stack # <<>>
  BY <1>1 DEF Init
<1>3. results \in Seq(SUBSET Value) /\ Len(results) = 0
  BY DEF Init
<1> QED BY <1>1, <1>2, <1>3, LimitsAssumption DEF Init, Typed, TypeOK, Rooted, EnoughResults

\* What an error drops are blocks that were entered.
Numbered == \A i \in 1..Len(stack) : stack[i].ctx = "bind-exit" => stack[i].blk \in 1..blocks

LEMMA TypedError == Typed /\ Numbered /\ Error => Typed'
<1> SUFFICES ASSUME Typed, Numbered, Error PROVE Typed'
  OBVIOUS
<1> USE StackFacts
<1>1. /\ stack' \in Seq(Entry) /\ stack' # <<>> /\ Len(stack') = 1
      /\ stack'[1].ctx = "top-level" /\ stack'[1].tail = FALSE
  BY ErrorFacts, TopLevelType
<1>2. BlocksFrom(1) \subseteq 1..blocks
  BY DEF BlocksFrom, Numbered
<1>3. TypeOK'
  <2>1. UNCHANGED <<results, blocks, runs>> /\ dropped' = dropped \cup BlocksFrom(1)
    BY DEF Error
  <2>2. dropped' \subseteq 1..blocks'
    BY <1>2, <2>1 DEF Typed, TypeOK
  <2>3. Len(stack') <= MaxDepth
    BY <1>1, LimitsAssumption
  <2> QED BY <1>1, <2>1, <2>2, <2>3 DEF Typed, TypeOK
<1>4. Rooted' /\ EnoughResults'
  BY <1>1 DEF Error, Rooted, EnoughResults
<1> QED BY <1>3, <1>4 DEF Typed

LEMMA TypedDeliver ==
  ASSUME Typed, Numbered, NEW m \in 1..Len(stack) - 1, NEW v \in Value, Deliver(SubSeq(stack, 1, m), v)
  PROVE  Typed'
<1> USE StackFacts
<1>1. CASE Error
  BY <1>1, TypedError
<1>2. CASE ~Error
  <2>1. /\ stack' \in Seq(Entry) /\ stack' # <<>> /\ Cut(m)
        /\ results' \in Seq(SUBSET Value) /\ Len(results') = Len(results) - 1
        /\ UNCHANGED <<blocks, runs, dropped>>
    BY <1>2, DeliverFacts
  <2>2. TypeOK'
    <3>1. Len(stack') <= MaxDepth /\ Len(results') <= MaxResults
      BY <2>1, LimitsAssumption DEF Typed, TypeOK, Cut
    <3> QED BY <2>1, <3>1 DEF Typed, TypeOK
  <2>3. Rooted'
    <3>1. /\ Len(stack') = m /\ 1 \in 1..m
          /\ \A i \in 1..m : i \in 1..Len(stack) /\ stack'[i] = stack[i]
      BY <2>1 DEF Cut, Kept
    <3> QED BY <3>1 DEF Typed, Rooted
  <2>4. EnoughResults'
    BY <2>1 DEF Typed, EnoughResults, Cut
  <2> QED BY <2>2, <2>3, <2>4 DEF Typed
<1> QED BY <1>1, <1>2

LEMMA TypedPush ==
  ASSUME Typed, NEW p \in Places, NEW e \in Entry, stack' = Append(p.stk, e), ~e.tail,
         results' = p.res, Fit(stack', results'), UNCHANGED <<blocks, runs, dropped>>
  PROVE  Typed'
<1> USE StackFacts
<1>1. /\ stack' \in Seq(Entry) /\ stack' # <<>> /\ Len(stack') = Len(p.stk) + 1
      /\ Kept(Len(p.stk)) /\ stack'[Len(p.stk) + 1] = e
  BY PushFacts
<1>2. Handed(Len(p.stk)) /\ Len(p.res) >= Len(p.stk) /\ p.res \in Seq(SUBSET Value)
  BY PlaceFacts
<1>3. TypeOK'
  BY <1>1, <1>2 DEF Typed, TypeOK, Fit
<1>4. Rooted' /\ EnoughResults'
  BY <1>1, <1>2, SMTT(20) DEF Typed, Rooted, EnoughResults, Handed, Kept
<1> QED BY <1>3, <1>4 DEF Typed

----------------------------------------------------------------------------
(* What each action does.                                                  *)

\* One entry is put on the first m, and has not begun a walk.
GrownBy(m, e) ==
  /\ Handed(m) /\ Kept(m)
  /\ Len(stack') = m + 1 /\ stack'[m + 1] = e /\ e.at = 0
  /\ UNCHANGED <<blocks, runs, dropped>>

LEMMA Grown ==
  ASSUME Typed, NEW p \in Places, NEW e \in Entry, stack' = Append(p.stk, e), e.at = 0, ~e.tail,
         results' = p.res, Fit(stack', results'), UNCHANGED <<blocks, runs, dropped>>
  PROVE  Typed' /\ GrownBy(Len(p.stk), e)
<1>1. Typed'
  BY TypedPush
<1>2. Handed(Len(p.stk))
  BY PlaceFacts
<1>3. Len(stack') = Len(p.stk) + 1 /\ Kept(Len(p.stk)) /\ stack'[Len(p.stk) + 1] = e
  BY PushFacts
<1> QED BY <1>1, <1>2, <1>3 DEF GrownBy

LEMMA ApplyStep ==
  ASSUME Typed, NEW t \in ResultType \cup {Any}, Apply(t)
  PROVE  /\ Typed'
         /\ \E m \in Nat, e \in Entry : GrownBy(m, e) /\ e.ctx = "apply"
<1>1. PICK p \in Places :
        /\ stack' = Append(p.stk, [NewEntry("apply", 0, p.owes) EXCEPT !.decl = t])
        /\ results' = p.res /\ Fit(stack', results')
  BY DEF Apply
<1> DEFINE e == [NewEntry("apply", 0, p.owes) EXCEPT !.decl = t]
<1>2. p.owes \in SUBSET ResultType /\ Len(p.stk) \in Nat
  BY PlaceFacts, StackFacts, LenProperties
<1>3. e \in Entry /\ e.ctx = "apply" /\ e.at = 0 /\ ~e.tail
  <2> DEFINE n == NewEntry("apply", 0, p.owes)
  <2>1. n \in Entry /\ n.ctx = "apply" /\ n.at = 0 /\ ~n.tail
    BY <1>2, LimitsAssumption DEF NewEntry, Entry, Any
  <2>2. e = [n EXCEPT !.decl = t]
    OBVIOUS
  <2> HIDE DEF n, e
  <2> QED BY <2>1, <2>2 DEF Entry
<1>4. UNCHANGED <<blocks, runs, dropped>>
  BY DEF Apply
<1>5. stack' = Append(p.stk, e)
  BY <1>1
<1> HIDE DEF e
<1>6. Typed' /\ GrownBy(Len(p.stk), e)
  BY <1>1, <1>3, <1>4, <1>5, Grown
<1> QED BY <1>2, <1>3, <1>6

LEMMA ExitType ==
  ASSUME NEW b \in Block
  PROVE  /\ NewEntry("exit", b, {}) \in Entry
         /\ NewEntry("exit", b, {}).ctx = "exit" /\ NewEntry("exit", b, {}).blk = b
         /\ NewEntry("exit", b, {}).at = 0 /\ ~NewEntry("exit", b, {}).tail
         /\ NewEntry("exit", b, {}).owes = {}
BY LimitsAssumption DEF NewEntry, Entry, Any

LEMMA CallStep ==
  ASSUME Typed, NEW b \in Block, CallExit(b)
  PROVE  /\ Typed'
         /\ \E m \in Nat, e \in Entry :
              GrownBy(m, e) /\ e.ctx = "exit" /\ e.blk = b /\ e.owes = {}
<1>1. PICK p \in Places :
        /\ stack' = Append(p.stk, NewEntry("exit", b, {}))
        /\ results' = p.res /\ Fit(stack', results')
  BY DEF CallExit
<1>2. Len(p.stk) \in Nat
  BY PlaceFacts, StackFacts, LenProperties
<1>3. UNCHANGED <<blocks, runs, dropped>>
  BY DEF CallExit
<1>4. Typed' /\ GrownBy(Len(p.stk), NewEntry("exit", b, {}))
  BY <1>1, <1>3, ExitType, Grown
<1> QED BY <1>2, <1>4, ExitType

LEMMA CompleteStep ==
  ASSUME Typed, CompleteBody, Top.blk \in Block
  PROVE  /\ Typed'
         /\ \E e \in Entry :
              GrownBy(Len(stack), e) /\ e.ctx = "exit" /\ e.blk = Top.blk /\ e.owes = {}
<1> DEFINE p == [stk |-> stack, res |-> Append(results, Any), owes |-> {}]
<1>1. p \in Places /\ p.stk = stack /\ p.res = Append(results, Any)
  BY DEF Places
<1>2. /\ stack' = Append(stack, NewEntry("exit", Top.blk, {}))
      /\ results' = Append(results, Any) /\ Fit(stack', results')
      /\ UNCHANGED <<blocks, runs, dropped>>
  BY DEF CompleteBody
<1> HIDE DEF p
<1>3. Typed' /\ GrownBy(Len(stack), NewEntry("exit", Top.blk, {}))
  BY <1>1, <1>2, ExitType, Grown
<1> QED BY <1>3, ExitType

\* The entries of a block are put on the first m.
OpenedAt(m) ==
  /\ Handed(m) /\ Kept(m) /\ Len(stack') = m + 3
  /\ \A i \in 1..3 : ~stack'[m + i].tail /\ stack'[m + i].at = 0 /\ stack'[m + i].blk = blocks + 1
  /\ stack'[m + 1].ctx = "bind-exit"
  /\ stack'[m + 2].ctx = "unwind-protect" /\ stack'[m + 2].owes = {}
  /\ stack'[m + 3].ctx = "bind" /\ stack'[m + 3].owes = {}
  /\ blocks < MaxBlocks /\ blocks' = blocks + 1
  /\ UNCHANGED <<runs, dropped>>

LEMMA EnterStep ==
  ASSUME Typed, EnterBlock
  PROVE  /\ Typed'
         /\ \E m \in Nat : /\ OpenedAt(m)
                           /\ stack'[m + 1].owes \in {{}, Top.owes}
<1> USE StackFacts
<1> DEFINE b == blocks + 1
<1>1. PICK p \in Places :
        /\ stack' = p.stk \o <<NewEntry("bind-exit", b, p.owes),
                               NewEntry("unwind-protect", b, {}), NewEntry("bind", b, {})>>
        /\ results' = p.res \o <<Any, Any>>
        /\ Fit(stack', results') /\ blocks' = b
  BY DEF EnterBlock
<1>2. blocks \in Nat /\ blocks < MaxBlocks /\ b \in Block /\ b \in 0..MaxBlocks /\ b \notin {0}
  BY LimitsAssumption DEF Typed, TypeOK, EnterBlock, Block
<1>3. UNCHANGED <<runs, dropped>>
  BY DEF EnterBlock
<1> HIDE DEF b
<1>4. /\ p.stk \in Seq(Entry) /\ p.res \in Seq(SUBSET Value)
      /\ Handed(Len(p.stk)) /\ \A i \in 1..Len(p.stk) : p.stk[i] = stack[i]
      /\ Len(p.res) >= Len(p.stk) /\ p.owes \in SUBSET ResultType
      /\ p.owes = {} \/ p.owes = Top.owes
  BY PlaceFacts
<1>5. Len(p.stk) \in 1..Len(stack) /\ Len(p.res) \in Nat
  BY <1>4, LenProperties DEF Handed
<1> DEFINE one   == NewEntry("bind-exit", b, p.owes)
           two   == NewEntry("unwind-protect", b, {})
           three == NewEntry("bind", b, {})
           m     == Len(p.stk)
<1>6. /\ one \in Entry /\ one.ctx = "bind-exit" /\ one.owes = p.owes
      /\ one.at = 0 /\ ~one.tail /\ one.blk = b
  BY <1>2, <1>4, LimitsAssumption DEF NewEntry, Entry, Any
<1>7. /\ two \in Entry /\ two.ctx = "unwind-protect" /\ two.owes = {}
      /\ two.at = 0 /\ ~two.tail /\ two.blk = b
  BY <1>2, LimitsAssumption DEF NewEntry, Entry, Any
<1>8. /\ three \in Entry /\ three.ctx = "bind" /\ three.owes = {}
      /\ three.at = 0 /\ ~three.tail /\ three.blk = b
  BY <1>2, LimitsAssumption DEF NewEntry, Entry, Any
<1>9. stack' = p.stk \o <<one, two, three>>
  BY <1>1
<1> HIDE DEF one, two, three
<1>10. /\ stack' \in Seq(Entry) /\ Len(stack') = m + 3
       /\ \A i \in 1..m : stack'[i] = p.stk[i]
       /\ stack'[m + 1] = one /\ stack'[m + 2] = two /\ stack'[m + 3] = three
  <2>1. <<one, two, three>> \in Seq(Entry) /\ Len(<<one, two, three>>) = 3
    BY <1>6, <1>7, <1>8
  <2>2. <<one, two, three>>[1] = one /\ <<one, two, three>>[2] = two /\ <<one, two, three>>[3] = three
    OBVIOUS
  <2> QED BY <1>4, <1>5, <1>9, <2>1, <2>2, ConcatProperties
<1>11. results' \in Seq(SUBSET Value) /\ Len(results') = Len(p.res) + 2
  <2>1. <<Any, Any>> \in Seq(SUBSET Value) /\ Len(<<Any, Any>>) = 2
    BY DEF Any
  <2> QED BY <1>1, <1>4, <1>5, <2>1, ConcatProperties
<1>12. \A i \in 1..m : stack'[i] = stack[i]
  BY <1>4, <1>10
<1> m \in 1..Len(stack) /\ Handed(m)
  BY <1>4, <1>5
<1>13. TypeOK'
  <2>1. stack' # <<>>
    BY <1>10, EmptySeq
  <2>2. Len(stack') <= MaxDepth /\ Len(results') <= MaxResults
    BY <1>1 DEF Fit
  <2>3. runs' \in [Block -> 0..MaxRuns] /\ blocks' \in 0..MaxBlocks
    BY <1>1, <1>2, <1>3 DEF Typed, TypeOK
  <2>4. dropped' \subseteq 1..blocks'
    BY <1>1, <1>2, <1>3 DEF Typed, TypeOK, b
  <2> QED BY <1>10, <1>11, <2>1, <2>2, <2>3, <2>4 DEF TypeOK
<1>14. Rooted'
  <2>1. stack'[1] = stack[1]
    BY <1>12
  <2>2. ASSUME NEW i \in 1..m + 3, stack'[i].tail PROVE stack'[i].ctx = "apply"
    <3>1. i \in 1..m
      <4>1. m \in Nat /\ (i \in 1..m \/ i = m + 1 \/ i = m + 2 \/ i = m + 3)
        BY SMTT(20)
      <4> HIDE DEF m
      <4> QED BY <1>6, <1>7, <1>8, <1>10, <2>2, <4>1
    <3> QED BY <1>12, <2>2, <3>1 DEF Typed, Rooted
  <2> QED BY <1>10, <2>1, <2>2 DEF Typed, Rooted
<1>15. EnoughResults'
  BY <1>4, <1>5, <1>10, <1>11 DEF EnoughResults
<1>16. OpenedAt(m)
  <2>1. Kept(m)
    BY <1>10, <1>12 DEF Kept
  <2>2. \A i \in 1..3 : ~stack'[m + i].tail /\ stack'[m + i].at = 0 /\ stack'[m + i].blk = b
    BY <1>6, <1>7, <1>8, <1>10
  <2> QED BY <1>1, <1>2, <1>3, <1>4, <1>6, <1>7, <1>8, <1>10, <2>1, <2>2 DEF OpenedAt, b
<1>17. stack'[m + 1].owes \in {{}, Top.owes}
  BY <1>4, <1>6, <1>10
<1> QED BY <1>13, <1>14, <1>15, <1>16, <1>17 DEF Typed

\* The top entry has come to its last form, or is an exit that has met an unwind-protect.
AlteredTop ==
  /\ Len(stack') = Len(stack)
  /\ \A i \in 1..Len(stack) - 1 : stack'[i] = stack[i]
  /\ stack'[Len(stack)].ctx = Top.ctx /\ stack'[Len(stack)].blk = Top.blk

LEMMA LastFormStep ==
  ASSUME Typed, LastForm
  PROVE  /\ Typed' /\ AlteredTop /\ stack'[Len(stack)].at = Top.at
         /\ stack'[Len(stack)].owes = Top.owes \cup ({Top.decl} \ {Any})
         /\ results' = [results EXCEPT ![Len(results)] = narrow(@, Top.decl)]
         /\ UNCHANGED <<blocks, runs, dropped>>
<1> USE StackFacts
<1> DEFINE n == Len(stack)
           e == [Top EXCEPT !.tail = TRUE, !.owes = @ \cup ({Top.decl} \ {Any})]
<1>1. /\ stack' = [stack EXCEPT ![n] = e] /\ Top.ctx = "apply"
      /\ results' = [results EXCEPT ![Len(results)] = narrow(@, Top.decl)]
      /\ UNCHANGED <<blocks, runs, dropped>>
  BY DEF LastForm, Top
<1>2. /\ e \in Entry /\ e.ctx = Top.ctx /\ e.blk = Top.blk /\ e.at = Top.at
      /\ e.owes = Top.owes \cup ({Top.decl} \ {Any})
  BY DEF Entry
<1> HIDE DEF e
<1>3. /\ stack' \in Seq(Entry) /\ Len(stack') = n /\ stack' # <<>> /\ stack'[n] = e
      /\ \A i \in 1..n - 1 : stack'[i] = stack[i]
  <2>1. stack \in Seq(Entry) /\ n \in 1..n
    BY DEF Typed, TypeOK
  <2>2. stack' \in Seq(Entry) /\ Len(stack') = n
    BY <1>1, <1>2, <2>1, ExceptSeq
  <2>3. stack' # <<>>
    BY <2>2, EmptySeq
  <2>4. \A i \in 1..n - 1 : i \in 1..n /\ i # n
    BY Interval
  <2> HIDE DEF n
  <2> QED BY <1>1, <1>2, <2>1, <2>2, <2>3, <2>4, ExceptSeq
<1>4. results' \in Seq(SUBSET Value) /\ Len(results') = Len(results)
  <2>1. n # 1
    BY <1>1 DEF Typed, Rooted, Top
  <2>2. Len(results) \in 1..Len(results) /\ results \in Seq(SUBSET Value)
    <3>1. Len(results) >= 1
      BY <2>1 DEF Typed, EnoughResults
    <3> QED BY <3>1 DEF Typed, TypeOK
  <2>3. Top.decl \in SUBSET Value
    BY TypesAssumption DEF Entry, Any
  <2>4. narrow(results[Len(results)], Top.decl) \in SUBSET Value
    BY <2>2, <2>3 DEF narrow
  <2> QED BY <1>1, <2>2, <2>4, ExceptSeq
<1>5. TypeOK'
  BY <1>1, <1>3, <1>4 DEF Typed, TypeOK
<1>6. Rooted'
  <2>1. n # 1
    BY <1>1 DEF Typed, Rooted, Top
  <2>2. 1 \in 1..n - 1
    BY <2>1
  <2>3. e.ctx = "apply" /\ stack'[1] = stack[1]
    BY <1>1, <1>2, <1>3, <2>2
  <2>4. \A i \in 1..n : i = n \/ i \in 1..n - 1
    BY Interval
  <2> HIDE DEF n
  <2> QED BY <1>3, <2>3, <2>4 DEF Typed, Rooted, n
<1>7. EnoughResults'
  BY <1>3, <1>4 DEF Typed, EnoughResults
<1>8. AlteredTop
  BY <1>2, <1>3 DEF AlteredTop
<1> QED BY <1>1, <1>2, <1>3, <1>5, <1>6, <1>7, <1>8 DEF Typed

\* Among the places where a walk can stop it takes the innermost.
LEMMA StopFacts ==
  ASSUME Typed, Stops # {}
  PROVE  NextStop \in Stops /\ \A j \in Stops : j <= NextStop
<1> USE StackFacts
<1> DEFINE n     == Len(stack)
           Far   == {n - i : i \in Stops}
<1>1. Stops \subseteq 1..n - 1
  BY DEF Stops
<1>2. Far \subseteq Nat /\ Far # {}
  <2>1. \A i \in Stops : n - i \in Nat
    BY <1>1
  <2> QED BY <2>1
<1>3. PICK d \in Far : \A c \in Far : d <= c
  BY <1>2, MinExists
<1>4. PICK i \in Stops : d = n - i
  BY <1>3
<1>5. \A j \in Stops : j <= i
  <2> TAKE j \in Stops
  <2>1. n - i <= n - j
    BY <1>3, <1>4
  <2> QED BY <1>1, <2>1
<1> QED BY <1>5 DEF NextStop

\* An exit whose walk has come to entry s.
RunAt(s) ==
  /\ Top.ctx = "exit" /\ s \in 1..Len(stack) - 1
  /\ Top.at # 0 => s < Top.at
  /\ stack[s].ctx = "unwind-protect"
  /\ \A j \in Stops : j <= s
  /\ AlteredTop /\ stack'[Len(stack)].at = s /\ stack'[Len(stack)].owes = Top.owes
  /\ runs' = [runs EXCEPT ![stack[s].blk] = @ + 1]
  /\ UNCHANGED <<results, blocks, dropped>>

LEMMA RunStep ==
  ASSUME Typed, RunCleanup, \A i \in 1..Len(stack) : stack[i].ctx = "unwind-protect" => stack[i].blk \in Block
  PROVE  Typed' /\ \E s \in 1..Len(stack) - 1 : RunAt(s)
<1> USE StackFacts
<1> DEFINE n == Len(stack)
           s == NextStop
           e == [Top EXCEPT !.at = s]
           b == stack[s].blk
<1>1. s \in Stops /\ \A j \in Stops : j <= s
  BY StopFacts DEF RunCleanup
<1>2. s \in 1..n - 1 /\ (Top.at # 0 => s < Top.at)
  BY <1>1 DEF Stops
<1>3. /\ Top.ctx = "exit" /\ stack[s].ctx = "unwind-protect" /\ runs[b] < MaxRuns
      /\ runs' = [runs EXCEPT ![b] = @ + 1] /\ UNCHANGED <<results, blocks, dropped>>
      /\ stack' = [stack EXCEPT ![n] = e]
  BY DEF RunCleanup, Top
<1>4. s \in 0..MaxDepth /\ b \in Block
  BY <1>2, <1>3, LimitsAssumption DEF Typed, TypeOK
<1>5. /\ e \in Entry /\ e.ctx = Top.ctx /\ e.blk = Top.blk /\ e.at = s
      /\ e.owes = Top.owes /\ e.tail = Top.tail
  BY <1>4 DEF Entry
<1> HIDE DEF e, s
<1>6. /\ stack' \in Seq(Entry) /\ Len(stack') = n /\ stack' # <<>> /\ stack'[n] = e
      /\ \A i \in 1..n - 1 : stack'[i] = stack[i]
  <2>1. stack \in Seq(Entry) /\ n \in 1..n
    BY DEF Typed, TypeOK
  <2>2. stack' \in Seq(Entry) /\ Len(stack') = n
    BY <1>3, <1>5, <2>1, ExceptSeq
  <2>3. stack' # <<>>
    BY <2>2, EmptySeq
  <2>4. \A i \in 1..n - 1 : i \in 1..n /\ i # n
    BY Interval
  <2> HIDE DEF n
  <2> QED BY <1>3, <1>5, <2>1, <2>2, <2>3, <2>4, ExceptSeq
<1>7. runs' \in [Block -> 0..MaxRuns]
  <2>1. runs \in [Block -> 0..MaxRuns]
    BY DEF Typed, TypeOK
  <2>2. runs[b] + 1 \in 0..MaxRuns
    BY <1>3, <1>4, <2>1, LimitsAssumption
  <2> QED BY <1>3, <2>1, <2>2
<1>8. TypeOK'
  BY <1>3, <1>6, <1>7 DEF Typed, TypeOK
<1>9. Rooted' /\ EnoughResults'
  <2>1. ~e.tail /\ n # 1
    BY <1>3, <1>5 DEF Typed, Rooted, Top
  <2>2. Rooted'
    BY <1>6, <2>1 DEF Typed, Rooted
  <2>3. EnoughResults'
    BY <1>3, <1>6 DEF Typed, EnoughResults
  <2> QED BY <2>2, <2>3
<1>10. AlteredTop
  BY <1>5, <1>6 DEF AlteredTop
<1>11. RunAt(s)
  BY <1>1, <1>2, <1>3, <1>5, <1>6, <1>10 DEF RunAt
<1> QED BY <1>2, <1>8, <1>9, <1>11 DEF Typed

\* A combination has ended with the value it has, and the entries above the first m are left.
Left(m, v) ==
  /\ Cut(m) /\ v \in results[Len(results)]
  /\ Len(results') = Len(results) - 1
  /\ \A i \in 1..Len(results) - 1 : results'[i] = results[i]
  /\ UNCHANGED <<blocks, runs, dropped>>

LEMMA ReturnStep ==
  ASSUME Typed, Numbered, NEW v \in Value, Return(v)
  PROVE  /\ Typed' /\ Top.ctx = "apply" /\ Len(stack) - 1 \in 1..Len(stack) - 1
         /\ Error \/ Left(Len(stack) - 1, v)
<1> USE StackFacts
<1>1. Top.ctx = "apply" /\ Len(stack) - 1 \in 1..Len(stack) - 1
  BY DEF Return, Typed, Rooted, Top
<1>2. Deliver(SubSeq(stack, 1, Len(stack) - 1), v)
  BY DEF Return, Below
<1>3. Typed'
  BY <1>1, <1>2, TypedDeliver
<1>4. Error \/ Left(Len(stack) - 1, v)
  BY <1>1, <1>2, DeliverFacts DEF Left
<1> QED BY <1>1, <1>3, <1>4

\* An exit whose walk has come to its block at s.
ReachedAt(s) ==
  /\ Top.ctx = "exit" /\ s \in 2..Len(stack) - 1
  /\ Top.at # 0 => s < Top.at
  /\ stack[s].ctx = "bind-exit"
  /\ \A j \in Stops : j <= s

LEMMA ReachStep ==
  ASSUME Typed, Numbered, NEW v \in Value, ReachBlock(v)
  PROVE  /\ Typed' /\ ReachedAt(NextStop)
         /\ Error \/ Left(NextStop - 1, v)
<1> USE StackFacts
<1>1. NextStop \in Stops /\ \A j \in Stops : j <= NextStop
  BY StopFacts DEF ReachBlock
<1>2. /\ Top.ctx = "exit" /\ stack[NextStop].ctx = "bind-exit"
      /\ Deliver(SubSeq(stack, 1, NextStop - 1), v)
  BY DEF ReachBlock
<1>3. NextStop \in 2..Len(stack) - 1 /\ (Top.at # 0 => NextStop < Top.at)
  <2>1. NextStop # 1
    BY <1>2 DEF Typed, Rooted
  <2> QED BY <1>1, <2>1 DEF Stops
<1>4. NextStop - 1 \in 1..Len(stack) - 1
  BY <1>3
<1>5. Typed'
  BY <1>2, <1>4, TypedDeliver
<1>6. Error \/ Left(NextStop - 1, v)
  BY <1>2, <1>4, DeliverFacts DEF Left
<1> QED BY <1>1, <1>2, <1>3, <1>5, <1>6 DEF ReachedAt

----------------------------------------------------------------------------
(* The entries of a block stay together.                                   *)

ThreeAt(i) ==
  /\ stack[i].ctx = "bind-exit" =>
       /\ i + 2 <= Len(stack) /\ stack[i].blk \in 1..blocks
       /\ stack[i + 1].ctx = "unwind-protect" /\ stack[i + 1].blk = stack[i].blk
       /\ stack[i + 2].ctx = "bind" /\ stack[i + 2].blk = stack[i].blk
  /\ stack[i].ctx = "unwind-protect" => i > 1 /\ stack[i - 1].ctx = "bind-exit"
  /\ stack[i].ctx = "bind" => i > 2 /\ stack[i - 2].ctx = "bind-exit"

Three == \A i \in 1..Len(stack) : ThreeAt(i)

LEMMA ThreeNumbered == Typed /\ Three => Numbered
BY StackFacts DEF Three, ThreeAt, Numbered

\* The stack may be parted after m entries.
Whole(m) ==
  /\ m \in 1..Len(stack)
  /\ m = Len(stack) \/ stack[m + 1].ctx \in {"apply", "bind-exit"}

LEMMA HandedWhole == ASSUME Typed, NEW m, Handed(m) PROVE Whole(m)
<1> USE StackFacts
<1>1. m = Len(stack) - 1 => stack[m + 1] = Top
  BY DEF Top
<1> QED BY <1>1 DEF Handed, Whole

\* Only a method is taken over.
LEMMA HandedStays ==
  ASSUME Typed, NEW m \in 1..Len(stack), Handed(m), NEW i \in 1..Len(stack), stack[i].ctx # "apply"
  PROVE  i \in 1..m
<1> USE StackFacts
<1>1. m = Len(stack) \/ (m = Len(stack) - 1 /\ stack[Len(stack)].ctx = "apply")
  BY DEF Handed, Top
<1>2. CASE m = Len(stack)
  BY <1>2
<1>3. CASE m = Len(stack) - 1 /\ stack[Len(stack)].ctx = "apply"
  <2>1. i # Len(stack)
    BY <1>3
  <2>2. i = Len(stack) \/ i \in 1..Len(stack) - 1
    BY Interval
  <2> QED BY <1>3, <2>1, <2>2
<1> QED BY <1>1, <1>2, <1>3

LEMMA WholeThree ==
  ASSUME Typed, Three, NEW m \in 1..Len(stack), Whole(m), NEW i \in 1..m, stack[i].ctx = "bind-exit"
  PROVE  i + 2 <= m
<1> USE StackFacts
<1>1. m \in 1..Len(stack) /\ i \in 1..Len(stack)
  OBVIOUS
<1>2. /\ i + 2 <= Len(stack) /\ stack[i + 1].ctx = "unwind-protect"
      /\ stack[i + 2].ctx = "bind"
  BY <1>1 DEF Three, ThreeAt
<1>3. CASE m = i
  BY <1>1, <1>2, <1>3 DEF Whole
<1>4. CASE m = i + 1
  <2>1. m + 1 = i + 2
    BY <1>4
  <2> QED BY <1>1, <1>2, <2>1 DEF Whole
<1> QED BY <1>1, <1>3, <1>4

LEMMA ThreePrefix ==
  ASSUME Typed, Three, Typed', NEW m \in 1..Len(stack), Whole(m), Kept(m), blocks' >= blocks, NEW i \in 1..m
  PROVE  ThreeAt(i)'
<1> USE StackFacts
<1>1. m \in 1..Len(stack) /\ i \in 1..Len(stack) /\ m \in Nat /\ i \in Nat /\ i >= 1
  OBVIOUS
<1>2. /\ Len(stack') \in Nat /\ Len(stack') >= m
      /\ \A j \in 1..m : stack'[j] = stack[j]
  BY <1>1 DEF Kept, Typed, TypeOK
<1>3. ThreeAt(i)
  BY <1>1 DEF Three
<1>4. ASSUME stack'[i].ctx = "bind-exit"
      PROVE  /\ i + 2 <= Len(stack') /\ stack'[i].blk \in 1..blocks'
             /\ stack'[i + 1].ctx = "unwind-protect" /\ stack'[i + 1].blk = stack'[i].blk
             /\ stack'[i + 2].ctx = "bind" /\ stack'[i + 2].blk = stack'[i].blk
  <2>1. stack[i].ctx = "bind-exit" /\ stack'[i] = stack[i]
    BY <1>2, <1>4
  <2>2. i + 2 <= m /\ i + 1 \in 1..m /\ i + 2 \in 1..m
    BY <1>1, <2>1, WholeThree
  <2>3. stack'[i + 1] = stack[i + 1] /\ stack'[i + 2] = stack[i + 2]
    BY <1>2, <2>2
  <2>4. blocks \in Nat /\ blocks' \in Nat
    BY DEF Typed, TypeOK
  <2>5. stack[i].blk \in 1..blocks'
    BY <1>3, <2>1, <2>4 DEF ThreeAt
  <2>6. i + 2 <= Len(stack')
    BY <1>1, <1>2, <2>2
  <2> QED BY <1>3, <2>1, <2>3, <2>5, <2>6 DEF ThreeAt
<1>5. ASSUME stack'[i].ctx = "unwind-protect" PROVE i > 1 /\ stack'[i - 1].ctx = "bind-exit"
  <2>1. i > 1 /\ stack[i - 1].ctx = "bind-exit"
    BY <1>2, <1>3, <1>5 DEF ThreeAt
  <2>2. i - 1 \in 1..m
    BY <1>1, <2>1
  <2> QED BY <1>2, <2>1, <2>2
<1>6. ASSUME stack'[i].ctx = "bind" PROVE i > 2 /\ stack'[i - 2].ctx = "bind-exit"
  <2>1. i > 2 /\ stack[i - 2].ctx = "bind-exit"
    BY <1>2, <1>3, <1>6 DEF ThreeAt
  <2>2. i - 2 \in 1..m
    BY <1>1, <2>1
  <2> QED BY <1>2, <2>1, <2>2
<1> QED BY <1>4, <1>5, <1>6 DEF ThreeAt

----------------------------------------------------------------------------
(* What a step does to the stack, whatever action it is.                   *)

\* Above each exit that runs a cleanup there is block b in progress.
Aimed(b) ==
  \A c \in 1..Len(stack) : Cleaning(stack[c]) =>
    \E k \in c + 1..Len(stack) : stack[k].ctx = "bind-exit" /\ stack[k].blk = b

Grows ==
  \E m \in 1..Len(stack), e \in Entry :
    /\ GrownBy(m, e) /\ e.ctx \in {"apply", "exit"}
    /\ e.ctx = "exit" /\ ~CleanupExits => Aimed(e.blk)

Opens == \E m \in 1..Len(stack) : OpenedAt(m)

Leaves ==
  \E v \in Value, m \in 1..Len(stack) - 1 :
    /\ Left(m, v)
    /\ (Top.ctx = "apply" /\ m = Len(stack) - 1) \/ ReachedAt(m + 1)

Finishes ==
  /\ Top.ctx = "apply" /\ AlteredTop /\ stack'[Len(stack)].at = Top.at
  /\ UNCHANGED <<blocks, runs, dropped>>

RunsOn == \E s \in 1..Len(stack) - 1 : RunAt(s)

LEMMA ProtectBlocks ==
  ASSUME Typed, Three
  PROVE  \A i \in 1..Len(stack) :
           stack[i].ctx = "unwind-protect" =>
             /\ i - 1 \in 1..Len(stack) /\ stack[i - 1].ctx = "bind-exit"
             /\ stack[i].blk = stack[i - 1].blk /\ stack[i].blk \in 1..blocks
             /\ stack[i].blk \in Block
<1> USE StackFacts
<1> SUFFICES ASSUME NEW i \in 1..Len(stack), stack[i].ctx = "unwind-protect"
             PROVE  /\ i - 1 \in 1..Len(stack) /\ stack[i - 1].ctx = "bind-exit"
                    /\ stack[i].blk = stack[i - 1].blk /\ stack[i].blk \in 1..blocks
                    /\ stack[i].blk \in Block
  OBVIOUS
<1>1. i > 1 /\ stack[i - 1].ctx = "bind-exit"
  BY DEF Three, ThreeAt
<1>2. i - 1 \in 1..Len(stack) /\ i - 1 + 1 = i
  BY <1>1
<1>3. stack[i].blk = stack[i - 1].blk /\ stack[i - 1].blk \in 1..blocks
  BY <1>1, <1>2 DEF Three, ThreeAt
<1>4. blocks \in Nat /\ blocks <= MaxBlocks /\ MaxBlocks \in Nat
  BY LimitsAssumption DEF Typed, TypeOK
<1>5. stack[i].blk \in Block
  BY <1>3, <1>4 DEF Block
<1> QED BY <1>1, <1>2, <1>3, <1>5

\* The block of the innermost bind is in progress above whatever runs a cleanup.
LEMMA BindAimed ==
  ASSUME Typed, Three, Top.ctx = "bind"
  PROVE  Top.blk \in Block /\ Aimed(Top.blk)
<1> USE StackFacts
<1> DEFINE n == Len(stack)
<1>1. n \in 1..n
  OBVIOUS
<1>2. n > 2 /\ stack[n - 2].ctx = "bind-exit"
  BY <1>1 DEF Three, ThreeAt, Top
<1>3. n - 2 \in 1..n /\ n - 2 + 1 = n - 1 /\ n - 2 + 2 = n
  BY <1>2
<1>4. /\ stack[n - 2].blk \in 1..blocks /\ stack[n - 1].ctx = "unwind-protect"
      /\ stack[n].blk = stack[n - 2].blk
  BY <1>2, <1>3 DEF Three, ThreeAt
<1>5. Top.blk \in Block
  <2>1. blocks \in Nat /\ blocks <= MaxBlocks /\ MaxBlocks \in Nat
    BY LimitsAssumption DEF Typed, TypeOK
  <2> QED BY <1>4, <2>1 DEF Block, Top
<1>6. ASSUME NEW c \in 1..n, Cleaning(stack[c])
      PROVE  n - 2 \in c + 1..n
  <2>1. stack[c].ctx = "exit"
    BY <1>6 DEF Cleaning
  <2>2. c # n /\ c # n - 1 /\ c # n - 2
    BY <1>2, <1>4, <2>1 DEF Top
  <2>3. n \in Nat /\ n > 2 /\ c \in 1..n
    BY <1>2
  <2> HIDE DEF n
  <2> QED BY <2>2, <2>3
<1> QED BY <1>2, <1>4, <1>5, <1>6 DEF Aimed, Top

\* So is a block whose exit may be called.
LEMMA CallableAimed ==
  ASSUME Typed, ~CleanupExits, NEW b \in Callable
  PROVE  Aimed(b)
<1> USE StackFacts
<1> DEFINE n == Len(stack)
           C == {i \in DOMAIN stack : Cleaning(stack[i])}
           Far == {n - i : i \in C}
<1>1. DOMAIN stack = 1..n
  OBVIOUS
<1>2. CASE C = {}
  BY <1>1, <1>2 DEF Aimed
<1>3. CASE C # {}
  <2>1. Far \subseteq Nat /\ Far # {}
    <3>1. \A i \in C : n - i \in Nat
      BY <1>1
    <3> QED BY <1>3, <3>1
  <2>2. PICK d \in Far : \A f \in Far : d <= f
    BY <2>1, MinExists
  <2>3. PICK i \in C : d = n - i
    BY <2>2
  <2>4. \A j \in C : j <= i
    <3> TAKE j \in C
    <3>1. n - i <= n - j
      BY <2>2, <2>3
    <3> QED BY <1>1, <3>1
  <2> DEFINE last == CHOOSE k \in C : \A j \in C : j <= k
  <2>5. last \in C /\ \A j \in C : j <= last
    BY <2>4
  <2>6. b \in BlocksFrom(last)
    BY <1>3 DEF Callable
  <2> HIDE DEF last
  <2>7. PICK k \in last..n : stack[k].ctx = "bind-exit" /\ stack[k].blk = b
    BY <2>6 DEF BlocksFrom
  <2>8. k # last
    BY <2>5, <2>7 DEF Cleaning
  <2>9. \A c \in C : k \in c + 1..n
    <3> TAKE c \in C
    <3>1. c <= last /\ c \in 1..n /\ last \in 1..n
      BY <1>1, <2>5
    <3> QED BY <2>8, <3>1
  <2> QED BY <1>1, <2>7, <2>9 DEF Aimed
<1> QED BY <1>2, <1>3

\* A step of Next is one of these.
LEMMA Steps ==
  ASSUME Typed, Three, Next
  PROVE  Typed' /\ (Grows \/ Opens \/ Leaves \/ Finishes \/ RunsOn \/ Error)
<1> USE StackFacts
<1>1. Numbered
  BY ThreeNumbered
<1>2. \A m : Handed(m) => m \in 1..Len(stack)
  BY DEF Handed
<1>3. ASSUME NEW t \in ResultType \cup {Any}, Apply(t) PROVE Typed' /\ Grows
  <2>1. PICK m \in Nat, e \in Entry : GrownBy(m, e) /\ e.ctx = "apply"
    BY <1>3, ApplyStep
  <2>2. m \in 1..Len(stack)
    BY <1>2, <2>1 DEF GrownBy
  <2>3. Typed'
    BY <1>3, ApplyStep
  <2> QED BY <2>1, <2>2, <2>3 DEF Grows
<1>4. ASSUME NEW b \in Block, CallExit(b) PROVE Typed' /\ Grows
  <2>1. PICK m \in Nat, e \in Entry : GrownBy(m, e) /\ e.ctx = "exit" /\ e.blk = b /\ e.owes = {}
    BY <1>4, CallStep
  <2>2. m \in 1..Len(stack)
    BY <1>2, <2>1 DEF GrownBy
  <2>3. ~CleanupExits => Aimed(b)
    BY <1>4, CallableAimed DEF CallExit
  <2>4. Typed'
    BY <1>4, CallStep
  <2> QED BY <2>1, <2>2, <2>3, <2>4 DEF Grows
<1>5. ASSUME CompleteBody PROVE Typed' /\ Grows
  <2>1. Top.blk \in Block /\ Aimed(Top.blk)
    BY <1>5, BindAimed DEF CompleteBody
  <2>2. PICK e \in Entry : GrownBy(Len(stack), e) /\ e.ctx = "exit" /\ e.blk = Top.blk /\ e.owes = {}
    BY <1>5, <2>1, CompleteStep
  <2>3. Typed'
    BY <1>5, <2>1, CompleteStep
  <2>4. Len(stack) \in 1..Len(stack)
    OBVIOUS
  <2> QED BY <2>1, <2>2, <2>3, <2>4 DEF Grows
<1>6. ASSUME EnterBlock PROVE Typed' /\ Opens
  <2>1. Typed' /\ \E m \in Nat : OpenedAt(m) /\ stack'[m + 1].owes \in {{}, Top.owes}
    BY <1>6, EnterStep
  <2>2. PICK m \in Nat : OpenedAt(m)
    BY <2>1
  <2>3. m \in 1..Len(stack)
    BY <1>2, <2>2 DEF OpenedAt
  <2> QED BY <2>1, <2>2, <2>3 DEF Opens
<1>7. ASSUME NEW v \in Value, Return(v) PROVE Typed' /\ (Leaves \/ Error)
  <2>1. /\ Typed' /\ Top.ctx = "apply" /\ Len(stack) - 1 \in 1..Len(stack) - 1
        /\ Error \/ Left(Len(stack) - 1, v)
    BY <1>1, <1>7, ReturnStep
  <2> QED BY <2>1 DEF Leaves
<1>8. ASSUME NEW v \in Value, ReachBlock(v) PROVE Typed' /\ (Leaves \/ Error)
  <2>1. Typed' /\ ReachedAt(NextStop) /\ (Error \/ Left(NextStop - 1, v))
    BY <1>1, <1>8, ReachStep
  <2> DEFINE m == NextStop - 1
  <2>2. NextStop \in 2..Len(stack) - 1
    BY <2>1 DEF ReachedAt
  <2>3. m \in 1..Len(stack) - 1 /\ m + 1 = NextStop
    BY <2>2
  <2>4. ReachedAt(m + 1) /\ (Error \/ Left(m, v))
    BY <2>1, <2>3
  <2> HIDE DEF m
  <2> QED BY <2>1, <2>3, <2>4 DEF Leaves
<1>9. ASSUME LastForm PROVE Typed' /\ Finishes
  <2>1. /\ Typed' /\ AlteredTop /\ stack'[Len(stack)].at = Top.at
        /\ UNCHANGED <<blocks, runs, dropped>>
    BY <1>9, LastFormStep
  <2> QED BY <1>9, <2>1 DEF Finishes, LastForm
<1>10. ASSUME RunCleanup PROVE Typed' /\ RunsOn
  <2> QED BY <1>10, ProtectBlocks, RunStep DEF RunsOn
<1>11. Error => Typed'
  BY <1>1, TypedError
<1>12. CASE ReachEnd \/ SignalError
  BY <1>11, <1>12 DEF ReachEnd, SignalError
<1> QED BY <1>3, <1>4, <1>5, <1>6, <1>7, <1>8, <1>9, <1>10, <1>12 DEF Next

LEMMA StutterFacts ==
  ASSUME UNCHANGED vars
  PROVE  UNCHANGED <<stack, results, blocks, runs, dropped>>
BY DEF vars

LEMMA ThreeStep ==
  ASSUME Typed, Three, Next
  PROVE  Three'
<1> USE StackFacts
<1>1. Typed' /\ (Grows \/ Opens \/ Leaves \/ Finishes \/ RunsOn \/ Error)
  BY Steps
<1>2. blocks \in Nat
  BY DEF Typed, TypeOK
<1>3. CASE Grows
  <2>1. PICK m \in 1..Len(stack), e \in Entry : GrownBy(m, e) /\ e.ctx \in {"apply", "exit"}
    BY <1>3 DEF Grows
  <2>2. Whole(m) /\ Kept(m) /\ blocks' >= blocks
    BY <1>2, <2>1, HandedWhole DEF GrownBy
  <2>3. \A i \in 1..m : ThreeAt(i)'
    BY <1>1, <2>2, ThreePrefix
  <2>4. ThreeAt(m + 1)'
    BY <2>1 DEF GrownBy, ThreeAt
  <2>5. Len(stack') = m + 1
    BY <2>1 DEF GrownBy
  <2>6. \A i \in 1..m + 1 : i \in 1..m \/ i = m + 1
    OBVIOUS
  <2> QED BY <2>3, <2>4, <2>5, <2>6 DEF Three
<1>4. CASE Opens
  <2>1. PICK m \in 1..Len(stack) : OpenedAt(m)
    BY <1>4 DEF Opens
  <2>2. Whole(m) /\ Kept(m) /\ blocks' >= blocks
    BY <1>2, <2>1, HandedWhole DEF OpenedAt
  <2>3. \A i \in 1..m : ThreeAt(i)'
    BY <1>1, <2>2, ThreePrefix
  <2>4. /\ Len(stack') = m + 3 /\ blocks + 1 \in 1..blocks'
        /\ stack'[m + 1].ctx = "bind-exit" /\ stack'[m + 1].blk = blocks + 1
        /\ stack'[m + 2].ctx = "unwind-protect" /\ stack'[m + 2].blk = blocks + 1
        /\ stack'[m + 3].ctx = "bind" /\ stack'[m + 3].blk = blocks + 1
    BY <1>2, <2>1 DEF OpenedAt
  <2>5. ThreeAt(m + 1)'
    <3>1. m + 1 + 1 = m + 2 /\ m + 1 + 2 = m + 3
      OBVIOUS
    <3> QED BY <2>4, <3>1 DEF ThreeAt
  <2>6. ThreeAt(m + 2)'
    <3>1. m + 2 - 1 = m + 1 /\ m + 2 > 1
      OBVIOUS
    <3> QED BY <2>4, <3>1 DEF ThreeAt
  <2>7. ThreeAt(m + 3)'
    <3>1. m + 3 - 2 = m + 1 /\ m + 3 > 2
      OBVIOUS
    <3> QED BY <2>4, <3>1 DEF ThreeAt
  <2>8. \A i \in 1..m + 3 : i \in 1..m \/ i = m + 1 \/ i = m + 2 \/ i = m + 3
    OBVIOUS
  <2> QED BY <2>3, <2>4, <2>5, <2>6, <2>7, <2>8 DEF Three
<1>5. CASE Leaves
  <2>1. PICK v \in Value, m \in 1..Len(stack) - 1 :
          /\ Left(m, v)
          /\ (Top.ctx = "apply" /\ m = Len(stack) - 1) \/ ReachedAt(m + 1)
    BY <1>5 DEF Leaves
  <2>2. Whole(m)
    <3>1. m \in 1..Len(stack)
      OBVIOUS
    <3>2. CASE Top.ctx = "apply" /\ m = Len(stack) - 1
      <4>1. m + 1 = Len(stack)
        BY <3>2
      <4> QED BY <3>1, <3>2, <4>1 DEF Whole, Top
    <3>3. CASE ReachedAt(m + 1)
      BY <3>1, <3>3 DEF Whole, ReachedAt
    <3> QED BY <2>1, <3>2, <3>3
  <2>3. Kept(m) /\ blocks' = blocks /\ Len(stack') = m
    BY <2>1 DEF Left, Cut
  <2>4. m \in 1..Len(stack) /\ blocks' >= blocks
    BY <1>2, <2>3
  <2>5. \A i \in 1..m : ThreeAt(i)'
    BY <1>1, <2>2, <2>3, <2>4, ThreePrefix
  <2> QED BY <2>3, <2>5 DEF Three
<1>6. CASE AlteredTop /\ blocks' = blocks
  <2>1. /\ Len(stack') = Len(stack)
        /\ \A i \in 1..Len(stack) : stack'[i].ctx = stack[i].ctx /\ stack'[i].blk = stack[i].blk
    <3>1. \A i \in 1..Len(stack) : i = Len(stack) \/ i \in 1..Len(stack) - 1
      BY Interval
    <3> QED BY <1>6, <3>1 DEF AlteredTop, Top
  <2>2. ASSUME NEW i \in 1..Len(stack) PROVE ThreeAt(i)'
    <3>1. ThreeAt(i)
      BY DEF Three
    <3>2. i - 1 \in Int /\ i + 1 \in Int /\ i + 2 \in Int /\ i - 2 \in Int
      OBVIOUS
    <3>3. i > 1 => i - 1 \in 1..Len(stack)
      OBVIOUS
    <3>4. i > 2 => i - 2 \in 1..Len(stack)
      OBVIOUS
    <3>5. i + 2 <= Len(stack) => i + 1 \in 1..Len(stack) /\ i + 2 \in 1..Len(stack)
      OBVIOUS
    <3> QED BY <1>6, <2>1, <3>1, <3>3, <3>4, <3>5 DEF ThreeAt
  <2> QED BY <2>1, <2>2 DEF Three
<1>7. CASE Finishes \/ RunsOn
  BY <1>6, <1>7 DEF Finishes, RunsOn, RunAt
<1>8. CASE Error
  <2>1. Len(stack') = 1 /\ stack'[1].ctx = "top-level"
    BY <1>8, ErrorFacts, TopLevelType
  <2> QED BY <2>1 DEF Three, ThreeAt
<1> QED BY <1>1, <1>3, <1>4, <1>5, <1>7, <1>8

----------------------------------------------------------------------------
(* Cleanups that have run.                                                 *)

\* An exit has run the cleanups it has passed.
WalkedAt(p) ==
  Cleaning(stack[p]) =>
    /\ stack[p].at \in 1..p - 1
    /\ \A j \in stack[p].at..p - 1 : stack[j].ctx = "unwind-protect" => runs[stack[j].blk] > 0

Walked == \A p \in 1..Len(stack) : WalkedAt(p)

LEMMA WalkedPrefix ==
  ASSUME Typed, Three, Walked, NEW m \in 1..Len(stack), Kept(m),
         \A b \in Block : runs[b] > 0 => runs'[b] > 0,
         NEW p \in 1..m
  PROVE  WalkedAt(p)'
<1> USE StackFacts
<1>1. \A i \in 1..m : stack'[i] = stack[i] /\ i \in 1..Len(stack)
  BY DEF Kept
<1>2. WalkedAt(p)
  BY <1>1 DEF Walked
<1>3. SUFFICES ASSUME Cleaning(stack[p])
               PROVE  /\ stack[p].at \in 1..p - 1
                      /\ \A j \in stack[p].at..p - 1 :
                           stack'[j].ctx = "unwind-protect" => runs'[stack'[j].blk] > 0
  BY <1>1 DEF WalkedAt, Cleaning
<1>4. stack[p].at \in 1..p - 1
  BY <1>2, <1>3 DEF WalkedAt
<1>5. ASSUME NEW j \in stack[p].at..p - 1, stack[j].ctx = "unwind-protect"
      PROVE  runs'[stack[j].blk] > 0
  <2>1. j \in 1..Len(stack)
    BY <1>4
  <2>2. runs[stack[j].blk] > 0
    BY <1>2, <1>3, <1>5 DEF WalkedAt
  <2>3. stack[j].blk \in Block
    BY <1>5, <2>1, ProtectBlocks
  <2> QED BY <2>2, <2>3
<1>6. \A j \in stack[p].at..p - 1 : stack'[j] = stack[j]
  BY <1>1, <1>4
<1> QED BY <1>4, <1>5, <1>6

LEMMA WalkedStep ==
  ASSUME Typed, Three, Walked, Next
  PROVE  Walked'
<1> USE StackFacts
<1>1. Typed' /\ (Grows \/ Opens \/ Leaves \/ Finishes \/ RunsOn \/ Error)
  BY Steps
<1>2. CASE Grows
  <2>1. PICK m \in 1..Len(stack), e \in Entry : GrownBy(m, e)
    BY <1>2 DEF Grows
  <2>2. Kept(m) /\ runs' = runs /\ Len(stack') = m + 1 /\ stack'[m + 1].at = 0
    BY <2>1 DEF GrownBy
  <2>3. \A p \in 1..m : WalkedAt(p)'
    BY <2>2, WalkedPrefix
  <2>4. WalkedAt(m + 1)'
    BY <2>2 DEF WalkedAt, Cleaning
  <2>5. \A i \in 1..m + 1 : i \in 1..m \/ i = m + 1
    OBVIOUS
  <2> QED BY <2>2, <2>3, <2>4, <2>5 DEF Walked
<1>3. CASE Opens
  <2>1. PICK m \in 1..Len(stack) : OpenedAt(m)
    BY <1>3 DEF Opens
  <2>2. /\ Kept(m) /\ runs' = runs /\ Len(stack') = m + 3
        /\ \A i \in 1..3 : stack'[m + i].at = 0
    BY <2>1 DEF OpenedAt
  <2>3. \A p \in 1..m : WalkedAt(p)'
    BY <2>2, WalkedPrefix
  <2>4. \A i \in 1..3 : WalkedAt(m + i)'
    BY <2>2 DEF WalkedAt, Cleaning
  <2>5. \A i \in 1..m + 3 : i \in 1..m \/ i = m + 1 \/ i = m + 2 \/ i = m + 3
    OBVIOUS
  <2>6. WalkedAt(m + 1)' /\ WalkedAt(m + 2)' /\ WalkedAt(m + 3)'
    BY <2>4
  <2> QED BY <2>2, <2>3, <2>5, <2>6 DEF Walked
<1>4. CASE Leaves
  <2>1. PICK v \in Value, m \in 1..Len(stack) - 1 : Left(m, v)
    BY <1>4 DEF Leaves
  <2>2. m \in 1..Len(stack) /\ Kept(m) /\ runs' = runs /\ Len(stack') = m
    BY <2>1 DEF Left, Cut
  <2>3. \A p \in 1..m : WalkedAt(p)'
    BY <2>2, WalkedPrefix
  <2> QED BY <2>2, <2>3 DEF Walked
<1>5. CASE Finishes
  <2>1. Len(stack) > 1
    BY <1>5 DEF Finishes, Typed, Rooted, Top
  <2>2. Len(stack) - 1 \in 1..Len(stack)
    BY <2>1
  <2>3. Len(stack') = Len(stack) /\ Kept(Len(stack) - 1) /\ runs' = runs
    BY <1>5 DEF Finishes, AlteredTop, Kept
  <2>4. \A p \in 1..Len(stack) - 1 : WalkedAt(p)'
    BY <2>2, <2>3, WalkedPrefix
  <2>5. WalkedAt(Len(stack))'
    BY <1>5, <2>3 DEF Finishes, AlteredTop, WalkedAt, Cleaning
  <2>6. \A i \in 1..Len(stack) : i = Len(stack) \/ i \in 1..Len(stack) - 1
    BY Interval
  <2> QED BY <2>3, <2>4, <2>5, <2>6 DEF Walked
<1>6. CASE RunsOn
  <2>1. PICK s \in 1..Len(stack) - 1 : RunAt(s)
    BY <1>6 DEF RunsOn
  <2>2. Len(stack) - 1 \in 1..Len(stack)
    OBVIOUS
  <2>3. Len(stack') = Len(stack) /\ Kept(Len(stack) - 1)
    BY <2>1 DEF RunAt, AlteredTop, Kept
  <2>4. /\ runs \in [Block -> 0..MaxRuns] /\ stack[s].blk \in Block
        /\ runs' = [runs EXCEPT ![stack[s].blk] = @ + 1]
    BY <2>1, ProtectBlocks DEF RunAt, Typed, TypeOK
  <2>5. \A b \in Block : runs[b] > 0 => runs'[b] > 0
    BY <2>4, LimitsAssumption
  <2>6. runs'[stack[s].blk] > 0
    BY <2>4, LimitsAssumption
  <2>7. \A p \in 1..Len(stack) - 1 : WalkedAt(p)'
    BY <2>2, <2>3, <2>5, WalkedPrefix
  <2>8. ASSUME NEW j \in s..Len(stack) - 1, stack[j].ctx = "unwind-protect"
        PROVE  runs'[stack[j].blk] > 0
    <3>1. j \in 1..Len(stack) - 1 /\ j \in 1..Len(stack)
      OBVIOUS
    <3>2. CASE j = s
      BY <2>6, <3>2
    <3>3. CASE j # s
      <4>1. j \notin Stops
        BY <2>1, <3>3 DEF RunAt
      <4>2. Top.at # 0 /\ ~(j < Top.at)
        BY <2>8, <3>1, <4>1 DEF Stops
      <4>3. WalkedAt(Len(stack)) /\ Cleaning(Top)
        <5>1. Len(stack) \in 1..Len(stack)
          OBVIOUS
        <5> QED BY <2>1, <4>2, <5>1 DEF Walked, RunAt, Cleaning
      <4>4. Top.at \in 1..Len(stack) - 1
        BY <4>3 DEF WalkedAt, Top
      <4>5. j \in Top.at..Len(stack) - 1
        BY <3>1, <4>2, <4>4
      <4>6. runs[stack[j].blk] > 0
        BY <2>8, <4>3, <4>5 DEF WalkedAt, Top
      <4>7. stack[j].blk \in Block
        BY <2>8, <3>1, ProtectBlocks
      <4> QED BY <2>5, <4>6, <4>7
    <3> QED BY <3>2, <3>3
  <2>9. WalkedAt(Len(stack))'
    <3>1. stack'[Len(stack)].at = s
      BY <2>1 DEF RunAt
    <3>2. \A j \in s..Len(stack) - 1 : stack'[j] = stack[j]
      BY <2>3 DEF Kept
    <3>3. \A j \in s..Len(stack) - 1 : stack'[j].ctx = "unwind-protect" => runs'[stack'[j].blk] > 0
      BY <2>8, <3>2
    <3> QED BY <2>3, <3>1, <3>3 DEF WalkedAt
  <2>10. \A i \in 1..Len(stack) : i = Len(stack) \/ i \in 1..Len(stack) - 1
    BY Interval
  <2> QED BY <2>3, <2>7, <2>9, <2>10 DEF Walked
<1>7. CASE Error
  <2>1. Len(stack') = 1 /\ stack'[1].ctx = "top-level"
    BY <1>7, ErrorFacts, TopLevelType
  <2> QED BY <2>1 DEF Walked, WalkedAt, Cleaning
<1> QED BY <1>1, <1>2, <1>3, <1>4, <1>5, <1>6, <1>7

\* Block b is in progress.
InProgress(b) == \E i \in 1..Len(stack) : stack[i].ctx = "bind-exit" /\ stack[i].blk = b

LEMMA ProgressFacts == \A b : b \in BlocksFrom(1) <=> InProgress(b)
BY DEF BlocksFrom, InProgress

LEMMA ProgressKept ==
  ASSUME Typed, NEW m \in 1..Len(stack), Handed(m), Kept(m), NEW b, InProgress(b)
  PROVE  InProgress(b)'
<1> USE StackFacts
<1>1. PICK i \in 1..Len(stack) : stack[i].ctx = "bind-exit" /\ stack[i].blk = b
  BY DEF InProgress
<1>2. i \in 1..m
  BY <1>1, HandedStays
<1>3. Len(stack') >= m /\ stack'[i] = stack[i]
  BY <1>2 DEF Kept
<1>4. i \in 1..Len(stack')
  <2>1. Len(stack') \in Int
    BY <1>3, <1>2
  <2> QED BY <1>2, <1>3
<1> QED BY <1>1, <1>3, <1>4 DEF InProgress

LEMMA CleanedStep ==
  ASSUME Typed, Three, Walked, LeftCleaned, Next
  PROVE  LeftCleaned'
<1> USE StackFacts
<1>1. Typed' /\ (Grows \/ Opens \/ Leaves \/ Finishes \/ RunsOn \/ Error)
  BY Steps
<1>2. blocks \in Nat /\ \A b \in 1..blocks : InProgress(b) \/ b \in dropped \/ runs[b] > 0
  BY ProgressFacts DEF LeftCleaned, Typed, TypeOK
<1>3. SUFFICES ASSUME NEW b \in 1..blocks'
               PROVE  InProgress(b)' \/ b \in dropped' \/ runs'[b] > 0
  <2>1. \A b : b \in BlocksFrom(1)' <=> InProgress(b)'
    BY DEF BlocksFrom, InProgress
  <2> QED BY <2>1 DEF LeftCleaned
<1>4. CASE Grows
  <2>1. PICK m \in 1..Len(stack), e \in Entry : GrownBy(m, e)
    BY <1>4 DEF Grows
  <2>2. Handed(m) /\ Kept(m) /\ UNCHANGED <<blocks, runs, dropped>>
    BY <2>1 DEF GrownBy
  <2>3. InProgress(b) => InProgress(b)'
    BY <2>2, ProgressKept
  <2> QED BY <1>2, <2>2, <2>3
<1>5. CASE Opens
  <2>1. PICK m \in 1..Len(stack) : OpenedAt(m)
    BY <1>5 DEF Opens
  <2>2. /\ Handed(m) /\ Kept(m) /\ UNCHANGED <<runs, dropped>> /\ Len(stack') = m + 3
        /\ blocks' = blocks + 1 /\ stack'[m + 1].ctx = "bind-exit"
    BY <2>1 DEF OpenedAt
  <2>3. stack'[m + 1].blk = blocks + 1
    BY <2>1 DEF OpenedAt
  <2>4. InProgress(b) => InProgress(b)'
    BY <2>2, ProgressKept
  <2>5. CASE b \in 1..blocks
    BY <1>2, <2>2, <2>4, <2>5
  <2>6. CASE b = blocks + 1
    <3>1. m + 1 \in 1..Len(stack')
      BY <2>2
    <3> QED BY <2>2, <2>3, <2>6, <3>1 DEF InProgress
  <2> QED BY <1>2, <2>2, <2>5, <2>6
<1>6. CASE Leaves
  <2>1. PICK v \in Value, m \in 1..Len(stack) - 1 :
          /\ Left(m, v)
          /\ (Top.ctx = "apply" /\ m = Len(stack) - 1) \/ ReachedAt(m + 1)
    BY <1>6 DEF Leaves
  <2>2. /\ m \in 1..Len(stack) /\ Kept(m) /\ Len(stack') = m
        /\ UNCHANGED <<blocks, runs, dropped>>
    BY <2>1 DEF Left, Cut
  <2>3. CASE Top.ctx = "apply" /\ m = Len(stack) - 1
    <3>1. Handed(m)
      BY <2>2, <2>3 DEF Handed
    <3>2. InProgress(b) => InProgress(b)'
      BY <2>2, <3>1, ProgressKept
    <3> QED BY <1>2, <2>2, <3>2
  <2>4. CASE ReachedAt(m + 1)
    <3>1. SUFFICES ASSUME NEW i \in 1..Len(stack), stack[i].ctx = "bind-exit", stack[i].blk = b
                   PROVE  InProgress(b)' \/ runs[b] > 0
      BY <1>2, <2>2 DEF InProgress
    <3>2. CASE i <= m
      <4>1. i \in 1..m
        BY <3>2
      <4>2. stack'[i] = stack[i]
        BY <2>2, <4>1 DEF Kept
      <4> QED BY <2>2, <3>1, <4>1, <4>2 DEF InProgress
    <3>3. CASE i > m
      <4>1. /\ i + 2 <= Len(stack) /\ stack[i + 1].ctx = "unwind-protect"
            /\ stack[i + 1].blk = b
        BY <3>1 DEF Three, ThreeAt
      <4> DEFINE j == i + 1
      <4>2. j \in 1..Len(stack) - 1 /\ j > m + 1
        BY <3>3, <4>1
      <4>3. stack[j].ctx = "unwind-protect" /\ stack[j].blk = b
        BY <4>1
      <4> HIDE DEF j
      <4>4. j \notin Stops
        BY <2>4, <4>2 DEF ReachedAt
      <4>5. Top.at # 0 /\ ~(j < Top.at)
        BY <4>2, <4>3, <4>4 DEF Stops
      <4>6. WalkedAt(Len(stack)) /\ Cleaning(Top)
        <5>1. Len(stack) \in 1..Len(stack)
          OBVIOUS
        <5> QED BY <2>4, <4>5, <5>1 DEF Walked, ReachedAt, Cleaning
      <4>7. Top.at \in 1..Len(stack) - 1
        BY <4>6 DEF WalkedAt, Top
      <4>8. j \in Top.at..Len(stack) - 1
        BY <4>2, <4>5, <4>7
      <4> QED BY <4>3, <4>6, <4>8 DEF WalkedAt, Top
    <3> QED BY <3>2, <3>3
  <2> QED BY <2>1, <2>3, <2>4
<1>7. CASE AlteredTop /\ blocks' = blocks /\ dropped' = dropped /\ \A c \in Block : runs[c] > 0 => runs'[c] > 0
  <2>1. /\ Len(stack') = Len(stack)
        /\ \A i \in 1..Len(stack) : stack'[i].ctx = stack[i].ctx /\ stack'[i].blk = stack[i].blk
    <3>1. \A i \in 1..Len(stack) : i = Len(stack) \/ i \in 1..Len(stack) - 1
      BY Interval
    <3> QED BY <1>7, <3>1 DEF AlteredTop, Top
  <2>2. InProgress(b) => InProgress(b)'
    BY <2>1 DEF InProgress
  <2>3. b \in Block
    BY <1>2, <1>7, LimitsAssumption DEF Typed, TypeOK, Block
  <2> QED BY <1>2, <1>7, <2>2, <2>3
<1>8. CASE Finishes
  BY <1>7, <1>8 DEF Finishes
<1>9. CASE RunsOn
  <2>1. PICK s \in 1..Len(stack) - 1 : RunAt(s)
    BY <1>9 DEF RunsOn
  <2>2. /\ runs \in [Block -> 0..MaxRuns] /\ stack[s].blk \in Block
        /\ runs' = [runs EXCEPT ![stack[s].blk] = @ + 1]
    BY <2>1, ProtectBlocks DEF RunAt, Typed, TypeOK
  <2>3. \A c \in Block : runs[c] > 0 => runs'[c] > 0
    BY <2>2, LimitsAssumption
  <2> QED BY <1>7, <2>1, <2>3 DEF RunAt
<1>10. CASE Error
  <2>1. /\ UNCHANGED <<blocks, runs>> /\ dropped' = dropped \cup BlocksFrom(1)
    BY <1>10 DEF Error
  <2> QED BY <1>2, <2>1, ProgressFacts
<1> QED BY <1>1, <1>4, <1>5, <1>6, <1>8, <1>9, <1>10

----------------------------------------------------------------------------
(* The theorems for every program.                                         *)

IInv == Typed /\ Three /\ Walked /\ LeftCleaned

LEMMA InitIInv == Init => IInv
<1> SUFFICES ASSUME Init PROVE IInv
  OBVIOUS
<1>1. Typed
  BY TypedInit
<1>2. Len(stack) = 1 /\ stack[1].ctx = "top-level" /\ blocks = 0
  BY TopLevelType DEF Init
<1>3. Three
  BY <1>2 DEF Three, ThreeAt
<1>4. Walked
  BY <1>2 DEF Walked, WalkedAt, Cleaning
<1>5. LeftCleaned
  BY <1>2 DEF LeftCleaned
<1> QED BY <1>1, <1>3, <1>4, <1>5 DEF IInv

LEMMA StepIInv == IInv /\ [Next]_vars => IInv'
<1> SUFFICES ASSUME IInv, [Next]_vars PROVE IInv'
  OBVIOUS
<1>1. CASE Next
  BY <1>1, Steps, ThreeStep, WalkedStep, CleanedStep DEF IInv
<1>2. CASE UNCHANGED vars
  <2>1. Typed'
    BY <1>2 DEF vars, IInv, Typed, TypeOK, Rooted, EnoughResults
  <2>2. Three'
    BY <1>2 DEF vars, IInv, Three, ThreeAt
  <2>3. Walked'
    BY <1>2 DEF vars, IInv, Walked, WalkedAt, Cleaning
  <2>4. LeftCleaned'
    BY <1>2 DEF vars, IInv, LeftCleaned, BlocksFrom
  <2> QED BY <2>1, <2>2, <2>3, <2>4 DEF IInv
<1> QED BY <1>1, <1>2

LEMMA Invariant == Spec => []IInv
BY InitIInv, StepIInv, PTL DEF Spec

\* The state has its type in every execution of every instance (eval.c, apply.c, env.c).
THEOREM TypeCorrect == Spec => []TypeOK
<1>1. IInv => TypeOK
  BY DEF IInv, Typed
<1> QED BY <1>1, Invariant, PTL

\* Every combination in progress finds a type on ResultValueStack (eval.c:172), though exits and
\* errors cut eval_stack and leave the types: each entry is put on with a type of its own, or
\* takes over one together with the entry, and an entry goes with one type at the most.
THEOREM ResultsSuffice == Spec => []EnoughResults
<1>1. IInv => EnoughResults
  BY DEF IInv, Typed
<1> QED BY <1>1, Invariant, PTL

\* A block that is left, by an exit procedure or at its end, has run its cleanup, whichever exits
\* the cleanups themselves call (env.c:396-446): a walk passes an unwind-protect only after it
\* has run, and the block of each bind-exit is above it.
THEOREM CleanupsRun == Spec => []LeftCleaned
<1>1. IInv => LeftCleaned
  BY DEF IInv
<1> QED BY <1>1, Invariant, PTL

----------------------------------------------------------------------------
(* Cleanups run once, where no cleanup leaves a block it is not in.        *)

Fresh == \A b \in Block : b > blocks => runs[b] = 0

Apart ==
  \A i, j \in 1..Len(stack) :
    /\ stack[i].ctx = "unwind-protect" /\ stack[j].ctx = "unwind-protect"
    /\ stack[i].blk = stack[j].blk
    => i = j

\* Between an exit and another one below it that runs a cleanup is the block of the former.
InsideAt(p) ==
  stack[p].ctx = "exit" =>
    \A c \in 1..p - 1 : Cleaning(stack[c]) =>
      \E k \in c + 1..p - 1 : /\ stack[k].ctx = "bind-exit" /\ stack[k].blk = stack[p].blk
                              /\ stack[p].at # 0 => k < stack[p].at

Inside == \A p \in 1..Len(stack) : InsideAt(p)

\* An exit has come as far as an unwind-protect that has run its cleanup.
StartedAt(i) ==
  stack[i].ctx = "unwind-protect" /\ runs[stack[i].blk] > 0 =>
    \E p \in i + 1..Len(stack) : Cleaning(stack[p]) /\ stack[p].at <= i

Started == \A i \in 1..Len(stack) : StartedAt(i)

\* The innermost exit stops above every other one that runs a cleanup.
LEMMA TopTarget ==
  ASSUME Typed, Inside, Top.ctx = "exit", NEW c \in 1..Len(stack) - 1, Cleaning(stack[c])
  PROVE  \E k \in Stops : k > c /\ stack[k].ctx = "bind-exit" /\ stack[k].blk = Top.blk
<1> USE StackFacts
<1>1. InsideAt(Len(stack))
  <2>1. Len(stack) \in 1..Len(stack)
    OBVIOUS
  <2> QED BY <2>1 DEF Inside
<1>2. PICK k \in c + 1..Len(stack) - 1 : /\ stack[k].ctx = "bind-exit" /\ stack[k].blk = Top.blk
                                         /\ Top.at # 0 => k < Top.at
  BY <1>1 DEF InsideAt, Top
<1>3. k \in 1..Len(stack) - 1 /\ k > c
  OBVIOUS
<1>4. k \in Stops
  BY <1>2, <1>3 DEF Stops
<1> QED BY <1>2, <1>3, <1>4

LEMMA InsidePrefix ==
  ASSUME Typed, Inside, NEW m \in 1..Len(stack), Kept(m), NEW p \in 1..m
  PROVE  InsideAt(p)'
<1> USE StackFacts
<1>1. \A i \in 1..m : stack'[i] = stack[i] /\ i \in 1..Len(stack)
  BY DEF Kept
<1>2. InsideAt(p)
  BY <1>1 DEF Inside
<1>3. SUFFICES ASSUME stack[p].ctx = "exit", NEW c \in 1..p - 1, Cleaning(stack[c])
               PROVE  \E k \in c + 1..p - 1 :
                        /\ stack'[k].ctx = "bind-exit" /\ stack'[k].blk = stack[p].blk
                        /\ stack[p].at # 0 => k < stack[p].at
  <2>1. \A c \in 1..p - 1 : c \in 1..m
    OBVIOUS
  <2> QED BY <1>1, <2>1 DEF InsideAt, Cleaning
<1>4. PICK k \in c + 1..p - 1 : /\ stack[k].ctx = "bind-exit" /\ stack[k].blk = stack[p].blk
                                /\ stack[p].at # 0 => k < stack[p].at
  BY <1>2, <1>3 DEF InsideAt
<1>5. k \in 1..m
  OBVIOUS
<1> QED BY <1>1, <1>4, <1>5

LEMMA InsideStep ==
  ASSUME Typed, Three, Inside, Next, ~CleanupExits
  PROVE  Inside'
<1> USE StackFacts
<1>1. Typed' /\ (Grows \/ Opens \/ Leaves \/ Finishes \/ RunsOn \/ Error)
  BY Steps
<1>2. CASE Grows
  <2>1. PICK m \in 1..Len(stack), e \in Entry :
          /\ GrownBy(m, e) /\ e.ctx \in {"apply", "exit"}
          /\ e.ctx = "exit" => Aimed(e.blk)
    BY <1>2 DEF Grows
  <2>2. Handed(m) /\ Kept(m) /\ Len(stack') = m + 1 /\ stack'[m + 1] = e /\ e.at = 0
    BY <2>1 DEF GrownBy
  <2>3. \A p \in 1..m : InsideAt(p)'
    BY <2>2, InsidePrefix
  <2>4. ASSUME e.ctx = "exit", NEW c \in 1..m, Cleaning(stack'[c])
        PROVE  \E k \in c + 1..m : stack'[k].ctx = "bind-exit" /\ stack'[k].blk = e.blk
    <3>1. stack'[c] = stack[c] /\ c \in 1..Len(stack)
      BY <2>2 DEF Kept
    <3>2. PICK k \in c + 1..Len(stack) : stack[k].ctx = "bind-exit" /\ stack[k].blk = e.blk
      BY <2>1, <2>4, <3>1 DEF Aimed
    <3>3. k \in 1..m
      <4>1. k \in 1..Len(stack)
        OBVIOUS
      <4> QED BY <2>2, <3>2, <4>1, HandedStays
    <3>4. k \in c + 1..m
      BY <3>3
    <3>5. stack'[k] = stack[k]
      BY <2>2, <3>3 DEF Kept
    <3> QED BY <3>2, <3>4, <3>5
  <2>5. InsideAt(m + 1)'
    <3>1. m + 1 - 1 = m
      OBVIOUS
    <3> QED BY <2>2, <2>4, <3>1 DEF InsideAt
  <2>6. \A i \in 1..m + 1 : i \in 1..m \/ i = m + 1
    OBVIOUS
  <2> QED BY <2>2, <2>3, <2>5, <2>6 DEF Inside
<1>3. CASE Opens
  <2>1. PICK m \in 1..Len(stack) : OpenedAt(m)
    BY <1>3 DEF Opens
  <2>2. /\ Kept(m) /\ Len(stack') = m + 3
        /\ stack'[m + 1].ctx = "bind-exit" /\ stack'[m + 2].ctx = "unwind-protect"
        /\ stack'[m + 3].ctx = "bind"
    BY <2>1 DEF OpenedAt
  <2>3. \A p \in 1..m : InsideAt(p)'
    BY <2>2, InsidePrefix
  <2>4. InsideAt(m + 1)' /\ InsideAt(m + 2)' /\ InsideAt(m + 3)'
    BY <2>2 DEF InsideAt
  <2>5. \A i \in 1..m + 3 : i \in 1..m \/ i = m + 1 \/ i = m + 2 \/ i = m + 3
    OBVIOUS
  <2> QED BY <2>2, <2>3, <2>4, <2>5 DEF Inside
<1>4. CASE Leaves
  <2>1. PICK v \in Value, m \in 1..Len(stack) - 1 : Left(m, v)
    BY <1>4 DEF Leaves
  <2>2. m \in 1..Len(stack) /\ Kept(m) /\ Len(stack') = m
    BY <2>1 DEF Left, Cut
  <2>3. \A p \in 1..m : InsideAt(p)'
    BY <2>2, InsidePrefix
  <2> QED BY <2>2, <2>3 DEF Inside
<1>5. CASE Finishes
  <2>1. Len(stack) > 1
    BY <1>5 DEF Finishes, Typed, Rooted, Top
  <2>2. Len(stack) - 1 \in 1..Len(stack)
    BY <2>1
  <2>3. Len(stack') = Len(stack) /\ Kept(Len(stack) - 1)
    BY <1>5 DEF Finishes, AlteredTop, Kept
  <2>4. \A p \in 1..Len(stack) - 1 : InsideAt(p)'
    BY <2>2, <2>3, InsidePrefix
  <2>5. InsideAt(Len(stack))'
    BY <1>5, <2>3 DEF Finishes, AlteredTop, InsideAt
  <2>6. \A i \in 1..Len(stack) : i = Len(stack) \/ i \in 1..Len(stack) - 1
    BY Interval
  <2> QED BY <2>3, <2>4, <2>5, <2>6 DEF Inside
<1>6. CASE RunsOn
  <2>1. PICK s \in 1..Len(stack) - 1 : RunAt(s)
    BY <1>6 DEF RunsOn
  <2>2. Len(stack) - 1 \in 1..Len(stack)
    OBVIOUS
  <2>3. Len(stack') = Len(stack) /\ Kept(Len(stack) - 1)
    BY <2>1 DEF RunAt, AlteredTop, Kept
  <2>4. \A p \in 1..Len(stack) - 1 : InsideAt(p)'
    BY <2>2, <2>3, InsidePrefix
  <2>5. ASSUME NEW c \in 1..Len(stack) - 1, Cleaning(stack'[c])
        PROVE  \E k \in c + 1..Len(stack) - 1 :
                 stack'[k].ctx = "bind-exit" /\ stack'[k].blk = Top.blk /\ k < s
    <3>1. stack'[c] = stack[c]
      BY <2>3 DEF Kept
    <3>2. PICK k \in Stops : k > c /\ stack[k].ctx = "bind-exit" /\ stack[k].blk = Top.blk
      BY <2>1, <2>5, <3>1, TopTarget DEF RunAt
    <3>3. k \in 1..Len(stack) - 1 /\ k <= s /\ k # s
      BY <2>1, <3>2 DEF RunAt, Stops
    <3>4. stack'[k] = stack[k]
      BY <2>3, <3>3 DEF Kept
    <3> QED BY <3>2, <3>3, <3>4
  <2>6. InsideAt(Len(stack))'
    <3>1. stack'[Len(stack)].at = s /\ stack'[Len(stack)].blk = Top.blk
      BY <2>1 DEF RunAt, AlteredTop
    <3> QED BY <2>3, <2>5, <3>1 DEF InsideAt
  <2>7. \A i \in 1..Len(stack) : i = Len(stack) \/ i \in 1..Len(stack) - 1
    BY Interval
  <2> QED BY <2>3, <2>4, <2>6, <2>7 DEF Inside
<1>7. CASE Error
  <2>1. Len(stack') = 1 /\ stack'[1].ctx = "top-level"
    BY <1>7, ErrorFacts, TopLevelType
  <2> QED BY <2>1 DEF Inside, InsideAt
<1> QED BY <1>1, <1>2, <1>3, <1>4, <1>5, <1>6, <1>7

LEMMA FreshStep ==
  ASSUME Typed, Three, Fresh, Next
  PROVE  Fresh'
<1> USE StackFacts
<1>1. Typed' /\ (Grows \/ Opens \/ Leaves \/ Finishes \/ RunsOn \/ Error)
  BY Steps
<1>2. blocks \in Nat
  BY DEF Typed, TypeOK
<1>3. CASE UNCHANGED <<blocks, runs>>
  BY <1>3 DEF Fresh
<1>4. CASE Opens
  <2>1. blocks' = blocks + 1 /\ runs' = runs
    BY <1>4 DEF Opens, OpenedAt
  <2> QED BY <1>2, <2>1 DEF Fresh, Block
<1>5. CASE RunsOn
  <2>1. PICK s \in 1..Len(stack) - 1 : RunAt(s)
    BY <1>5 DEF RunsOn
  <2>2. /\ runs \in [Block -> 0..MaxRuns] /\ stack[s].blk \in 1..blocks
        /\ runs' = [runs EXCEPT ![stack[s].blk] = @ + 1] /\ blocks' = blocks
    BY <2>1, ProtectBlocks DEF RunAt, Typed, TypeOK
  <2> QED BY <1>2, <2>2 DEF Fresh, Block
<1>6. CASE Grows \/ Leaves \/ Finishes \/ Error
  BY <1>3, <1>6 DEF Grows, GrownBy, Leaves, Left, Finishes, Error
<1> QED BY <1>1, <1>4, <1>5, <1>6

LEMMA ApartStep ==
  ASSUME Typed, Three, Apart, Next
  PROVE  Apart'
<1> USE StackFacts
<1>1. Typed' /\ (Grows \/ Opens \/ Leaves \/ Finishes \/ RunsOn \/ Error)
  BY Steps
<1>2. ASSUME NEW m \in 1..Len(stack), Kept(m),
             \A i \in 1..Len(stack') : stack'[i].ctx = "unwind-protect" => i \in 1..m
      PROVE  Apart'
  <2>1. \A i \in 1..m : stack'[i] = stack[i] /\ i \in 1..Len(stack)
    BY <1>2 DEF Kept
  <2> QED BY <1>2, <2>1 DEF Apart
<1>3. CASE Grows
  <2>1. PICK m \in 1..Len(stack), e \in Entry : GrownBy(m, e) /\ e.ctx \in {"apply", "exit"}
    BY <1>3 DEF Grows
  <2>2. Kept(m) /\ Len(stack') = m + 1 /\ stack'[m + 1] = e
    BY <2>1 DEF GrownBy
  <2>3. \A i \in 1..m + 1 : i \in 1..m \/ i = m + 1
    OBVIOUS
  <2>4. \A i \in 1..Len(stack') : stack'[i].ctx = "unwind-protect" => i \in 1..m
    BY <2>1, <2>2, <2>3
  <2> QED BY <1>2, <2>2, <2>4
<1>4. CASE Opens
  <2>1. PICK m \in 1..Len(stack) : OpenedAt(m)
    BY <1>4 DEF Opens
  <2>2. /\ Kept(m) /\ Len(stack') = m + 3 /\ stack'[m + 1].ctx = "bind-exit"
        /\ stack'[m + 2].blk = blocks + 1 /\ stack'[m + 3].ctx = "bind"
    BY <2>1 DEF OpenedAt
  <2>3. \A i \in 1..m + 3 : i \in 1..m \/ i = m + 1 \/ i = m + 2 \/ i = m + 3
    OBVIOUS
  <2>4. \A i \in 1..m : stack'[i] = stack[i] /\ i \in 1..Len(stack)
    BY <2>2 DEF Kept
  <2>5. \A i \in 1..m : stack'[i].ctx = "unwind-protect" => stack'[i].blk # blocks + 1
    <3>1. blocks \in Nat /\ blocks + 1 \notin 1..blocks
      BY DEF Typed, TypeOK
    <3> QED BY <2>4, <3>1, ProtectBlocks
  <2>6. \A i \in 1..Len(stack') : stack'[i].ctx = "unwind-protect" => i \in 1..m \/ i = m + 2
    BY <2>2, <2>3
  <2>7. ASSUME NEW i \in 1..Len(stack'), NEW j \in 1..Len(stack'),
               stack'[i].ctx = "unwind-protect", stack'[j].ctx = "unwind-protect",
               stack'[i].blk = stack'[j].blk
        PROVE  i = j
    <3>1. CASE i \in 1..m /\ j \in 1..m
      BY <2>4, <2>7, <3>1 DEF Apart
    <3>2. CASE i = m + 2 /\ j = m + 2
      BY <3>2
    <3>3. CASE i \in 1..m /\ j = m + 2
      BY <2>2, <2>5, <2>7, <3>3
    <3>4. CASE i = m + 2 /\ j \in 1..m
      BY <2>2, <2>5, <2>7, <3>4
    <3> QED BY <2>6, <2>7, <3>1, <3>2, <3>3, <3>4
  <2> QED BY <2>7 DEF Apart
<1>5. CASE Leaves
  <2>1. PICK v \in Value, m \in 1..Len(stack) - 1 : Left(m, v)
    BY <1>5 DEF Leaves
  <2>2. m \in 1..Len(stack) /\ Kept(m) /\ Len(stack') = m
    BY <2>1 DEF Left, Cut
  <2> QED BY <1>2, <2>2
<1>6. CASE AlteredTop
  <2>1. /\ Len(stack') = Len(stack)
        /\ \A i \in 1..Len(stack) : stack'[i].ctx = stack[i].ctx /\ stack'[i].blk = stack[i].blk
    <3>1. \A i \in 1..Len(stack) : i = Len(stack) \/ i \in 1..Len(stack) - 1
      BY Interval
    <3> QED BY <1>6, <3>1 DEF AlteredTop, Top
  <2> QED BY <2>1 DEF Apart
<1>7. CASE Finishes \/ RunsOn
  BY <1>6, <1>7 DEF Finishes, RunsOn, RunAt
<1>8. CASE Error
  <2>1. Len(stack') = 1 /\ stack'[1].ctx = "top-level"
    BY <1>8, ErrorFacts, TopLevelType
  <2> QED BY <2>1 DEF Apart
<1> QED BY <1>1, <1>3, <1>4, <1>5, <1>7, <1>8

\* The walk does not come to a cleanup that has run.
LEMMA NotRunYet ==
  ASSUME Typed, Inside, Started, NEW s \in 1..Len(stack) - 1, RunAt(s)
  PROVE  ~(runs[stack[s].blk] > 0)
<1> USE StackFacts
<1> SUFFICES ASSUME runs[stack[s].blk] > 0 PROVE FALSE
  OBVIOUS
<1>1. s \in 1..Len(stack) /\ stack[s].ctx = "unwind-protect"
  BY DEF RunAt
<1>2. PICK p \in s + 1..Len(stack) : Cleaning(stack[p]) /\ stack[p].at <= s
  BY <1>1 DEF Started, StartedAt
<1>3. CASE p = Len(stack)
  BY <1>2, <1>3 DEF RunAt, Cleaning, Top, Entry
<1>4. CASE p # Len(stack)
  <2>1. p \in 1..Len(stack) - 1
    <3>1. p \in 1..Len(stack)
      OBVIOUS
    <3> QED BY <1>4, <3>1, Interval
  <2>2. PICK k \in Stops : k > p
    BY <1>2, <2>1, TopTarget DEF RunAt
  <2>3. k <= s /\ k \in 1..Len(stack)
    BY <2>2 DEF RunAt, Stops
  <2> QED BY <2>2, <2>3
<1> QED BY <1>3, <1>4

LEMMA OnceStep ==
  ASSUME Typed, Three, Inside, Started, CleanupOnce, Next
  PROVE  CleanupOnce'
<1> USE StackFacts
<1>1. Typed' /\ (Grows \/ Opens \/ Leaves \/ Finishes \/ RunsOn \/ Error)
  BY Steps
<1>2. CASE runs' = runs
  BY <1>2 DEF CleanupOnce
<1>3. CASE RunsOn
  <2>1. PICK s \in 1..Len(stack) - 1 : RunAt(s)
    BY <1>3 DEF RunsOn
  <2>2. ~(runs[stack[s].blk] > 0)
    BY <2>1, NotRunYet
  <2>3. /\ runs \in [Block -> 0..MaxRuns] /\ stack[s].blk \in Block
        /\ runs' = [runs EXCEPT ![stack[s].blk] = @ + 1]
    BY <2>1, ProtectBlocks DEF RunAt, Typed, TypeOK
  <2>4. runs[stack[s].blk] = 0
    BY <2>2, <2>3, LimitsAssumption
  <2> QED BY <2>3, <2>4 DEF CleanupOnce
<1>4. CASE Grows \/ Opens \/ Leaves \/ Finishes \/ Error
  BY <1>2, <1>4 DEF Grows, GrownBy, Opens, OpenedAt, Leaves, Left, Finishes, Error
<1> QED BY <1>1, <1>3, <1>4

\* An exit that has passed i stays as long as the walk does not leave i.
LEMMA StartedPrefix ==
  ASSUME Typed, Started, runs' = runs, NEW m \in 1..Len(stack), Kept(m), NEW i \in 1..m,
         \A p \in 1..Len(stack) : Cleaning(stack[p]) /\ stack[p].at <= i => p \in 1..m
  PROVE  StartedAt(i)'
<1> USE StackFacts
<1>1. \A j \in 1..m : stack'[j] = stack[j] /\ j \in 1..Len(stack)
  BY DEF Kept
<1>2. StartedAt(i)
  BY <1>1 DEF Started
<1>3. SUFFICES ASSUME stack[i].ctx = "unwind-protect", runs[stack[i].blk] > 0
               PROVE  \E p \in i + 1..Len(stack') : Cleaning(stack'[p]) /\ stack'[p].at <= i
  BY <1>1 DEF StartedAt
<1>4. PICK p \in i + 1..Len(stack) : Cleaning(stack[p]) /\ stack[p].at <= i
  BY <1>2, <1>3 DEF StartedAt
<1>5. p \in 1..m
  <2>1. p \in 1..Len(stack)
    OBVIOUS
  <2> QED BY <1>4, <2>1
<1>6. Len(stack') >= m /\ Len(stack') \in Int
  BY DEF Kept
<1>7. p \in i + 1..Len(stack')
  BY <1>5, <1>6
<1> QED BY <1>1, <1>4, <1>5, <1>7

LEMMA StartedStep ==
  ASSUME Typed, Three, Walked, Fresh, Apart, Inside, Started, Next
  PROVE  Started'
<1> USE StackFacts
<1>1. Typed' /\ (Grows \/ Opens \/ Leaves \/ Finishes \/ RunsOn \/ Error)
  BY Steps
<1>2. ASSUME NEW m \in 1..Len(stack), Handed(m)
      PROVE  \A p \in 1..Len(stack) : Cleaning(stack[p]) => p \in 1..m
  BY <1>2, HandedStays DEF Cleaning
<1>3. CASE Grows
  <2>1. PICK m \in 1..Len(stack), e \in Entry : GrownBy(m, e) /\ e.ctx \in {"apply", "exit"}
    BY <1>3 DEF Grows
  <2>2. /\ Handed(m) /\ Kept(m) /\ runs' = runs /\ Len(stack') = m + 1 /\ stack'[m + 1] = e
    BY <2>1 DEF GrownBy
  <2>3. \A i \in 1..m : StartedAt(i)'
    BY <1>2, <2>2, StartedPrefix
  <2>4. StartedAt(m + 1)'
    BY <2>1, <2>2 DEF StartedAt
  <2>5. \A i \in 1..m + 1 : i \in 1..m \/ i = m + 1
    OBVIOUS
  <2> QED BY <2>2, <2>3, <2>4, <2>5 DEF Started
<1>4. CASE Opens
  <2>1. PICK m \in 1..Len(stack) : OpenedAt(m)
    BY <1>4 DEF Opens
  <2>2. /\ Handed(m) /\ Kept(m) /\ runs' = runs /\ Len(stack') = m + 3
        /\ stack'[m + 1].ctx = "bind-exit" /\ stack'[m + 3].ctx = "bind"
        /\ stack'[m + 2].blk = blocks + 1 /\ blocks < MaxBlocks
    BY <2>1 DEF OpenedAt
  <2>3. \A i \in 1..m : StartedAt(i)'
    BY <1>2, <2>2, StartedPrefix
  <2>4. StartedAt(m + 1)' /\ StartedAt(m + 3)'
    BY <2>2 DEF StartedAt
  <2>5. StartedAt(m + 2)'
    <3>1. blocks \in Nat
      BY DEF Typed, TypeOK
    <3>2. blocks + 1 \in Block /\ blocks + 1 > blocks
      BY <2>2, <3>1, LimitsAssumption DEF Block
    <3>3. runs[blocks + 1] = 0
      BY <3>2 DEF Fresh
    <3> QED BY <2>2, <3>3 DEF StartedAt
  <2>6. \A i \in 1..m + 3 : i \in 1..m \/ i = m + 1 \/ i = m + 2 \/ i = m + 3
    OBVIOUS
  <2> QED BY <2>2, <2>3, <2>4, <2>5, <2>6 DEF Started
<1>5. CASE Leaves
  <2>1. PICK v \in Value, m \in 1..Len(stack) - 1 :
          /\ Left(m, v)
          /\ (Top.ctx = "apply" /\ m = Len(stack) - 1) \/ ReachedAt(m + 1)
    BY <1>5 DEF Leaves
  <2>2. m \in 1..Len(stack) /\ Kept(m) /\ Len(stack') = m /\ runs' = runs
    BY <2>1 DEF Left, Cut
  <2>3. ASSUME NEW i \in 1..m, NEW p \in 1..Len(stack), Cleaning(stack[p]), stack[p].at <= i
        PROVE  p \in 1..m
    <3>1. CASE Top.ctx = "apply" /\ m = Len(stack) - 1
      <4>1. Handed(m)
        BY <2>2, <3>1 DEF Handed
      <4> QED BY <1>2, <2>2, <2>3, <4>1
    <3>2. CASE ReachedAt(m + 1)
      <4>1. p # Len(stack)
        <5> SUFFICES ASSUME p = Len(stack) PROVE FALSE
          OBVIOUS
        <5>1. Top.at # 0 /\ Top.at <= i /\ Top.at \in Int
          BY <2>3 DEF Cleaning, Top, Entry
        <5>2. m + 1 < Top.at
          BY <3>2, <5>1 DEF ReachedAt
        <5> QED BY <5>1, <5>2
      <4>2. p \in 1..Len(stack) - 1
        BY <4>1, Interval
      <4>3. PICK k \in Stops : k > p
        BY <2>3, <3>2, <4>2, TopTarget DEF ReachedAt
      <4>4. k <= m + 1 /\ k \in 1..Len(stack) - 1
        BY <3>2, <4>3 DEF ReachedAt, Stops
      <4> QED BY <4>3, <4>4
    <3> QED BY <2>1, <3>1, <3>2
  <2>4. \A i \in 1..m : StartedAt(i)'
    BY <2>2, <2>3, StartedPrefix
  <2> QED BY <2>2, <2>4 DEF Started
<1>6. CASE Finishes
  <2>1. Len(stack) > 1 /\ Top.ctx = "apply"
    BY <1>6 DEF Finishes, Typed, Rooted, Top
  <2> DEFINE m == Len(stack) - 1
  <2>2. m \in 1..Len(stack) /\ Handed(m)
    BY <2>1 DEF Handed
  <2>3. Len(stack') = Len(stack) /\ Kept(m) /\ runs' = runs
    BY <1>6 DEF Finishes, AlteredTop, Kept
  <2>4. \A i \in 1..m : StartedAt(i)'
    <3> HIDE DEF m
    <3> QED BY <1>2, <2>2, <2>3, StartedPrefix
  <2>5. StartedAt(Len(stack))'
    BY <1>6, <2>3 DEF Finishes, AlteredTop, StartedAt
  <2>6. \A i \in 1..Len(stack) : i = Len(stack) \/ i \in 1..Len(stack) - 1
    BY Interval
  <2> QED BY <2>3, <2>4, <2>5, <2>6 DEF Started
<1>7. CASE RunsOn
  <2>1. PICK s \in 1..Len(stack) - 1 : RunAt(s)
    BY <1>7 DEF RunsOn
  <2>2. /\ Len(stack') = Len(stack) /\ \A j \in 1..Len(stack) - 1 : stack'[j] = stack[j]
        /\ stack'[Len(stack)].at = s /\ stack'[Len(stack)].ctx = "exit"
    BY <2>1 DEF RunAt, AlteredTop
  <2>3. /\ runs \in [Block -> 0..MaxRuns] /\ stack[s].blk \in Block
        /\ runs' = [runs EXCEPT ![stack[s].blk] = @ + 1]
        /\ s \in 1..Len(stack) /\ stack[s].ctx = "unwind-protect"
    BY <2>1, ProtectBlocks DEF RunAt, Typed, TypeOK
  <2>4. Cleaning(stack'[Len(stack)])
    BY <2>2 DEF Cleaning
  <2>5. ASSUME NEW i \in 1..Len(stack) - 1, stack[i].ctx = "unwind-protect",
               runs'[stack[i].blk] > 0
        PROVE  \E p \in i + 1..Len(stack) : Cleaning(stack'[p]) /\ stack'[p].at <= i
    <3>1. i \in 1..Len(stack) /\ Len(stack) \in i + 1..Len(stack)
      OBVIOUS
    <3>2. CASE stack[i].blk = stack[s].blk
      <4>1. i = s
        BY <2>3, <2>5, <3>1, <3>2 DEF Apart
      <4> QED BY <2>2, <2>4, <3>1, <4>1
    <3>3. CASE stack[i].blk # stack[s].blk
      <4>1. stack[i].blk \in Block
        BY <2>5, <3>1, ProtectBlocks
      <4>2. runs[stack[i].blk] > 0
        BY <2>3, <2>5, <3>3, <4>1
      <4>3. PICK p \in i + 1..Len(stack) : Cleaning(stack[p]) /\ stack[p].at <= i
        BY <2>5, <3>1, <4>2 DEF Started, StartedAt
      <4>4. CASE p = Len(stack)
        <5>1. Top.at # 0 /\ Top.at <= i /\ Top.at \in Int
          BY <4>3, <4>4 DEF Cleaning, Top, Entry
        <5>2. s < Top.at
          BY <2>1, <5>1 DEF RunAt
        <5>3. s <= i
          BY <5>1, <5>2
        <5> QED BY <2>2, <2>4, <3>1, <5>3
      <4>5. CASE p # Len(stack)
        <5>1. p \in 1..Len(stack)
          OBVIOUS
        <5>2. p \in 1..Len(stack) - 1
          BY <4>5, <5>1, Interval
        <5> QED BY <2>2, <4>3, <5>2
      <4> QED BY <4>4, <4>5
    <3> QED BY <3>2, <3>3
  <2>6. \A i \in 1..Len(stack) - 1 : StartedAt(i)'
    BY <2>2, <2>5 DEF StartedAt
  <2>7. StartedAt(Len(stack))'
    BY <2>2 DEF StartedAt
  <2>8. \A i \in 1..Len(stack) : i = Len(stack) \/ i \in 1..Len(stack) - 1
    BY Interval
  <2> QED BY <2>2, <2>6, <2>7, <2>8 DEF Started
<1>8. CASE Error
  <2>1. Len(stack') = 1 /\ stack'[1].ctx = "top-level"
    BY <1>8, ErrorFacts, TopLevelType
  <2> QED BY <2>1 DEF Started, StartedAt
<1> QED BY <1>1, <1>3, <1>4, <1>5, <1>6, <1>7, <1>8

OnceInv == IInv /\ Fresh /\ Apart /\ Inside /\ Started /\ CleanupOnce

LEMMA InitOnce == Init => OnceInv
<1> SUFFICES ASSUME Init PROVE OnceInv
  OBVIOUS
<1>1. IInv
  BY InitIInv
<1>2. Len(stack) = 1 /\ stack[1].ctx = "top-level" /\ blocks = 0 /\ runs = [b \in Block |-> 0]
  BY TopLevelType DEF Init
<1>3. Fresh /\ CleanupOnce
  BY <1>2 DEF Fresh, CleanupOnce
<1>4. Apart /\ Inside /\ Started
  BY <1>2 DEF Apart, Inside, InsideAt, Started, StartedAt
<1> QED BY <1>1, <1>3, <1>4 DEF OnceInv

LEMMA StepOnce == ~CleanupExits /\ OnceInv /\ [Next]_vars => OnceInv'
<1> SUFFICES ASSUME ~CleanupExits, OnceInv, [Next]_vars PROVE OnceInv'
  OBVIOUS
<1>1. IInv'
  BY StepIInv DEF OnceInv
<1>2. CASE Next
  <2>1. Typed /\ Three /\ Walked
    BY DEF OnceInv, IInv
  <2>2. Fresh' /\ Apart' /\ Inside' /\ Started' /\ CleanupOnce'
    BY <1>2, <2>1, FreshStep, ApartStep, InsideStep, StartedStep, OnceStep DEF OnceInv
  <2> QED BY <1>1, <2>2 DEF OnceInv
<1>3. CASE UNCHANGED vars
  <2>1. Fresh' /\ CleanupOnce'
    BY <1>3 DEF vars, OnceInv, Fresh, CleanupOnce
  <2>2. Apart'
    BY <1>3 DEF vars, OnceInv, Apart
  <2>3. Inside'
    BY <1>3 DEF vars, OnceInv, Inside, InsideAt, Cleaning
  <2>4. Started'
    BY <1>3 DEF vars, OnceInv, Started, StartedAt, Cleaning
  <2> QED BY <1>1, <2>1, <2>2, <2>3, <2>4 DEF OnceInv
<1> QED BY <1>2, <1>3

\* A cleanup runs once in the programs whose cleanups leave no block but their own: the exits
\* that have begun are nested, and none of them walks below the one before it (env.c:396-446).
THEOREM CleanupsRunOnce ==
  ASSUME ~CleanupExits
  PROVE  Spec => []CleanupOnce
<1>1. Init => OnceInv
  BY InitOnce
<1>2. OnceInv /\ [Next]_vars => OnceInv'
  BY StepOnce
<1>3. OnceInv => CleanupOnce
  BY DEF OnceInv
<1> QED BY <1>1, <1>2, <1>3, PTL DEF Spec

----------------------------------------------------------------------------
(* Declared results, where no block is entered and no exit called below a  *)
(* declaration that is pending, and of any two types one is below the      *)
(* other.                                                                  *)

Kind == ResultType \cup {Any}

\* What is owed at i is owed by methods up to the innermost entry; the type of the
\* combination on ResultValueStack is as narrow as each type owed.
OwedAt(i) ==
  stack[i].owes # {} =>
    /\ i > 1 /\ \A j \in i..Len(stack) : stack[j].ctx = "apply"
    /\ \A t \in stack[i].owes : results[Len(results) - (Len(stack) - i)] \subseteq t

Owed == \A i \in 1..Len(stack) : OwedAt(i)

NothingOwed == \A i \in 1..Len(stack) : stack[i].owes = {}

LEMMA NothingBelow ==
  ASSUME Typed, Owed, Top.ctx # "apply"
  PROVE  NothingOwed
<1> USE StackFacts
<1> SUFFICES ASSUME NEW i \in 1..Len(stack), stack[i].owes # {} PROVE FALSE
  BY DEF NothingOwed
<1>1. Len(stack) \in i..Len(stack)
  OBVIOUS
<1> QED BY <1>1 DEF Owed, OwedAt, Top

LEMMA NothingOwing == Typed /\ ~Owing => NothingOwed
BY StackFacts DEF NothingOwed, Owing

\* Entries that owe nothing are kept, and those put on them owe nothing.
LEMMA NothingNew ==
  ASSUME Typed, NothingOwed, NEW m \in 1..Len(stack), Kept(m),
         \A i \in 1..Len(stack') : i > m => stack'[i].owes = {}
  PROVE  Owed'
<1> USE StackFacts
<1>1. ASSUME NEW i \in 1..Len(stack') PROVE stack'[i].owes = {}
  <2>1. CASE i <= m
    <3>1. i \in 1..m /\ i \in 1..Len(stack)
      BY <2>1
    <3> QED BY <3>1 DEF Kept, NothingOwed
  <2>2. CASE i > m
    BY <2>2
  <2> QED BY <2>1, <2>2
<1> QED BY <1>1 DEF Owed, OwedAt

\* The types of a place.
LEMMA PlaceKinds ==
  ASSUME Typed, results \in Seq(Kind), NEW p \in Places
  PROVE  p.res \in Seq(Kind)
<1>1. Append(results, Any) \in Seq(Kind)
  BY AppendProperties DEF Kind
<1> QED BY <1>1, PlaceFacts

LEMMA OwedApply ==
  ASSUME Typed, Owed, results \in Seq(Kind), NEW t \in ResultType \cup {Any}, Apply(t)
  PROVE  Owed' /\ results' \in Seq(Kind)
<1> USE StackFacts
<1>1. PICK p \in Places :
        /\ stack' = Append(p.stk, [NewEntry("apply", 0, p.owes) EXCEPT !.decl = t])
        /\ results' = p.res /\ Fit(stack', results')
  BY DEF Apply
<1> DEFINE e == [NewEntry("apply", 0, p.owes) EXCEPT !.decl = t]
           m == Len(p.stk)
<1>2. /\ p.owes \in SUBSET ResultType /\ Handed(m)
      /\ \/ p.owes = {} /\ p.stk = stack /\ p.res = Append(results, Any)
         \/ /\ p.owes = Top.owes /\ p.res = results
            /\ Top.ctx = "apply" /\ m = Len(stack) - 1
  BY PlaceFacts
<1>3. e \in Entry /\ e.ctx = "apply" /\ e.owes = p.owes
  <2> DEFINE n == NewEntry("apply", 0, p.owes)
  <2>1. n \in Entry /\ n.ctx = "apply" /\ n.owes = p.owes
    <3>1. p.owes \in SUBSET ResultType
      BY <1>2
    <3> QED BY <3>1, LimitsAssumption DEF NewEntry, Entry, Any
  <2>2. e = [n EXCEPT !.decl = t]
    OBVIOUS
  <2> HIDE DEF n, e
  <2> QED BY <2>1, <2>2 DEF Entry
<1>4. stack' = Append(p.stk, e)
  BY <1>1
<1>5. m \in 1..Len(stack)
  BY <1>2 DEF Handed
<1> HIDE DEF e
<1>6. Len(stack') = m + 1 /\ Kept(m) /\ stack'[m + 1] = e
  BY <1>3, <1>4, PushFacts
<1> HIDE DEF m
<1>7. \A i \in 1..m : stack'[i] = stack[i] /\ i \in 1..Len(stack)
  BY <1>5, <1>6 DEF Kept
<1>8. \A j \in 1..m + 1 : j \in 1..m \/ j = m + 1
  BY <1>5
<1>9. results' \in Seq(Kind)
  BY <1>1, PlaceKinds
<1>10. ASSUME NEW i \in 1..m, stack[i].owes # {}
       PROVE  i > 1 /\ \A j \in i..m + 1 : stack'[j].ctx = "apply"
  <2>1. i > 1 /\ \A j \in i..Len(stack) : stack[j].ctx = "apply"
    BY <1>7, <1>10 DEF Owed, OwedAt
  <2>2. ASSUME NEW j \in i..m + 1 PROVE stack'[j].ctx = "apply"
    <3>1. j \in 1..m + 1
      BY <1>5
    <3>2. CASE j = m + 1
      BY <1>3, <1>6, <3>2
    <3>3. CASE j \in 1..m
      <4>1. j \in i..Len(stack)
        BY <1>7, <3>3
      <4> QED BY <1>7, <2>1, <3>3, <4>1
    <3> QED BY <1>8, <3>1, <3>2, <3>3
  <2> QED BY <2>1, <2>2
<1>11. CASE p.owes = {} /\ p.stk = stack /\ p.res = Append(results, Any)
  <2>1. m = Len(stack) /\ Len(results') = Len(results) + 1
        /\ \A k \in 1..Len(results) : results'[k] = results[k]
    BY <1>1, <1>11, AppendProperties DEF m
  <2>2. ASSUME NEW i \in 1..m, stack[i].owes # {}, NEW u \in stack[i].owes
        PROVE  results'[Len(results') - (Len(stack') - i)] \subseteq u
    <3> DEFINE k == Len(results) - (Len(stack) - i)
    <3>1. i > 1 /\ results[k] \subseteq u
      BY <1>7, <2>2, <1>10 DEF Owed, OwedAt
    <3>2. Len(results') - (Len(stack') - i) = k
      BY <1>6, <2>1
    <3>3. k \in 1..Len(results)
      BY <2>1, <3>1 DEF Typed, EnoughResults
    <3> HIDE DEF k
    <3> QED BY <2>1, <3>1, <3>2, <3>3
  <2>3. \A i \in 1..m : OwedAt(i)'
    BY <1>6, <1>7, <1>10, <2>2 DEF OwedAt
  <2>4. OwedAt(m + 1)'
    BY <1>3, <1>6, <1>11 DEF OwedAt
  <2> QED BY <1>6, <1>8, <1>9, <2>3, <2>4 DEF Owed
<1>12. CASE p.owes = Top.owes /\ p.res = results /\ Top.ctx = "apply" /\ m = Len(stack) - 1
  <2>1. Len(stack') = Len(stack) /\ results' = results /\ m + 1 = Len(stack)
    <3>1. m + 1 = Len(stack)
      BY <1>12
    <3> QED BY <1>1, <1>6, <1>12, <3>1
  <2>2. ASSUME NEW i \in 1..m, stack[i].owes # {}, NEW u \in stack[i].owes
        PROVE  results'[Len(results') - (Len(stack') - i)] \subseteq u
    BY <1>7, <2>1, <2>2 DEF Owed, OwedAt
  <2>3. \A i \in 1..m : OwedAt(i)'
    BY <1>6, <1>7, <1>10, <2>2 DEF OwedAt
  <2>4. OwedAt(m + 1)'
    <3>1. OwedAt(Len(stack))
      <4>1. Len(stack) \in 1..Len(stack)
        OBVIOUS
      <4> QED BY <4>1 DEF Owed
    <3>2. stack'[Len(stack)].owes = Top.owes /\ stack'[Len(stack)].ctx = "apply"
      BY <1>3, <1>6, <1>12, <2>1
    <3>3. \A j \in Len(stack)..Len(stack) : j = Len(stack)
      BY Interval
    <3> QED BY <2>1, <3>1, <3>2, <3>3 DEF OwedAt, Top
  <2> QED BY <1>6, <1>8, <1>9, <2>3, <2>4 DEF Owed
<1> QED BY <1>2, <1>11, <1>12

LEMMA OwedLastForm ==
  ASSUME Typed, Owed, results \in Seq(Kind), LastForm,
         \A s, t \in ResultType : s \subseteq t \/ t \subseteq s
  PROVE  Owed' /\ results' \in Seq(Kind)
<1> USE StackFacts
<1> DEFINE n == Len(stack)
           r == Len(results)
<1>1. /\ Typed' /\ AlteredTop /\ stack'[n].owes = Top.owes \cup ({Top.decl} \ {Any})
      /\ results' = [results EXCEPT ![r] = narrow(@, Top.decl)]
  BY LastFormStep
<1>2. Top.ctx = "apply" /\ Top.decl \in Kind
  BY DEF LastForm, Entry, Kind
<1>3. n > 1 /\ r \in 1..r /\ n \in 1..n
  <2>1. n # 1
    BY <1>2 DEF Typed, Rooted, Top
  <2>2. r >= 1
    BY <2>1 DEF Typed, EnoughResults
  <2> QED BY <2>1, <2>2
<1>4. results[r] \in Kind
  BY <1>3
<1> DEFINE new == narrow(results[r], Top.decl)
<1>5. new \in Kind
  BY <1>2, <1>4 DEF narrow
<1>6. new \subseteq results[r] /\ (Top.decl # Any => new \subseteq Top.decl)
  <2>1. CASE Top.decl \subseteq results[r]
    BY <2>1 DEF narrow
  <2>2. CASE ~(Top.decl \subseteq results[r])
    <3>1. Top.decl # Any => results[r] \subseteq Top.decl
      <4>1. Top.decl # Any => Top.decl \in ResultType
        BY <1>2 DEF Kind
      <4>2. results[r] = Any => Top.decl = Any
        <5>1. Top.decl \in SUBSET Value
          BY TypesAssumption, <1>2 DEF Kind, Any
        <5> QED BY <2>2, <5>1 DEF Any
      <4>3. results[r] \in ResultType \/ results[r] = Any
        BY <1>4 DEF Kind
      <4> QED BY <2>2, <4>1, <4>2, <4>3
    <3> QED BY <2>2, <3>1 DEF narrow
  <2> QED BY <2>1, <2>2
<1>7. results' = [results EXCEPT ![r] = new]
  BY <1>1
<1> HIDE DEF new
<1>8. /\ results' \in Seq(Kind) /\ Len(results') = r /\ results'[r] = new
      /\ \A k \in 1..r : k # r => results'[k] = results[k]
  <2> DEFINE changed == [results EXCEPT ![r] = new]
  <2>1. /\ changed \in Seq(Kind) /\ Len(changed) = Len(results)
        /\ \A k \in 1..Len(results) : changed[k] = IF k = r THEN new ELSE results[k]
    BY <1>3, <1>5, ExceptSeq
  <2>2. results' = changed
    BY <1>7
  <2> HIDE DEF changed
  <2> QED BY <1>3, <2>1, <2>2
<1>9. Len(stack') = n /\ \A j \in 1..n : stack'[j].ctx = stack[j].ctx
  <2>1. \A i \in 1..n : i = n \/ i \in 1..n - 1
    BY Interval
  <2> QED BY <1>1, <2>1 DEF AlteredTop, Top
<1>10. ASSUME NEW i \in 1..n - 1 PROVE OwedAt(i)'
  <2>1. stack'[i] = stack[i] /\ i \in 1..n
    BY <1>1 DEF AlteredTop
  <2>2. SUFFICES ASSUME stack[i].owes # {}
                 PROVE  /\ i > 1 /\ \A j \in i..n : stack'[j].ctx = "apply"
                        /\ \A t \in stack[i].owes : results'[r - (n - i)] \subseteq t
    BY <1>8, <1>9, <2>1 DEF OwedAt
  <2>3. /\ i > 1 /\ \A j \in i..n : stack[j].ctx = "apply"
        /\ \A t \in stack[i].owes : results[r - (n - i)] \subseteq t
    BY <2>1, <2>2 DEF Owed, OwedAt
  <2>4. \A j \in i..n : j \in 1..n
    BY <2>1
  <2> DEFINE k == r - (n - i)
  <2>5. k \in 1..r /\ k # r
    BY <1>3, <2>3 DEF Typed, EnoughResults
  <2>6. results'[k] = results[k]
    <3> HIDE DEF k
    <3> QED BY <1>8, <2>5
  <2> QED BY <1>9, <2>3, <2>4, <2>6
<1>11. OwedAt(n)'
  <2>1. OwedAt(n)
    BY <1>3 DEF Owed
  <2>2. r - (n - n) = r
    OBVIOUS
  <2>3. \A t \in Top.owes : results[r] \subseteq t
    BY <2>1, <2>2 DEF OwedAt, Top
  <2>4. \A t \in stack'[n].owes : results'[r] \subseteq t
    <3> TAKE t \in stack'[n].owes
    <3>1. t \in Top.owes \/ (t = Top.decl /\ Top.decl # Any)
      BY <1>1
    <3>2. new \subseteq t
      BY <1>6, <2>3, <3>1
    <3>3. results'[r] = new
      BY <1>8
    <3> QED BY <3>2, <3>3
  <2>5. \A j \in n..n : stack'[j].ctx = "apply"
    <3>1. \A j \in n..n : j = n
      BY Interval
    <3> QED BY <1>2, <1>3, <1>9, <3>1 DEF Top
  <2> QED BY <1>3, <1>8, <1>9, <2>2, <2>4, <2>5 DEF OwedAt
<1>12. \A i \in 1..n : i = n \/ i \in 1..n - 1
  BY Interval
<1> QED BY <1>8, <1>9, <1>10, <1>11, <1>12 DEF Owed

\* The end of a combination: what is owed below it stays as it is.
LEMMA OwedLeft ==
  ASSUME Typed, Owed, results \in Seq(Kind), NEW v, NEW m \in 1..Len(stack) - 1, Left(m, v),
         NothingOwed \/ m = Len(stack) - 1, results' \in Seq(SUBSET Value)
  PROVE  Owed' /\ results' \in Seq(Kind)
<1> USE StackFacts
<1>1. /\ m \in 1..Len(stack) /\ Kept(m) /\ Len(stack') = m /\ Len(results') = Len(results) - 1
      /\ \A k \in 1..Len(results) - 1 : results'[k] = results[k]
  BY DEF Left, Cut
<1>2. results' \in Seq(Kind)
  <2>1. \A k \in 1..Len(results') : results'[k] \in Kind
    <3>1. \A k \in 1..Len(results) - 1 : k \in 1..Len(results)
      BY Interval
    <3>2. \A k \in 1..Len(results) : results[k] \in Kind
      <4>1. results \in [1..Len(results) -> Kind]
        BY LenProperties
      <4> QED BY <4>1
    <3> QED BY <1>1, <3>1, <3>2
  <2>2. Len(results') \in Nat /\ results' \in [1..Len(results') -> SUBSET Value]
    BY LenProperties
  <2>3. results' \in [1..Len(results') -> Kind]
    BY <2>1, <2>2
  <2> QED BY <2>2, <2>3, SeqOf
<1>3. CASE NothingOwed
  <2>1. \A i \in 1..Len(stack') : ~(i > m)
    BY <1>1
  <2> QED BY <1>1, <1>2, <1>3, <2>1, NothingNew
<1>4. CASE m = Len(stack) - 1
  <2>1. ASSUME NEW i \in 1..m PROVE OwedAt(i)'
    <3>1. stack'[i] = stack[i] /\ i \in 1..Len(stack)
      BY <1>1 DEF Kept
    <3>2. SUFFICES ASSUME stack[i].owes # {}
                   PROVE  /\ i > 1 /\ \A j \in i..m : stack'[j].ctx = "apply"
                          /\ \A t \in stack[i].owes : results'[Len(results) - 1 - (m - i)] \subseteq t
      BY <1>1, <3>1 DEF OwedAt
    <3>3. /\ i > 1 /\ \A j \in i..Len(stack) : stack[j].ctx = "apply"
          /\ \A t \in stack[i].owes : results[Len(results) - (Len(stack) - i)] \subseteq t
      BY <3>1, <3>2 DEF Owed, OwedAt
    <3>4. \A j \in i..m : stack'[j] = stack[j] /\ j \in i..Len(stack)
      <4>1. \A j \in i..m : j \in 1..m /\ j \in i..Len(stack)
        BY <1>1, SubInterval
      <4> QED BY <1>1, <4>1 DEF Kept
    <3> DEFINE k == Len(results) - (Len(stack) - i)
    <3>5. Len(results) - 1 - (m - i) = k
      BY <1>4
    <3>6. k \in 1..Len(results) - 1
      BY <1>4, <3>3 DEF Typed, EnoughResults
    <3>7. results'[k] = results[k]
      <4> HIDE DEF k
      <4> QED BY <1>1, <3>6
    <3> QED BY <3>3, <3>4, <3>5, <3>7
  <2> QED BY <1>1, <1>2, <2>1 DEF Owed
<1> QED BY <1>3, <1>4

LEMMA OwedStep ==
  ASSUME Typed, Three, Owed, results \in Seq(Kind), Next, ~OwedBlocks,
         \A s, t \in ResultType : s \subseteq t \/ t \subseteq s
  PROVE  Owed' /\ results' \in Seq(Kind)
<1> USE StackFacts
<1>1. Typed' /\ Numbered
  BY Steps, ThreeNumbered
<1>2. Append(results, Any) \in Seq(Kind)
  BY AppendProperties DEF Kind
<1>3. ASSUME NEW m \in Nat, NEW e \in Entry, GrownBy(m, e), e.owes = {}, NothingOwed
      PROVE  Owed'
  <2>1. m \in 1..Len(stack) /\ Kept(m) /\ Len(stack') = m + 1 /\ stack'[m + 1].owes = {}
    BY <1>3 DEF GrownBy, Handed
  <2>2. \A i \in 1..m + 1 : i > m => i = m + 1
    BY <2>1
  <2> QED BY <1>3, <2>1, <2>2, NothingNew
<1>4. ASSUME NEW t \in ResultType \cup {Any}, Apply(t) PROVE Owed' /\ results' \in Seq(Kind)
  BY <1>4, OwedApply
<1>5. ASSUME NEW b \in Block, CallExit(b) PROVE Owed' /\ results' \in Seq(Kind)
  <2>1. NothingOwed
    BY <1>5, NothingOwing DEF CallExit
  <2>2. Owed'
    BY <1>3, <1>5, <2>1, CallStep
  <2> QED BY <1>5, <2>2, PlaceKinds DEF CallExit
<1>6. ASSUME CompleteBody PROVE Owed' /\ results' \in Seq(Kind)
  <2>1. NothingOwed
    BY <1>6, NothingBelow DEF CompleteBody
  <2>2. Top.blk \in Block
    BY <1>6, BindAimed DEF CompleteBody
  <2>3. Owed'
    BY <1>3, <1>6, <2>1, <2>2, CompleteStep
  <2> QED BY <1>2, <1>6, <2>3 DEF CompleteBody
<1>7. ASSUME EnterBlock PROVE Owed' /\ results' \in Seq(Kind)
  <2>1. NothingOwed
    BY <1>7, NothingOwing DEF EnterBlock
  <2>2. PICK m \in Nat : OpenedAt(m) /\ stack'[m + 1].owes \in {{}, Top.owes}
    BY <1>7, EnterStep
  <2>3. Top.owes = {}
    <3>1. Len(stack) \in 1..Len(stack)
      OBVIOUS
    <3> QED BY <2>1, <3>1 DEF NothingOwed, Top
  <2>4. /\ m \in 1..Len(stack) /\ Kept(m) /\ Len(stack') = m + 3
        /\ stack'[m + 1].owes = {} /\ stack'[m + 2].owes = {} /\ stack'[m + 3].owes = {}
    BY <2>2, <2>3 DEF OpenedAt, Handed
  <2>5. \A i \in 1..m + 3 : i > m => i = m + 1 \/ i = m + 2 \/ i = m + 3
    BY <2>4
  <2>6. Owed'
    BY <2>1, <2>4, <2>5, NothingNew
  <2>7. PICK p \in Places : results' = p.res \o <<Any, Any>>
    BY <1>7 DEF EnterBlock
  <2>8. p.res \in Seq(Kind) /\ <<Any, Any>> \in Seq(Kind)
    BY PlaceKinds DEF Kind
  <2> QED BY <2>6, <2>7, <2>8, ConcatProperties
<1>8. ASSUME NEW v \in Value, Return(v) PROVE Owed' /\ results' \in Seq(Kind)
  <2>1. /\ Len(stack) - 1 \in 1..Len(stack) - 1
        /\ Error \/ Left(Len(stack) - 1, v)
    BY <1>1, <1>8, ReturnStep
  <2>2. results' \in Seq(SUBSET Value)
    BY <1>1 DEF Typed, TypeOK
  <2>3. CASE Left(Len(stack) - 1, v)
    BY <2>1, <2>2, <2>3, OwedLeft
  <2>4. CASE Error
    <3>1. Len(stack') = 1 /\ stack'[1].owes = {} /\ results' = results
      BY <2>4, ErrorFacts, TopLevelType DEF Error
    <3> QED BY <3>1 DEF Owed, OwedAt
  <2> QED BY <2>1, <2>3, <2>4
<1>9. ASSUME Error PROVE Owed' /\ results' \in Seq(Kind)
  <2>1. Len(stack') = 1 /\ stack'[1].owes = {} /\ results' = results
    BY <1>9, ErrorFacts, TopLevelType DEF Error
  <2> QED BY <2>1 DEF Owed, OwedAt
<1>10. ASSUME NEW v \in Value, ReachBlock(v) PROVE Owed' /\ results' \in Seq(Kind)
  <2>1. ReachedAt(NextStop) /\ (Error \/ Left(NextStop - 1, v))
    BY <1>1, <1>10, ReachStep
  <2> DEFINE m == NextStop - 1
  <2>2. NextStop \in 2..Len(stack) - 1
    BY <2>1 DEF ReachedAt
  <2>3. m \in 1..Len(stack) - 1
    BY <2>2
  <2>4. NothingOwed
    BY <2>1, NothingBelow DEF ReachedAt
  <2>5. results' \in Seq(SUBSET Value)
    BY <1>1 DEF Typed, TypeOK
  <2>6. Error \/ Left(m, v)
    BY <2>1
  <2> HIDE DEF m
  <2> QED BY <1>9, <2>3, <2>4, <2>5, <2>6, OwedLeft
<1>11. ASSUME LastForm PROVE Owed' /\ results' \in Seq(Kind)
  BY <1>11, OwedLastForm
<1>12. ASSUME RunCleanup PROVE Owed' /\ results' \in Seq(Kind)
  <2>1. PICK s \in 1..Len(stack) - 1 : RunAt(s)
    BY <1>12, ProtectBlocks, RunStep
  <2>2. NothingOwed
    BY <2>1, NothingBelow DEF RunAt
  <2>3. /\ Len(stack') = Len(stack) /\ \A i \in 1..Len(stack) - 1 : stack'[i] = stack[i]
        /\ stack'[Len(stack)].owes = Top.owes /\ results' = results
    BY <2>1 DEF RunAt, AlteredTop
  <2>4. \A i \in 1..Len(stack) : i = Len(stack) \/ i \in 1..Len(stack) - 1
    BY Interval
  <2>5. \A i \in 1..Len(stack) : stack'[i].owes = {}
    BY <2>2, <2>3, <2>4 DEF NothingOwed, Top
  <2> QED BY <2>3, <2>5 DEF Owed, OwedAt
<1>13. CASE ReachEnd \/ SignalError
  BY <1>9, <1>13 DEF ReachEnd, SignalError
<1> QED BY <1>4, <1>5, <1>6, <1>7, <1>8, <1>10, <1>11, <1>12, <1>13 DEF Next

OwedInv == IInv /\ Owed /\ results \in Seq(Kind)

\* The value of a method that declares its result has the declared type, in the programs that
\* neither enter a block nor call an exit below a declaration that is pending, and if of any two
\* declared types one is below the other (apply.c:338-351): the type a combination finds is
\* its own then, and narrow as the narrowest declaration.
THEOREM DeclarationsKept ==
  ASSUME ~OwedBlocks, \A s, t \in ResultType : s \subseteq t \/ t \subseteq s
  PROVE  Spec => DeclaredResults
<1> DEFINE AsDeclared == \A v \in Value :
                      results' # results =>
                        /\ Return(v) => \A t \in Top.owes : v \in t
                        /\ ReachBlock(v) => \A t \in stack[NextStop].owes : v \in t
<1>1. Init => OwedInv
  <2> SUFFICES ASSUME Init PROVE OwedInv
    OBVIOUS
  <2>1. Len(stack) = 1 /\ stack[1].owes = {} /\ results = <<>>
    BY TopLevelType DEF Init
  <2> QED BY <2>1, InitIInv DEF OwedInv, Owed, OwedAt
<1>2. OwedInv /\ [Next]_vars => OwedInv'
  <2> SUFFICES ASSUME OwedInv, [Next]_vars PROVE OwedInv'
    OBVIOUS
  <2>1. IInv'
    BY StepIInv DEF OwedInv
  <2>2. CASE Next
    <3>1. Typed /\ Three /\ Owed /\ results \in Seq(Kind)
      BY DEF OwedInv, IInv
    <3> QED BY <2>1, <2>2, <3>1, OwedStep DEF OwedInv
  <2>3. CASE UNCHANGED vars
    BY <2>1, <2>3 DEF vars, OwedInv, Owed, OwedAt, Kind
  <2> QED BY <2>2, <2>3
<1>3. OwedInv /\ [Next]_vars => [AsDeclared]_vars
  <2> SUFFICES ASSUME OwedInv, NEW v \in Value, results' # results
               PROVE  /\ Return(v) => \A t \in Top.owes : v \in t
                      /\ ReachBlock(v) => \A t \in stack[NextStop].owes : v \in t
    OBVIOUS
  <2>1. Typed /\ Three /\ Owed /\ Numbered
    BY ThreeNumbered DEF OwedInv, IInv
  <2>2. ~Error
    BY DEF Error
  <2>3. ASSUME Return(v), NEW t \in Top.owes PROVE v \in t
    <3>1. v \in results[Len(results)]
      BY <2>1, <2>2, <2>3, ReturnStep DEF Left
    <3>2. Len(stack) \in 1..Len(stack) /\ Len(results) - (Len(stack) - Len(stack)) = Len(results)
      BY <2>1, StackFacts
    <3>3. results[Len(results)] \subseteq t
      BY <2>1, <2>3, <3>2 DEF Owed, OwedAt, Top
    <3> QED BY <3>1, <3>3
  <2>4. ASSUME ReachBlock(v) PROVE stack[NextStop].owes = {}
    <3>1. ReachedAt(NextStop)
      BY <2>1, <2>4, ReachStep
    <3>2. NothingOwed
      BY <2>1, <3>1, NothingBelow DEF ReachedAt
    <3>3. NextStop \in 1..Len(stack)
      BY <2>1, <3>1, StackFacts DEF ReachedAt
    <3> QED BY <3>2, <3>3 DEF NothingOwed
  <2> QED BY <2>3, <2>4
<1>4. Spec => [][AsDeclared]_vars
  BY <1>1, <1>2, <1>3, PTL DEF Spec
<1> QED BY <1>4 DEF DeclaredResults
=============================================================================
