------------------------------ MODULE Dispatch ------------------------------
(***************************************************************************)
(* Generic function dispatch (function.c, apply.c, with OPTIMIZE_TAIL_CALLS*)
(* and USE_METHOD_CACHING, as the Makefile builds it).                     *)
(*                                                                         *)
(* A generic function holds its methods, a cache from the classes of the   *)
(* arguments to the possible methods in order, and the list of the         *)
(* next-method objects of its calls in progress.  The cache does not hold  *)
(* methods: it holds handles.  A method that replaces another takes over   *)
(* its handle and makes it point to itself, which leaves the cache alone.  *)
(* A next-method object holds the next method and the chain after it;      *)
(* adding a method invalidates the chain of every object on the list, and  *)
(* it is recalculated when the next method is applied.                     *)
(*                                                                         *)
(* GFMETHODS is a list in the code; its order reaches nothing but the      *)
(* input of qsort, so it is a set here.                                    *)
(***************************************************************************)
EXTENDS MethodOrder

CONSTANTS
  GF,        \* the generic functions
  GFSpecs,   \* GFSpecs[g][i]: the type generic function g requires of argument i
  MaxNM,     \* bound: next-method objects ever made
  MaxDepth   \* bound: nested activations

ASSUME BoundsAssumption == MaxNM \in Nat /\ MaxDepth \in Nat

VARIABLES
  born,        \* the methods make_method has made
  gfMethods,   \* GFMETHODS
  gfCache,     \* GFCACHE: the entry of a key, <<>> when there is none
  methHandle,  \* METHHANDLE; a handle is named after the method it was made for
  hdlObj,      \* HDLOBJ: the method a handle points to
  nms,         \* every next-method object made, by number
  activeNM,    \* GFACTIVENM: the list, newest first, as the set of its numbers
  stack        \* the activations in progress, the innermost last

defVars  == <<born, gfMethods, methHandle, hdlObj>>
callVars == <<nms, activeNM, stack>>
vars     == <<born, gfMethods, gfCache, methHandle, hdlObj, nms, activeNM, stack>>

CacheElement == [hdl : Method, starts : BOOLEAN]
NoEntry      == <<>>

\* gf, meth, rest and args are NMGF, NMMETH, NMREST and NMARGS; NMREST is (#f) when
\* it is not valid.
NextMethod == [gf : GF, meth : Method, rest : Seq(Method), valid : BOOLEAN, args : Args]

\* One apply_method.  nm is the number of the next-method object it pushed, 0 if none.
\* tail: the body has handed its last form back to the eval_combination that applied
\* the method, which now evaluates it (tail_eval).
Activation == [gf : GF, meth : Method, args : Args, nm : 0..MaxNM, tail : BOOLEAN]

TypeOK ==
  /\ born \subseteq Method
  /\ gfMethods \in [GF -> SUBSET Method]
  /\ gfCache \in [GF -> [Key -> Seq(CacheElement)]]
  /\ methHandle \in [Method -> Method]
  /\ hdlObj \in [Method -> Method]
  /\ nms \in Seq(NextMethod) /\ Len(nms) <= MaxNM
  /\ activeNM \in [GF -> SUBSET (1..MaxNM)]
  /\ stack \in Seq(Activation) /\ Len(stack) <= MaxDepth

Init ==
  /\ born = {}
  /\ gfMethods = [g \in GF |-> {}]
  /\ gfCache = [g \in GF |-> [k \in Key |-> NoEntry]]
  /\ methHandle = [m \in Method |-> m]
  /\ hdlObj = [m \in Method |-> m]
  /\ nms = <<>>
  /\ activeNM = [g \in GF |-> {}]
  /\ stack = <<>>

-----------------------------------------------------------------------------
(* Defining methods. *)

\* The specializers of m are below those of g: sub_specializers.
Fits(g, m) == \A i \in ArgPos : subtype(Specs[m][i], GFSpecs[g][i])

\* Slip: only the head of GFACTIVENM is invalidated.
InvalidatedHeadOnly(list) ==
  [n \in DOMAIN nms |->
     IF n \in list /\ \A p \in list : p <= n
     THEN [nms[n] EXCEPT !.rest = <<>>, !.valid = FALSE] ELSE nms[n]]

Invalidated(list) ==
  [n \in DOMAIN nms |->
     IF n \in list THEN [nms[n] EXCEPT !.rest = <<>>, !.valid = FALSE] ELSE nms[n]]

\* The method of g that a method with the specializers of m replaces: none or one.
Replaced(g, m) == {p \in gfMethods[g] : same_specializers(m, p)}

ReplaceMethod(g, m, old) ==
  /\ gfMethods' = [gfMethods EXCEPT ![g] = (@ \ {old}) \cup {m}]
  /\ methHandle' = [methHandle EXCEPT ![m] = methHandle[old]]
  /\ hdlObj' = [hdlObj EXCEPT ![methHandle[old]] = m]
  /\ UNCHANGED gfCache

\* Slip: an inserted method leaves the cache alone, as a replaced one may.
InsertMethodKeepsCache(g, m) ==
  /\ gfMethods' = [gfMethods EXCEPT ![g] = @ \cup {m}]
  /\ UNCHANGED <<gfCache, methHandle, hdlObj>>

InsertMethod(g, m) ==
  /\ gfMethods' = [gfMethods EXCEPT ![g] = @ \cup {m}]
  /\ gfCache' = [gfCache EXCEPT ![g] = [k \in Key |-> NoEntry]]
  /\ UNCHANGED <<methHandle, hdlObj>>

\* add_method.  The next-methods are invalidated before the checks that may reject
\* the method; a rejected one drops every activation on the way to the top level.
add_method(g, m) ==
  /\ nms' = Invalidated(activeNM[g])
  /\ UNCHANGED activeNM
  /\ \/ /\ Fits(g, m)
        /\ \/ \E old \in Replaced(g, m) : ReplaceMethod(g, m, old)
           \/ Replaced(g, m) = {} /\ InsertMethod(g, m)
        /\ UNCHANGED stack
     \/ /\ ~Fits(g, m)
        /\ stack' = <<>>
        /\ UNCHANGED <<gfMethods, gfCache, methHandle, hdlObj>>

\* define method: make_method with do_generic set.  A fresh method has a fresh handle.
DefineMethod(g, m) ==
  /\ m \notin born
  /\ born' = born \cup {m}
  /\ add_method(g, m)

\* A method expression: make_method without do_generic.
MakeMethod(m) ==
  /\ m \notin born
  /\ born' = born \cup {m}
  /\ UNCHANGED <<gfMethods, gfCache, methHandle, hdlObj, nms, activeNM, stack>>

\* add-method (gf, method) of a method that exists.
AddMethod(g, m) ==
  /\ m \in born
  /\ UNCHANGED born
  /\ add_method(g, m)

\* remove-method: the list is all it changes.
RemoveMethod(g, m) ==
  /\ m \in gfMethods[g]
  /\ gfMethods' = [gfMethods EXCEPT ![g] = @ \ {m}]
  /\ UNCHANGED <<born, gfCache, methHandle, hdlObj, nms, activeNM, stack>>

-----------------------------------------------------------------------------
(* The method cache. *)

Possible(g, key) == {m \in gfMethods[g] : possible_method(m, key)}

\* sorted_possible_method_handles: the entries that may be built for a call now.
NewEntries(g, args) ==
  {[i \in DOMAIN s |->
      [hdl    |-> methHandle[s[i]],
       starts |-> Grouped(s, args)[i].starts]] :
     s \in sort_methods(Possible(g, ClassVector(args)), args)}

MethodAt(e, i) == hdlObj[e[i].hdl]

\* Positions i and j, i <= j, are in one group of entry e.
SameGroup(e, i, j) == \A k \in (i+1)..j : ~e[k].starts

ApplicableAt(e, args) == {i \in DOMAIN e : applicable_method_p(MethodAt(e, i), args)}

\* Slip: groups are not told apart.
CandidatesAnyGroup(e, args) == ApplicableAt(e, args)

\* The applicable positions of the first group that has one; apply_generic runs the
\* method there if it is alone.
Candidates(e, args) ==
  LET app == ApplicableAt(e, args)
  IN  {j \in app : \E i \in app : /\ \A k \in app : i <= k
                                  /\ SameGroup(e, i, j)}

\* Slip: the chain starts with the chosen group itself.
RestMethodsFromSelf(e, c) == [i \in 1..(Len(e) - c + 1) |-> MethodAt(e, c + i - 1)]

\* build_rest_methods: the methods of the groups after that of position c, up to the
\* first group of more than one method.
RestMethods(e, c) ==
  LET n     == Len(e)
      later == {i \in (c+1)..n : e[i].starts}
      multi == {i \in later : i < n /\ ~e[i+1].starts}
      from  == IF later = {} THEN n + 1 ELSE CHOOSE i \in later : \A j \in later : i <= j
      upto  == IF multi = {} THEN n ELSE (CHOOSE i \in multi : \A j \in multi : i <= j) - 1
  IN  [i \in 1..(upto - from + 1) |-> MethodAt(e, from + i - 1)]

-----------------------------------------------------------------------------
(* Applying methods. *)

\* An activation goes on the stack, or in the place of one whose tail form this call is.
Bases ==
  {stack} \cup
  (IF stack # <<>> /\ stack[Len(stack)].tail THEN {SubSeq(stack, 1, Len(stack) - 1)} ELSE {})

\* What follows m in s.  A method that has replaced m and comes next is skipped.
After(s, m) ==
  LET at   == {i \in DOMAIN s : s[i] = m}
      tail == IF at = {} THEN <<>> ELSE SubSeq(s, (CHOOSE i \in at : TRUE) + 1, Len(s))
  IN  IF tail # <<>> /\ Head(tail) = hdlObj[methHandle[m]] THEN Tail(tail) ELSE tail

recalc_next_methods(g, m, args) ==
  LET app == {p \in gfMethods[g] : applicable_method_p(p, args)}
  IN  IF app = {} THEN {<<>>}
      ELSE {After(Unambiguous(s, args), m) : s \in sort_methods(app \cup {m}, args)}

\* Slip: an object is put on the list under the number of the one before it.
PushNextMethodOffByOne(g, rest, args) ==
  IF rest = <<>> THEN UNCHANGED <<nms, activeNM>>
  ELSE /\ Len(nms) < MaxNM
       /\ nms' = Append(nms, [gf |-> g, meth |-> Head(rest), rest |-> Tail(rest),
                              valid |-> TRUE, args |-> args])
       /\ activeNM' = [activeNM EXCEPT ![g] = @ \cup {Len(nms)}]

PushNextMethod(g, rest, args) ==
  IF rest = <<>> THEN UNCHANGED <<nms, activeNM>>
  ELSE /\ Len(nms) < MaxNM
       /\ nms' = Append(nms, [gf |-> g, meth |-> Head(rest), rest |-> Tail(rest),
                              valid |-> TRUE, args |-> args])
       /\ activeNM' = [activeNM EXCEPT ![g] = @ \cup {Len(nms) + 1}]

\* apply_method up to the evaluation of the body.  The next-method object is pushed
\* before the arguments are checked; a mismatch drops every activation.
apply_method(base, g, m, args, rest, valid) ==
  \E chain \in (IF valid THEN {rest} ELSE recalc_next_methods(g, m, args)) :
    /\ PushNextMethod(g, chain, args)
    /\ stack' = IF applicable_method_p(m, args)
                THEN Append(base, [gf |-> g, meth |-> m, args |-> args, tail |-> FALSE,
                                   nm |-> IF chain = <<>> THEN 0 ELSE Len(nms) + 1])
                ELSE <<>>

\* A call that errs out to the top level.
ErrorExit == stack' = <<>> /\ UNCHANGED <<nms, activeNM>>

\* apply_generic, from a cached entry or one built and cached now.
ApplyGeneric(g, args) ==
  LET key == ClassVector(args)
  IN  /\ gfCache[g][key] # NoEntry \/ Possible(g, key) # {}
      /\ Len(stack) < MaxDepth
      /\ \E e \in (IF gfCache[g][key] # NoEntry THEN {gfCache[g][key]}
                   ELSE NewEntries(g, args)) :
           /\ gfCache' = [gfCache EXCEPT ![g][key] = e]
           /\ \/ \E c \in Candidates(e, args), base \in Bases :
                   /\ Candidates(e, args) = {c}
                   /\ apply_method(base, g, MethodAt(e, c), args, RestMethods(e, c), TRUE)
              \/ Cardinality(Candidates(e, args)) # 1 /\ ErrorExit
      /\ UNCHANGED defVars

\* next-method (): the method was fixed when the object was made.
ApplyNextMethod(n, args) ==
  /\ Len(stack) < MaxDepth
  /\ \E base \in Bases :
       apply_method(base, nms[n].gf, nms[n].meth, args, nms[n].rest, nms[n].valid)
  /\ UNCHANGED gfCache /\ UNCHANGED defVars

\* Slip: the list is popped although nothing was pushed.
ReturnAlwaysPops ==
  /\ stack # <<>>
  /\ LET top == stack[Len(stack)]
     IN  /\ ~top.tail
         /\ activeNM' = [activeNM EXCEPT ![top.gf] = {n \in @ : \E p \in @ : n < p}]
  /\ stack' = SubSeq(stack, 1, Len(stack) - 1)
  /\ UNCHANGED <<nms, gfCache>> /\ UNCHANGED defVars

\* The last form of the body is no combination: apply_method runs to its end and takes
\* the newest next-method off the list, whichever activation it belongs to.
Return ==
  /\ stack # <<>>
  /\ LET top == stack[Len(stack)]
     IN  /\ ~top.tail
         /\ activeNM' = [activeNM EXCEPT ![top.gf] =
              IF top.nm = 0 THEN @ ELSE {n \in @ : \E p \in @ : n < p}]
  /\ stack' = SubSeq(stack, 1, Len(stack) - 1)
  /\ UNCHANGED <<nms, gfCache>> /\ UNCHANGED defVars

\* tail_eval: longjmp to the eval_combination that applied the method; the pop is skipped.
TailEval ==
  /\ stack # <<>>
  /\ ~stack[Len(stack)].tail
  /\ stack' = [stack EXCEPT ![Len(stack)].tail = TRUE]
  /\ UNCHANGED <<nms, activeNM, gfCache>> /\ UNCHANGED defVars

\* The tail form was the application of a primitive, or its value is there.
TailDone ==
  /\ stack # <<>>
  /\ stack[Len(stack)].tail
  /\ stack' = SubSeq(stack, 1, Len(stack) - 1)
  /\ UNCHANGED <<nms, activeNM, gfCache>> /\ UNCHANGED defVars

\* A non-local exit, or an error that reaches the top level, drops activations as they are.
Unwind ==
  /\ \E k \in 0..(Len(stack) - 1) : stack' = SubSeq(stack, 1, k)
  /\ UNCHANGED <<nms, activeNM, gfCache>> /\ UNCHANGED defVars

\* The next-method objects the code being evaluated can reach: those of the activations
\* in progress.
LiveNM == {stack[i].nm : i \in DOMAIN stack} \ {0}

Calls ==
  \/ \E g \in GF, args \in Args : ApplyGeneric(g, args)
  \/ \E n \in LiveNM, args \in Args : ApplyNextMethod(n, args)
  \/ Return
  \/ TailEval
  \/ TailDone
  \/ Unwind

\* A program that only defines methods, and whose closures do not outlive their method.
NextDefine ==
  \/ \E g \in GF, m \in Method : DefineMethod(g, m)
  \/ Calls

\* Any program: methods are values that are added to and removed from generic functions,
\* and a closure keeps its next-method after its activation is gone.
Next ==
  \/ NextDefine
  \/ \E m \in Method : MakeMethod(m)
  \/ \E g \in GF, m \in Method : AddMethod(g, m)
  \/ \E g \in GF, m \in Method : RemoveMethod(g, m)
  \/ \E n \in DOMAIN nms, args \in Args : ApplyNextMethod(n, args)

SpecDefine == Init /\ [][NextDefine]_vars
Spec       == Init /\ [][Next]_vars

-----------------------------------------------------------------------------
(* Properties. *)

\* Every activation that pushed a next-method still has it on the list of its generic
\* function, where add_method will invalidate it, however many pops the tail calls and
\* exits of its callees have skipped (each pop takes the head, apply.c:372).
LiveListed ==
  \A i \in DOMAIN stack : stack[i].nm # 0 => stack[i].nm \in activeNM[stack[i].gf]

\* A cached entry leads, through its handles, to exactly the methods the generic
\* function has now for those classes: replacing a method may leave the cache alone
\* (function.c:683-689).
CacheCoherent ==
  \A g \in GF, k \in Key :
    gfCache[g][k] # NoEntry =>
      {MethodAt(gfCache[g][k], i) : i \in DOMAIN gfCache[g][k]} = Possible(g, k)

\* The chain a running method will hand to its next-method names no method that has
\* been replaced since (function.c:653-661 and the recalculation in apply.c:184-186).
LiveChainsCurrent ==
  \A n \in LiveNM :
    nms[n].valid => \A i \in DOMAIN nms[n].rest : nms[n].rest[i] \in gfMethods[nms[n].gf]

\* next-method goes to a method less specific than the one that calls it, and so does
\* every step down its chain, for the arguments it was made for: recursion through
\* next-method ends, whatever was replaced, removed or shared meanwhile.
NextMethodDescends ==
  /\ \A j \in DOMAIN stack :
       LET a == stack[j] IN
       a.nm # 0 => specializer_compare(a.meth, nms[a.nm].meth, a.args) < 0
  /\ \A n \in DOMAIN nms : \A i \in DOMAIN nms[n].rest :
       specializer_compare(IF i = 1 THEN nms[n].meth ELSE nms[n].rest[i-1],
                           nms[n].rest[i], nms[n].args) < 0

\* A next method that has been replaced since still has, when it is applied, what comes
\* after its replacement ahead of it: "need to check for replacement of myself leaving my
\* new self in the list" (function.c:973).  Not so: see the README.
ReplacedKeepsChain ==
  \A n \in LiveNM :
    LET o == nms[n] IN
    ~o.valid /\ o.meth \notin gfMethods[o.gf] =>
      \A chain \in recalc_next_methods(o.gf, o.meth, o.args) :
        chain \in recalc_next_methods(o.gf, hdlObj[methHandle[o.meth]], o.args)

\* The method more specific than every other applicable one, where there is one.
Least(g, args) ==
  {m \in gfMethods[g] :
     /\ applicable_method_p(m, args)
     /\ \A p \in gfMethods[g] \ {m} :
          applicable_method_p(p, args) => specializer_compare(m, p, args) < 0}

\* A call runs that method, from the cache or not, whatever was defined and called before.
LeastMethodRuns ==
  [][\A g \in GF, args \in Args :
       ApplyGeneric(g, args) =>
         \A m \in Least(g, args) :
           stack' # <<>> /\ stack'[Len(stack')].meth = m]_vars
=============================================================================
