--------------------------- MODULE DispatchProofs ---------------------------
(***************************************************************************)
(* Proofs about Dispatch, for every value of its constants: the types of   *)
(* the state, that the next-method list holds every object a running       *)
(* method may use, and that a cached entry and the chain of a next-method  *)
(* are what the generic function holds now; and, where methods are         *)
(* specialized on classes, that a call runs the least method and that      *)
(* next-method goes down.                                                  *)
(***************************************************************************)
EXTENDS Dispatch, NatFacts, SequenceTheorems

-----------------------------------------------------------------------------
(* Lemmas about data. *)

LEMMA InSeq ==
  ASSUME NEW S, NEW T, NEW s \in Seq(T), \A i \in 1..Len(s) : s[i] \in S
  PROVE  s \in Seq(S)
BY LenProperties, SeqDef

\* An arrangement of a finite set is a sequence that holds each of its elements.
LEMMA ArrangementType ==
  ASSUME NEW S \in SUBSET Method, NEW s \in Arrangements(S)
  PROVE  /\ s \in Seq(S)
         /\ {s[i] : i \in DOMAIN s} = S
<1> DEFINE n == Cardinality(S)
           R == {s[i] : i \in 1..n}
<1>1. IsFiniteSet(S) /\ n \in Nat
  BY MethodAssumption, FS_Subset, FS_CardinalityType
<1>2. s \in [1..n -> S] /\ \A i, j \in 1..n : i # j => s[i] # s[j]
  BY DEF Arrangements
<1>3. s \in Seq(S)
  BY <1>1, <1>2, SeqDef
<1>4. R \in SUBSET S
  BY <1>2
<1>5. IsFiniteSet(1..n) /\ Cardinality(1..n) = n
  <2>1. 1 \in Int /\ n \in Int
    BY <1>1
  <2>2. IsFiniteSet(1..n) /\ Cardinality(1..n) = IF 1 > n THEN 0 ELSE n - 1 + 1
    BY <2>1, FS_Interval
  <2> QED BY <1>1, <2>2
<1>6. ExistsBijection(1..n, R)
  <2>1. s \in Bijection(1..n, R)
    BY <1>2 DEF Bijection, Injection, Surjection, IsInjective
  <2> QED BY <2>1 DEF ExistsBijection
<1>7. Cardinality(R) = n
  BY <1>5, <1>6, FS_Bijection
<1>8. R = S
  BY <1>1, <1>4, <1>7, FS_Subset
<1> QED BY <1>2, <1>3, <1>8

LEMMA SortType ==
  ASSUME NEW S \in SUBSET Method, NEW args, NEW s \in sort_methods(S, args)
  PROVE  /\ s \in Seq(Method)
         /\ {s[i] : i \in DOMAIN s} = S
<1>1. s \in Arrangements(S)
  BY DEF sort_methods
<1>2. s \in Seq(S) /\ {s[i] : i \in DOMAIN s} = S
  BY <1>1, ArrangementType
<1> QED BY <1>2, SeqMonotonic

\* Sorted methods are each there once.
LEMMA SortDistinct ==
  ASSUME NEW S \in SUBSET Method, NEW args, NEW s \in sort_methods(S, args)
  PROVE  s \in Seq(S) /\ \A i, j \in DOMAIN s : i # j => s[i] # s[j]
<1>1. s \in Arrangements(S)
  BY DEF sort_methods
<1>2. s \in Seq(S)
  BY <1>1, ArrangementType
<1> QED BY <1>1, <1>2 DEF Arrangements

-----------------------------------------------------------------------------
(* Lemmas about the operators of dispatch. *)

\* The methods after a position of an entry are methods its handles lead to.
LEMMA RestMethodsType ==
  ASSUME NEW S, NEW e \in Seq(CacheElement), NEW c \in DOMAIN e,
         \A i \in DOMAIN e : MethodAt(e, i) \in S
  PROVE  RestMethods(e, c) \in Seq(S)
<1> DEFINE n     == Len(e)
           later == {i \in (c+1)..n : e[i].starts}
           multi == {i \in later : i < n /\ ~e[i+1].starts}
           from  == IF later = {} THEN n + 1
                    ELSE CHOOSE i \in later : \A j \in later : i <= j
           upto  == IF multi = {} THEN n
                    ELSE (CHOOSE i \in multi : \A j \in multi : i <= j) - 1
<1>1. n \in Nat /\ c \in 1..n /\ \A i \in 1..n : MethodAt(e, i) \in S
  BY LenProperties
<1>2. later \subseteq 1..n /\ multi \subseteq 1..n
  BY <1>1
<1>3. from \in 1..(n+1)
  <2>1. CASE later = {}
    BY <2>1, <1>1
  <2>2. CASE later # {}
    <3>1. from \in later
      <4>1. later \subseteq Nat
        BY <1>1, <1>2
      <4> HIDE DEF later
      <4> QED BY <2>2, <4>1, LeastChosen
    <3> HIDE DEF from, later
    <3> QED BY <3>1, <1>1, <1>2
  <2> QED BY <2>1, <2>2
<1>4. upto \in 0..n
  <2>1. CASE multi = {}
    BY <2>1, <1>1
  <2>2. CASE multi # {}
    <3> DEFINE least == CHOOSE i \in multi : \A j \in multi : i <= j
    <3>1. least \in multi
      <4>1. multi \subseteq Nat
        BY <1>1, <1>2
      <4> HIDE DEF multi
      <4> QED BY <2>2, <4>1, LeastChosen
    <3>2. upto = least - 1
      BY <2>2
    <3> HIDE DEF upto, least, multi
    <3> QED BY <3>1, <3>2, <1>1, <1>2
  <2> QED BY <2>1, <2>2
<1> HIDE DEF from, upto
<1>5. ASSUME NEW i \in 1..(upto - from + 1)
      PROVE  MethodAt(e, from + i - 1) \in S
  <2>1. from + i - 1 \in 1..n
    BY <1>1, <1>3, <1>4
  <2> QED BY <2>1, <1>1
<1>6. RestMethods(e, c) = [i \in 1..(upto - from + 1) |-> MethodAt(e, from + i - 1)]
  BY DEF RestMethods, from, upto
<1>7. \E len \in Nat : 1..(upto - from + 1) = 1..len
  <2> DEFINE d == upto - from + 1
             len == IF d >= 0 THEN d ELSE 0
  <2>1. d \in Int
    BY <1>1, <1>3, <1>4
  <2>2. len \in Nat /\ 1..d = 1..len
    <3> HIDE DEF d
    <3> QED BY <2>1
  <2> HIDE DEF len
  <2> QED BY <2>2
<1>8. PICK len \in Nat : 1..(upto - from + 1) = 1..len
  BY <1>7
<1>9. RestMethods(e, c) \in [1..len -> S]
  BY <1>5, <1>6, <1>8
<1> QED BY <1>8, <1>9, SeqDef

\* What is recalculated for a next-method object is a chain of methods the generic function
\* has now: the method itself, which it may not have any more, comes once and is left out.
LEMMA RecalcType ==
  ASSUME gfMethods \in [GF -> SUBSET Method],
         NEW g \in GF, NEW m \in Method, NEW args,
         NEW chain \in recalc_next_methods(g, m, args)
  PROVE  chain \in Seq(gfMethods[g])
<1> DEFINE app == {p \in gfMethods[g] : applicable_method_p(p, args)}
           S   == app \cup {m}
<1>1. app \in SUBSET Method /\ S \in SUBSET Method
  OBVIOUS
<1>2. CASE app = {}
  BY <1>2 DEF recalc_next_methods
<1>3. CASE app # {}
  <2>1. PICK s \in sort_methods(S, args) : chain = After(Unambiguous(s, args), m)
    BY <1>3 DEF recalc_next_methods
  <2> DEFINE u == Unambiguous(s, args)
  <2>2. /\ s \in Seq(S) /\ Len(s) \in Nat /\ DOMAIN s = 1..Len(s)
        /\ \A i, j \in DOMAIN s : i # j => s[i] # s[j]
    <3> HIDE DEF S
    <3> QED BY <1>1, <2>1, SortDistinct, LenProperties
  <2>3. u \in Seq(S) /\ Len(u) <= Len(s) /\ \A i \in 1..Len(u) : u[i] = s[i]
    <3> DEFINE cuts == {i \in 1..(Len(s)-1) : specializer_compare(s[i], s[i+1], args) = 0}
               at   == CHOOSE i \in cuts : \A j \in cuts : i <= j
    <3> HIDE DEF S
    <3>1. CASE cuts = {}
      BY <3>1, <2>2 DEF Unambiguous
    <3>2. CASE cuts # {}
      <4>1. cuts \subseteq 1..(Len(s)-1) /\ Len(s) \in Nat
        BY <2>2
      <4>2. at \in cuts
        <5> HIDE DEF cuts
        <5>1. cuts \subseteq Nat
          BY <4>1
        <5> QED BY <3>2, <5>1, LeastChosen
      <4>3. u = SubSeq(s, 1, at - 1)
        BY <3>2 DEF Unambiguous
      <4>4. at - 1 \in 0..Len(s)
        <5> HIDE DEF cuts, at
        <5> QED BY <4>1, <4>2
      <4> HIDE DEF at, u
      <4> QED BY <2>2, <4>3, <4>4, SubSeqProperties
    <3> QED BY <3>1, <3>2
  <2>4. \A i, j \in 1..Len(u) : i # j => u[i] # u[j]
    <3> HIDE DEF u, S
    <3>1. \A i \in 1..Len(u) : i \in 1..Len(s)
      BY <2>2, <2>3, LenProperties
    <3> QED BY <2>2, <2>3, <3>1
  <2> DEFINE at   == {i \in DOMAIN u : u[i] = m}
             pos  == CHOOSE i \in at : TRUE
             tail == IF at = {} THEN <<>> ELSE SubSeq(u, pos + 1, Len(u))
  <2>5. tail \in Seq(gfMethods[g])
    <3>1. CASE at = {}
      BY <3>1
    <3>2. CASE at # {}
      <4> DEFINE t == SubSeq(u, pos + 1, Len(u))
      <4> HIDE DEF u, S
      <4>1. pos \in 1..Len(u) /\ Len(u) \in Nat /\ u[pos] = m
        BY <2>3, <3>2, LenProperties
      <4>2. \A i \in 1..Len(u) : u[i] \in S
        BY <2>3, ElementOfSeq
      <4> HIDE DEF pos, at
      <4>3. /\ t \in Seq(S) /\ Len(t) = Len(u) - pos
            /\ \A i \in 1..Len(t) : t[i] = u[pos + i]
        <5>1. pos + 1 \in 1..(Len(u) + 1)
          BY <4>1
        <5> QED BY <2>3, <4>1, <5>1, SubSeqProperties
      <4>4. ASSUME NEW i \in 1..Len(t) PROVE t[i] \in gfMethods[g]
        <5>1. pos + i \in 1..Len(u) /\ pos + i # pos
          BY <4>1, <4>3
        <5>2. u[pos + i] # m
          BY <2>4, <4>1, <5>1
        <5> HIDE DEF t
        <5>3. t[i] \in S /\ t[i] # m
          BY <4>2, <4>3, <5>1, <5>2
        <5> QED BY <5>3 DEF S
      <4>5. t \in Seq(gfMethods[g])
        <5> HIDE DEF t
        <5> QED BY <4>3, <4>4, InSeq
      <4> QED BY <3>2, <4>5
    <3> QED BY <3>1, <3>2
  <2>6. After(u, m) \in {tail, Tail(tail)} /\ (After(u, m) # tail => tail # <<>>)
    <3> HIDE DEF u
    <3> QED BY DEF After
  <2> HIDE DEF tail
  <2> QED BY <2>1, <2>5, <2>6, HeadTailProperties
<1> QED BY <1>2, <1>3

\* A new entry is a sequence of cache elements, and its handles are those of exactly the
\* possible methods.
LEMMA NewEntriesType ==
  ASSUME gfMethods \in [GF -> SUBSET Method], methHandle \in [Method -> Method],
         NEW g \in GF, NEW args, NEW e \in NewEntries(g, args)
  PROVE  /\ e \in Seq(CacheElement)
         /\ {e[i].hdl : i \in DOMAIN e}
              = {methHandle[m] : m \in Possible(g, ClassVector(args))}
<1> DEFINE P == Possible(g, ClassVector(args))
<1>1. PICK s \in sort_methods(P, args) :
        e = [i \in DOMAIN s |-> [hdl    |-> methHandle[s[i]],
                                 starts |-> Grouped(s, args)[i].starts]]
  BY DEF NewEntries
<1>2. P \in SUBSET Method
  BY DEF Possible
<1>3. s \in Seq(Method) /\ {s[i] : i \in DOMAIN s} = P
  <2> HIDE DEF P
  <2> QED BY <1>1, <1>2, SortType
<1>4. \A i \in DOMAIN s : Grouped(s, args)[i].starts \in BOOLEAN
  BY DEF Grouped
<1>5. e \in [1..Len(s) -> CacheElement] /\ Len(s) \in Nat
  BY <1>1, <1>3, <1>4 DEF CacheElement
<1>6. e \in Seq(CacheElement)
  BY <1>5, SeqDef
<1>7. {e[i].hdl : i \in DOMAIN e} = {methHandle[s[i]] : i \in DOMAIN s}
  BY <1>1
<1>8. {methHandle[s[i]] : i \in DOMAIN s} = {methHandle[m] : m \in P}
  <2> HIDE DEF P
  <2> QED BY <1>3
<1> QED BY <1>6, <1>7, <1>8

\* A call takes the place of the innermost activation or goes on top: either way what it
\* stands on is a prefix of the stack.
LEMMA BasesType ==
  ASSUME TypeOK, NEW base \in Bases
  PROVE  /\ base \in Seq(Activation) /\ Len(base) <= Len(stack)
         /\ \A i \in 1..Len(base) : base[i] = stack[i]
<1>1. stack \in Seq(Activation) /\ Len(stack) \in Nat
  BY DEF TypeOK
<1>2. CASE base = stack
  BY <1>1, <1>2
<1>3. CASE base # stack
  <2>1. stack # <<>> /\ base = SubSeq(stack, 1, Len(stack) - 1)
    BY <1>3 DEF Bases
  <2>2. Len(stack) \in Nat \ {0}
    BY <1>1, <2>1
  <2> QED BY <1>1, <2>1, <2>2, SubSeqProperties
<1> QED BY <1>2, <1>3

\* What apply_method does to the next-method list and the stack.
LEMMA ApplyMethodStep ==
  ASSUME TypeOK, Len(stack) < MaxDepth,
         NEW base \in Bases, NEW g \in GF, NEW m \in Method, NEW args \in Args,
         NEW rest \in Seq(Method), NEW valid \in BOOLEAN,
         apply_method(base, g, m, args, rest, valid)
  PROVE  /\ nms' \in Seq(NextMethod) /\ Len(nms') <= MaxNM /\ Len(nms) <= Len(nms')
         /\ activeNM' \in [GF -> SUBSET (1..MaxNM)]
         /\ \A h \in GF : activeNM[h] \subseteq activeNM'[h]
         /\ \/ stack' = <<>>
            \/ \E a \in Activation :
                 /\ stack' = Append(base, a)
                 /\ a.gf = g
                 /\ a.nm # 0 => /\ a.nm = Len(nms) + 1 /\ Len(nms') = Len(nms) + 1
                                /\ a.nm \in activeNM'[g]
<1>1. PICK chain \in (IF valid THEN {rest} ELSE recalc_next_methods(g, m, args)) :
        /\ PushNextMethod(g, chain, args)
        /\ stack' = IF applicable_method_p(m, args)
                    THEN Append(base, [gf |-> g, meth |-> m, args |-> args, tail |-> FALSE,
                                       nm |-> IF chain = <<>> THEN 0 ELSE Len(nms) + 1])
                    ELSE <<>>
  BY DEF apply_method
<1>2. chain \in Seq(Method)
  <2>1. gfMethods \in [GF -> SUBSET Method] /\ gfMethods[g] \subseteq Method
    BY DEF TypeOK
  <2> QED BY <1>1, <2>1, RecalcType, SeqMonotonic
<1>3. /\ nms \in Seq(NextMethod) /\ Len(nms) \in Nat /\ Len(nms) <= MaxNM /\ MaxNM \in Nat
      /\ activeNM \in [GF -> SUBSET (1..MaxNM)]
  BY BoundsAssumption DEF TypeOK
<1> DEFINE nm == IF chain = <<>> THEN 0 ELSE Len(nms) + 1
           a  == [gf |-> g, meth |-> m, args |-> args, tail |-> FALSE, nm |-> nm]
<1>4. CASE chain = <<>>
  <2>1. nms' = nms /\ activeNM' = activeNM
    BY <1>1, <1>4 DEF PushNextMethod
  <2>2. a \in Activation /\ a.gf = g /\ a.nm = 0
    BY <1>3, <1>4 DEF Activation
  <2>3. stack' = <<>> \/ stack' = Append(base, a)
    BY <1>1
  <2> HIDE DEF a
  <2> QED BY <1>3, <2>1, <2>2, <2>3
<1>5. CASE chain # <<>>
  <2> DEFINE o == [gf |-> g, meth |-> Head(chain), rest |-> Tail(chain),
                   valid |-> TRUE, args |-> args]
  <2>1. /\ Len(nms) < MaxNM
        /\ nms' = Append(nms, o)
        /\ activeNM' = [activeNM EXCEPT ![g] = @ \cup {Len(nms) + 1}]
    BY <1>1, <1>5 DEF PushNextMethod
  <2>2. o \in NextMethod
    <3>1. Head(chain) \in Method /\ Tail(chain) \in Seq(Method)
      BY <1>2, <1>5, HeadTailProperties
    <3> QED BY <3>1 DEF NextMethod
  <2>3. nms' \in Seq(NextMethod) /\ Len(nms') = Len(nms) + 1
    <3> HIDE DEF o
    <3> QED BY <1>3, <2>1, <2>2, AppendProperties
  <2>4. a \in Activation /\ a.gf = g /\ a.nm = Len(nms) + 1
    BY <1>3, <1>5, <2>1 DEF Activation
  <2>5. stack' = <<>> \/ stack' = Append(base, a)
    BY <1>1
  <2>6. /\ activeNM' \in [GF -> SUBSET (1..MaxNM)]
        /\ \A h \in GF : activeNM[h] \subseteq activeNM'[h]
        /\ Len(nms) + 1 \in activeNM'[g]
    <3> HIDE DEF o, a
    <3> QED BY <1>3, <2>1
  <2> HIDE DEF a, o
  <2> QED BY <1>3, <2>1, <2>3, <2>4, <2>5, <2>6
<1> QED BY <1>4, <1>5

-----------------------------------------------------------------------------
(* The invariant of the next-method list.  LiveListed is not inductive by itself: a     *)
(* return takes the newest object off the list, and only the order of the stack says    *)
(* that this is none of an outer activation.                                            *)

NMOrdered ==
  \A i, j \in 1..Len(stack) :
    i < j /\ stack[i].nm # 0 /\ stack[j].nm # 0 => stack[i].nm < stack[j].nm

NMKnown == \A i \in 1..Len(stack) : stack[i].nm <= Len(nms)

Listed(s, list) == \A i \in 1..Len(s) : s[i].nm # 0 => s[i].nm \in list[s[i].gf]

ListInv == TypeOK /\ Listed(stack, activeNM) /\ NMOrdered /\ NMKnown

-----------------------------------------------------------------------------
(* Type correctness. *)

\* What any call does: the part of the two calling actions that both invariants need.
CallEffect ==
  /\ Len(stack) < MaxDepth
  /\ UNCHANGED defVars
  /\ gfCache' \in [GF -> [Key -> Seq(CacheElement)]]
  /\ nms' \in Seq(NextMethod) /\ Len(nms') <= MaxNM /\ Len(nms) <= Len(nms')
  /\ activeNM' \in [GF -> SUBSET (1..MaxNM)]
  /\ \A h \in GF : activeNM[h] \subseteq activeNM'[h]
  /\ \/ stack' = <<>>
     \/ \E base \in Bases, a \in Activation :
          /\ stack' = Append(base, a)
          /\ a.nm # 0 => /\ a.nm = Len(nms) + 1 /\ Len(nms') = Len(nms) + 1
                         /\ a.nm \in activeNM'[a.gf]

LEMMA ApplyNextMethodEffect ==
  ASSUME TypeOK, NEW n \in DOMAIN nms, NEW args \in Args, ApplyNextMethod(n, args)
  PROVE  CallEffect
<1>1. nms[n] \in NextMethod
  BY ElementOfSeq, LenProperties DEF TypeOK
<1>2. PICK base \in Bases :
        apply_method(base, nms[n].gf, nms[n].meth, args, nms[n].rest, nms[n].valid)
  BY DEF ApplyNextMethod
<1>3. Len(stack) < MaxDepth /\ UNCHANGED gfCache /\ UNCHANGED defVars
  BY DEF ApplyNextMethod
<1>4. /\ nms[n].gf \in GF /\ nms[n].meth \in Method
      /\ nms[n].rest \in Seq(Method) /\ nms[n].valid \in BOOLEAN
  BY <1>1 DEF NextMethod
<1>5. gfCache' \in [GF -> [Key -> Seq(CacheElement)]]
  BY <1>3 DEF TypeOK
<1> QED BY <1>2, <1>3, <1>4, <1>5, ApplyMethodStep DEF CallEffect

LEMMA ApplyGenericEffect ==
  ASSUME TypeOK, NEW g \in GF, NEW args \in Args, ApplyGeneric(g, args)
  PROVE  CallEffect
<1> DEFINE key == ClassVector(args)
<1>1. Len(stack) < MaxDepth /\ UNCHANGED defVars
  BY DEF ApplyGeneric
<1>2. PICK e \in (IF gfCache[g][key] # NoEntry THEN {gfCache[g][key]} ELSE NewEntries(g, args)) :
        /\ gfCache' = [gfCache EXCEPT ![g][key] = e]
        /\ \/ \E c \in Candidates(e, args), base \in Bases :
                /\ Candidates(e, args) = {c}
                /\ apply_method(base, g, MethodAt(e, c), args, RestMethods(e, c), TRUE)
           \/ Cardinality(Candidates(e, args)) # 1 /\ ErrorExit
  BY DEF ApplyGeneric
<1>3. key \in Key
  BY DEF Key
<1>4. e \in Seq(CacheElement)
  <2>1. gfCache[g][key] \in Seq(CacheElement)
    BY <1>3 DEF TypeOK
  <2>2. e \in NewEntries(g, args) => e \in Seq(CacheElement)
    BY NewEntriesType DEF TypeOK
  <2> QED BY <1>2, <2>1, <2>2
<1>5. gfCache' \in [GF -> [Key -> Seq(CacheElement)]]
  BY <1>2, <1>3, <1>4 DEF TypeOK
<1>6. CASE \E c \in Candidates(e, args), base \in Bases :
             apply_method(base, g, MethodAt(e, c), args, RestMethods(e, c), TRUE)
  <2>1. PICK c \in Candidates(e, args), base \in Bases :
          apply_method(base, g, MethodAt(e, c), args, RestMethods(e, c), TRUE)
    BY <1>6
  <2>2. c \in DOMAIN e
    BY DEF Candidates, ApplicableAt
  <2>3. hdlObj \in [Method -> Method]
    BY DEF TypeOK
  <2>4. \A i \in DOMAIN e : MethodAt(e, i) \in Method
    <3>1. \A i \in DOMAIN e : e[i] \in CacheElement
      BY <1>4, ElementOfSeq, LenProperties
    <3> QED BY <2>3, <3>1 DEF MethodAt, CacheElement
  <2>5. RestMethods(e, c) \in Seq(Method)
    BY <1>4, <2>2, <2>4, RestMethodsType
  <2>6. /\ nms' \in Seq(NextMethod) /\ Len(nms') <= MaxNM /\ Len(nms) <= Len(nms')
        /\ activeNM' \in [GF -> SUBSET (1..MaxNM)]
        /\ \A h \in GF : activeNM[h] \subseteq activeNM'[h]
        /\ \/ stack' = <<>>
           \/ \E a \in Activation :
                /\ stack' = Append(base, a)
                /\ a.gf = g
                /\ a.nm # 0 => /\ a.nm = Len(nms) + 1 /\ Len(nms') = Len(nms) + 1
                               /\ a.nm \in activeNM'[g]
    <3> DEFINE m == MethodAt(e, c)
               rest == RestMethods(e, c)
               valid == TRUE
    <3>1. apply_method(base, g, m, args, rest, valid) /\ valid \in BOOLEAN
      BY <2>1
    <3>2. m \in Method /\ rest \in Seq(Method)
      BY <2>2, <2>4, <2>5
    <3> HIDE DEF m, rest, valid
    <3> QED BY <1>1, <3>1, <3>2, ApplyMethodStep
  <2> QED BY <1>1, <1>5, <2>6 DEF CallEffect
<1>7. CASE ErrorExit
  BY <1>1, <1>5, <1>7 DEF ErrorExit, CallEffect, TypeOK
<1> QED BY <1>2, <1>6, <1>7

LEMMA InvalidatedType ==
  ASSUME nms \in Seq(NextMethod), NEW list
  PROVE  Invalidated(list) \in Seq(NextMethod) /\ Len(Invalidated(list)) = Len(nms)
<1>1. DOMAIN nms = 1..Len(nms) /\ Len(nms) \in Nat /\ \A n \in 1..Len(nms) : nms[n] \in NextMethod
  BY LenProperties, ElementOfSeq
<1>2. \A n \in 1..Len(nms) : [nms[n] EXCEPT !.rest = <<>>, !.valid = FALSE] \in NextMethod
  <2> TAKE n \in 1..Len(nms)
  <2>1. nms[n] \in NextMethod
    BY <1>1
  <2>2. <<>> \in Seq(Method)
    OBVIOUS
  <2> QED BY <2>1, <2>2 DEF NextMethod
<1>3. Invalidated(list) \in [1..Len(nms) -> NextMethod]
  BY <1>1, <1>2 DEF Invalidated
<1>4. Invalidated(list) \in Seq(NextMethod)
  BY <1>1, <1>3, SeqDef
<1> QED BY <1>1, <1>3, <1>4

LEMMA AddMethodType ==
  ASSUME TypeOK, NEW g \in GF, NEW m \in Method, add_method(g, m), born' \subseteq Method
  PROVE  TypeOK'
<1>1. nms' \in Seq(NextMethod) /\ Len(nms') <= MaxNM /\ activeNM' = activeNM
  BY InvalidatedType DEF add_method, TypeOK
<1>2. CASE Fits(g, m) /\ \E old \in Replaced(g, m) : ReplaceMethod(g, m, old) /\ stack' = stack
  <2>1. PICK old \in Replaced(g, m) : ReplaceMethod(g, m, old) /\ stack' = stack
    BY <1>2
  <2>2. old \in Method
    BY DEF Replaced, TypeOK
  <2> QED BY <1>1, <2>1, <2>2 DEF ReplaceMethod, TypeOK
<1>3. CASE InsertMethod(g, m) /\ stack' = stack
  <2>1. NoEntry \in Seq(CacheElement)
    BY DEF NoEntry
  <2> QED BY <1>1, <1>3, <2>1 DEF InsertMethod, TypeOK
<1>4. CASE stack' = <<>> /\ UNCHANGED <<gfMethods, gfCache, methHandle, hdlObj>>
  BY <1>1, <1>4, BoundsAssumption DEF TypeOK
<1> QED BY <1>2, <1>3, <1>4 DEF add_method

LEMMA CallType ==
  ASSUME TypeOK, CallEffect
  PROVE  TypeOK'
<1>1. stack' \in Seq(Activation) /\ Len(stack') <= MaxDepth
  <2>1. CASE stack' = <<>>
    BY <2>1, BoundsAssumption
  <2>2. CASE stack' # <<>>
    <3>1. PICK base \in Bases, a \in Activation : stack' = Append(base, a)
      BY <2>2 DEF CallEffect
    <3>2. base \in Seq(Activation) /\ Len(base) <= Len(stack)
      BY BasesType
    <3>3. Len(stack) < MaxDepth /\ Len(stack) \in Nat /\ Len(base) \in Nat
      BY <3>2 DEF CallEffect, TypeOK
    <3>4. stack' \in Seq(Activation) /\ Len(stack') = Len(base) + 1
      BY <3>1, <3>2, AppendProperties
    <3> QED BY <3>2, <3>3, <3>4, BoundsAssumption
  <2> QED BY <2>1, <2>2
<1> QED BY <1>1 DEF CallEffect, TypeOK, defVars

\* A step that leaves a prefix of the stack.
LEMMA PrefixType ==
  ASSUME TypeOK, NEW k \in 0..Len(stack), stack' = SubSeq(stack, 1, k)
  PROVE  /\ stack' \in Seq(Activation) /\ Len(stack') = k
         /\ \A i \in 1..k : stack'[i] = stack[i]
<1>1. stack \in Seq(Activation) /\ Len(stack) \in Nat
  BY DEF TypeOK
<1> QED BY <1>1, SubSeqProperties

\* The object of an activation in progress has been made.
LEMMA LiveKnown ==
  ASSUME TypeOK, NMKnown
  PROVE  LiveNM \subseteq DOMAIN nms
<1> SUFFICES ASSUME NEW i \in DOMAIN stack, stack[i].nm # 0
             PROVE  stack[i].nm \in DOMAIN nms
  BY DEF LiveNM
<1>1. /\ stack \in Seq(Activation) /\ nms \in Seq(NextMethod) /\ Len(nms) \in Nat
      /\ DOMAIN stack = 1..Len(stack) /\ DOMAIN nms = 1..Len(nms)
  BY DEF TypeOK
<1>2. stack[i].nm \in 0..MaxNM
  <2>1. stack[i] \in Activation
    BY <1>1
  <2> QED BY <2>1 DEF Activation
<1>3. stack[i].nm <= Len(nms)
  BY <1>1 DEF NMKnown
<1> QED BY <1>1, <1>2, <1>3, BoundsAssumption

LEMMA TypeStep == TypeOK /\ NMKnown /\ [Next]_vars => TypeOK'
<1> SUFFICES ASSUME TypeOK, NMKnown, [Next]_vars PROVE TypeOK'
  OBVIOUS
<1>1. ASSUME NEW g \in GF, NEW m \in Method, DefineMethod(g, m) PROVE TypeOK'
  <2>1. born' \subseteq Method
    BY <1>1 DEF DefineMethod, TypeOK
  <2> QED BY <1>1, <2>1, AddMethodType DEF DefineMethod
<1>2. ASSUME NEW m \in Method, MakeMethod(m) PROVE TypeOK'
  BY <1>2 DEF MakeMethod, TypeOK
<1>3. ASSUME NEW g \in GF, NEW m \in Method, AddMethod(g, m) PROVE TypeOK'
  <2>1. born' \subseteq Method
    BY <1>3 DEF AddMethod, TypeOK
  <2> QED BY <1>3, <2>1, AddMethodType DEF AddMethod
<1>4. ASSUME NEW g \in GF, NEW m \in Method, RemoveMethod(g, m) PROVE TypeOK'
  BY <1>4 DEF RemoveMethod, TypeOK
<1>5. ASSUME NEW g \in GF, NEW args \in Args, ApplyGeneric(g, args) PROVE TypeOK'
  BY <1>5, ApplyGenericEffect, CallType
<1>6. ASSUME NEW n \in DOMAIN nms, NEW args \in Args, ApplyNextMethod(n, args) PROVE TypeOK'
  BY <1>6, ApplyNextMethodEffect, CallType
<1>7. CASE Return
  <2>1. Len(stack) - 1 \in 0..Len(stack) /\ stack' = SubSeq(stack, 1, Len(stack) - 1)
    BY <1>7 DEF Return, TypeOK
  <2>2. stack' \in Seq(Activation) /\ Len(stack') <= MaxDepth
    BY <2>1, PrefixType, BoundsAssumption DEF TypeOK
  <2>3. activeNM' \in [GF -> SUBSET (1..MaxNM)]
    BY <1>7 DEF Return, TypeOK
  <2> QED BY <1>7, <2>2, <2>3 DEF Return, TypeOK, defVars
<1>8. CASE TailEval
  <2>1. stack \in Seq(Activation) /\ stack # <<>> /\ Len(stack) \in 1..Len(stack)
    BY <1>8 DEF TailEval, TypeOK
  <2>2. stack' = [stack EXCEPT ![Len(stack)] = [stack[Len(stack)] EXCEPT !.tail = TRUE]]
    BY <1>8 DEF TailEval
  <2>3. stack[Len(stack)] \in Activation
    BY <2>1
  <2>4. [stack[Len(stack)] EXCEPT !.tail = TRUE] \in Activation
    BY <2>3 DEF Activation
  <2>5. stack' \in Seq(Activation) /\ Len(stack') = Len(stack)
    BY <2>1, <2>2, <2>4, ExceptSeq
  <2> QED BY <1>8, <2>5 DEF TailEval, TypeOK, defVars
<1>9. CASE TailDone
  <2>1. Len(stack) - 1 \in 0..Len(stack) /\ stack' = SubSeq(stack, 1, Len(stack) - 1)
    BY <1>9 DEF TailDone, TypeOK
  <2>2. stack' \in Seq(Activation) /\ Len(stack') <= MaxDepth
    BY <2>1, PrefixType, BoundsAssumption DEF TypeOK
  <2> QED BY <1>9, <2>2 DEF TailDone, TypeOK, defVars
<1>10. CASE Unwind
  <2>1. PICK k \in 0..(Len(stack) - 1) : stack' = SubSeq(stack, 1, k)
    BY <1>10 DEF Unwind
  <2>2. k \in 0..Len(stack) /\ k <= Len(stack)
    BY DEF TypeOK
  <2>3. stack' \in Seq(Activation) /\ Len(stack') <= MaxDepth
    BY <2>1, <2>2, PrefixType, BoundsAssumption DEF TypeOK
  <2> QED BY <1>10, <2>3 DEF Unwind, TypeOK, defVars
<1>11. CASE UNCHANGED vars
  BY <1>11 DEF vars, TypeOK
<1>12. LiveNM \subseteq DOMAIN nms
  BY LiveKnown
<1> QED BY <1>1, <1>2, <1>3, <1>4, <1>5, <1>6, <1>7, <1>8, <1>9, <1>10, <1>11,
           <1>12 DEF Next, NextDefine, Calls

-----------------------------------------------------------------------------
(* The next-method list. *)

\* Activations keep their objects listed while the list grows and the stack is cut.
LEMMA ListedPrefix ==
  ASSUME ListInv, TypeOK', NEW k \in 0..Len(stack), stack' = SubSeq(stack, 1, k),
         nms' = nms, activeNM' = activeNM
  PROVE  ListInv'
<1>1. Len(stack) \in Nat /\ k <= Len(stack)
  BY DEF ListInv, TypeOK
<1>2. Len(stack') = k /\ \A i \in 1..k : stack'[i] = stack[i]
  BY PrefixType DEF ListInv
<1>3. \A i \in 1..k : i \in 1..Len(stack)
  BY <1>1
<1> QED BY <1>1, <1>2, <1>3 DEF ListInv, Listed, NMOrdered, NMKnown

LEMMA CallListed ==
  ASSUME ListInv, TypeOK', CallEffect
  PROVE  ListInv'
<1>1. TypeOK /\ Listed(stack, activeNM) /\ NMOrdered /\ NMKnown
  BY DEF ListInv
<1>2. CASE stack' = <<>>
  BY <1>2 DEF ListInv, Listed, NMOrdered, NMKnown
<1>3. CASE stack' # <<>>
  <2>1. PICK base \in Bases, a \in Activation :
          /\ stack' = Append(base, a)
          /\ a.nm # 0 => /\ a.nm = Len(nms) + 1 /\ Len(nms') = Len(nms) + 1
                         /\ a.nm \in activeNM'[a.gf]
    BY <1>3 DEF CallEffect
  <2>2. /\ base \in Seq(Activation) /\ Len(base) <= Len(stack)
        /\ \A i \in 1..Len(base) : base[i] = stack[i]
    BY <1>1, BasesType
  <2>3. /\ Len(base) \in Nat /\ Len(stack) \in Nat /\ Len(nms) \in Nat /\ Len(nms') \in Nat
        /\ Len(nms) <= Len(nms')
        /\ \A i \in 1..Len(base) : i \in 1..Len(stack)
    BY <1>1, <2>2 DEF TypeOK, CallEffect
  <2>4. /\ Len(stack') = Len(base) + 1
        /\ \A i \in 1..Len(base) : stack'[i] = stack[i]
        /\ stack'[Len(base) + 1] = a
    BY <2>1, <2>2, AppendProperties
  <2>5. \A i \in 1..Len(base) : stack[i].gf \in GF /\ stack[i].nm \in Nat
    <3>1. \A i \in 1..Len(stack) : stack[i] \in Activation
      BY <1>1 DEF TypeOK
    <3> QED BY <2>3, <3>1, BoundsAssumption DEF Activation
  <2>6. Listed(stack', activeNM')
    <3> SUFFICES ASSUME NEW i \in 1..(Len(base) + 1), stack'[i].nm # 0
                 PROVE  stack'[i].nm \in activeNM'[stack'[i].gf]
      BY <2>4 DEF Listed
    <3>1. CASE i \in 1..Len(base)
      <4>1. stack[i].nm \in activeNM[stack[i].gf]
        BY <1>1, <2>3, <2>4, <3>1 DEF Listed
      <4>2. activeNM[stack[i].gf] \subseteq activeNM'[stack[i].gf]
        BY <2>5, <3>1 DEF CallEffect
      <4> QED BY <2>4, <3>1, <4>1, <4>2
    <3>2. CASE i = Len(base) + 1
      BY <2>1, <2>4, <3>2
    <3> QED BY <2>3, <3>1, <3>2
  <2>7. NMKnown'
    <3> SUFFICES ASSUME NEW i \in 1..(Len(base) + 1)
                 PROVE  stack'[i].nm <= Len(nms')
      BY <2>4 DEF NMKnown
    <3>1. CASE i \in 1..Len(base)
      <4>1. stack[i].nm <= Len(nms)
        BY <1>1, <2>3, <3>1 DEF NMKnown
      <4> QED BY <2>3, <2>4, <2>5, <3>1, <4>1
    <3>2. CASE i = Len(base) + 1
      BY <2>1, <2>3, <2>4, <3>2
    <3> QED BY <2>3, <3>1, <3>2
  <2>8. NMOrdered'
    <3> SUFFICES ASSUME NEW i \in 1..(Len(base) + 1), NEW j \in 1..(Len(base) + 1), i < j,
                        stack'[i].nm # 0, stack'[j].nm # 0
                 PROVE  stack'[i].nm < stack'[j].nm
      BY <2>4 DEF NMOrdered
    <3>1. i \in 1..Len(base)
      BY <2>3
    <3>2. CASE j \in 1..Len(base)
      BY <1>1, <2>3, <2>4, <3>1, <3>2 DEF NMOrdered
    <3>3. CASE j = Len(base) + 1
      <4>1. stack[i].nm <= Len(nms)
        BY <1>1, <2>3, <3>1 DEF NMKnown
      <4>2. stack'[j].nm = Len(nms) + 1
        BY <2>1, <2>4, <3>3
      <4> QED BY <2>3, <2>4, <2>5, <3>1, <4>1, <4>2
    <3> QED BY <2>3, <3>2, <3>3
  <2> QED BY <2>6, <2>7, <2>8 DEF ListInv
<1> QED BY <1>2, <1>3

LEMMA ListStep == ListInv /\ [Next]_vars => ListInv'
<1> SUFFICES ASSUME ListInv, [Next]_vars PROVE ListInv'
  OBVIOUS
<1>1. TypeOK /\ Listed(stack, activeNM) /\ NMOrdered /\ NMKnown
  BY DEF ListInv
<1>2. TypeOK'
  BY <1>1, TypeStep
<1>3. LiveNM \subseteq DOMAIN nms
  BY <1>1, LiveKnown
<1>4. Len(stack) \in Nat /\ Len(nms) \in Nat
  BY <1>1 DEF TypeOK
<1>5. ASSUME NEW g \in GF, NEW m \in Method, add_method(g, m) PROVE ListInv'
  <2>1. Len(nms') = Len(nms) /\ activeNM' = activeNM
    BY <1>1, <1>5, InvalidatedType DEF add_method, TypeOK
  <2>2. stack' = stack \/ stack' = <<>>
    BY <1>5 DEF add_method
  <2> QED BY <1>1, <1>2, <2>1, <2>2 DEF ListInv, Listed, NMOrdered, NMKnown
<1>6. ASSUME UNCHANGED <<nms, activeNM, stack>> PROVE ListInv'
  BY <1>1, <1>2, <1>6 DEF ListInv, Listed, NMOrdered, NMKnown
<1>7. ASSUME NEW g \in GF, NEW args \in Args, ApplyGeneric(g, args) PROVE ListInv'
  BY <1>1, <1>2, <1>7, ApplyGenericEffect, CallListed
<1>8. ASSUME NEW n \in DOMAIN nms, NEW args \in Args, ApplyNextMethod(n, args) PROVE ListInv'
  BY <1>1, <1>2, <1>8, ApplyNextMethodEffect, CallListed
<1>9. CASE Return
  <2> DEFINE k == Len(stack) - 1
             top == stack[Len(stack)]
  <2>1. /\ k \in 0..Len(stack) /\ Len(stack) \in 1..Len(stack) /\ k < Len(stack)
        /\ stack' = SubSeq(stack, 1, k) /\ nms' = nms
        /\ activeNM' = [activeNM EXCEPT ![top.gf] =
              IF top.nm = 0 THEN @ ELSE {n \in @ : \E p \in @ : n < p}]
    BY <1>4, <1>9 DEF Return
  <2>2. Len(stack') = k /\ \A i \in 1..k : stack'[i] = stack[i]
    BY <1>1, <2>1, PrefixType
  <2>3. \A i \in 1..Len(stack) : stack[i].gf \in GF /\ stack[i].nm \in Nat
    <3>1. \A i \in 1..Len(stack) : stack[i] \in Activation
      BY <1>1 DEF TypeOK
    <3> QED BY <3>1, BoundsAssumption DEF Activation
  <2>4. Listed(stack', activeNM')
    <3> SUFFICES ASSUME NEW i \in 1..k, stack[i].nm # 0
                 PROVE  stack[i].nm \in activeNM'[stack[i].gf]
      BY <2>2 DEF Listed
    <3>1. i \in 1..Len(stack) /\ i < Len(stack) /\ stack[i].gf \in GF
      BY <1>4, <2>3
    <3>2. stack[i].nm \in activeNM[stack[i].gf]
      BY <1>1, <3>1 DEF Listed
    <3>3. CASE stack[i].gf # top.gf \/ top.nm = 0
      BY <1>1, <2>1, <3>1, <3>2, <3>3 DEF TypeOK
    <3>4. CASE stack[i].gf = top.gf /\ top.nm # 0
      <4>1. top.nm \in activeNM[top.gf]
        BY <1>1, <2>1, <3>4 DEF Listed
      <4>2. stack[i].nm < top.nm
        BY <1>1, <2>1, <3>1, <3>4 DEF NMOrdered
      <4>3. activeNM'[top.gf] = {n \in activeNM[top.gf] : \E p \in activeNM[top.gf] : n < p}
        <5> HIDE DEF top
        <5> QED BY <1>1, <2>1, <3>1, <3>4 DEF TypeOK
      <4> HIDE DEF top
      <4> QED BY <3>2, <3>4, <4>1, <4>2, <4>3
    <3> QED BY <3>3, <3>4
  <2>5. NMOrdered' /\ NMKnown'
    <3>1. \A i \in 1..k : i \in 1..Len(stack)
      BY <1>4
    <3> QED BY <1>1, <2>1, <2>2, <3>1 DEF NMOrdered, NMKnown
  <2> QED BY <1>2, <2>4, <2>5 DEF ListInv
<1>10. CASE TailEval
  <2>1. /\ Len(stack) \in 1..Len(stack)
        /\ \A i \in 1..Len(stack) : stack[i] \in Activation
    BY <1>1, <1>10 DEF TailEval, TypeOK
  <2>2. /\ nms' = nms /\ activeNM' = activeNM /\ Len(stack') = Len(stack)
        /\ \A i \in 1..Len(stack) : /\ stack'[i].nm = stack[i].nm
                                    /\ stack'[i].gf = stack[i].gf
    BY <1>1, <1>10, <2>1 DEF TailEval, Activation, TypeOK
  <2> QED BY <1>1, <1>2, <2>2 DEF ListInv, Listed, NMOrdered, NMKnown
<1>11. CASE TailDone
  <2>1. Len(stack) - 1 \in 0..Len(stack) /\ stack' = SubSeq(stack, 1, Len(stack) - 1)
    BY <1>4, <1>11 DEF TailDone
  <2> QED BY <1>2, <1>11, <2>1, ListedPrefix DEF TailDone
<1>12. CASE Unwind
  <2>1. PICK k \in 0..(Len(stack) - 1) : stack' = SubSeq(stack, 1, k)
    BY <1>12 DEF Unwind
  <2>2. k \in 0..Len(stack)
    BY <1>4
  <2> QED BY <1>2, <1>12, <2>1, <2>2, ListedPrefix DEF Unwind
<1>13. CASE UNCHANGED vars
  BY <1>6, <1>13 DEF vars
<1> QED BY <1>3, <1>5, <1>6, <1>7, <1>8, <1>9, <1>10, <1>11, <1>12, <1>13
        DEF Next, NextDefine, Calls, DefineMethod, MakeMethod, AddMethod, RemoveMethod

LEMMA ListInit == Init => ListInv
<1> SUFFICES ASSUME Init PROVE ListInv
  OBVIOUS
<1>1. TypeOK
  BY BoundsAssumption DEF Init, TypeOK, NoEntry
<1> QED BY <1>1 DEF Init, ListInv, Listed, NMOrdered, NMKnown

\* The state has its type, for any program: methods defined, made, added and removed, and
\* next-methods kept in closures.
THEOREM TypeCorrect == Spec => []TypeOK
<1>1. ListInv => TypeOK
  BY DEF ListInv
<1> QED BY <1>1, ListInit, ListStep, PTL DEF Spec

\* However many pops of the next-method list the tail calls, exits and errors of a callee
\* have skipped (apply.c:369), every activation that pushed an object finds it on the list of
\* its generic function: a later add_method invalidates it.
THEOREM NextMethodsStayListed == Spec => []LiveListed
<1>1. ListInv => LiveListed
  BY DEF ListInv, Listed, LiveListed, TypeOK
<1> QED BY <1>1, ListInit, ListStep, PTL DEF Spec

-----------------------------------------------------------------------------
(* The method cache, for programs that define methods.  CacheCoherent speaks of the     *)
(* methods the handles lead to, and is kept only because no two listed methods share a  *)
(* handle and a method is listed by one generic function.                               *)

Handles(e) == {e[i].hdl : i \in DOMAIN e}

ListedBorn == \A g \in GF : gfMethods[g] \subseteq born

Apart == \A g, h \in GF : g # h => gfMethods[g] \cap gfMethods[h] = {}

HandleLeadsBack == \A g \in GF : \A m \in gfMethods[g] : hdlObj[methHandle[m]] = m

FreshHandles ==
  \A m \in Method \ born :
    methHandle[m] = m /\ hdlObj[m] = m /\ \A p \in born : methHandle[p] # m

CacheHandles ==
  \A g \in GF, k \in Key :
    gfCache[g][k] # NoEntry =>
      Handles(gfCache[g][k]) = {methHandle[m] : m \in Possible(g, k)}

CacheInv == /\ ListInv /\ ListedBorn /\ Apart
            /\ HandleLeadsBack /\ FreshHandles /\ CacheHandles

\* A method is possible for the same classes as one with the same specializers.
LEMMA SamePossible ==
  ASSUME NEW m, NEW p, same_specializers(m, p), NEW k
  PROVE  possible_method(m, k) <=> possible_method(p, k)
<1>1. ASSUME NEW i \in ArgPos
      PROVE  BelowBroadClass(k[i], Specs[m][i]) <=> BelowBroadClass(k[i], Specs[p][i])
  <2>1. CASE Specs[m][i] = Specs[p][i]
    BY <2>1
  <2>2. CASE /\ Specs[m][i].kind = "singleton" /\ Specs[p][i].kind = "singleton"
             /\ Specs[m][i].val = Specs[p][i].val
    <3>1. SimpleBroad(Specs[m][i]) = SimpleBroad(Specs[p][i])
      BY <2>2 DEF SimpleBroad
    <3> QED BY <2>2, <3>1 DEF BelowBroadClass
  <2> QED BY <2>1, <2>2 DEF same_specializers
<1> QED BY <1>1 DEF possible_method

\* The calls leave the methods alone and fill the cache with what is there.
LEMMA CallCache ==
  ASSUME CacheInv, ListInv', UNCHANGED defVars,
         \/ UNCHANGED gfCache
         \/ \E g \in GF, args \in Args : ApplyGeneric(g, args)
  PROVE  CacheInv'
<1>1. TypeOK
  BY DEF CacheInv, ListInv
<1>2. ListedBorn' /\ Apart' /\ HandleLeadsBack' /\ FreshHandles'
  BY DEF CacheInv, ListedBorn, Apart, HandleLeadsBack, FreshHandles, defVars
<1>3. CASE UNCHANGED gfCache
  <2>1. \A h \in GF, k \in Key : Possible(h, k)' = Possible(h, k)
    BY DEF Possible, defVars
  <2>2. CacheHandles /\ UNCHANGED methHandle
    BY DEF CacheInv, defVars
  <2>3. CacheHandles'
    BY <1>3, <2>1, <2>2 DEF CacheHandles
  <2> QED BY <1>2, <2>3 DEF CacheInv
<1>4. CASE \E g \in GF, args \in Args : ApplyGeneric(g, args)
  <2>1. PICK g \in GF, args \in Args : ApplyGeneric(g, args)
    BY <1>4
  <2> DEFINE key == ClassVector(args)
  <2>2. key \in Key
    BY DEF Key
  <2>3. PICK e \in (IF gfCache[g][key] # NoEntry THEN {gfCache[g][key]}
                    ELSE NewEntries(g, args)) :
          gfCache' = [gfCache EXCEPT ![g][key] = e]
    BY <2>1 DEF ApplyGeneric
  <2>4. Handles(e) = {methHandle[m] : m \in Possible(g, key)}
    <3>1. CASE gfCache[g][key] # NoEntry
      BY <2>2, <2>3, <3>1 DEF CacheInv, CacheHandles
    <3>2. CASE gfCache[g][key] = NoEntry
      <4>1. e \in NewEntries(g, args)
        BY <2>3, <3>2
      <4> QED BY <1>1, <4>1, NewEntriesType DEF Handles, TypeOK
    <3> QED BY <3>1, <3>2
  <2>5. \A h \in GF, k \in Key :
          gfCache'[h][k] = IF h = g /\ k = key THEN e ELSE gfCache[h][k]
    BY <1>1, <2>2, <2>3 DEF TypeOK
  <2>6. CacheHandles'
    <3> HIDE DEF key
    <3> SUFFICES ASSUME NEW h \in GF, NEW k \in Key, gfCache'[h][k] # NoEntry
                 PROVE  Handles(gfCache'[h][k]) = {methHandle[m] : m \in Possible(h, k)}
      BY DEF CacheHandles, Possible, defVars
    <3>1. CASE h = g /\ k = key
      BY <2>4, <2>5, <3>1
    <3>2. CASE ~(h = g /\ k = key)
      BY <2>5, <3>2 DEF CacheInv, CacheHandles
    <3> QED BY <3>1, <3>2
  <2> QED BY <1>2, <2>6 DEF CacheInv
<1> QED BY <1>3, <1>4

\* A definition: the method is new, so nothing lists it or points to it.
LEMMA DefineCache ==
  ASSUME CacheInv, ListInv', NEW g \in GF, NEW m \in Method, DefineMethod(g, m)
  PROVE  CacheInv'
<1>1. /\ TypeOK /\ ListedBorn /\ Apart /\ HandleLeadsBack /\ FreshHandles /\ CacheHandles
      /\ gfMethods \in [GF -> SUBSET Method] /\ methHandle \in [Method -> Method]
      /\ hdlObj \in [Method -> Method] /\ gfCache \in [GF -> [Key -> Seq(CacheElement)]]
      /\ born \subseteq Method
  BY DEF CacheInv, ListInv, TypeOK
<1>2. m \notin born /\ born' = born \cup {m} /\ add_method(g, m)
  BY DEF DefineMethod
<1>3. /\ methHandle[m] = m /\ hdlObj[m] = m /\ \A p \in born : methHandle[p] # m
      /\ \A h \in GF : m \notin gfMethods[h]
  BY <1>1, <1>2 DEF FreshHandles, ListedBorn
<1>4. CASE UNCHANGED <<gfMethods, gfCache, methHandle, hdlObj>>
  <2>1. ListedBorn' /\ Apart' /\ HandleLeadsBack'
    BY <1>1, <1>2, <1>4 DEF ListedBorn, Apart, HandleLeadsBack
  <2>2. FreshHandles'
    BY <1>1, <1>2, <1>3, <1>4 DEF FreshHandles
  <2>3. CacheHandles'
    <3> SUFFICES ASSUME NEW h \in GF, NEW k \in Key, gfCache[h][k] # NoEntry
                 PROVE  Handles(gfCache[h][k]) = {methHandle[p] : p \in Possible(h, k)'}
      BY <1>4 DEF CacheHandles
    <3>1. Possible(h, k)' = Possible(h, k)
      BY <1>4 DEF Possible
    <3>2. Handles(gfCache[h][k]) = {methHandle[p] : p \in Possible(h, k)}
      BY <1>1 DEF CacheHandles
    <3> QED BY <3>1, <3>2
  <2> QED BY <2>1, <2>2, <2>3 DEF CacheInv
<1>5. CASE InsertMethod(g, m)
  <2>1. /\ gfMethods' = [gfMethods EXCEPT ![g] = @ \cup {m}]
        /\ gfCache' = [gfCache EXCEPT ![g] = [k \in Key |-> NoEntry]]
        /\ methHandle' = methHandle /\ hdlObj' = hdlObj
    BY <1>5 DEF InsertMethod
  <2>2. \A h \in GF : gfMethods'[h] = IF h = g THEN gfMethods[g] \cup {m} ELSE gfMethods[h]
    BY <1>1, <2>1
  <2>3. ListedBorn'
    BY <1>1, <1>2, <2>2 DEF ListedBorn
  <2>A. Apart'
    <3> SUFFICES ASSUME NEW x \in GF, NEW y \in GF, x # y,
                        NEW p \in gfMethods'[x], p \in gfMethods'[y]
                 PROVE  FALSE
      BY DEF Apart
    <3>1. p # m => p \in gfMethods[x] /\ p \in gfMethods[y]
      BY <2>2
    <3>2. p = m => x = g /\ y = g
      BY <1>3, <2>2
    <3> QED BY <1>1, <3>1, <3>2 DEF Apart
  <2>4. HandleLeadsBack'
    BY <1>1, <1>3, <2>1, <2>2 DEF HandleLeadsBack
  <2>5. FreshHandles'
    BY <1>1, <1>2, <1>3, <2>1 DEF FreshHandles
  <2>6. CacheHandles'
    <3> SUFFICES ASSUME NEW h \in GF, NEW k \in Key, gfCache'[h][k] # NoEntry
                 PROVE  Handles(gfCache'[h][k]) = {methHandle'[p] : p \in Possible(h, k)'}
      BY DEF CacheHandles
    <3>1. h # g
      BY <1>1, <2>1
    <3>2. gfCache'[h][k] = gfCache[h][k] /\ Possible(h, k)' = Possible(h, k)
      BY <1>1, <2>1, <2>2, <3>1 DEF Possible
    <3>3. Handles(gfCache[h][k]) = {methHandle[p] : p \in Possible(h, k)}
      BY <1>1, <3>2 DEF CacheHandles
    <3> QED BY <2>1, <3>2, <3>3
  <2> QED BY <2>3, <2>A, <2>4, <2>5, <2>6 DEF CacheInv
<1>6. ASSUME NEW old \in Replaced(g, m), ReplaceMethod(g, m, old) PROVE CacheInv'
  <2>1. /\ gfMethods' = [gfMethods EXCEPT ![g] = (@ \ {old}) \cup {m}]
        /\ methHandle' = [methHandle EXCEPT ![m] = methHandle[old]]
        /\ hdlObj' = [hdlObj EXCEPT ![methHandle[old]] = m]
        /\ gfCache' = gfCache
    BY <1>6 DEF ReplaceMethod
  <2>2. old \in gfMethods[g] /\ same_specializers(m, old)
    BY DEF Replaced
  <2>3. old \in born /\ old \in Method /\ methHandle[old] \in Method /\ hdlObj[methHandle[old]] = old
    BY <1>1, <2>2 DEF ListedBorn, HandleLeadsBack
  <2>4. \A h \in GF : gfMethods'[h] = IF h = g THEN (gfMethods[g] \ {old}) \cup {m}
                                      ELSE gfMethods[h]
    BY <1>1, <2>1
  <2>5. /\ \A p \in Method : methHandle'[p] = IF p = m THEN methHandle[old] ELSE methHandle[p]
        /\ \A p \in Method : hdlObj'[p] = IF p = methHandle[old] THEN m ELSE hdlObj[p]
    BY <1>1, <2>1
  <2>6. ListedBorn'
    BY <1>1, <1>2, <2>4 DEF ListedBorn
  <2>A. Apart'
    <3> SUFFICES ASSUME NEW x \in GF, NEW y \in GF, x # y,
                        NEW p \in gfMethods'[x], p \in gfMethods'[y]
                 PROVE  FALSE
      BY DEF Apart
    <3>1. p # m => p \in gfMethods[x] /\ p \in gfMethods[y]
      BY <2>4
    <3>2. p = m => x = g /\ y = g
      BY <1>3, <2>4
    <3> QED BY <1>1, <3>1, <3>2 DEF Apart
  <2>7. HandleLeadsBack'
    <3> SUFFICES ASSUME NEW h \in GF, NEW p \in gfMethods'[h]
                 PROVE  hdlObj'[methHandle'[p]] = p
      BY DEF HandleLeadsBack
    <3>1. CASE p = m
      BY <2>3, <2>5, <3>1
    <3>2. CASE p # m
      <4>1. p \in gfMethods[h] /\ p \in Method /\ p # old
        <5>1. CASE h = g
          BY <1>1, <2>4, <3>2, <5>1
        <5>2. CASE h # g
          BY <1>1, <2>2, <2>4, <5>2 DEF Apart
        <5> QED BY <5>1, <5>2
      <4>2. hdlObj[methHandle[p]] = p
        BY <1>1, <4>1 DEF HandleLeadsBack
      <4>3. methHandle[p] # methHandle[old] /\ methHandle[p] \in Method
        BY <1>1, <2>3, <4>1, <4>2
      <4> QED BY <2>5, <3>2, <4>1, <4>2, <4>3
    <3> QED BY <3>1, <3>2
  <2>8. FreshHandles'
    <3> SUFFICES ASSUME NEW q \in Method, q \notin born, q # m
                 PROVE  /\ methHandle'[q] = q /\ hdlObj'[q] = q
                        /\ \A p \in born \cup {m} : methHandle'[p] # q
      BY <1>2 DEF FreshHandles
    <3>1. methHandle[q] = q /\ hdlObj[q] = q /\ \A p \in born : methHandle[p] # q
      BY <1>1 DEF FreshHandles
    <3>2. methHandle[old] # q
      BY <2>3, <3>1
    <3> QED BY <1>1, <1>2, <2>5, <3>1, <3>2
  <2>9. CacheHandles'
    <3> SUFFICES ASSUME NEW h \in GF, NEW k \in Key, gfCache[h][k] # NoEntry
                 PROVE  Handles(gfCache[h][k]) = {methHandle'[p] : p \in Possible(h, k)'}
      BY <2>1 DEF CacheHandles
    <3>1. Handles(gfCache[h][k]) = {methHandle[p] : p \in Possible(h, k)}
      BY <1>1 DEF CacheHandles
    <3>2. possible_method(m, k) <=> possible_method(old, k)
      BY <2>2, SamePossible
    <3>3. Possible(h, k)' = {p \in gfMethods'[h] : possible_method(p, k)}
      BY DEF Possible
    <3>4. CASE h # g
      <4>1. Possible(h, k)' = Possible(h, k) /\ m \notin Possible(h, k)
            /\ Possible(h, k) \subseteq Method
        BY <1>1, <1>3, <2>4, <3>3, <3>4 DEF Possible
      <4>2. \A p \in Possible(h, k) : methHandle'[p] = methHandle[p]
        BY <2>5, <4>1
      <4> QED BY <3>1, <4>1, <4>2
    <3>5. CASE h = g
      <4>1. /\ Possible(g, k) \subseteq Method /\ m \notin Possible(g, k)
            /\ Possible(g, k)' = IF old \in Possible(g, k) THEN (Possible(g, k) \ {old}) \cup {m}
                                 ELSE Possible(g, k)
        <5>1. Possible(g, k) \subseteq Method /\ m \notin Possible(g, k)
          BY <1>1, <1>3 DEF Possible
        <5>2. old \in Possible(g, k) <=> possible_method(m, k)
          BY <2>2, <3>2 DEF Possible
        <5>3. Possible(g, k)' = {p \in (gfMethods[g] \ {old}) \cup {m} : possible_method(p, k)}
          BY <2>4, <3>3, <3>5
        <5> QED BY <5>1, <5>2, <5>3 DEF Possible
      <4>2. \A p \in Possible(g, k) : methHandle'[p] = methHandle[p]
        BY <2>5, <4>1
      <4>3. methHandle'[m] = methHandle[old]
        BY <2>5
      <4> QED BY <3>1, <3>5, <4>1, <4>2, <4>3
    <3> QED BY <3>4, <3>5
  <2> QED BY <2>6, <2>A, <2>7, <2>8, <2>9 DEF CacheInv
<1> QED BY <1>2, <1>4, <1>5, <1>6 DEF add_method

LEMMA CacheStep == CacheInv /\ [NextDefine]_vars => CacheInv'
<1> SUFFICES ASSUME CacheInv, [NextDefine]_vars PROVE CacheInv'
  OBVIOUS
<1>1. ListInv'
  <2>1. [Next]_vars
    BY DEF Next
  <2> QED BY <2>1, ListStep DEF CacheInv
<1>2. ASSUME NEW g \in GF, NEW m \in Method, DefineMethod(g, m) PROVE CacheInv'
  BY <1>1, <1>2, DefineCache
<1>3. ASSUME NEW g \in GF, NEW args \in Args, ApplyGeneric(g, args) PROVE CacheInv'
  <2>1. UNCHANGED defVars
    BY <1>3 DEF ApplyGeneric
  <2> QED BY <1>1, <1>3, <2>1, CallCache
<1>4. ASSUME UNCHANGED defVars, UNCHANGED gfCache PROVE CacheInv'
  BY <1>1, <1>4, CallCache
<1>5. ASSUME NEW n \in LiveNM, NEW args \in Args, ApplyNextMethod(n, args) PROVE CacheInv'
  BY <1>4, <1>5 DEF ApplyNextMethod
<1>6. CASE UNCHANGED vars
  BY <1>4, <1>6 DEF vars, defVars
<1> QED BY <1>2, <1>3, <1>4, <1>5, <1>6
        DEF NextDefine, Calls, Return, TailEval, TailDone, Unwind

LEMMA CacheInit == Init => CacheInv
<1> SUFFICES ASSUME Init PROVE CacheInv
  OBVIOUS
<1>1. ListInv
  BY ListInit
<1>2. ListedBorn /\ Apart /\ HandleLeadsBack /\ FreshHandles /\ CacheHandles
  BY DEF Init, ListedBorn, Apart, HandleLeadsBack, FreshHandles, CacheHandles
<1> QED BY <1>1, <1>2 DEF CacheInv

\* In a program that defines methods, a cached entry leads through its handles to exactly
\* the methods the generic function has now for those classes, although replacing a method
\* does not touch the cache (function.c:676-690).
THEOREM CacheStaysCoherent == SpecDefine => []CacheCoherent
<1>1. CacheInv => CacheCoherent
  <2> SUFFICES ASSUME CacheInv, NEW g \in GF, NEW k \in Key, gfCache[g][k] # NoEntry
               PROVE  {MethodAt(gfCache[g][k], i) : i \in DOMAIN gfCache[g][k]} = Possible(g, k)
    BY DEF CacheCoherent
  <2> DEFINE e == gfCache[g][k]
  <2>1. Handles(e) = {methHandle[m] : m \in Possible(g, k)}
    BY DEF CacheInv, CacheHandles
  <2>2. {MethodAt(e, i) : i \in DOMAIN e} = {hdlObj[h] : h \in Handles(e)}
    BY DEF MethodAt, Handles
  <2>3. \A m \in Possible(g, k) : hdlObj[methHandle[m]] = m
    BY DEF CacheInv, HandleLeadsBack, Possible
  <2>4. {hdlObj[h] : h \in Handles(e)} = Possible(g, k)
    <3> HIDE DEF e
    <3> QED BY <2>1, <2>3
  <2> QED BY <2>2, <2>4
<1> QED BY <1>1, CacheInit, CacheStep, PTL DEF SpecDefine

-----------------------------------------------------------------------------
(* The chains of next-methods, for programs that define methods.  A definition makes    *)
(* the listed objects of its generic function invalid, and LiveListed is why these are  *)
(* all that could still hold the replaced method; what is made later comes from a cache *)
(* that is coherent, or is recalculated.                                                *)

\* The chain of the object that activation a has made, if it is valid.
ChainListed(a, objs, methods) ==
  a.nm # 0 =>
    /\ objs[a.nm].gf = a.gf
    /\ objs[a.nm].valid =>
         \A i \in 1..Len(objs[a.nm].rest) : objs[a.nm].rest[i] \in methods[a.gf]

ChainsListed == \A i \in 1..Len(stack) : ChainListed(stack[i], nms, gfMethods)

ChainInv == CacheInv /\ ChainsListed

LEMMA ChainTypes ==
  ASSUME CacheInv
  PROVE  /\ Len(stack) \in Nat /\ Len(nms) \in Nat
         /\ gfMethods \in [GF -> SUBSET Method]
         /\ \A i \in 1..Len(stack) : /\ stack[i] \in Activation /\ stack[i].gf \in GF
                                      /\ stack[i].nm \in 0..Len(nms)
         /\ DOMAIN nms = 1..Len(nms) /\ \A n \in 1..Len(nms) : nms[n] \in NextMethod
<1>1. TypeOK /\ NMKnown
  BY DEF CacheInv, ListInv
<1>2. /\ stack \in Seq(Activation) /\ nms \in Seq(NextMethod)
      /\ gfMethods \in [GF -> SUBSET Method]
  BY <1>1 DEF TypeOK
<1>3. \A i \in 1..Len(stack) : stack[i] \in Activation
  BY <1>2, ElementOfSeq
<1>4. \A i \in 1..Len(stack) : stack[i].gf \in GF /\ stack[i].nm \in 0..MaxNM
  BY <1>3 DEF Activation
<1>5. \A i \in 1..Len(stack) : stack[i].nm <= Len(nms)
  BY <1>1 DEF NMKnown
<1>6. Len(stack) \in Nat /\ Len(nms) \in Nat /\ DOMAIN nms = 1..Len(nms)
  BY <1>2, LenProperties
<1>7. \A n \in 1..Len(nms) : nms[n] \in NextMethod
  BY <1>2, ElementOfSeq
<1> QED BY <1>2, <1>3, <1>4, <1>5, <1>6, <1>7, BoundsAssumption

\* What an entry leads to are methods of its generic function.
LEMMA EntryMethods ==
  ASSUME CacheInv, NEW g \in GF, NEW args \in Args,
         NEW e \in (IF gfCache[g][ClassVector(args)] # NoEntry
                    THEN {gfCache[g][ClassVector(args)]} ELSE NewEntries(g, args))
  PROVE  e \in Seq(CacheElement) /\ \A i \in DOMAIN e : MethodAt(e, i) \in gfMethods[g]
<1> DEFINE key == ClassVector(args)
<1>1. TypeOK /\ key \in Key
  BY DEF CacheInv, ListInv, Key
<1>2. e \in Seq(CacheElement) /\ Handles(e) = {methHandle[m] : m \in Possible(g, key)}
  <2>1. CASE gfCache[g][key] # NoEntry
    <3>1. e = gfCache[g][key]
      BY <2>1
    <3> HIDE DEF key
    <3>2. gfCache[g][key] \in Seq(CacheElement)
      BY <1>1 DEF TypeOK
    <3> QED BY <1>1, <2>1, <3>1, <3>2 DEF CacheInv, CacheHandles
  <2>2. CASE gfCache[g][key] = NoEntry
    <3>1. e \in NewEntries(g, args)
      BY <2>2
    <3> QED BY <1>1, <3>1, NewEntriesType DEF Handles, TypeOK
  <2> QED BY <2>1, <2>2
<1>3. ASSUME NEW i \in DOMAIN e PROVE MethodAt(e, i) \in gfMethods[g]
  <2> HIDE DEF key
  <2>1. e[i].hdl \in Handles(e)
    BY DEF Handles
  <2>2. PICK m \in Possible(g, key) : e[i].hdl = methHandle[m]
    BY <1>2, <2>1
  <2>3. m \in gfMethods[g] /\ hdlObj[methHandle[m]] = m
    BY DEF Possible, CacheInv, HandleLeadsBack
  <2> QED BY <2>2, <2>3 DEF MethodAt
<1> QED BY <1>2, <1>3

\* A call leaves the chains of the activations below it, and makes one of listed methods.
LEMMA ApplyChain ==
  ASSUME ChainInv, UNCHANGED gfMethods,
         NEW base \in Bases, NEW g \in GF, NEW m \in Method, NEW args \in Args,
         NEW rest, NEW valid \in BOOLEAN, valid => rest \in Seq(gfMethods[g]),
         apply_method(base, g, m, args, rest, valid)
  PROVE  ChainsListed'
<1>1. PICK chain \in (IF valid THEN {rest} ELSE recalc_next_methods(g, m, args)) :
        /\ PushNextMethod(g, chain, args)
        /\ stack' = IF applicable_method_p(m, args)
                    THEN Append(base, [gf |-> g, meth |-> m, args |-> args, tail |-> FALSE,
                                       nm |-> IF chain = <<>> THEN 0 ELSE Len(nms) + 1])
                    ELSE <<>>
  BY DEF apply_method
<1> DEFINE a == [gf |-> g, meth |-> m, args |-> args, tail |-> FALSE,
                 nm |-> IF chain = <<>> THEN 0 ELSE Len(nms) + 1]
<1>2. CASE stack' = <<>>
  BY <1>2 DEF ChainsListed
<1>3. CASE stack' = Append(base, a)
  <2>1. chain \in Seq(gfMethods[g])
    BY <1>1, RecalcType, ChainTypes DEF ChainInv
  <2>2. /\ Len(base) \in Nat /\ Len(stack') = Len(base) + 1 /\ stack'[Len(base) + 1] = a
        /\ \A i \in 1..Len(base) : i \in 1..Len(stack) /\ stack'[i] = stack[i]
    <3>1. /\ base \in Seq(Activation) /\ Len(base) <= Len(stack)
          /\ \A i \in 1..Len(base) : base[i] = stack[i]
      BY BasesType DEF ChainInv, CacheInv, ListInv
    <3>2. Len(base) \in Nat /\ Len(stack) \in Nat
      BY <3>1, LenProperties, ChainTypes DEF ChainInv
    <3> HIDE DEF a
    <3>3. /\ Len(stack') = Len(base) + 1 /\ stack'[Len(base) + 1] = a
          /\ \A i \in 1..Len(base) : stack'[i] = base[i]
      BY <1>3, <3>1, AppendProperties
    <3> QED BY <3>1, <3>2, <3>3
  <2>3. \A n \in 1..Len(nms) : nms'[n] = nms[n]
    <3>1. nms \in Seq(NextMethod)
      BY DEF ChainInv, CacheInv, ListInv, TypeOK
    <3>2. nms' = nms \/ \E o : nms' = Append(nms, o)
      BY <1>1 DEF PushNextMethod
    <3> QED BY <3>1, <3>2, AppendProperties
  <2>4. ASSUME NEW i \in 1..Len(base) PROVE ChainListed(stack'[i], nms', gfMethods')
    <3>1. ChainListed(stack[i], nms, gfMethods) /\ stack[i].nm \in 0..Len(nms)
      BY <2>2, ChainTypes DEF ChainInv, ChainsListed
    <3>2. stack[i].nm # 0 => nms'[stack[i].nm] = nms[stack[i].nm]
      BY <2>3, <3>1, ChainTypes DEF ChainInv
    <3> QED BY <2>2, <3>1, <3>2 DEF ChainListed
  <2>5. ChainListed(a, nms', gfMethods')
    <3>1. CASE chain = <<>>
      BY <3>1 DEF ChainListed
    <3>2. CASE chain # <<>>
      <4> DEFINE o == [gf |-> g, meth |-> Head(chain), rest |-> Tail(chain),
                       valid |-> TRUE, args |-> args]
      <4>1. nms' = Append(nms, o) /\ nms \in Seq(NextMethod)
        BY <1>1, <3>2 DEF PushNextMethod, ChainInv, CacheInv, ListInv, TypeOK
      <4>2. nms'[Len(nms) + 1] = o
        <5> HIDE DEF o
        <5> QED BY <4>1, LenProperties
      <4>3. \A i \in 1..Len(Tail(chain)) : Tail(chain)[i] \in gfMethods[g]
        <5>1. Tail(chain) \in Seq(gfMethods[g])
          BY <2>1, <3>2, HeadTailProperties
        <5> QED BY <5>1, ElementOfSeq
      <4> QED BY <3>2, <4>2, <4>3 DEF ChainListed
    <3> QED BY <3>1, <3>2
  <2> HIDE DEF a
  <2>6. \A i \in 1..Len(base) + 1 : i \in 1..Len(base) \/ i = Len(base) + 1
    BY <2>2
  <2> QED BY <2>2, <2>4, <2>5, <2>6 DEF ChainsListed
<1> QED BY <1>1, <1>2, <1>3

LEMMA GenericChain ==
  ASSUME ChainInv, NEW g \in GF, NEW args \in Args, ApplyGeneric(g, args)
  PROVE  ChainsListed'
<1>1. UNCHANGED gfMethods
  BY DEF ApplyGeneric, defVars
<1>2. PICK e \in (IF gfCache[g][ClassVector(args)] # NoEntry
                  THEN {gfCache[g][ClassVector(args)]} ELSE NewEntries(g, args)) :
        \/ \E c \in Candidates(e, args), base \in Bases :
             apply_method(base, g, MethodAt(e, c), args, RestMethods(e, c), TRUE)
        \/ ErrorExit
  BY DEF ApplyGeneric
<1>3. e \in Seq(CacheElement) /\ \A i \in DOMAIN e : MethodAt(e, i) \in gfMethods[g]
  BY <1>2, EntryMethods DEF ChainInv
<1>4. ASSUME NEW c \in Candidates(e, args), NEW base \in Bases,
             apply_method(base, g, MethodAt(e, c), args, RestMethods(e, c), TRUE)
      PROVE  ChainsListed'
  <2>1. c \in DOMAIN e
    BY DEF Candidates, ApplicableAt
  <2>2. RestMethods(e, c) \in Seq(gfMethods[g])
    BY <1>3, <2>1, RestMethodsType
  <2> DEFINE m == MethodAt(e, c)
             rest == RestMethods(e, c)
             valid == TRUE
  <2>3. /\ apply_method(base, g, m, args, rest, valid) /\ valid \in BOOLEAN
        /\ rest \in Seq(gfMethods[g]) /\ m \in Method
    BY <1>3, <1>4, <2>1, <2>2, ChainTypes DEF ChainInv
  <2> HIDE DEF m, rest, valid
  <2> QED BY <1>1, <2>3, ApplyChain
<1>5. CASE ErrorExit
  BY <1>5 DEF ErrorExit, ChainsListed
<1> QED BY <1>2, <1>4, <1>5

LEMMA NextMethodChain ==
  ASSUME ChainInv, NEW n \in LiveNM, NEW args \in Args, ApplyNextMethod(n, args)
  PROVE  ChainsListed'
<1>1. UNCHANGED gfMethods
  BY DEF ApplyNextMethod, defVars
<1>2. PICK base \in Bases :
        apply_method(base, nms[n].gf, nms[n].meth, args, nms[n].rest, nms[n].valid)
  BY DEF ApplyNextMethod
<1>3. PICK i \in 1..Len(stack) : n = stack[i].nm /\ n # 0
  BY DEF LiveNM, ChainInv, CacheInv, ListInv, TypeOK
<1>4. nms[n] \in NextMethod
  BY <1>3, ChainTypes DEF ChainInv
<1>5. ChainListed(stack[i], nms, gfMethods)
  BY DEF ChainInv, ChainsListed
<1>6. /\ nms[n].gf \in GF /\ nms[n].meth \in Method /\ nms[n].rest \in Seq(Method)
      /\ nms[n].valid \in BOOLEAN
  BY <1>4 DEF NextMethod
<1>7. nms[n].valid => nms[n].rest \in Seq(gfMethods[nms[n].gf])
  BY <1>3, <1>5, <1>6, InSeq DEF ChainListed
<1> QED BY <1>1, <1>2, <1>6, <1>7, ApplyChain

\* A definition: whatever may hold the method it replaces is invalid from now on.
LEMMA DefineChain ==
  ASSUME ChainInv, NEW g \in GF, NEW m \in Method, DefineMethod(g, m)
  PROVE  ChainsListed'
<1>1. nms' = Invalidated(activeNM[g]) /\ stack' \in {stack, <<>>}
  BY DEF DefineMethod, add_method
<1>2. \A h \in GF : h # g => gfMethods'[h] = gfMethods[h]
  BY ChainTypes DEF ChainInv, DefineMethod, add_method, ReplaceMethod, InsertMethod
<1>3. CASE stack' = <<>>
  BY <1>3 DEF ChainsListed
<1>4. CASE stack' = stack
  <2> SUFFICES ASSUME NEW i \in 1..Len(stack), stack[i].nm # 0
               PROVE  ChainListed(stack[i], nms', gfMethods')
    BY <1>4 DEF ChainsListed, ChainListed
  <2> DEFINE n == stack[i].nm
  <2>1. n \in 1..Len(nms) /\ n \in DOMAIN nms /\ nms[n] \in NextMethod /\ stack[i].gf \in GF
    BY ChainTypes DEF ChainInv
  <2>2. n \in activeNM[stack[i].gf]
    BY DEF ChainInv, CacheInv, ListInv, Listed
  <2>3. ChainListed(stack[i], nms, gfMethods)
    BY DEF ChainInv, ChainsListed
  <2>4. nms'[n] = IF n \in activeNM[g] THEN [nms[n] EXCEPT !.rest = <<>>, !.valid = FALSE]
                  ELSE nms[n]
    <3> HIDE DEF n
    <3> QED BY <1>1, <2>1 DEF Invalidated
  <2>5. n \in activeNM[g] => nms'[n].gf = nms[n].gf /\ ~nms'[n].valid
    <3> HIDE DEF n
    <3> QED BY <2>1, <2>4 DEF NextMethod
  <2>6. CASE n \in activeNM[g]
    BY <2>3, <2>5, <2>6 DEF ChainListed
  <2>7. CASE n \notin activeNM[g]
    <3>1. stack[i].gf # g /\ nms'[n] = nms[n]
      BY <2>2, <2>4, <2>7
    <3>2. gfMethods'[stack[i].gf] = gfMethods[stack[i].gf]
      BY <1>2, <2>1, <3>1
    <3> QED BY <2>3, <3>1, <3>2 DEF ChainListed
  <2> QED BY <2>6, <2>7
<1> QED BY <1>1, <1>3, <1>4

\* A return, an exit, a tail call: the activations that are left are as they were.
LEMMA PrefixChain ==
  ASSUME ChainInv, UNCHANGED <<nms, gfMethods>>,
         NEW k \in 0..Len(stack), stack' = SubSeq(stack, 1, k)
  PROVE  ChainsListed'
<1>1. Len(stack') = k /\ \A i \in 1..k : stack'[i] = stack[i]
  BY PrefixType DEF ChainInv, CacheInv, ListInv
<1>2. \A i \in 1..k : i \in 1..Len(stack)
  BY ChainTypes DEF ChainInv
<1> QED BY <1>1, <1>2 DEF ChainInv, ChainsListed

LEMMA ChainStep == ChainInv /\ [NextDefine]_vars => ChainInv'
<1> SUFFICES ASSUME ChainInv, [NextDefine]_vars PROVE ChainInv'
  OBVIOUS
<1>1. CacheInv'
  BY CacheStep DEF ChainInv
<1> SUFFICES ChainsListed'
  BY <1>1 DEF ChainInv
<1>2. Len(stack) \in Nat
  BY ChainTypes DEF ChainInv
<1>3. ASSUME NEW g \in GF, NEW m \in Method, DefineMethod(g, m) PROVE ChainsListed'
  BY <1>3, DefineChain
<1>4. ASSUME NEW g \in GF, NEW args \in Args, ApplyGeneric(g, args) PROVE ChainsListed'
  BY <1>4, GenericChain
<1>5. ASSUME NEW n \in LiveNM, NEW args \in Args, ApplyNextMethod(n, args) PROVE ChainsListed'
  BY <1>5, NextMethodChain
<1>6. CASE Return \/ TailDone
  <2>1. Len(stack) - 1 \in 0..Len(stack) /\ stack' = SubSeq(stack, 1, Len(stack) - 1)
        /\ UNCHANGED <<nms, gfMethods>>
    <3>1. Len(stack) # 0
      BY <1>6 DEF Return, TailDone, ChainInv, CacheInv, ListInv, TypeOK
    <3> QED BY <1>2, <1>6, <3>1 DEF Return, TailDone, defVars
  <2> QED BY <2>1, PrefixChain
<1>7. CASE TailEval
  <2>1. /\ UNCHANGED <<nms, gfMethods>>
        /\ stack' = [stack EXCEPT ![Len(stack)].tail = TRUE]
    BY <1>7 DEF TailEval, defVars
  <2>2. /\ Len(stack') = Len(stack)
        /\ \A i \in 1..Len(stack) : stack'[i].nm = stack[i].nm /\ stack'[i].gf = stack[i].gf
    <3>1. stack \in Seq(Activation) /\ \A i \in 1..Len(stack) : stack[i] \in Activation
      BY ChainTypes DEF ChainInv, CacheInv, ListInv, TypeOK
    <3> QED BY <2>1, <3>1 DEF Activation
  <2> QED BY <2>1, <2>2 DEF ChainInv, ChainsListed, ChainListed
<1>8. CASE Unwind
  <2>1. PICK k \in 0..(Len(stack) - 1) : stack' = SubSeq(stack, 1, k)
    BY <1>8 DEF Unwind
  <2>2. k \in 0..Len(stack) /\ UNCHANGED <<nms, gfMethods>>
    BY <1>2, <1>8 DEF Unwind, defVars
  <2> QED BY <2>1, <2>2, PrefixChain
<1>9. CASE UNCHANGED vars
  BY <1>9 DEF vars, ChainInv, ChainsListed
<1> QED BY <1>3, <1>4, <1>5, <1>6, <1>7, <1>8, <1>9 DEF NextDefine, Calls

\* In a program that defines methods, the chain a running method hands to its next-method
\* names no method that has been replaced since: what could name one has been invalidated
\* and is recalculated (function.c:653-661, apply.c:184-186).
THEOREM ChainsStayCurrent == SpecDefine => []LiveChainsCurrent
<1>1. Init => ChainInv
  <2>1. Init => ChainsListed
    BY DEF Init, ChainsListed
  <2> QED BY <2>1, CacheInit DEF ChainInv
<1>2. ChainInv => LiveChainsCurrent
  <2> SUFFICES ASSUME ChainInv, NEW n \in LiveNM, nms[n].valid, NEW j \in DOMAIN nms[n].rest
               PROVE  nms[n].rest[j] \in gfMethods[nms[n].gf]
    BY DEF LiveChainsCurrent
  <2>1. PICK i \in 1..Len(stack) : n = stack[i].nm /\ n # 0
    BY DEF LiveNM, ChainInv, CacheInv, ListInv, TypeOK
  <2>2. ChainListed(stack[i], nms, gfMethods)
    BY DEF ChainInv, ChainsListed
  <2>3. j \in 1..Len(nms[n].rest)
    <3>1. nms[n] \in NextMethod
      BY <2>1, ChainTypes DEF ChainInv
    <3> QED BY <3>1, LenProperties DEF NextMethod
  <2> QED BY <2>1, <2>2, <2>3 DEF ChainListed
<1> QED BY <1>1, <1>2, ChainStep, PTL DEF SpecDefine

-----------------------------------------------------------------------------
(* Methods for classes.  Where every specializer is a class, the order of two methods   *)
(* depends on the classes of the arguments alone, which is what the cache takes for     *)
(* granted, and a method that is possible for these is applicable.  Singletons, limited *)
(* integers and unions spoil both: see the README.                                      *)

ClassesOnly == \A m \in Method, i \in ArgPos : \E c \in Class : Specs[m][i] = ClassType(c)

\* Precedence lists, of which no two classes are below each other; arguments have classes.
ClassesOrdered ==
  /\ CPL \in [Class -> Seq(Class)]
  /\ \A c, d \in Class : Subclass(c, d) /\ Subclass(d, c) => c = d
  /\ \A args \in Args, i \in ArgPos : objectclass(args[i]) \in Class

\* Two methods that apply to an argument list of the program compare for every other one as
\* they do for it.
AgreedOrder ==
  \A m, p \in Method, args, other \in Args :
    applicable_method_p(m, args) /\ applicable_method_p(p, args) =>
      specializer_compare(m, p, other) = specializer_compare(m, p, args)

\* Any two classes above one class are one above the other.
SingleInheritance ==
  \A c, d, e \in Class : Subclass(c, d) /\ Subclass(c, e) => Subclass(d, e) \/ Subclass(e, d)

\* The same specializers, object by object.
Twins(m, p) == \A i \in ArgPos : Specs[m][i] = Specs[p][i]

LEMMA ClassSpecializer ==
  ASSUME ClassesOnly, NEW m \in Method, NEW i \in ArgPos
  PROVE  Specs[m][i].kind = "class" /\ Specs[m][i].cls \in Class
         /\ Specs[m][i] = ClassType(Specs[m][i].cls)
<1>1. PICK c \in Class : Specs[m][i] = ClassType(c)
  BY DEF ClassesOnly
<1> QED BY <1>1 DEF ClassType

LEMMA SameSpecializers ==
  ASSUME ClassesOnly, NEW m \in Method, NEW p \in Method, same_specializers(m, p)
  PROVE  Twins(m, p)
<1> SUFFICES ASSUME NEW i \in ArgPos PROVE Specs[m][i] = Specs[p][i]
  BY DEF Twins
<1>1. Specs[m][i].kind = "class"
  BY ClassSpecializer
<1> QED BY <1>1 DEF same_specializers

LEMMA TwinsCompare ==
  ASSUME NEW m, NEW m1, NEW p, NEW p1, Twins(m, m1), Twins(p, p1), NEW args
  PROVE  specializer_compare(m, p, args) = specializer_compare(m1, p1, args)
<1>1. {SpecVerdict(Specs[m][i], Specs[p][i], args[i]) : i \in ArgPos} =
        {SpecVerdict(Specs[m1][i], Specs[p1][i], args[i]) : i \in ArgPos}
  BY DEF Twins
<1> QED BY <1>1 DEF specializer_compare

LEMMA TwinsApply ==
  ASSUME NEW m, NEW p, Twins(m, p), NEW args, applicable_method_p(m, args)
  PROVE  applicable_method_p(p, args)
BY DEF Twins, applicable_method_p

LEMMA CompareValues ==
  ASSUME NEW m, NEW p, NEW args
  PROVE  specializer_compare(m, p, args) \in {-1, 0, 1}
BY DEF specializer_compare

LEMMA CompareSelf ==
  ASSUME NEW m, NEW p, Twins(m, p), NEW args
  PROVE  specializer_compare(m, p, args) = 0
<1> DEFINE said == {SpecVerdict(Specs[m][i], Specs[p][i], args[i]) : i \in ArgPos}
<1>1. said \subseteq {"same"}
  BY DEF Twins, SpecVerdict
<1> QED BY <1>1 DEF specializer_compare

\* A class method applies to the arguments of a class vector if it is possible for it.
LEMMA PossibleApplies ==
  ASSUME ClassesOnly, NEW m \in Method, NEW args, NEW other,
         ClassVector(args) = ClassVector(other)
  PROVE  possible_method(m, ClassVector(args)) <=> applicable_method_p(m, other)
<1>1. ASSUME NEW i \in ArgPos
      PROVE  BelowBroadClass(ClassVector(args)[i], Specs[m][i]) <=> instance(other[i], Specs[m][i])
  <2>1. Specs[m][i].kind = "class"
    BY ClassSpecializer
  <2>2. ClassVector(args)[i] = other[i].cls
    BY DEF ClassVector, objectclass
  <2>3. BelowBroadClass(ClassVector(args)[i], Specs[m][i]) <=> Subclass(other[i].cls, Specs[m][i].cls)
    BY <2>1, <2>2 DEF BelowBroadClass, SimpleBroad
  <2>4. instance(other[i], Specs[m][i]) <=> Subclass(other[i].cls, Specs[m][i].cls)
    BY <2>1 DEF instance, SimpleInstance
  <2> QED BY <2>3, <2>4
<1> QED BY <1>1 DEF possible_method, applicable_method_p

LEMMA ClassSubtypes ==
  ASSUME NEW s, NEW t, s.kind = "class", t.kind = "class"
  PROVE  subtype(s, t) <=> s = t \/ Subclass(s.cls, t.cls)
BY DEF subtype, SimpleSubtype, ClassSubtype

LEMMA ClassVerdict ==
  ASSUME NEW s, NEW t, s.kind = "class", t.kind = "class", NEW arg,
         ~(/\ Earlier(s.cls, t.cls, CPL[objectclass(arg)])
           /\ Earlier(t.cls, s.cls, CPL[objectclass(arg)]))
  PROVE  SpecVerdict(s, t, arg) =
           IF s = t THEN "same"
           ELSE IF Subclass(s.cls, t.cls) THEN "less"
           ELSE IF Subclass(t.cls, s.cls) THEN "greater"
           ELSE IF Earlier(s.cls, t.cls, CPL[objectclass(arg)]) THEN "less"
           ELSE IF Earlier(t.cls, s.cls, CPL[objectclass(arg)]) THEN "greater"
           ELSE "same"
<1>1. subtype(s, t) <=> s = t \/ Subclass(s.cls, t.cls)
  BY ClassSubtypes
<1>2. subtype(t, s) <=> t = s \/ Subclass(t.cls, s.cls)
  BY ClassSubtypes
<1> QED BY <1>1, <1>2 DEF SpecVerdict

\* The comparison of class methods sees the classes of the arguments only.
LEMMA CompareByClass ==
  ASSUME ClassesOnly, NEW m \in Method, NEW p \in Method, NEW args, NEW other,
         ClassVector(args) = ClassVector(other)
  PROVE  specializer_compare(m, p, args) = specializer_compare(m, p, other)
<1>1. ASSUME NEW i \in ArgPos
      PROVE  SpecVerdict(Specs[m][i], Specs[p][i], args[i]) = SpecVerdict(Specs[m][i], Specs[p][i], other[i])
  <2>1. objectclass(args[i]) = objectclass(other[i])
    <3>1. ClassVector(args)[i] = objectclass(args[i]) /\ ClassVector(other)[i] = objectclass(other[i])
      BY DEF ClassVector
    <3> QED BY <3>1
  <2> DEFINE s == Specs[m][i]
             t == Specs[p][i]
  <2>2. s.kind = "class" /\ t.kind = "class"
    BY ClassSpecializer
  <2> HIDE DEF s, t
  <2>3. SpecVerdict(s, t, args[i]) = SpecVerdict(s, t, other[i])
    BY <2>1, <2>2 DEF SpecVerdict
  <2> QED BY <2>3 DEF s, t
<1>2. {SpecVerdict(Specs[m][i], Specs[p][i], args[i]) : i \in ArgPos} =
        {SpecVerdict(Specs[m][i], Specs[p][i], other[i]) : i \in ArgPos}
  BY <1>1
<1> QED BY <1>2 DEF specializer_compare

LEMMA EarlierOne ==
  ASSUME NEW c, NEW d, NEW S, NEW cpl \in Seq(S), Earlier(c, d, cpl), Earlier(d, c, cpl)
  PROVE  FALSE
<1>1. PICK i \in 1..Len(cpl) : cpl[i] = c /\ \A j \in 1..i : cpl[j] # d
  BY DEF Earlier
<1>2. PICK k \in 1..Len(cpl) : cpl[k] = d /\ \A j \in 1..k : cpl[j] # c
  BY DEF Earlier
<1>3. i \in Nat /\ k \in Nat /\ (i \in 1..k \/ k \in 1..i)
  OBVIOUS
<1> QED BY <1>1, <1>2, <1>3

\* What one specializer says of two class methods, it says the other way round when they
\* are exchanged.
LEMMA VerdictTurns ==
  ASSUME ClassesOnly, ClassesOrdered, NEW m \in Method, NEW p \in Method,
         NEW args \in Args, NEW i \in ArgPos
  PROVE  /\ SpecVerdict(Specs[m][i], Specs[p][i], args[i]) \in {"less", "greater", "same"}
         /\ SpecVerdict(Specs[m][i], Specs[p][i], args[i]) = "less" <=>
              SpecVerdict(Specs[p][i], Specs[m][i], args[i]) = "greater"
<1> DEFINE s == Specs[m][i]
           t == Specs[p][i]
           cpl == CPL[objectclass(args[i])]
<1>1. /\ s.kind = "class" /\ t.kind = "class" /\ s.cls \in Class /\ t.cls \in Class
      /\ s = ClassType(s.cls) /\ t = ClassType(t.cls)
  BY ClassSpecializer
<1>2. cpl \in Seq(Class)
  BY DEF ClassesOrdered
<1>3. Subclass(s.cls, t.cls) /\ Subclass(t.cls, s.cls) => s = t
  <2>1. Subclass(s.cls, t.cls) /\ Subclass(t.cls, s.cls) => s.cls = t.cls
    BY <1>1 DEF ClassesOrdered
  <2> QED BY <1>1, <2>1
<1> HIDE DEF s, t
<1>4. ~(Earlier(s.cls, t.cls, cpl) /\ Earlier(t.cls, s.cls, cpl))
  BY <1>2, EarlierOne
<1>5. /\ SpecVerdict(s, t, args[i]) \in {"less", "greater", "same"}
      /\ SpecVerdict(s, t, args[i]) = "less" <=> SpecVerdict(t, s, args[i]) = "greater"
  BY <1>1, <1>3, <1>4, ClassVerdict
<1> QED BY <1>5 DEF s, t

\* The comparison of class methods is antisymmetric.
LEMMA CompareTurns ==
  ASSUME ClassesOnly, ClassesOrdered, NEW m \in Method, NEW p \in Method, NEW args \in Args,
         specializer_compare(m, p, args) < 0
  PROVE  specializer_compare(p, m, args) > 0
<1> DEFINE said(x, y) == {SpecVerdict(Specs[x][i], Specs[y][i], args[i]) : i \in ArgPos}
<1>1. ASSUME NEW x \in Method, NEW y \in Method
      PROVE  /\ "unordered" \notin said(x, y)
             /\ "less" \in said(x, y) <=> "greater" \in said(y, x)
  <2>1. \A i \in ArgPos :
          /\ SpecVerdict(Specs[x][i], Specs[y][i], args[i]) # "unordered"
          /\ SpecVerdict(Specs[x][i], Specs[y][i], args[i]) = "less" <=>
               SpecVerdict(Specs[y][i], Specs[x][i], args[i]) = "greater"
    BY VerdictTurns
  <2> QED BY <2>1
<1>2. /\ "unordered" \notin said(m, p) /\ "unordered" \notin said(p, m)
      /\ "less" \in said(m, p) <=> "greater" \in said(p, m)
      /\ "less" \in said(p, m) <=> "greater" \in said(m, p)
  BY <1>1
<1>3. \A x, y : specializer_compare(x, y, args) =
        IF "unordered" \in said(x, y) \/ {"less", "greater"} \subseteq said(x, y) THEN 0
        ELSE IF "less" \in said(x, y) THEN -1
        ELSE IF "greater" \in said(x, y) THEN 1
        ELSE 0
  BY DEF specializer_compare
<1> HIDE DEF said
<1>4. "less" \in said(m, p) /\ "greater" \notin said(m, p)
  BY <1>2, <1>3
<1> QED BY <1>2, <1>3, <1>4

\* With single inheritance the lists of the arguments' classes are never asked.
LEMMA SingleAgreed ==
  ASSUME ClassesOnly, ClassesOrdered, SingleInheritance
  PROVE  AgreedOrder
<1> SUFFICES ASSUME NEW m \in Method, NEW p \in Method, NEW args \in Args, NEW other \in Args,
                    applicable_method_p(m, args), applicable_method_p(p, args)
             PROVE  specializer_compare(m, p, other) = specializer_compare(m, p, args)
  BY DEF AgreedOrder
<1>1. ASSUME NEW i \in ArgPos
      PROVE  SpecVerdict(Specs[m][i], Specs[p][i], other[i]) = SpecVerdict(Specs[m][i], Specs[p][i], args[i])
  <2> DEFINE s == Specs[m][i]
             t == Specs[p][i]
             c == objectclass(args[i])
  <2>1. s.kind = "class" /\ t.kind = "class" /\ s.cls \in Class /\ t.cls \in Class
    BY ClassSpecializer
  <2>2. instance(args[i], s) /\ instance(args[i], t) /\ c \in Class
    BY DEF applicable_method_p, ClassesOrdered
  <2>3. Subclass(c, s.cls) /\ Subclass(c, t.cls)
    BY <2>1, <2>2 DEF instance, SimpleInstance, objectclass
  <2>4. Subclass(s.cls, t.cls) \/ Subclass(t.cls, s.cls)
    BY <2>1, <2>2, <2>3 DEF SingleInheritance
  <2> HIDE DEF s, t
  <2>5. SpecVerdict(s, t, other[i]) = SpecVerdict(s, t, args[i])
    <3>1. (subtype(s, t) <=> s = t \/ Subclass(s.cls, t.cls)) /\ (subtype(t, s) <=> t = s \/ Subclass(t.cls, s.cls))
      BY <2>1, ClassSubtypes
    <3> QED BY <2>4, <3>1 DEF SpecVerdict
  <2> QED BY <2>5 DEF s, t
<1>2. {SpecVerdict(Specs[m][i], Specs[p][i], other[i]) : i \in ArgPos} =
        {SpecVerdict(Specs[m][i], Specs[p][i], args[i]) : i \in ArgPos}
  BY <1>1
<1> QED BY <1>2 DEF specializer_compare

-----------------------------------------------------------------------------
(* The order of a cached entry.  It was made for one argument list and is used for all  *)
(* with its classes, and its handles lead to other methods after a replacement; it is   *)
(* sorted all the same, because a method is replaced by one with the same specializers. *)

\* Neighbours of a sorted entry, for any argument list of its key.
EntrySorted(e, k) ==
  \A args \in Args : ClassVector(args) = k =>
    /\ \A i \in 1..Len(e) : applicable_method_p(MethodAt(e, i), args)
    /\ \A i \in 2..Len(e) :
         /\ specializer_compare(MethodAt(e, i-1), MethodAt(e, i), args) <= 0
         /\ e[i].starts <=> specializer_compare(MethodAt(e, i-1), MethodAt(e, i), args) # 0

EntriesSorted == \A g \in GF, k \in Key : EntrySorted(gfCache[g][k], k)

\* The handle of a method leads to one with the same specializers.
HandlesAlike == \A m \in Method : Twins(hdlObj[methHandle[m]], m)

OrderInv == ListInv /\ HandlesAlike /\ EntriesSorted

\* A new entry is sorted for every argument list of its key.
LEMMA NewEntriesSorted ==
  ASSUME ClassesOnly, TypeOK, HandlesAlike,
         NEW g \in GF, NEW args \in Args, NEW e \in NewEntries(g, args)
  PROVE  EntrySorted(e, ClassVector(args))
<1> DEFINE P == Possible(g, ClassVector(args))
<1>1. PICK s \in sort_methods(P, args) :
        e = [i \in DOMAIN s |-> [hdl    |-> methHandle[s[i]],
                                 starts |-> Grouped(s, args)[i].starts]]
  BY DEF NewEntries
<1>2. P \in SUBSET Method
  BY DEF Possible, TypeOK
<1>3. s \in Seq(Method) /\ {s[i] : i \in DOMAIN s} = P
  <2> HIDE DEF P
  <2> QED BY <1>1, <1>2, SortType
<1>4. \A i \in 2..Cardinality(P) : specializer_compare(s[i-1], s[i], args) <= 0
  BY <1>1 DEF sort_methods
<1>5. DOMAIN s = 1..Cardinality(P) /\ Cardinality(P) \in Nat /\ Len(s) = Cardinality(P)
  <2>1. DOMAIN s = 1..Cardinality(P)
    BY <1>1 DEF sort_methods, Arrangements
  <2>2. Cardinality(P) \in Nat
    BY <1>2, MethodAssumption, FS_Subset, FS_CardinalityType
  <2>3. DOMAIN s = 1..Len(s) /\ Len(s) \in Nat
    BY <1>3, LenProperties
  <2>4. \A n, k \in Nat : 1..n = 1..k => n = k
    OBVIOUS
  <2> HIDE DEF P
  <2> QED BY <2>1, <2>2, <2>3, <2>4
<1> DEFINE n == Len(s)
<1>6. /\ n \in Nat /\ \A i \in 1..n : s[i] \in Method /\ possible_method(s[i], ClassVector(args))
      /\ \A i \in 2..n : specializer_compare(s[i-1], s[i], args) <= 0
  <2>1. n \in Nat /\ DOMAIN s = 1..n /\ \A i \in 1..n : s[i] \in P
    BY <1>3, <1>5
  <2>2. \A m \in P : m \in Method /\ possible_method(m, ClassVector(args))
    BY <1>2 DEF Possible
  <2> HIDE DEF P
  <2> QED BY <1>4, <1>5, <2>1, <2>2
<1>7. Len(e) = n /\ \A i \in 1..n : /\ e[i].hdl = methHandle[s[i]]
                                    /\ e[i].starts = Grouped(s, args)[i].starts
  <2>1. DOMAIN s = 1..n
    BY <1>5
  <2>2. e = [i \in 1..n |-> [hdl |-> methHandle[s[i]], starts |-> Grouped(s, args)[i].starts]]
    BY <1>1, <2>1
  <2>3. Len(e) = n
    BY <1>6, <2>2
  <2> QED BY <2>2, <2>3
<1>8. \A i \in 1..n : Twins(MethodAt(e, i), s[i]) /\ Twins(s[i], MethodAt(e, i))
  <2>1. \A i \in 1..n : Twins(MethodAt(e, i), s[i])
    BY <1>6, <1>7 DEF MethodAt, HandlesAlike
  <2> QED BY <2>1 DEF Twins
<1>9. \A i \in 2..n : /\ i \in 1..n /\ i - 1 \in 1..n
                      /\ e[i].starts <=> specializer_compare(s[i-1], s[i], args) # 0
  <2>1. \A i \in 2..n : i \in 1..n /\ i - 1 \in 1..n /\ i # 1
    BY <1>6
  <2>2. \A i \in 2..n : i \in DOMAIN s
    BY <1>5, <2>1
  <2>3. \A i \in 2..n : Grouped(s, args)[i].starts = (specializer_compare(s[i-1], s[i], args) # 0)
    BY <2>1, <2>2 DEF Grouped
  <2> QED BY <1>7, <2>1, <2>3
<1> HIDE DEF n
<1>10. ASSUME NEW other \in Args, ClassVector(other) = ClassVector(args)
       PROVE  /\ \A i \in 1..n : applicable_method_p(MethodAt(e, i), other)
              /\ \A i \in 2..n : specializer_compare(MethodAt(e, i-1), MethodAt(e, i), other)
                                   = specializer_compare(s[i-1], s[i], args)
  <2>1. ASSUME NEW i \in 1..n PROVE applicable_method_p(MethodAt(e, i), other)
    <3>1. applicable_method_p(s[i], other)
      BY <1>6, <1>10, PossibleApplies
    <3> QED BY <1>8, <3>1, TwinsApply
  <2>2. ASSUME NEW i \in 2..n
        PROVE  specializer_compare(MethodAt(e, i-1), MethodAt(e, i), other)
                 = specializer_compare(s[i-1], s[i], args)
    <3>1. specializer_compare(MethodAt(e, i-1), MethodAt(e, i), other)
            = specializer_compare(s[i-1], s[i], other)
      BY <1>8, <1>9, TwinsCompare
    <3>2. specializer_compare(s[i-1], s[i], other) = specializer_compare(s[i-1], s[i], args)
      BY <1>6, <1>9, <1>10, CompareByClass
    <3> QED BY <3>1, <3>2
  <2> QED BY <2>1, <2>2
<1> SUFFICES ASSUME NEW other \in Args, ClassVector(other) = ClassVector(args)
             PROVE  /\ \A i \in 1..Len(e) : applicable_method_p(MethodAt(e, i), other)
                    /\ \A i \in 2..Len(e) :
                         /\ specializer_compare(MethodAt(e, i-1), MethodAt(e, i), other) <= 0
                         /\ e[i].starts <=>
                              specializer_compare(MethodAt(e, i-1), MethodAt(e, i), other) # 0
  BY DEF EntrySorted
<1> QED BY <1>6, <1>7, <1>9, <1>10

\* An entry stays sorted when handles lead to twins of what they led to.
HandlesMove == \A h \in Method : Twins(hdlObj'[h], hdlObj[h])

LEMMA SortedKept ==
  ASSUME HandlesMove, NEW e \in Seq(CacheElement), NEW k, EntrySorted(e, k)
  PROVE  EntrySorted(e, k)'
<1>1. \A i \in 1..Len(e) : e[i].hdl \in Method
  <2>1. \A i \in 1..Len(e) : e[i] \in CacheElement
    BY ElementOfSeq
  <2> QED BY <2>1 DEF CacheElement
<1>2. \A i \in 1..Len(e) : /\ Twins(hdlObj'[e[i].hdl], hdlObj[e[i].hdl])
                           /\ Twins(hdlObj[e[i].hdl], hdlObj'[e[i].hdl])
  <2>1. \A i \in 1..Len(e) : Twins(hdlObj'[e[i].hdl], hdlObj[e[i].hdl])
    BY <1>1 DEF HandlesMove
  <2> QED BY <2>1 DEF Twins
<1>3. \A i \in 2..Len(e) : i \in 1..Len(e) /\ i - 1 \in 1..Len(e)
  BY LenProperties
<1> DEFINE old(i) == hdlObj[e[i].hdl]
           new(i) == hdlObj'[e[i].hdl]
<1> SUFFICES ASSUME NEW args \in Args, ClassVector(args) = k
             PROVE  /\ \A i \in 1..Len(e) : applicable_method_p(new(i), args)
                    /\ \A i \in 2..Len(e) :
                         /\ specializer_compare(new(i-1), new(i), args) <= 0
                         /\ e[i].starts <=> specializer_compare(new(i-1), new(i), args) # 0
  BY DEF EntrySorted, MethodAt
<1>4. /\ \A i \in 1..Len(e) : applicable_method_p(old(i), args)
      /\ \A i \in 2..Len(e) :
           /\ specializer_compare(old(i-1), old(i), args) <= 0
           /\ e[i].starts <=> specializer_compare(old(i-1), old(i), args) # 0
  BY DEF EntrySorted, MethodAt
<1>5. ASSUME NEW i \in 1..Len(e) PROVE applicable_method_p(new(i), args)
  BY <1>2, <1>4, TwinsApply
<1>6. ASSUME NEW i \in 2..Len(e)
      PROVE  specializer_compare(new(i-1), new(i), args) = specializer_compare(old(i-1), old(i), args)
  BY <1>2, <1>3, TwinsCompare
<1> HIDE DEF old, new
<1> QED BY <1>4, <1>5, <1>6

\* The entry of a call is sorted, cached or new.
LEMMA EntryOfCall ==
  ASSUME ClassesOnly, OrderInv, NEW g \in GF, NEW args \in Args,
         NEW e \in (IF gfCache[g][ClassVector(args)] # NoEntry
                    THEN {gfCache[g][ClassVector(args)]} ELSE NewEntries(g, args))
  PROVE  e \in Seq(CacheElement) /\ EntrySorted(e, ClassVector(args))
<1> DEFINE key == ClassVector(args)
<1>1. TypeOK /\ key \in Key
  BY DEF OrderInv, ListInv, Key
<1>2. CASE gfCache[g][key] # NoEntry
  <2>1. e = gfCache[g][key]
    BY <1>2
  <2> HIDE DEF key
  <2>2. gfCache[g][key] \in Seq(CacheElement) /\ EntrySorted(gfCache[g][key], key)
    BY <1>1 DEF TypeOK, OrderInv, EntriesSorted
  <2>3. e \in Seq(CacheElement) /\ EntrySorted(e, key)
    BY <2>1, <2>2
  <2> QED BY <2>3 DEF key
<1>3. CASE gfCache[g][key] = NoEntry
  <2>1. e \in NewEntries(g, args)
    BY <1>3
  <2>2. e \in Seq(CacheElement)
    BY <1>1, <2>1, NewEntriesType DEF TypeOK
  <2> QED BY <1>1, <2>1, <2>2, NewEntriesSorted DEF OrderInv
<1> QED BY <1>2, <1>3

\* What an action does to handles and cache.
LEMMA AddMethodOrder ==
  ASSUME ClassesOnly, OrderInv, NEW g \in GF, NEW m \in Method, add_method(g, m)
  PROVE  HandlesAlike' /\ EntriesSorted'
<1>1. /\ gfMethods \in [GF -> SUBSET Method] /\ methHandle \in [Method -> Method]
      /\ hdlObj \in [Method -> Method] /\ gfCache \in [GF -> [Key -> Seq(CacheElement)]]
      /\ HandlesAlike /\ EntriesSorted
  BY DEF OrderInv, ListInv, TypeOK
<1>2. ASSUME HandlesMove,
             \A h \in GF, k \in Key : gfCache'[h][k] \in {gfCache[h][k], NoEntry}
      PROVE  EntriesSorted'
  <2> SUFFICES ASSUME NEW h \in GF, NEW k \in Key PROVE EntrySorted(gfCache[h][k], k)'
    BY DEF EntriesSorted
  <2>1. CASE gfCache'[h][k] = gfCache[h][k]
    <3>1. PICK e : e = gfCache[h][k]
      OBVIOUS
    <3>2. e \in Seq(CacheElement) /\ EntrySorted(e, k)
      BY <1>1, <3>1 DEF EntriesSorted
    <3>3. EntrySorted(e, k)'
      BY <1>2, <3>2, SortedKept
    <3> QED BY <2>1, <3>1, <3>3 DEF EntrySorted, MethodAt
  <2>2. CASE gfCache'[h][k] = NoEntry
    <3>1. Len(gfCache'[h][k]) = 0
      BY <2>2 DEF NoEntry
    <3> QED BY <3>1 DEF EntrySorted, MethodAt
  <2> QED BY <1>2, <2>1, <2>2
<1>3. CASE UNCHANGED <<methHandle, hdlObj>>
  <2>1. HandlesMove
    BY <1>1, <1>3 DEF HandlesMove, Twins
  <2>2. HandlesAlike'
    BY <1>1, <1>3 DEF HandlesAlike, Twins
  <2>3. CASE UNCHANGED gfCache
    BY <1>2, <2>1, <2>2, <2>3
  <2>4. CASE InsertMethod(g, m)
    <3>1. \A h \in GF, k \in Key : gfCache'[h][k] \in {gfCache[h][k], NoEntry}
      BY <1>1, <2>4 DEF InsertMethod
    <3> QED BY <1>2, <2>1, <2>2, <3>1
  <2>5. CASE \E old \in Replaced(g, m) : ReplaceMethod(g, m, old)
    BY <1>2, <2>1, <2>2, <2>5 DEF ReplaceMethod
  <2> QED BY <2>3, <2>4, <2>5 DEF add_method
<1>4. ASSUME NEW old \in Replaced(g, m), ReplaceMethod(g, m, old)
      PROVE  HandlesAlike' /\ EntriesSorted'
  <2>1. /\ methHandle' = [methHandle EXCEPT ![m] = methHandle[old]]
        /\ hdlObj' = [hdlObj EXCEPT ![methHandle[old]] = m]
        /\ gfCache' = gfCache
    BY <1>4 DEF ReplaceMethod
  <2>2. old \in Method /\ same_specializers(m, old)
    BY <1>1 DEF Replaced
  <2>3. Twins(m, old)
    BY <2>2, SameSpecializers
  <2> DEFINE h == methHandle[old]
  <2>4. h \in Method /\ Twins(hdlObj[h], old)
    BY <1>1, <2>2 DEF HandlesAlike
  <2>5. /\ \A p \in Method : methHandle'[p] = IF p = m THEN h ELSE methHandle[p]
        /\ \A p \in Method : hdlObj'[p] = IF p = h THEN m ELSE hdlObj[p]
        /\ \A p \in Method : methHandle[p] \in Method
    BY <1>1, <2>1
  <2> HIDE DEF h
  <2>6. HandlesMove
    <3> SUFFICES ASSUME NEW p \in Method PROVE Twins(hdlObj'[p], hdlObj[p])
      BY DEF HandlesMove
    <3>1. CASE p = h
      <4>1. hdlObj'[p] = m
        BY <2>5, <3>1
      <4> QED BY <2>3, <2>4, <3>1, <4>1 DEF Twins
    <3>2. CASE p # h
      BY <2>5, <3>2 DEF Twins
    <3> QED BY <3>1, <3>2
  <2>7. HandlesAlike'
    <3> SUFFICES ASSUME NEW p \in Method PROVE Twins(hdlObj'[methHandle'[p]], p)
      BY DEF HandlesAlike
    <3>1. CASE p = m
      <4>1. hdlObj'[methHandle'[p]] = m
        BY <2>4, <2>5, <3>1
      <4> QED BY <3>1, <4>1 DEF Twins
    <3>2. CASE p # m
      <4>1. methHandle'[p] = methHandle[p] /\ methHandle[p] \in Method
        BY <2>5, <3>2
      <4>2. Twins(hdlObj'[methHandle[p]], hdlObj[methHandle[p]])
        BY <2>6, <4>1 DEF HandlesMove
      <4>3. Twins(hdlObj[methHandle[p]], p)
        BY <1>1 DEF HandlesAlike
      <4> QED BY <4>1, <4>2, <4>3 DEF Twins
    <3> QED BY <3>1, <3>2
  <2> QED BY <1>2, <2>1, <2>6, <2>7
<1> QED BY <1>3, <1>4 DEF add_method, InsertMethod

LEMMA GenericOrder ==
  ASSUME ClassesOnly, OrderInv, NEW g \in GF, NEW args \in Args, ApplyGeneric(g, args)
  PROVE  HandlesAlike' /\ EntriesSorted'
<1> DEFINE key == ClassVector(args)
<1>1. UNCHANGED <<methHandle, hdlObj>> /\ key \in Key
      /\ gfCache \in [GF -> [Key -> Seq(CacheElement)]] /\ HandlesAlike /\ EntriesSorted
  BY DEF ApplyGeneric, defVars, Key, OrderInv, ListInv, TypeOK
<1>2. PICK e \in (IF gfCache[g][key] # NoEntry THEN {gfCache[g][key]} ELSE NewEntries(g, args)) :
        gfCache' = [gfCache EXCEPT ![g][key] = e]
  BY DEF ApplyGeneric
<1>3. EntrySorted(e, key)
  BY <1>2, EntryOfCall
<1> HIDE DEF key
<1>4. \A h \in GF, k \in Key :
        gfCache'[h][k] = IF h = g /\ k = key THEN e ELSE gfCache[h][k]
  BY <1>1, <1>2
<1>5. ASSUME NEW h \in GF, NEW k \in Key PROVE EntrySorted(gfCache'[h][k], k)
  BY <1>1, <1>3, <1>4 DEF EntriesSorted
<1>6. EntriesSorted'
  BY <1>1, <1>5 DEF EntriesSorted, EntrySorted, MethodAt
<1>7. HandlesAlike'
  BY <1>1 DEF HandlesAlike, Twins
<1> QED BY <1>6, <1>7

LEMMA OrderStep ==
  ASSUME ClassesOnly
  PROVE  OrderInv /\ [Next]_vars => OrderInv'
<1> SUFFICES ASSUME OrderInv, [Next]_vars PROVE OrderInv'
  OBVIOUS
<1>1. ListInv'
  BY ListStep DEF OrderInv
<1>2. ASSUME NEW g \in GF, NEW m \in Method, add_method(g, m) PROVE OrderInv'
  BY <1>1, <1>2, AddMethodOrder DEF OrderInv
<1>3. ASSUME NEW g \in GF, NEW args \in Args, ApplyGeneric(g, args) PROVE OrderInv'
  BY <1>1, <1>3, GenericOrder DEF OrderInv
<1>4. ASSUME UNCHANGED <<gfCache, methHandle, hdlObj>> PROVE OrderInv'
  BY <1>1, <1>4 DEF OrderInv, HandlesAlike, EntriesSorted, EntrySorted, MethodAt, Twins
<1>5. CASE UNCHANGED vars
  BY <1>4, <1>5 DEF vars
<1> QED BY <1>2, <1>3, <1>4, <1>5
        DEF Next, NextDefine, Calls, DefineMethod, MakeMethod, AddMethod, RemoveMethod,
            ApplyNextMethod, Return, TailEval, TailDone, Unwind, defVars

LEMMA OrderInit == Init => OrderInv
<1> SUFFICES ASSUME Init PROVE OrderInv
  OBVIOUS
<1>1. ListInv
  BY ListInit
<1>2. HandlesAlike
  BY DEF Init, HandlesAlike, Twins
<1>3. EntriesSorted
  <2>1. \A g \in GF, k \in Key : gfCache[g][k] = <<>> /\ Len(<<>>) = 0
    BY DEF Init, NoEntry
  <2> QED BY <2>1 DEF EntriesSorted, EntrySorted
<1> QED BY <1>1, <1>2, <1>3 DEF OrderInv

-----------------------------------------------------------------------------
(* The method a call runs. *)

EntriesDistinct ==
  \A g \in GF, k \in Key : \A i, j \in 1..Len(gfCache[g][k]) :
    gfCache[g][k][i].hdl = gfCache[g][k][j].hdl => i = j

LeastInv == CacheInv /\ OrderInv /\ EntriesDistinct

\* No handle comes twice in a new entry.
LEMMA NewEntriesDistinct ==
  ASSUME CacheInv, NEW g \in GF, NEW args \in Args, NEW e \in NewEntries(g, args)
  PROVE  \A i, j \in 1..Len(e) : e[i].hdl = e[j].hdl => i = j
<1> DEFINE P == Possible(g, ClassVector(args))
<1>1. PICK s \in sort_methods(P, args) :
        e = [i \in DOMAIN s |-> [hdl    |-> methHandle[s[i]],
                                 starts |-> Grouped(s, args)[i].starts]]
  BY DEF NewEntries
<1>2. P \in SUBSET Method /\ P \subseteq gfMethods[g]
  BY DEF Possible, CacheInv, ListInv, TypeOK
<1>3. s \in Seq(P) /\ \A i, j \in DOMAIN s : i # j => s[i] # s[j]
  <2> HIDE DEF P
  <2> QED BY <1>1, <1>2, SortDistinct
<1> HIDE DEF P
<1>4. /\ Len(s) \in Nat /\ DOMAIN s = 1..Len(s)
      /\ \A i \in 1..Len(s) : s[i] \in gfMethods[g]
  BY <1>2, <1>3, LenProperties, ElementOfSeq
<1>5. Len(e) = Len(s) /\ \A i \in 1..Len(s) : e[i].hdl = methHandle[s[i]]
  <2>1. e = [i \in 1..Len(s) |-> [hdl |-> methHandle[s[i]], starts |-> Grouped(s, args)[i].starts]]
    BY <1>1, <1>4
  <2> QED BY <1>4, <2>1
<1>6. \A p \in gfMethods[g] : hdlObj[methHandle[p]] = p
  BY DEF CacheInv, HandleLeadsBack
<1> SUFFICES ASSUME NEW i \in 1..Len(s), NEW j \in 1..Len(s), e[i].hdl = e[j].hdl PROVE i = j
  BY <1>5
<1>7. s[i] = s[j]
  BY <1>4, <1>5, <1>6
<1> QED BY <1>3, <1>4, <1>7

\* The entry of a call: each of its handles is that of a possible method, and comes once.
LEMMA EntryLeads ==
  ASSUME LeastInv, NEW g \in GF, NEW args \in Args,
         NEW e \in (IF gfCache[g][ClassVector(args)] # NoEntry
                    THEN {gfCache[g][ClassVector(args)]} ELSE NewEntries(g, args))
  PROVE  /\ Handles(e) = {methHandle[m] : m \in Possible(g, ClassVector(args))}
         /\ \A i, j \in 1..Len(e) : e[i].hdl = e[j].hdl => i = j
<1> DEFINE key == ClassVector(args)
<1>1. TypeOK /\ CacheInv /\ key \in Key
  BY DEF LeastInv, CacheInv, ListInv, Key
<1>2. CASE gfCache[g][key] # NoEntry
  <2>1. e = gfCache[g][key]
    BY <1>2
  <2> HIDE DEF key
  <2>2. Handles(e) = {methHandle[m] : m \in Possible(g, key)}
    BY <1>1, <1>2, <2>1 DEF CacheInv, CacheHandles
  <2>3. \A i, j \in 1..Len(e) : e[i].hdl = e[j].hdl => i = j
    BY <1>1, <2>1 DEF LeastInv, EntriesDistinct
  <2> QED BY <2>2, <2>3 DEF key
<1>3. CASE gfCache[g][key] = NoEntry
  <2>1. e \in NewEntries(g, args)
    BY <1>3
  <2>2. Handles(e) = {methHandle[m] : m \in Possible(g, ClassVector(args))}
    BY <1>1, <2>1, NewEntriesType DEF Handles, TypeOK
  <2> QED BY <1>1, <2>1, <2>2, NewEntriesDistinct
<1> QED BY <1>2, <1>3

\* The least method is alone in the first group of the entry.
LEMMA LeastFirst ==
  ASSUME ClassesOnly, ClassesOrdered, LeastInv, NEW g \in GF, NEW args \in Args,
         NEW e \in (IF gfCache[g][ClassVector(args)] # NoEntry
                    THEN {gfCache[g][ClassVector(args)]} ELSE NewEntries(g, args)),
         NEW m \in Least(g, args)
  PROVE  Candidates(e, args) = {1} /\ MethodAt(e, 1) = m
<1> DEFINE key == ClassVector(args)
<1>1. CacheInv /\ OrderInv /\ TypeOK
  BY DEF LeastInv, CacheInv, ListInv
<1>2. e \in Seq(CacheElement) /\ EntrySorted(e, key)
  BY <1>1, EntryOfCall
<1>3. /\ Handles(e) = {methHandle[p] : p \in Possible(g, key)}
      /\ \A i, j \in 1..Len(e) : e[i].hdl = e[j].hdl => i = j
  BY EntryLeads
<1>4. /\ m \in gfMethods[g] /\ applicable_method_p(m, args)
      /\ \A p \in gfMethods[g] \ {m} :
           applicable_method_p(p, args) => specializer_compare(m, p, args) < 0
  BY DEF Least
<1>5. gfMethods[g] \subseteq Method /\ \A p \in gfMethods[g] : hdlObj[methHandle[p]] = p
  BY <1>1 DEF TypeOK, CacheInv, HandleLeadsBack
<1>6. m \in Possible(g, key)
  <2>1. possible_method(m, ClassVector(args))
    BY <1>4, <1>5, PossibleApplies
  <2> QED BY <1>4, <2>1 DEF Possible
<1> DEFINE n == Len(e)
<1>7. n \in Nat /\ DOMAIN e = 1..n
  BY <1>2, LenProperties
<1>8. ASSUME NEW i \in 1..n
      PROVE  MethodAt(e, i) \in gfMethods[g] /\ e[i].hdl = methHandle[MethodAt(e, i)]
  <2> HIDE DEF key
  <2>1. e[i].hdl \in Handles(e)
    BY <1>7 DEF Handles
  <2>2. PICK p \in Possible(g, key) : e[i].hdl = methHandle[p]
    BY <1>3, <2>1
  <2>3. p \in gfMethods[g] /\ MethodAt(e, i) = p
    BY <1>5, <2>2 DEF Possible, MethodAt
  <2> QED BY <2>2, <2>3
<1>9. PICK at \in 1..n : MethodAt(e, at) = m
  <2>1. methHandle[m] \in Handles(e)
    BY <1>3, <1>6
  <2>2. PICK i \in 1..n : e[i].hdl = methHandle[m]
    BY <1>7, <2>1 DEF Handles
  <2> QED BY <1>4, <1>5, <2>2 DEF MethodAt
<1>10. ASSUME NEW i \in 1..n, i # at
       PROVE  specializer_compare(m, MethodAt(e, i), args) < 0
  <2>1. MethodAt(e, i) # m
    <3> SUFFICES ASSUME MethodAt(e, i) = m PROVE FALSE
      OBVIOUS
    <3>1. e[i].hdl = e[at].hdl
      BY <1>8, <1>9
    <3> QED BY <1>3, <1>10, <3>1
  <2>2. applicable_method_p(MethodAt(e, i), args)
    BY <1>2 DEF EntrySorted
  <2> QED BY <1>4, <1>8, <2>1, <2>2
<1>11. \A i \in 2..n : /\ specializer_compare(MethodAt(e, i-1), MethodAt(e, i), args) <= 0
                       /\ e[i].starts <=> specializer_compare(MethodAt(e, i-1), MethodAt(e, i), args) # 0
  BY <1>2 DEF EntrySorted
<1>12. at = 1
  <2> SUFFICES ASSUME at # 1 PROVE FALSE
    OBVIOUS
  <2>1. at \in 2..n /\ at - 1 \in 1..n /\ at - 1 # at
    BY <1>7
  <2> DEFINE p == MethodAt(e, at - 1)
  <2>2. p \in Method /\ m \in Method /\ specializer_compare(m, p, args) < 0
    BY <1>4, <1>5, <1>8, <1>10, <2>1
  <2>3. specializer_compare(p, m, args) <= 0
    BY <1>9, <1>11, <2>1
  <2> HIDE DEF p
  <2>4. specializer_compare(p, m, args) > 0
    BY <2>2, CompareTurns
  <2>5. specializer_compare(p, m, args) \in {-1, 0, 1}
    BY CompareValues
  <2> QED BY <2>3, <2>4, <2>5
<1>13. 2 \in 1..n => e[2].starts
  <2> SUFFICES ASSUME 2 \in 1..n PROVE e[2].starts
    OBVIOUS
  <2>1. 2 \in 2..n /\ 2 - 1 = 1
    BY <1>7
  <2>2. specializer_compare(m, MethodAt(e, 2), args) < 0
    BY <1>10, <1>12
  <2>3. e[2].starts <=> specializer_compare(m, MethodAt(e, 2), args) # 0
    BY <1>9, <1>11, <1>12, <2>1
  <2> QED BY <2>2, <2>3
<1>14. ApplicableAt(e, args) = 1..n
  BY <1>2, <1>7 DEF EntrySorted, ApplicableAt
<1>15. 1 \in Candidates(e, args)
  <2>1. 1 \in 1..n /\ \A k \in 1..n : 1 <= k
    BY <1>7, <1>12
  <2>2. SameGroup(e, 1, 1)
    BY DEF SameGroup
  <2> QED BY <1>14, <2>1, <2>2 DEF Candidates
<1>16. ASSUME NEW j \in Candidates(e, args) PROVE j = 1
  <2>1. PICK i \in 1..n : /\ \A k \in 1..n : i <= k
                          /\ SameGroup(e, i, j)
    BY <1>14 DEF Candidates
  <2>2. i = 1 /\ j \in 1..n
    BY <1>7, <1>12, <1>14, <2>1 DEF Candidates
  <2> SUFFICES ASSUME j # 1 PROVE FALSE
    OBVIOUS
  <2>3. 2 \in (1+1)..j /\ 2 \in 1..n
    BY <1>7, <2>2
  <2> QED BY <1>13, <2>1, <2>2, <2>3 DEF SameGroup
<1> QED BY <1>9, <1>12, <1>15, <1>16

LEMMA LeastApplied ==
  ASSUME ClassesOnly, ClassesOrdered, LeastInv, NEW g \in GF, NEW args \in Args,
         ApplyGeneric(g, args), NEW m \in Least(g, args)
  PROVE  stack' # <<>> /\ stack'[Len(stack')].meth = m
<1>1. PICK e \in (IF gfCache[g][ClassVector(args)] # NoEntry
                  THEN {gfCache[g][ClassVector(args)]} ELSE NewEntries(g, args)) :
        \/ \E c \in Candidates(e, args), base \in Bases :
             apply_method(base, g, MethodAt(e, c), args, RestMethods(e, c), TRUE)
        \/ Cardinality(Candidates(e, args)) # 1
  BY DEF ApplyGeneric
<1>2. Candidates(e, args) = {1} /\ MethodAt(e, 1) = m
  BY LeastFirst
<1>3. Cardinality({1}) = 1
  BY FS_Singleton
<1>4. PICK base \in Bases : apply_method(base, g, m, args, RestMethods(e, 1), TRUE)
  BY <1>1, <1>2, <1>3
<1>5. applicable_method_p(m, args)
  BY DEF Least
<1>6. TypeOK /\ m \in Method
  BY DEF LeastInv, CacheInv, ListInv, TypeOK, Least
<1>7. PICK a \in Activation : stack' = Append(base, a) /\ a.meth = m
  <2>1. PICK chain : /\ PushNextMethod(g, chain, args)
                     /\ stack' = IF applicable_method_p(m, args)
                          THEN Append(base, [gf |-> g, meth |-> m, args |-> args, tail |-> FALSE,
                                             nm |-> IF chain = <<>> THEN 0 ELSE Len(nms) + 1])
                          ELSE <<>>
    BY <1>4 DEF apply_method
  <2> DEFINE num == IF chain = <<>> THEN 0 ELSE Len(nms) + 1
             b == [gf |-> g, meth |-> m, args |-> args, tail |-> FALSE, nm |-> num]
  <2>2. num \in 0..MaxNM
    <3>1. chain # <<>> => Len(nms) < MaxNM
      BY <2>1 DEF PushNextMethod
    <3>2. Len(nms) \in Nat
      BY <1>6 DEF TypeOK
    <3> QED BY <3>1, <3>2, BoundsAssumption
  <2>3. stack' = Append(base, b)
    BY <1>5, <2>1
  <2> HIDE DEF num
  <2>4. b \in Activation /\ b.meth = m
    BY <1>6, <2>2 DEF Activation
  <2> QED BY <2>3, <2>4
<1>8. base \in Seq(Activation)
  BY <1>6, BasesType
<1>9. Len(stack') = Len(base) + 1 /\ stack'[Len(base) + 1] = a /\ Len(base) \in Nat
  BY <1>7, <1>8, AppendProperties
<1> QED BY <1>7, <1>9

LEMMA LeastStep ==
  ASSUME ClassesOnly
  PROVE  LeastInv /\ [NextDefine]_vars => LeastInv'
<1> SUFFICES ASSUME LeastInv, [NextDefine]_vars PROVE LeastInv'
  OBVIOUS
<1>1. CacheInv' /\ OrderInv'
  BY CacheStep, OrderStep DEF LeastInv, Next
<1>2. gfCache \in [GF -> [Key -> Seq(CacheElement)]] /\ EntriesDistinct
  BY DEF LeastInv, OrderInv, ListInv, TypeOK
<1>3. ASSUME NEW g \in GF, NEW args \in Args, ApplyGeneric(g, args) PROVE EntriesDistinct'
  <2> DEFINE key == ClassVector(args)
  <2>1. PICK e \in (IF gfCache[g][key] # NoEntry THEN {gfCache[g][key]} ELSE NewEntries(g, args)) :
          gfCache' = [gfCache EXCEPT ![g][key] = e]
    BY <1>3 DEF ApplyGeneric
  <2>2. \A i, j \in 1..Len(e) : e[i].hdl = e[j].hdl => i = j
    BY <2>1, EntryLeads
  <2>3. key \in Key
    BY DEF Key
  <2> HIDE DEF key
  <2>4. \A h \in GF, k \in Key :
          gfCache'[h][k] = IF h = g /\ k = key THEN e ELSE gfCache[h][k]
    BY <1>2, <2>1, <2>3
  <2>5. ASSUME NEW h \in GF, NEW k \in Key
        PROVE  \A i, j \in 1..Len(gfCache'[h][k]) :
                 gfCache'[h][k][i].hdl = gfCache'[h][k][j].hdl => i = j
    <3>1. CASE h = g /\ k = key
      BY <2>2, <2>4, <3>1
    <3>2. CASE ~(h = g /\ k = key)
      BY <1>2, <2>4, <3>2 DEF EntriesDistinct
    <3> QED BY <3>1, <3>2
  <2> QED BY <2>5 DEF EntriesDistinct
<1>4. ASSUME UNCHANGED gfCache PROVE EntriesDistinct'
  BY <1>2, <1>4 DEF EntriesDistinct
<1>5. ASSUME NEW g \in GF, NEW m \in Method, InsertMethod(g, m) PROVE EntriesDistinct'
  <2>1. \A h \in GF, k \in Key :
          gfCache'[h][k] = gfCache[h][k] \/ gfCache'[h][k] = <<>>
    BY <1>2, <1>5 DEF InsertMethod, NoEntry
  <2> SUFFICES ASSUME NEW h \in GF, NEW k \in Key
               PROVE  \A i, j \in 1..Len(gfCache'[h][k]) :
                        gfCache'[h][k][i].hdl = gfCache'[h][k][j].hdl => i = j
    BY DEF EntriesDistinct
  <2>2. CASE gfCache'[h][k] = gfCache[h][k]
    BY <1>2, <2>2 DEF EntriesDistinct
  <2>3. CASE gfCache'[h][k] = <<>>
    <3>1. Len(gfCache'[h][k]) = 0
      BY <2>3
    <3> QED BY <3>1
  <2> QED BY <2>1, <2>2, <2>3
<1>6. ASSUME NEW g \in GF, NEW m \in Method, add_method(g, m) PROVE EntriesDistinct'
  BY <1>4, <1>5, <1>6 DEF add_method, ReplaceMethod
<1>7. ASSUME UNCHANGED vars PROVE EntriesDistinct'
  BY <1>4, <1>7 DEF vars
<1>8. EntriesDistinct'
  BY <1>3, <1>4, <1>6, <1>7
     DEF NextDefine, Calls, DefineMethod, ApplyNextMethod, Return, TailEval, TailDone, Unwind
<1> QED BY <1>1, <1>8 DEF LeastInv

\* A call runs the method that is more specific than every other applicable one, from the
\* cache or not, whatever was defined, replaced and called before (apply.c:605-650,
\* function.c:683-689, 1199-1267), in the programs whose methods are specialized on classes.
THEOREM LeastRuns ==
  ASSUME ClassesOnly, ClassesOrdered
  PROVE  SpecDefine => LeastMethodRuns
<1> DEFINE RunsLeast == \A g \in GF, args \in Args :
                          ApplyGeneric(g, args) =>
                            \A m \in Least(g, args) :
                              stack' # <<>> /\ stack'[Len(stack')].meth = m
<1>1. Init => LeastInv
  <2> SUFFICES ASSUME Init PROVE LeastInv
    OBVIOUS
  <2>1. EntriesDistinct
    <3>1. \A g \in GF, k \in Key : gfCache[g][k] = <<>> /\ Len(<<>>) = 0
      BY DEF Init, NoEntry
    <3> QED BY <3>1 DEF EntriesDistinct
  <2> QED BY <2>1, CacheInit, OrderInit DEF LeastInv
<1>2. LeastInv /\ [NextDefine]_vars => LeastInv'
  BY LeastStep
<1>3. LeastInv /\ [NextDefine]_vars => [RunsLeast]_vars
  <2> SUFFICES ASSUME LeastInv, NEW g \in GF, NEW args \in Args, ApplyGeneric(g, args),
                      NEW m \in Least(g, args)
               PROVE  stack' # <<>> /\ stack'[Len(stack')].meth = m
    OBVIOUS
  <2> QED BY LeastApplied
<1> QED BY <1>1, <1>2, <1>3, PTL DEF SpecDefine, LeastMethodRuns

-----------------------------------------------------------------------------
(* next-method goes down.  Of two methods that apply to one argument list, which comes  *)
(* first may differ from one argument list to another where a class has two direct      *)
(* superclasses; a next-method object that is given other arguments than it was made    *)
(* for then leads up again.  AgreedOrder leaves these programs out.                     *)

Falls(m, p) == \A args \in Args : specializer_compare(m, p, args) < 0

Descending(s) == \A i \in 2..Len(s) : Falls(s[i-1], s[i])

\* What may be handed to an activation of m as its chain.
ChainGood(m, chain, args) ==
  /\ chain \in Seq(Method) /\ Descending(chain)
  /\ chain # <<>> /\ applicable_method_p(m, args) => Falls(m, chain[1])

ChainFalls(m, rest) ==
  \A i \in 1..Len(rest) : Falls(IF i = 1 THEN m ELSE rest[i-1], rest[i])

ObjectsFall == \A n \in 1..Len(nms) : ChainFalls(nms[n].meth, nms[n].rest)

StackFalls == \A j \in 1..Len(stack) : stack[j].nm # 0 => Falls(stack[j].meth, nms[stack[j].nm].meth)

DescendInv == OrderInv /\ ObjectsFall /\ StackFalls

LEMMA BothApply ==
  ASSUME AgreedOrder, NEW m \in Method, NEW p \in Method, NEW args \in Args,
         applicable_method_p(m, args), applicable_method_p(p, args),
         specializer_compare(m, p, args) <= 0, specializer_compare(m, p, args) # 0
  PROVE  Falls(m, p)
<1>1. specializer_compare(m, p, args) < 0
  BY CompareValues
<1>2. \A other \in Args : specializer_compare(m, p, other) = specializer_compare(m, p, args)
  BY DEF AgreedOrder
<1> QED BY <1>1, <1>2 DEF Falls

\* The only candidate of an entry is its first method, and the second opens a group.
LEMMA FirstGroup ==
  ASSUME NEW e \in Seq(CacheElement), NEW args \in Args, EntrySorted(e, ClassVector(args)),
         NEW c, Candidates(e, args) = {c}
  PROVE  c = 1 /\ 1 \in 1..Len(e) /\ (2 \in 1..Len(e) => e[2].starts)
<1> DEFINE n == Len(e)
<1>1. n \in Nat /\ DOMAIN e = 1..n
  BY LenProperties
<1>2. ApplicableAt(e, args) = 1..n
  BY <1>1 DEF EntrySorted, ApplicableAt
<1>3. c \in 1..n
  BY <1>2 DEF Candidates
<1>4. 1 \in 1..n /\ \A k \in 1..n : 1 <= k
  BY <1>1, <1>3
<1>5. ASSUME NEW j \in 1..n, SameGroup(e, 1, j) PROVE j = c
  BY <1>2, <1>4, <1>5 DEF Candidates
<1>6. 1 = c
  <2>1. SameGroup(e, 1, 1)
    BY DEF SameGroup
  <2> QED BY <1>4, <1>5, <2>1
<1>7. ASSUME 2 \in 1..n PROVE e[2].starts
  <2>1. ~SameGroup(e, 1, 2)
    BY <1>5, <1>6, <1>7
  <2>2. PICK k \in (1+1)..2 : e[k].starts
    BY <2>1 DEF SameGroup
  <2>3. k = 2
    BY <2>2
  <2> QED BY <2>2, <2>3
<1> QED BY <1>4, <1>6, <1>7

\* The methods after it are those of the groups up to the first of several methods: each is
\* the only one of its group.
LEMMA RestFalls ==
  ASSUME AgreedOrder, TypeOK, NEW e \in Seq(CacheElement), NEW args \in Args,
         EntrySorted(e, ClassVector(args)),
         1 \in 1..Len(e), 2 \in 1..Len(e) => e[2].starts
  PROVE  ChainGood(MethodAt(e, 1), RestMethods(e, 1), args)
<1> DEFINE n     == Len(e)
           later == {i \in (1+1)..n : e[i].starts}
           multi == {i \in later : i < n /\ ~e[i+1].starts}
           least == CHOOSE i \in multi : \A j \in multi : i <= j
           from  == IF later = {} THEN n + 1
                    ELSE CHOOSE i \in later : \A j \in later : i <= j
           upto  == IF multi = {} THEN n ELSE least - 1
<1>1. n \in Nat /\ DOMAIN e = 1..n
  BY LenProperties
<1>2. \A i \in 1..n : MethodAt(e, i) \in Method /\ e[i].starts \in BOOLEAN
  <2>1. \A i \in 1..n : e[i] \in CacheElement
    BY ElementOfSeq
  <2> QED BY <2>1 DEF MethodAt, CacheElement, TypeOK
<1>3. \A i \in 1..n : i \in later <=> i # 1 /\ e[i].starts
  BY <1>1
<1>4. from = 2
  <2>1. CASE n = 1
    <3>1. later = {}
      BY <2>1
    <3> QED BY <2>1, <3>1
  <2>2. CASE n # 1
    <3>1. 2 \in 1..n
      BY <1>1, <2>2
    <3>2. 2 \in later /\ later \subseteq 2..n
      BY <1>1, <3>1
    <3>3. from \in later /\ \A k \in later : from <= k
      <4>1. from = CHOOSE i \in later : \A j \in later : i <= j
        BY <3>2
      <4>2. later \subseteq Nat /\ later # {}
        BY <1>1, <3>2
      <4> HIDE DEF later, from
      <4> QED BY <4>1, <4>2, LeastChosen
    <3> HIDE DEF later, from
    <3> QED BY <1>1, <3>2, <3>3
  <2> QED BY <2>1, <2>2
<1>5. upto \in 1..n /\ \A i \in 2..upto : i \notin multi
  <2>1. CASE multi = {}
    BY <1>1, <2>1
  <2>2. CASE multi # {}
    <3>1. multi \subseteq 2..n
      BY <1>1
    <3>2. least \in multi /\ \A k \in multi : least <= k
      <4>1. multi \subseteq Nat
        BY <1>1, <3>1
      <4> HIDE DEF multi
      <4> QED BY <2>2, <4>1, LeastChosen
    <3>3. upto = least - 1
      BY <2>2
    <3> HIDE DEF upto, least, multi
    <3> QED BY <1>1, <3>1, <3>2, <3>3
  <2> QED BY <2>1, <2>2
<1>6. RestMethods(e, 1) = [i \in 1..(upto - from + 1) |-> MethodAt(e, from + i - 1)]
  BY DEF RestMethods, from, upto, least
<1> DEFINE rest == RestMethods(e, 1)
           len  == upto - 1
<1>7. upto \in Nat /\ len \in Nat /\ upto - from + 1 = len
  <2> HIDE DEF upto, from
  <2> QED BY <1>1, <1>4, <1>5
<1>8. rest = [i \in 1..len |-> MethodAt(e, i + 1)]
  <2>1. \A i \in 1..len : from + i - 1 = i + 1
    <3> HIDE DEF upto, from
    <3> QED BY <1>4, <1>7
  <2> HIDE DEF upto, from
  <2> QED BY <1>6, <1>7, <2>1
<1>9. rest \in Seq(Method) /\ Len(rest) = len /\ \A i \in 1..len : rest[i] = MethodAt(e, i + 1)
  <2>1. \A i \in 1..len : MethodAt(e, i + 1) \in Method
    <3> HIDE DEF upto
    <3> QED BY <1>1, <1>2, <1>5, <1>7
  <2> HIDE DEF rest, len
  <2>2. rest \in [1..len -> Method]
    BY <1>8, <2>1
  <2>3. rest \in Seq(Method)
    BY <1>7, <2>2, SeqDef
  <2>4. Len(rest) = len
    BY <1>7, <1>8
  <2> QED BY <1>8, <2>3, <2>4
<1>10. ASSUME NEW i \in 2..upto PROVE e[i].starts
  <2> DEFINE f == [k \in 2..n |-> e[k].starts]
  <2>1. 2 \in 1..n /\ e[2].starts /\ \A k \in 2..n : f[k] = e[k].starts
    <3> HIDE DEF upto
    <3> QED BY <1>1, <1>5, <1>7
  <2>2. ASSUME NEW k \in (2+1)..upto, f[k-1] \in {TRUE} PROVE f[k] \in {TRUE}
    <3>1. k - 1 \in 2..upto /\ k - 1 < n /\ k \in 2..n /\ k - 1 \in 2..n /\ k \in 1..n /\ k - 1 \in 1..n
          /\ (k - 1) + 1 = k
      <4> HIDE DEF upto
      <4> QED BY <1>1, <1>5, <1>7
    <3>2. k - 1 \in later
      <4>1. e[k-1].starts = TRUE
        <5> HIDE DEF f, upto
        <5> QED BY <2>1, <2>2, <3>1
      <4>2. k - 1 # 1
        <5> HIDE DEF upto
        <5> QED BY <3>1
      <4> QED BY <1>3, <3>1, <4>1, <4>2
    <3>3. k - 1 \notin multi
      <4> HIDE DEF upto, multi
      <4> QED BY <1>5, <3>1
    <3>4. e[k].starts
      BY <3>1, <3>2, <3>3
    <3> QED BY <2>1, <3>1, <3>4
  <2>3. \A k \in 2..upto : f[k] \in {TRUE}
    <3>1. 2 \in Nat /\ f[2] \in {TRUE}
      <4>1. 2 \in 2..n /\ e[2].starts = TRUE
        BY <1>1, <1>2, <2>1
      <4>2. f[2] = e[2].starts
        BY <4>1
      <4> QED BY <4>1, <4>2
    <3> HIDE DEF f, upto
    <3> QED BY <1>7, <2>2, <3>1, Onwards
  <2>4. i \in 2..n
    <3> HIDE DEF upto
    <3> QED BY <1>1, <1>5, <1>7
  <2> HIDE DEF f
  <2> QED BY <2>1, <2>3, <2>4
<1> HIDE DEF upto, rest
<1>11. ASSUME NEW i \in 2..upto PROVE Falls(MethodAt(e, i-1), MethodAt(e, i))
  <2>1. i \in 2..n /\ i \in 1..n /\ i - 1 \in 1..n
    BY <1>1, <1>5, <1>7
  <2>2. /\ applicable_method_p(MethodAt(e, i-1), args) /\ applicable_method_p(MethodAt(e, i), args)
        /\ specializer_compare(MethodAt(e, i-1), MethodAt(e, i), args) <= 0
        /\ specializer_compare(MethodAt(e, i-1), MethodAt(e, i), args) # 0
    BY <1>10, <2>1 DEF EntrySorted
  <2> QED BY <1>2, <2>1, <2>2, BothApply
<1>12. Descending(rest)
  <2> SUFFICES ASSUME NEW i \in 2..len PROVE Falls(rest[i-1], rest[i])
    BY <1>9 DEF Descending
  <2>1. i \in 1..len /\ i - 1 \in 1..len /\ i + 1 \in 2..upto /\ (i - 1) + 1 = i /\ (i + 1) - 1 = i
    BY <1>7
  <2>2. rest[i] = MethodAt(e, i + 1) /\ rest[i-1] = MethodAt(e, i)
    BY <1>9, <2>1
  <2>3. Falls(MethodAt(e, (i + 1) - 1), MethodAt(e, i + 1))
    BY <1>11, <2>1
  <2> QED BY <2>1, <2>2, <2>3
<1>13. ASSUME rest # <<>> PROVE Falls(MethodAt(e, 1), rest[1])
  <2>1. len # 0
    BY <1>9, <1>13
  <2>2. 1 \in 1..len /\ 2 \in 2..upto /\ 2 - 1 = 1 /\ 1 + 1 = 2
    BY <1>7, <2>1
  <2>3. rest[1] = MethodAt(e, 2)
    BY <1>9, <2>2
  <2>4. Falls(MethodAt(e, 2 - 1), MethodAt(e, 2))
    BY <1>11, <2>2
  <2> QED BY <2>2, <2>3, <2>4
<1> QED BY <1>9, <1>12, <1>13 DEF ChainGood, rest

\* A recalculated chain starts after the method itself in an unambiguous order.
LEMMA RecalcFalls ==
  ASSUME AgreedOrder, TypeOK, HandlesAlike,
         NEW g \in GF, NEW m \in Method, NEW args \in Args,
         NEW chain \in recalc_next_methods(g, m, args)
  PROVE  ChainGood(m, chain, args)
<1> DEFINE app == {p \in gfMethods[g] : applicable_method_p(p, args)}
           S   == app \cup {m}
<1>1. app \in SUBSET Method /\ S \in SUBSET Method
  BY DEF TypeOK
<1>2. CASE app = {}
  <2>1. chain = <<>> /\ Len(<<>>) = 0 /\ <<>> \in Seq(Method)
    BY <1>2 DEF recalc_next_methods
  <2> QED BY <2>1 DEF ChainGood, Descending
<1>3. CASE app # {}
  <2>1. PICK s \in sort_methods(S, args) : chain = After(Unambiguous(s, args), m)
    BY <1>3 DEF recalc_next_methods
  <2> DEFINE u    == Unambiguous(s, args)
             cuts == {i \in 1..(Len(s)-1) : specializer_compare(s[i], s[i+1], args) = 0}
             cut  == CHOOSE i \in cuts : \A j \in cuts : i <= j
  <2>2. /\ s \in Seq(S) /\ Len(s) \in Nat /\ DOMAIN s = 1..Len(s)
        /\ \A i, j \in DOMAIN s : i # j => s[i] # s[j]
    <3> HIDE DEF S
    <3> QED BY <1>1, <2>1, SortDistinct, LenProperties
  <2>3. \A i \in 2..Len(s) : specializer_compare(s[i-1], s[i], args) <= 0
    <3>1. DOMAIN s = 1..Cardinality(S) /\ \A i \in 2..Cardinality(S) :
                                            specializer_compare(s[i-1], s[i], args) <= 0
      BY <2>1 DEF sort_methods, Arrangements
    <3>2. Cardinality(S) \in Nat
      BY <1>1, MethodAssumption, FS_Subset, FS_CardinalityType
    <3>3. \A i, j \in Nat : 1..i = 1..j => i = j
      OBVIOUS
    <3> HIDE DEF S
    <3>4. Len(s) = Cardinality(S)
      BY <2>2, <3>1, <3>2, <3>3
    <3> QED BY <3>1, <3>4
  <2>4. /\ u \in Seq(S) /\ Len(u) \in Nat /\ Len(u) <= Len(s) /\ \A i \in 1..Len(u) : u[i] = s[i]
        /\ \A i \in 1..Len(u) : i \notin cuts \/ i = Len(u)
    <3>1. CASE cuts = {}
      <4>1. u = s
        BY <3>1 DEF Unambiguous
      <4> HIDE DEF S, u, cuts
      <4> QED BY <2>2, <3>1, <4>1
    <3>2. CASE cuts # {}
      <4>1. cuts \subseteq 1..(Len(s)-1) /\ Len(s) \in Nat
        BY <2>2
      <4>2. cut \in cuts /\ \A i \in cuts : cut <= i
        <5> HIDE DEF cuts
        <5>1. cuts \subseteq Nat
          BY <4>1
        <5> QED BY <3>2, <5>1, LeastChosen
      <4>3. u = SubSeq(s, 1, cut - 1)
        BY <3>2 DEF Unambiguous
      <4>4. cut - 1 \in 0..Len(s) /\ cut \in Nat
        <5> HIDE DEF cuts, cut
        <5> QED BY <4>1, <4>2
      <4> HIDE DEF cut, u, cuts, S
      <4>5. /\ u \in Seq(S) /\ Len(u) = cut - 1 /\ \A i \in 1..Len(u) : u[i] = s[i]
        BY <2>2, <4>3, <4>4, SubSeqProperties
      <4> QED BY <2>2, <4>2, <4>4, <4>5
    <3> QED BY <3>1, <3>2
  <2>5. ASSUME NEW i \in 2..Len(u)
        PROVE  /\ specializer_compare(u[i-1], u[i], args) <= 0
               /\ specializer_compare(u[i-1], u[i], args) # 0
    <3>1. i - 1 \in 1..Len(u) /\ i \in 1..Len(u) /\ i \in 2..Len(s) /\ i - 1 \in 1..(Len(s)-1)
          /\ (i - 1) + 1 = i /\ i - 1 # Len(u)
      <4> HIDE DEF u
      <4> QED BY <2>2, <2>4
    <3>2. u[i-1] = s[i-1] /\ u[i] = s[i] /\ i - 1 \notin cuts
      <4> HIDE DEF u, cuts
      <4> QED BY <2>4, <3>1
    <3>3. specializer_compare(s[i-1], s[i], args) # 0
      <4> HIDE DEF u
      <4> QED BY <3>1, <3>2
    <3> HIDE DEF u, cuts
    <3> QED BY <2>3, <3>1, <3>2, <3>3
  <2>6. \A i, j \in 1..Len(u) : i # j => u[i] # u[j]
    <3> HIDE DEF u, S, cuts
    <3>1. \A i \in 1..Len(u) : i \in 1..Len(s)
      BY <2>2, <2>4
    <3> QED BY <2>2, <2>4, <3>1
  <2>7. \A i \in 1..Len(u) : u[i] \in S
    <3> HIDE DEF u, S, cuts
    <3> QED BY <2>4, ElementOfSeq
  <2>8. chain = After(u, m)
    BY <2>1
  <2> HIDE DEF u, cuts, cut
  <2> DEFINE at   == {i \in DOMAIN u : u[i] = m}
             pos  == CHOOSE i \in at : TRUE
             tail == IF at = {} THEN <<>> ELSE SubSeq(u, pos + 1, Len(u))
  <2>9. After(u, m) = IF tail # <<>> /\ Head(tail) = hdlObj[methHandle[m]] THEN Tail(tail) ELSE tail
    BY DEF After
  <2>10. CASE at = {}
    <3>1. tail = <<>>
      BY <2>10
    <3> HIDE DEF tail
    <3>2. chain = <<>> /\ Len(<<>>) = 0 /\ <<>> \in Seq(Method)
      BY <2>8, <2>9, <3>1
    <3> QED BY <3>2 DEF ChainGood, Descending
  <2>11. CASE at # {}
    <3>1. pos \in 1..Len(u) /\ u[pos] = m
      <4>1. pos \in at
        BY <2>11
      <4>2. DOMAIN u = 1..Len(u)
        BY <2>4, LenProperties
      <4> HIDE DEF pos
      <4> QED BY <4>1, <4>2
    <3>2. tail = SubSeq(u, pos + 1, Len(u))
      BY <2>11
    <3> HIDE DEF pos, at, tail, S
    <3>3. /\ tail \in Seq(S) /\ Len(tail) = Len(u) - pos
          /\ \A i \in 1..Len(tail) : tail[i] = u[pos + i]
      <4>1. pos + 1 \in 1..(Len(u) + 1)
        BY <2>4, <3>1
      <4> QED BY <2>4, <3>1, <3>2, <4>1, SubSeqProperties
    <3>4. ASSUME NEW i \in 1..Len(tail)
          PROVE  /\ pos + i \in 2..Len(u) /\ pos + i \in 1..Len(u) /\ tail[i] = u[pos + i]
                 /\ tail[i] \in Method /\ applicable_method_p(tail[i], args)
      <4>1. pos + i \in 1..Len(u) /\ pos + i # pos /\ pos + i \in 2..Len(u)
        BY <2>4, <3>1, <3>3
      <4>2. u[pos + i] # m
        BY <2>6, <3>1, <4>1
      <4>3. tail[i] \in S /\ tail[i] # m /\ tail[i] = u[pos + i]
        BY <2>7, <3>3, <4>1, <4>2
      <4>4. tail[i] \in app
        BY <4>3 DEF S
      <4> QED BY <1>1, <4>1, <4>3, <4>4
    <3>5. ASSUME NEW i \in 2..Len(tail) PROVE Falls(tail[i-1], tail[i])
      <4>1. i \in 1..Len(tail) /\ i - 1 \in 1..Len(tail) /\ pos + (i - 1) = (pos + i) - 1
        BY <2>4, <3>1, <3>3
      <4>2. /\ specializer_compare(tail[i-1], tail[i], args) <= 0
            /\ specializer_compare(tail[i-1], tail[i], args) # 0
        BY <2>5, <3>4, <4>1
      <4> QED BY <3>4, <4>1, <4>2, BothApply
    <3>6. ASSUME tail # <<>>
          PROVE  /\ 1 \in 1..Len(tail)
                 /\ specializer_compare(m, tail[1], args) <= 0
                 /\ specializer_compare(m, tail[1], args) # 0
      <4>1. 1 \in 1..Len(tail) /\ (pos + 1) - 1 = pos
        BY <2>4, <3>1, <3>3, <3>6
      <4> QED BY <2>5, <3>1, <3>4, <4>1
    <3>7. ASSUME tail # <<>> PROVE Head(tail) # hdlObj[methHandle[m]]
      <4>1. Head(tail) = tail[1] /\ tail[1] \in Method
        BY <3>3, <3>4, <3>6, <3>7, HeadTailProperties
      <4> SUFFICES ASSUME tail[1] = hdlObj[methHandle[m]] PROVE FALSE
        BY <4>1
      <4>2. Twins(m, tail[1])
        BY DEF HandlesAlike, Twins
      <4>3. specializer_compare(m, tail[1], args) = 0
        BY <4>1, <4>2, CompareSelf
      <4> QED BY <3>6, <3>7, <4>3
    <3>8. chain = tail
      BY <2>8, <2>9, <3>7
    <3>9. tail \in Seq(Method)
      BY <1>1, <3>3, SeqMonotonic
    <3>10. ASSUME tail # <<>>, applicable_method_p(m, args) PROVE Falls(m, tail[1])
      <4>1. tail[1] \in Method /\ applicable_method_p(tail[1], args)
        BY <3>4, <3>6, <3>10
      <4> QED BY <3>6, <3>10, <4>1, BothApply
    <3> QED BY <3>5, <3>8, <3>9, <3>10 DEF ChainGood, Descending
  <2> QED BY <2>10, <2>11
<1> QED BY <1>2, <1>3

\* Applying a method with a good chain.
LEMMA ApplyFalls ==
  ASSUME ListInv, ObjectsFall, StackFalls,
         NEW base \in Bases, NEW g \in GF, NEW m \in Method, NEW args \in Args,
         NEW chain, ChainGood(m, chain, args), PushNextMethod(g, chain, args),
         stack' = IF applicable_method_p(m, args)
                  THEN Append(base, [gf |-> g, meth |-> m, args |-> args, tail |-> FALSE,
                                     nm |-> IF chain = <<>> THEN 0 ELSE Len(nms) + 1])
                  ELSE <<>>
  PROVE  ObjectsFall' /\ StackFalls'
<1>1. /\ nms \in Seq(NextMethod) /\ Len(nms) \in Nat /\ Len(nms) <= MaxNM
      /\ base \in Seq(Activation) /\ Len(base) \in Nat /\ Len(stack) \in Nat /\ Len(base) <= Len(stack)
      /\ \A i \in 1..Len(base) : base[i] = stack[i] /\ i \in 1..Len(stack)
      /\ \A i \in 1..Len(stack) : stack[i].nm \in Nat /\ stack[i].nm <= Len(nms)
  <2>1. TypeOK /\ NMKnown
    BY DEF ListInv
  <2>2. /\ base \in Seq(Activation) /\ Len(base) <= Len(stack)
        /\ \A i \in 1..Len(base) : base[i] = stack[i]
    BY <2>1, BasesType
  <2>3. \A i \in 1..Len(stack) : stack[i] \in Activation
    BY <2>1 DEF TypeOK
  <2>4. \A i \in 1..Len(stack) : stack[i].nm \in Nat
    BY <2>3, BoundsAssumption DEF Activation
  <2> QED BY <2>1, <2>2, <2>4 DEF TypeOK, NMKnown
<1>2. chain \in Seq(Method) /\ Descending(chain)
      /\ (chain # <<>> /\ applicable_method_p(m, args) => Falls(m, chain[1]))
  BY DEF ChainGood
<1>3. /\ Len(nms') \in Nat /\ Len(nms) <= Len(nms')
      /\ \A n \in 1..Len(nms) : nms'[n] = nms[n]
      /\ \A n \in 1..Len(nms') : n \in 1..Len(nms) \/ ChainFalls(nms'[n].meth, nms'[n].rest)
      /\ chain # <<>> => nms'[Len(nms) + 1].meth = chain[1]
  <2>1. CASE chain = <<>>
    BY <1>1, <2>1 DEF PushNextMethod
  <2>2. CASE chain # <<>>
    <3> DEFINE o == [gf |-> g, meth |-> Head(chain), rest |-> Tail(chain),
                     valid |-> TRUE, args |-> args]
    <3>1. /\ Head(chain) = chain[1] /\ Head(chain) \in Method /\ Tail(chain) \in Seq(Method)
          /\ Len(Tail(chain)) = Len(chain) - 1 /\ Len(chain) \in Nat
          /\ \A i \in 1..Len(Tail(chain)) : Tail(chain)[i] = chain[i+1]
      BY <1>2, <2>2, HeadTailProperties, LenProperties
    <3>2. o \in NextMethod /\ o.meth = chain[1] /\ o.rest = Tail(chain)
      BY <3>1 DEF NextMethod
    <3>3. nms' = Append(nms, o)
      BY <2>2 DEF PushNextMethod
    <3>4. ChainFalls(o.meth, o.rest)
      <4> SUFFICES ASSUME NEW i \in 1..Len(Tail(chain))
                   PROVE  Falls(IF i = 1 THEN chain[1] ELSE Tail(chain)[i-1], Tail(chain)[i])
        BY <3>2 DEF ChainFalls
      <4>1. i + 1 \in 2..Len(chain) /\ (i + 1) - 1 = i
        BY <3>1
      <4>2. Falls(chain[i], chain[i+1])
        BY <1>2, <4>1 DEF Descending
      <4>3. i # 1 => i - 1 \in 1..Len(Tail(chain)) /\ (i - 1) + 1 = i
        BY <3>1
      <4>4. (IF i = 1 THEN chain[1] ELSE Tail(chain)[i-1]) = chain[i]
        BY <3>1, <4>3
      <4> QED BY <3>1, <4>2, <4>4
    <3> HIDE DEF o
    <3>5. /\ Len(nms') = Len(nms) + 1 /\ nms'[Len(nms) + 1] = o
          /\ \A n \in 1..Len(nms) : nms'[n] = nms[n]
      BY <1>1, <3>2, <3>3, AppendProperties
    <3>6. \A n \in 1..Len(nms') : n \in 1..Len(nms) \/ n = Len(nms) + 1
      BY <1>1, <3>5
    <3>7. ASSUME NEW n \in 1..Len(nms'), n \notin 1..Len(nms)
          PROVE  ChainFalls(nms'[n].meth, nms'[n].rest)
      <4>1. nms'[n] = o
        BY <3>5, <3>6, <3>7
      <4> QED BY <3>4, <4>1
    <3>8. Len(nms') \in Nat /\ Len(nms) <= Len(nms')
      BY <1>1, <3>5
    <3> QED BY <3>2, <3>5, <3>7, <3>8
  <2> QED BY <2>1, <2>2
<1>4. ObjectsFall'
  <2>1. \A n \in 1..Len(nms') : ChainFalls(nms'[n].meth, nms'[n].rest)
    BY <1>3 DEF ObjectsFall
  <2> QED BY <2>1 DEF ObjectsFall, ChainFalls, Falls
<1>5. CASE ~applicable_method_p(m, args)
  <2>1. Len(stack') = 0
    BY <1>5
  <2> QED BY <1>4, <2>1 DEF StackFalls
<1>6. CASE applicable_method_p(m, args)
  <2> DEFINE num == IF chain = <<>> THEN 0 ELSE Len(nms) + 1
             a   == [gf |-> g, meth |-> m, args |-> args, tail |-> FALSE, nm |-> num]
  <2>1. stack' = Append(base, a)
    BY <1>6
  <2>2. num \in 0..MaxNM
    <3>1. chain # <<>> => Len(nms) < MaxNM
      BY DEF PushNextMethod
    <3> QED BY <1>1, <3>1, BoundsAssumption
  <2> HIDE DEF num
  <2>3. a \in Activation /\ a.meth = m /\ a.nm = num
    BY <2>2 DEF Activation
  <2> HIDE DEF a
  <2>4. /\ Len(stack') = Len(base) + 1 /\ stack'[Len(base) + 1] = a
        /\ \A i \in 1..Len(base) : stack'[i] = base[i]
    BY <1>1, <2>1, <2>3, AppendProperties
  <2>5. ASSUME NEW j \in 1..Len(stack'), stack'[j].nm # 0
        PROVE  Falls(stack'[j].meth, nms'[stack'[j].nm].meth)
    <3>1. j \in 1..Len(base) \/ j = Len(base) + 1
      BY <1>1, <2>4
    <3>2. CASE j \in 1..Len(base)
      <4>1. stack'[j] = stack[j] /\ j \in 1..Len(stack)
        BY <1>1, <2>4, <3>2
      <4>2. stack[j].nm \in 1..Len(nms)
        <5>1. stack[j].nm # 0
          BY <2>5, <4>1
        <5>2. stack[j].nm \in Nat /\ stack[j].nm <= Len(nms)
          BY <1>1, <4>1
        <5> QED BY <1>1, <5>1, <5>2
      <4>3. Falls(stack[j].meth, nms[stack[j].nm].meth)
        BY <2>5, <4>1 DEF StackFalls
      <4> QED BY <1>3, <4>1, <4>2, <4>3
    <3>3. CASE j = Len(base) + 1
      <4>1. stack'[j].meth = m /\ stack'[j].nm = num
        BY <2>3, <2>4, <3>3
      <4>2. chain # <<>> /\ num = Len(nms) + 1
        BY <2>5, <4>1 DEF num
      <4> QED BY <1>2, <1>3, <1>6, <4>1, <4>2
    <3> QED BY <3>1, <3>2, <3>3
  <2> QED BY <1>4, <2>5 DEF StackFalls, Falls
<1> QED BY <1>5, <1>6

LEMMA CallFalls ==
  ASSUME ListInv, ObjectsFall, StackFalls,
         NEW base \in Bases, NEW g \in GF, NEW m \in Method, NEW args \in Args,
         NEW rest, NEW valid \in BOOLEAN, apply_method(base, g, m, args, rest, valid),
         \A chain \in (IF valid THEN {rest} ELSE recalc_next_methods(g, m, args)) :
           ChainGood(m, chain, args)
  PROVE  ObjectsFall' /\ StackFalls'
<1>1. PICK chain \in (IF valid THEN {rest} ELSE recalc_next_methods(g, m, args)) :
        /\ PushNextMethod(g, chain, args)
        /\ stack' = IF applicable_method_p(m, args)
                    THEN Append(base, [gf |-> g, meth |-> m, args |-> args, tail |-> FALSE,
                                       nm |-> IF chain = <<>> THEN 0 ELSE Len(nms) + 1])
                    ELSE <<>>
  BY DEF apply_method
<1>2. ChainGood(m, chain, args)
  BY <1>1
<1> QED BY <1>1, <1>2, ApplyFalls

\* Activations that stay, and objects that keep their method and lose their chain at most.
LEMMA FallsKept ==
  ASSUME ListInv, ObjectsFall, StackFalls,
         Len(nms') = Len(nms),
         \A n \in 1..Len(nms) : /\ nms'[n].meth = nms[n].meth
                                /\ nms'[n].rest \in {nms[n].rest, <<>>},
         Len(stack') <= Len(stack), Len(stack') \in Nat,
         \A i \in 1..Len(stack') : /\ stack'[i].meth = stack[i].meth
                                   /\ stack'[i].nm = stack[i].nm
  PROVE  ObjectsFall' /\ StackFalls'
<1>1. Len(nms) \in Nat /\ Len(stack) \in Nat
      /\ \A i \in 1..Len(stack) : stack[i].nm \in Nat /\ stack[i].nm <= Len(nms)
  <2>1. TypeOK /\ NMKnown
    BY DEF ListInv
  <2>2. \A i \in 1..Len(stack) : stack[i] \in Activation
    BY <2>1 DEF TypeOK
  <2>3. \A i \in 1..Len(stack) : stack[i].nm \in Nat
    BY <2>2, BoundsAssumption DEF Activation
  <2> QED BY <2>1, <2>3 DEF TypeOK, NMKnown
<1>2. ASSUME NEW n \in 1..Len(nms') PROVE ChainFalls(nms'[n].meth, nms'[n].rest)
  <2>1. n \in 1..Len(nms) /\ ChainFalls(nms[n].meth, nms[n].rest)
    BY DEF ObjectsFall
  <2>2. CASE nms'[n].rest = nms[n].rest
    BY <2>1, <2>2
  <2>3. CASE nms'[n].rest = <<>>
    <3>1. Len(nms'[n].rest) = 0
      BY <2>3
    <3> QED BY <3>1 DEF ChainFalls
  <2> QED BY <2>1, <2>2, <2>3
<1>3. ASSUME NEW j \in 1..Len(stack'), stack'[j].nm # 0
      PROVE  Falls(stack'[j].meth, nms'[stack'[j].nm].meth)
  <2>1. j \in 1..Len(stack)
    BY <1>1
  <2>2. stack[j].nm \in 1..Len(nms)
    <3>1. stack[j].nm \in Nat /\ stack[j].nm <= Len(nms) /\ stack[j].nm # 0
      BY <1>1, <1>3, <2>1
    <3> QED BY <1>1, <3>1
  <2>3. Falls(stack[j].meth, nms[stack[j].nm].meth)
    BY <1>3, <2>1 DEF StackFalls
  <2>4. nms'[stack[j].nm].meth = nms[stack[j].nm].meth
    BY <2>2
  <2> QED BY <2>3, <2>4
<1>4. ObjectsFall'
  BY <1>2 DEF ObjectsFall, ChainFalls, Falls
<1>5. StackFalls'
  BY <1>3 DEF StackFalls, Falls
<1> QED BY <1>4, <1>5

LEMMA DescendStep ==
  ASSUME ClassesOnly, AgreedOrder
  PROVE  DescendInv /\ [Next]_vars => DescendInv'
<1> SUFFICES ASSUME DescendInv, [Next]_vars PROVE DescendInv'
  OBVIOUS
<1>1. OrderInv'
  BY OrderStep DEF DescendInv
<1>2. /\ OrderInv /\ ListInv /\ TypeOK /\ HandlesAlike /\ ObjectsFall /\ StackFalls
      /\ nms \in Seq(NextMethod) /\ Len(nms) \in Nat /\ stack \in Seq(Activation) /\ Len(stack) \in Nat
  BY DEF DescendInv, OrderInv, ListInv, TypeOK
<1>3. SUFFICES ObjectsFall' /\ StackFalls'
  BY <1>1 DEF DescendInv
<1>4. CASE UNCHANGED <<nms, stack>>
  BY <1>2, <1>4 DEF ObjectsFall, StackFalls, ChainFalls, Falls
<1>5. ASSUME nms' = nms, NEW k \in 0..Len(stack), stack' = SubSeq(stack, 1, k)
      PROVE  ObjectsFall' /\ StackFalls'
  <2>1. Len(stack') = k /\ \A i \in 1..k : stack'[i] = stack[i]
    BY <1>2, <1>5, SubSeqProperties
  <2> QED BY <1>2, <1>5, <2>1, FallsKept
<1>6. ASSUME NEW g \in GF, NEW m \in Method, add_method(g, m) PROVE ObjectsFall' /\ StackFalls'
  <2>1. nms' = Invalidated(activeNM[g])
    BY <1>6 DEF add_method
  <2>2. /\ Len(nms') = Len(nms)
        /\ \A n \in 1..Len(nms) : /\ nms'[n].meth = nms[n].meth
                                  /\ nms'[n].rest \in {nms[n].rest, <<>>}
    <3>1. DOMAIN nms = 1..Len(nms) /\ \A n \in 1..Len(nms) : nms[n] \in NextMethod
      BY <1>2, ElementOfSeq, LenProperties
    <3>2. nms' = [n \in 1..Len(nms) |->
                    IF n \in activeNM[g] THEN [nms[n] EXCEPT !.rest = <<>>, !.valid = FALSE]
                    ELSE nms[n]]
      BY <2>1, <3>1 DEF Invalidated
    <3>3. Len(nms') = Len(nms)
      BY <1>2, <2>1, InvalidatedType DEF TypeOK
    <3> QED BY <3>1, <3>2, <3>3 DEF NextMethod
  <2>3. CASE UNCHANGED stack
    BY <1>2, <2>2, <2>3, FallsKept
  <2>4. CASE stack' = <<>>
    <3>1. Len(stack') = 0
      BY <2>4
    <3> QED BY <1>2, <2>2, <3>1, FallsKept
  <2> QED BY <1>6, <2>3, <2>4 DEF add_method
<1>7. ASSUME NEW g \in GF, NEW args \in Args, ApplyGeneric(g, args) PROVE ObjectsFall' /\ StackFalls'
  <2>1. PICK e \in (IF gfCache[g][ClassVector(args)] # NoEntry
                    THEN {gfCache[g][ClassVector(args)]} ELSE NewEntries(g, args)) :
          \/ \E c \in Candidates(e, args), base \in Bases :
               /\ Candidates(e, args) = {c}
               /\ apply_method(base, g, MethodAt(e, c), args, RestMethods(e, c), TRUE)
          \/ ErrorExit
    BY <1>7 DEF ApplyGeneric
  <2>2. e \in Seq(CacheElement) /\ EntrySorted(e, ClassVector(args))
    BY <1>2, EntryOfCall
  <2>3. CASE ErrorExit
    <3>1. nms' = nms /\ Len(stack') = 0
      BY <2>3 DEF ErrorExit
    <3> QED BY <1>2, <3>1, FallsKept
  <2>4. ASSUME NEW c \in Candidates(e, args), NEW base \in Bases, Candidates(e, args) = {c},
               apply_method(base, g, MethodAt(e, c), args, RestMethods(e, c), TRUE)
        PROVE  ObjectsFall' /\ StackFalls'
    <3>1. c = 1 /\ 1 \in 1..Len(e) /\ (2 \in 1..Len(e) => e[2].starts)
      BY <2>2, <2>4, FirstGroup
    <3>2. MethodAt(e, 1) \in Method
      <4>1. e[1] \in CacheElement
        BY <2>2, <3>1, ElementOfSeq
      <4> QED BY <1>2, <4>1 DEF MethodAt, CacheElement, TypeOK
    <3>3. ChainGood(MethodAt(e, 1), RestMethods(e, 1), args)
      BY <1>2, <2>2, <3>1, RestFalls
    <3>4. apply_method(base, g, MethodAt(e, 1), args, RestMethods(e, 1), TRUE)
      BY <2>4, <3>1
    <3>5. \A chain \in (IF TRUE THEN {RestMethods(e, 1)}
                        ELSE recalc_next_methods(g, MethodAt(e, 1), args)) :
            ChainGood(MethodAt(e, 1), chain, args)
      BY <3>3
    <3> QED BY <1>2, <3>2, <3>4, <3>5, CallFalls
  <2> QED BY <2>1, <2>3, <2>4
<1>8. ASSUME NEW n \in 1..Len(nms), NEW args \in Args, ApplyNextMethod(n, args)
      PROVE  ObjectsFall' /\ StackFalls'
  <2> DEFINE g == nms[n].gf
             m == nms[n].meth
  <2>1. PICK base \in Bases : apply_method(base, g, m, args, nms[n].rest, nms[n].valid)
    BY <1>8 DEF ApplyNextMethod
  <2>2. g \in GF /\ m \in Method /\ nms[n].rest \in Seq(Method) /\ nms[n].valid \in BOOLEAN
    <3>1. nms[n] \in NextMethod
      BY <1>2, ElementOfSeq
    <3> QED BY <3>1 DEF NextMethod
  <2>3. ChainGood(m, nms[n].rest, args)
    <3> DEFINE rest == nms[n].rest
    <3>1. ChainFalls(m, rest)
      BY <1>2 DEF ObjectsFall
    <3> HIDE DEF m, rest
    <3>2. Len(rest) \in Nat
      BY <2>2, LenProperties DEF rest
    <3>3. Descending(rest)
      <4> SUFFICES ASSUME NEW i \in 2..Len(rest) PROVE Falls(rest[i-1], rest[i])
        BY DEF Descending
      <4>1. i \in 1..Len(rest) /\ i # 1
        BY <3>2
      <4> QED BY <3>1, <4>1 DEF ChainFalls
    <3>4. rest # <<>> => Falls(m, rest[1])
      <4> SUFFICES ASSUME rest # <<>> PROVE Falls(m, rest[1])
        OBVIOUS
      <4>1. 1 \in 1..Len(rest)
        <5>1. Len(rest) # 0
          BY <2>2 DEF rest
        <5> QED BY <3>2, <5>1
      <4> QED BY <3>1, <4>1 DEF ChainFalls
    <3> QED BY <2>2, <3>3, <3>4 DEF ChainGood, rest
  <2>4. \A chain \in recalc_next_methods(g, m, args) : ChainGood(m, chain, args)
    BY <1>2, <2>2, RecalcFalls
  <2> HIDE DEF g, m
  <2>5. \A chain \in (IF nms[n].valid THEN {nms[n].rest} ELSE recalc_next_methods(g, m, args)) :
          ChainGood(m, chain, args)
    BY <2>3, <2>4
  <2> QED BY <1>2, <2>1, <2>2, <2>5, CallFalls
<1>9. ASSUME Return \/ TailDone \/ Unwind PROVE ObjectsFall' /\ StackFalls'
  <2>1. nms' = nms /\ \E k \in 0..Len(stack) : stack' = SubSeq(stack, 1, k)
    <3>1. stack # <<>> => Len(stack) - 1 \in 0..Len(stack)
      BY <1>2
    <3>2. \A k \in 0..(Len(stack)-1) : k \in 0..Len(stack)
      BY <1>2
    <3> QED BY <1>9, <3>1, <3>2 DEF Return, TailDone, Unwind
  <2> QED BY <1>5, <2>1
<1>10. ASSUME TailEval PROVE ObjectsFall' /\ StackFalls'
  <2>1. stack # <<>> /\ stack' = [stack EXCEPT ![Len(stack)].tail = TRUE] /\ nms' = nms
    BY <1>10 DEF TailEval
  <2>2. Len(stack') = Len(stack)
        /\ \A i \in 1..Len(stack) : stack'[i].meth = stack[i].meth /\ stack'[i].nm = stack[i].nm
    <3>1. \A i \in 1..Len(stack) : stack[i] \in Activation
      BY <1>2, ElementOfSeq
    <3>2. DOMAIN stack = 1..Len(stack)
      BY <1>2, LenProperties
    <3>3. \A i \in 1..Len(stack) : stack'[i] = IF i = Len(stack) THEN [stack[i] EXCEPT !.tail = TRUE]
                                               ELSE stack[i]
      BY <1>2, <2>1, <3>2
    <3>4. Len(stack') = Len(stack)
      BY <1>2, <2>1
    <3> QED BY <3>1, <3>3, <3>4 DEF Activation
  <2> QED BY <1>2, <2>1, <2>2, FallsKept
<1>11. CASE UNCHANGED vars
  BY <1>4, <1>11 DEF vars
<1>12. \A n \in LiveNM : n \in 1..Len(nms)
  BY <1>2, LiveKnown DEF ListInv
<1>13. DOMAIN nms = 1..Len(nms)
  BY <1>2, LenProperties
<1>14. CASE Calls
  BY <1>7, <1>8, <1>9, <1>10, <1>12, <1>14 DEF Calls
<1> QED BY <1>4, <1>6, <1>8, <1>11, <1>13, <1>14
        DEF Next, NextDefine, DefineMethod, MakeMethod, AddMethod, RemoveMethod

\* next-method goes down, for the arguments it was made for, whatever is defined, replaced,
\* removed and called, in any program whose methods are specialized on classes and agree on
\* which of them comes first (apply.c:575-602, 184-186; function.c:932-980).
THEOREM ChainsDescend ==
  ASSUME ClassesOnly, AgreedOrder
  PROVE  Spec => []NextMethodDescends
<1>1. Init => DescendInv
  <2>1. Init => ObjectsFall /\ StackFalls
    BY DEF Init, ObjectsFall, StackFalls
  <2> QED BY <2>1, OrderInit DEF DescendInv
<1>2. DescendInv /\ [Next]_vars => DescendInv'
  BY DescendStep
<1>3. DescendInv => NextMethodDescends
  <2> SUFFICES ASSUME DescendInv PROVE NextMethodDescends
    OBVIOUS
  <2>1. TypeOK /\ ObjectsFall /\ StackFalls
    BY DEF DescendInv, OrderInv, ListInv
  <2>2. ASSUME NEW j \in DOMAIN stack, stack[j].nm # 0
        PROVE  specializer_compare(stack[j].meth, nms[stack[j].nm].meth, stack[j].args) < 0
    <3>1. j \in 1..Len(stack) /\ stack[j].args \in Args
      <4>1. j \in 1..Len(stack) /\ stack[j] \in Activation
        BY <2>1, ElementOfSeq, LenProperties DEF TypeOK
      <4> QED BY <4>1 DEF Activation
    <3> QED BY <2>1, <2>2, <3>1 DEF StackFalls, Falls
  <2>3. ASSUME NEW n \in DOMAIN nms, NEW i \in DOMAIN nms[n].rest
        PROVE  specializer_compare(IF i = 1 THEN nms[n].meth ELSE nms[n].rest[i-1],
                                   nms[n].rest[i], nms[n].args) < 0
    <3>1. n \in 1..Len(nms) /\ nms[n].args \in Args /\ i \in 1..Len(nms[n].rest)
      <4>1. n \in 1..Len(nms) /\ nms[n] \in NextMethod
        BY <2>1, ElementOfSeq, LenProperties DEF TypeOK
      <4> QED BY <4>1, LenProperties DEF NextMethod
    <3> QED BY <2>1, <3>1 DEF ObjectsFall, ChainFalls, Falls
  <2> QED BY <2>2, <2>3 DEF NextMethodDescends
<1> QED BY <1>1, <1>2, <1>3, PTL DEF Spec

\* So it is where any two classes above one class are one above the other.
COROLLARY SingleChainsDescend ==
  ASSUME ClassesOnly, ClassesOrdered, SingleInheritance
  PROVE  Spec => []NextMethodDescends
BY SingleAgreed, ChainsDescend
=============================================================================
