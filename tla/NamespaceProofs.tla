-------------------------- MODULE NamespaceProofs --------------------------
(***************************************************************************)
(* Proofs about Namespace, for any modules, names and forms: what is not   *)
(* exported stays hidden, a constant exported again stays a constant, and  *)
(* methods of generic functions that meet under one name are merged.       *)
(***************************************************************************)
EXTENDS Namespace, NatFacts, SequenceTheorems

----------------------------------------------------------------------------
(* The invariant.                                                          *)

\* Cells belong to modules that are there, and hold generic functions that are there.
Numbered ==
  \A c \in 1..Len(cells) : cells[c].home <= Len(mods) /\ cells[c].gf <= Len(gfs)

\* A binding of module i under name n: the cells made in i are bound under their own names
\* there; those made elsewhere were exported, and constants are known to be constants.
PlacedAt(b, i, n, ms, cs) ==
  /\ b.cell \in 1..Len(cs)
  /\ cs[b.cell].home = i => cs[b.cell].name = n
  /\ cs[b.cell].home # i => cs[b.cell].name \in ms[cs[b.cell].home].exports
  /\ b.exported /\ cs[b.cell].const => b.const

Placed ==
  \A i \in 1..Len(mods), n \in Name : \A k \in 1..Len(mods[i].space[n]) :
    PlacedAt(mods[i].space[n][k], i, n, mods, cells)

IInv == TypeOK /\ Numbered /\ Placed

LEMMA IsSequence ==
  ASSUME NEW S, NEW n \in Nat, NEW f \in [1..n -> S]
  PROVE  f \in Seq(S) /\ Len(f) = n
<1>1. f \in Seq(S)
  BY SeqDef
<1>2. DOMAIN f = 1..n /\ DOMAIN f = 1..Len(f) /\ Len(f) \in Nat
  BY <1>1, LenProperties
<1> QED BY <1>1, <1>2

LEMMA Records ==
  ASSUME TypeOK
  PROVE  /\ Len(mods) \in Nat /\ DOMAIN mods = 1..Len(mods)
         /\ Len(cells) \in Nat /\ DOMAIN cells = 1..Len(cells)
         /\ Len(gfs) \in Nat /\ DOMAIN gfs = 1..Len(gfs)
         /\ \A i \in 1..Len(mods) : mods[i] \in ModuleRecord
         /\ \A c \in 1..Len(cells) : cells[c] \in Cell
         /\ \A g \in 1..Len(gfs) : gfs[g] \in SUBSET Method
         /\ here \in 1..Len(mods) /\ current \in 1..Len(mods) /\ prompt \in 1..Len(mods)
BY LenProperties, ElementOfSeq DEF TypeOK

LEMMA Chains ==
  ASSUME TypeOK, NEW i \in 1..Len(mods), NEW n \in Name
  PROVE  /\ mods[i].exports \in SUBSET Name
         /\ mods[i].space \in [Name -> Seq(Binding)]
         /\ mods[i].space[n] \in Seq(Binding)
         /\ Len(mods[i].space[n]) \in Nat /\ DOMAIN mods[i].space[n] = 1..Len(mods[i].space[n])
         /\ \A k \in 1..Len(mods[i].space[n]) : mods[i].space[n][k] \in Binding
<1>1. mods[i] \in ModuleRecord
  BY Records
<1>2. mods[i].space[n] \in Seq(Binding)
  BY <1>1 DEF ModuleRecord
<1>3. /\ Len(mods[i].space[n]) \in Nat /\ DOMAIN mods[i].space[n] = 1..Len(mods[i].space[n])
      /\ \A k \in 1..Len(mods[i].space[n]) : mods[i].space[n][k] \in Binding
  BY <1>2, LenProperties, ElementOfSeq
<1> QED BY <1>1, <1>2, <1>3 DEF ModuleRecord

----------------------------------------------------------------------------
(* Chains that are imported.                                               *)

LEMMA ExportedType ==
  ASSUME NEW T, NEW chain \in Seq(T)
  PROVE  Exported(chain) \in Seq({b \in T : b.exported})
<1> DEFINE n == Len(chain)
           D == Seq({b \in T : b.exported})
           Next_(i, s) == IF chain[i].exported THEN Append(s, chain[i]) ELSE s
           step == [p \in (1..n) \X D |-> Next_(p[1], p[2])]
           Is(F) == F = [i \in 0..n |-> IF i = 0 THEN <<>> ELSE Next_(i, F[i-1])]
<1>1. n \in Nat /\ \A i \in 1..n : chain[i] \in T
  BY LenProperties, ElementOfSeq
<1>2. <<>> \in D
  BY EmptySeq
<1>3. ASSUME NEW i \in 1..n, NEW s \in D PROVE Next_(i, s) \in D
  BY <1>1, <1>3, AppendProperties
<1>4. step \in [(1..n) \X D -> D]
  <2>1. \A p \in (1..n) \X D : Next_(p[1], p[2]) \in D
    <3> HIDE DEF Next_, D
    <3> QED BY <1>3
  <2> HIDE DEF Next_, D
  <2> QED BY <2>1
<1>5. PICK f \in [0..n -> D] : f[0] = <<>> /\ \A i \in 1..n : f[i] = step[<<i, f[i-1]>>]
  <2>1. n \in Nat
    BY <1>1
  <2> HIDE DEF n, D, step
  <2>2. Iteration(n, D, <<>>, step) # {}
    BY <1>2, <1>4, <2>1, Iterates
  <2> QED BY <2>2 DEF Iteration
<1>6. Is(f)
  <2>1. ASSUME NEW i \in 0..n
        PROVE  f[i] = IF i = 0 THEN <<>> ELSE Next_(i, f[i-1])
    <3>1. CASE i = 0
      BY <1>5, <3>1
    <3>2. CASE i # 0
      <4>1. i \in 1..n /\ i - 1 \in 0..n
        BY <1>1, <3>2
      <4>2. f[i-1] \in D
        BY <1>5, <4>1
      <4>3. step[<<i, f[i-1]>>] = Next_(i, f[i-1])
        <5> HIDE DEF Next_, D
        <5> QED BY <4>1, <4>2
      <4> QED BY <1>5, <3>2, <4>1, <4>3
    <3> QED BY <3>1, <3>2
  <2> HIDE DEF Next_, D, n
  <2> QED BY <1>5, <2>1
<1> DEFINE F == CHOOSE F : Is(F)
<1>7. Is(F)
  <2> HIDE DEF Is
  <2> QED BY <1>6
<1>8. F[0] \in D /\ \A i \in 0+1..n : F[i-1] \in D => F[i] \in D
  <2> HIDE DEF F, D, Next_
  <2>1. F[0] = <<>>
    BY <1>1, <1>7
  <2>2. \A i \in 1..n : F[i] = Next_(i, F[i-1])
    BY <1>1, <1>7
  <2> QED BY <1>2, <1>3, <2>1, <2>2
<1>9. F[n] \in D
  <2> HIDE DEF F, D, n
  <2>1. \A i \in 0..n : F[i] \in D
    BY <1>1, <1>8, Onwards
  <2> QED BY <1>1, <2>1
<1>10. Exported(chain) = F[n]
  BY DEF Exported
<1> QED BY <1>9, <1>10

----------------------------------------------------------------------------
(* A module being defined.                                                 *)

\* The bindings it may get.
Imported ==
  {b \in Binding : /\ b.cell \in 1..Len(cells)
                   /\ cells[b.cell].name \in mods[cells[b.cell].home].exports
                   /\ b.exported /\ cells[b.cell].const => b.const}

Draft == [sym : Module, exports : SUBSET Name, space : [Name -> Seq(Imported)],
          gfs : [1..Len(gfs) -> SUBSET Method], failed : BOOLEAN]

\* What later names and clauses make of a draft: no name is bound again, and no method lost.
Later(d) ==
  {e \in Draft : /\ \A x \in Name : d.space[x] # <<>> => e.space[x] = d.space[x]
                 /\ \A g \in 1..Len(gfs) : d.gfs[g] \subseteq e.gfs[g]
                 /\ d.failed => e.failed
                 /\ e.sym = d.sym}

LEMMA DraftFields ==
  ASSUME NEW d \in Draft
  PROVE  /\ d.sym \in Module /\ d.exports \in SUBSET Name
         /\ d.space \in [Name -> Seq(Imported)] /\ d.gfs \in [1..Len(gfs) -> SUBSET Method]
         /\ d.failed \in BOOLEAN
BY DEF Draft

LEMMA LaterSelf == ASSUME NEW d \in Draft PROVE d \in Later(d)
BY DEF Later

LEMMA LaterTransitive ==
  ASSUME NEW d, NEW e \in Later(d), NEW f \in Later(e), d \in Draft
  PROVE  f \in Later(d)
<1>1. e \in Draft /\ f \in Draft
  BY DEF Later
<1>2. ASSUME NEW x \in Name, d.space[x] # <<>> PROVE f.space[x] = d.space[x]
  BY <1>2 DEF Later
<1>3. ASSUME NEW g \in 1..Len(gfs) PROVE d.gfs[g] \subseteq f.gfs[g]
  BY DEF Later
<1>4. (d.failed => f.failed) /\ f.sym = d.sym
  BY DEF Later
<1> QED BY <1>1, <1>2, <1>3, <1>4 DEF Later

\* Imported bindings are those of a module that exports their names, copied.
LEMMA CopyImported ==
  ASSUME IInv, NEW i \in 1..Len(mods), NEW n \in Name, n \in mods[i].exports,
         NEW k \in 1..Len(mods[i].space[n]), mods[i].space[n][k].exported, NEW e \in BOOLEAN
  PROVE  Copy(mods[i].space[n][k], e) \in Imported
<1> DEFINE b == mods[i].space[n][k]
           c == cells[b.cell]
<1>1. b \in Binding
  BY Chains DEF IInv
<1>2. PlacedAt(b, i, n, mods, cells)
  BY DEF IInv, Placed
<1>3. c \in Cell
  BY <1>2, Records DEF PlacedAt, IInv
<1>4. Copy(b, e) \in Binding /\ Copy(b, e).cell = b.cell
  BY <1>1 DEF Copy, Binding
<1>5. c.name \in mods[c.home].exports
  BY <1>2 DEF PlacedAt
<1>6. Copy(b, e).exported /\ c.const => Copy(b, e).const
  BY <1>2 DEF PlacedAt, Copy
<1>7. b.cell \in 1..Len(cells)
  BY <1>2 DEF PlacedAt
<1> DEFINE copy == Copy(b, e)
<1>8. /\ copy \in Binding /\ copy.cell \in 1..Len(cells)
      /\ cells[copy.cell].name \in mods[cells[copy.cell].home].exports
      /\ copy.exported /\ cells[copy.cell].const => copy.const
  BY <1>4, <1>5, <1>6, <1>7
<1> HIDE DEF copy
<1>9. copy \in Imported
  BY <1>8 DEF Imported
<1> QED BY <1>9 DEF copy

\* The bindings of name n of module i that may be imported, all being those of its chain.
LEMMA ImportableType ==
  ASSUME IInv, NEW i \in 1..Len(mods), NEW n \in Name, NEW all
  PROVE  LET chain == Importable(mods[i], n, all) IN
         /\ chain \in Seq(Binding)
         /\ Len(chain) \in Nat /\ DOMAIN chain = 1..Len(chain)
         /\ \A j \in 1..Len(chain) :
              /\ chain[j] \in Binding /\ chain[j].cell \in 1..Len(cells)
              /\ \A e \in BOOLEAN : Copy(chain[j], e) \in Imported
<1> DEFINE T == {b \in Binding : \E k \in 1..Len(mods[i].space[n]) : b = mods[i].space[n][k]}
           chain == Importable(mods[i], n, all)
<1>1. CASE all /\ n \in mods[i].exports
  <2>1. mods[i].space[n] \in Seq(T)
    <3>1. mods[i].space[n] \in Seq(Binding)
      BY Chains DEF IInv
    <3>2. \A k \in 1..Len(mods[i].space[n]) : mods[i].space[n][k] \in T
      BY Chains DEF IInv
    <3> HIDE DEF T
    <3> QED BY <3>1, <3>2, LenProperties
  <2>2. chain = Exported(mods[i].space[n])
    BY <1>1 DEF Importable
  <2>3. chain \in Seq({b \in T : b.exported})
    <3> HIDE DEF T, chain
    <3> QED BY <2>1, <2>2, ExportedType
  <2>4. /\ Len(chain) \in Nat /\ DOMAIN chain = 1..Len(chain)
        /\ \A j \in 1..Len(chain) : chain[j] \in {b \in T : b.exported}
    <3> HIDE DEF T, chain
    <3> QED BY <2>3, LenProperties, ElementOfSeq
  <2>5. ASSUME NEW j \in 1..Len(chain)
        PROVE  /\ chain[j] \in Binding /\ chain[j].cell \in 1..Len(cells)
               /\ \A e \in BOOLEAN : Copy(chain[j], e) \in Imported
    <3> HIDE DEF chain
    <3>1. PICK k \in 1..Len(mods[i].space[n]) : chain[j] = mods[i].space[n][k]
      BY <2>4
    <3>2. chain[j] \in Binding /\ chain[j].exported
      BY <2>4
    <3>3. chain[j].cell \in 1..Len(cells)
      <4>1. PlacedAt(mods[i].space[n][k], i, n, mods, cells)
        BY DEF IInv, Placed
      <4> QED BY <3>1, <4>1 DEF PlacedAt
    <3> QED BY <1>1, <3>1, <3>2, <3>3, CopyImported
  <2>6. chain \in Seq(Binding)
    <3> HIDE DEF chain
    <3> QED BY <2>3, SeqMonotonic
  <2> QED BY <2>4, <2>5, <2>6
<1>2. CASE ~(all /\ n \in mods[i].exports)
  BY <1>2 DEF Importable
<1> QED BY <1>1, <1>2

----------------------------------------------------------------------------
(* One name of a use clause.                                               *)

\* A name a clause has met is bound in e, and to a generic function that has the methods
\* the imported one has in d, if both are generic functions.
Merged(d, e, i, u, n, all) ==
  LET chain == Importable(mods[i], n, all)
      bound == e.space[u.as[n]]
  IN  chain # <<>> =>
        /\ bound # <<>>
        /\ cells[bound[1].cell].gf # 0 /\ cells[chain[1].cell].gf # 0
           => d.gfs[cells[chain[1].cell].gf] \subseteq e.gfs[cells[bound[1].cell].gf]

LEMMA UseFields ==
  ASSUME NEW u \in UseClause
  PROVE  /\ u.used \in Module /\ u.all \in BOOLEAN /\ u.exports \in SUBSET Name
         /\ u.as \in [Name -> Name] /\ u.kind = "use"
BY DEF UseClause

LEMMA NumberOfGF ==
  ASSUME IInv, NEW c \in 1..Len(cells)
  PROVE  cells[c].gf \in 0..Len(gfs)
BY Records DEF IInv, Numbered, Cell

\* The first binding of a chain.
LEMMA FirstImported ==
  ASSUME IInv, NEW s \in Seq(Imported), s # <<>>
  PROVE  Head(s) = s[1] /\ s[1] \in Imported /\ s[1].cell \in 1..Len(cells)
<1>1. 1 \in 1..Len(s)
  BY LenProperties, EmptySeq
<1> QED BY <1>1, ElementOfSeq DEF Imported

LEMMA MergedLater ==
  ASSUME IInv, NEW d0 \in Draft, NEW d \in Later(d0), NEW e \in Draft, NEW f \in Later(e),
         NEW i \in 1..Len(mods), NEW u \in UseClause, NEW n \in Name, NEW all,
         Merged(d, e, i, u, n, all)
  PROVE  Merged(d0, f, i, u, n, all)
<1> DEFINE chain == Importable(mods[i], n, all)
           bound == e.space[u.as[n]]
           from  == cells[chain[1].cell].gf
           to    == cells[bound[1].cell].gf
<1> SUFFICES ASSUME chain # <<>>
             PROVE  /\ f.space[u.as[n]] # <<>>
                    /\ cells[f.space[u.as[n]][1].cell].gf # 0 /\ from # 0
                       => d0.gfs[from] \subseteq f.gfs[cells[f.space[u.as[n]][1].cell].gf]
  BY DEF Merged
<1>1. u.as[n] \in Name
  BY UseFields
<1>2. bound # <<>> /\ f.space[u.as[n]] = bound
  BY <1>1 DEF Merged, Later
<1>3. bound \in Seq(Imported)
  BY <1>1, DraftFields
<1>4. to \in 0..Len(gfs)
  <2> HIDE DEF bound
  <2> QED BY <1>2, <1>3, FirstImported, NumberOfGF
<1>5. from \in 0..Len(gfs)
  <2>1. 1 \in 1..Len(chain) /\ chain[1].cell \in 1..Len(cells)
    <3>1. /\ Len(chain) \in Nat /\ DOMAIN chain = 1..Len(chain)
          /\ \A j \in 1..Len(chain) : chain[j].cell \in 1..Len(cells)
      BY ImportableType
    <3>2. Len(chain) # 0
      <4>1. chain \in Seq(Binding)
        BY ImportableType
      <4> HIDE DEF chain
      <4> QED BY <4>1, EmptySeq
    <3> HIDE DEF chain
    <3> QED BY <3>1, <3>2
  <2> HIDE DEF chain
  <2> QED BY <2>1, NumberOfGF
<1>6. ASSUME to # 0, from # 0 PROVE d0.gfs[from] \subseteq f.gfs[to]
  <2>1. d.gfs[from] \subseteq e.gfs[to]
    BY <1>6 DEF Merged
  <2>2. from \in 1..Len(gfs) /\ to \in 1..Len(gfs)
    <3> HIDE DEF from, to
    <3> QED BY <1>4, <1>5, <1>6, Records DEF IInv
  <2>3. d0.gfs[from] \subseteq d.gfs[from] /\ e.gfs[to] \subseteq f.gfs[to]
    <3> HIDE DEF from, to
    <3> QED BY <2>2 DEF Later
  <2> QED BY <2>1, <2>3
<1> QED BY <1>2, <1>6

\* A name that is not bound yet gets the bindings.
LEMMA BindName ==
  ASSUME IInv, NEW d \in Draft, NEW i \in 1..Len(mods), NEW u \in UseClause, NEW n \in Name,
         NEW all, Importable(mods[i], n, all) # <<>>, d.space[u.as[n]] = <<>>
  PROVE  LET e == ImportName(d, mods[i], n, u, all) IN
         e \in Later(d) /\ Merged(d, e, i, u, n, all)
<1> DEFINE chain  == Importable(mods[i], n, all)
           new    == u.as[n]
           copies == [k \in DOMAIN chain |-> Copy(chain[k], new \in u.exports)]
           e      == ImportName(d, mods[i], n, u, all)
<1>1. /\ chain \in Seq(Binding) /\ Len(chain) \in Nat /\ DOMAIN chain = 1..Len(chain)
      /\ chain # <<>>
      /\ \A j \in 1..Len(chain) : \A x \in BOOLEAN : Copy(chain[j], x) \in Imported
  BY ImportableType
<1>2. new \in Name /\ (new \in u.exports) \in BOOLEAN
  BY UseFields
<1>3. copies \in Seq(Imported)
  <2> HIDE DEF chain, new
  <2>1. \A k \in 1..Len(chain) : copies[k] \in Imported
    BY <1>1, <1>2
  <2>2. copies \in [1..Len(chain) -> Imported]
    BY <1>1, <1>2
  <2> HIDE DEF copies
  <2> QED BY <1>1, <2>2, SeqDef
<1>4. 1 \in 1..Len(chain)
  <2> HIDE DEF chain
  <2> QED BY <1>1, EmptySeq
<1>5. e = [d EXCEPT !.space[new] = copies]
  BY DEF ImportName, Newest
<1>6. /\ e.sym = d.sym /\ e.exports = d.exports /\ e.gfs = d.gfs /\ e.failed = d.failed
      /\ e.space = [d.space EXCEPT ![new] = copies] /\ e \in Draft
  <2> HIDE DEF copies, e, new
  <2> QED BY <1>2, <1>3, <1>5 DEF Draft
<1>7. e \in Later(d)
  <2> HIDE DEF e, copies, new
  <2>1. ASSUME NEW x \in Name, d.space[x] # <<>> PROVE e.space[x] = d.space[x]
    BY <1>2, <1>6, <2>1, DraftFields DEF new
  <2> QED BY <1>6, <2>1 DEF Later
<1>8. e.space[new] = copies
  <2> HIDE DEF e, copies, new
  <2> QED BY <1>2, <1>6, DraftFields
<1>9. copies # <<>> /\ copies[1].cell = chain[1].cell
  <2> HIDE DEF chain
  <2>1. copies[1] = Copy(chain[1], new \in u.exports)
    BY <1>1, <1>4
  <2>2. DOMAIN copies # {}
    BY <1>1, <1>4
  <2>3. copies[1].cell = chain[1].cell
    BY <2>1 DEF Copy
  <2> HIDE DEF copies
  <2> QED BY <2>2, <2>3
<1>10. Merged(d, e, i, u, n, all)
  <2> SUFFICES /\ e.space[new] # <<>>
               /\ d.gfs[cells[chain[1].cell].gf] \subseteq e.gfs[cells[e.space[new][1].cell].gf]
    BY DEF Merged
  <2> HIDE DEF e, copies, chain, new
  <2> QED BY <1>6, <1>8, <1>9
<1> QED BY <1>7, <1>10

\* A generic function a name is bound to gets the methods.
LEMMA MergeName ==
  ASSUME IInv, NEW d \in Draft, NEW i \in 1..Len(mods), NEW u \in UseClause, NEW n \in Name,
         NEW all, Importable(mods[i], n, all) # <<>>, d.space[u.as[n]] # <<>>
  PROVE  LET e == ImportName(d, mods[i], n, u, all) IN
         e \in Later(d) /\ Merged(d, e, i, u, n, all)
<1> DEFINE chain == Importable(mods[i], n, all)
           new   == u.as[n]
           oldGF == cells[Head(d.space[new]).cell].gf
           own(j) == cells[chain[j].cell].gf
           added == UNION {d.gfs[own(j)] : j \in {k \in DOMAIN chain : own(k) # 0}}
           e     == ImportName(d, mods[i], n, u, all)
<1>1. /\ chain \in Seq(Binding) /\ Len(chain) \in Nat /\ DOMAIN chain = 1..Len(chain)
      /\ chain # <<>>
      /\ \A j \in 1..Len(chain) : chain[j].cell \in 1..Len(cells)
  BY ImportableType
<1>2. new \in Name
  BY UseFields
<1>3. Head(d.space[new]) = d.space[new][1] /\ oldGF \in 0..Len(gfs)
  <2>1. d.space[new] \in Seq(Imported)
    BY <1>2, DraftFields
  <2> QED BY <2>1, FirstImported, NumberOfGF
<1>4. \A j \in 1..Len(chain) : own(j) \in 0..Len(gfs)
  BY <1>1, NumberOfGF
<1>5. added \in SUBSET Method
  <2> SUFFICES ASSUME NEW j \in 1..Len(chain), own(j) # 0 PROVE d.gfs[own(j)] \subseteq Method
    BY <1>1
  <2>1. own(j) \in 1..Len(gfs)
    <3> HIDE DEF own
    <3> QED BY <1>4, Records DEF IInv
  <2> QED BY <2>1, DraftFields
<1>6. 1 \in 1..Len(chain)
  <2> HIDE DEF chain
  <2> QED BY <1>1, EmptySeq
<1>7. own(1) # 0 => d.gfs[own(1)] \subseteq added
  BY <1>1, <1>6
<1>8. e = IF oldGF # 0 THEN [d EXCEPT !.gfs[oldGF] = @ \cup added] ELSE d
  BY DEF ImportName, Newest
<1>9. /\ e.sym = d.sym /\ e.exports = d.exports /\ e.space = d.space /\ e.failed = d.failed
      /\ e.gfs \in [1..Len(gfs) -> SUBSET Method]
      /\ \A g \in 1..Len(gfs) : d.gfs[g] \subseteq e.gfs[g]
      /\ oldGF # 0 => added \subseteq e.gfs[oldGF]
      /\ e \in Draft
  <2> HIDE DEF e, added, oldGF
  <2>1. CASE oldGF # 0
    <3>1. oldGF \in 1..Len(gfs)
      BY <1>3, <2>1, Records DEF IInv
    <3>2. e = [d EXCEPT !.gfs[oldGF] = @ \cup added]
      BY <1>8, <2>1
    <3>3. d.gfs[oldGF] \cup added \in SUBSET Method
      BY <1>5, <3>1, DraftFields
    <3>4. /\ e.sym = d.sym /\ e.exports = d.exports /\ e.space = d.space /\ e.failed = d.failed
          /\ e.gfs = [d.gfs EXCEPT ![oldGF] = @ \cup added]
          /\ e \in Draft
      BY <3>1, <3>2, <3>3 DEF Draft
    <3>5. d.gfs \in [1..Len(gfs) -> SUBSET Method]
      BY DraftFields
    <3> HIDE <3>2
    <3> QED BY <3>1, <3>3, <3>4, <3>5
  <2>2. CASE oldGF = 0
    BY <1>8, <2>2, DraftFields
  <2> QED BY <2>1, <2>2
<1>10. e \in Later(d)
  <2> HIDE DEF e, added, oldGF
  <2> QED BY <1>9 DEF Later
<1>11. Merged(d, e, i, u, n, all)
  <2> SUFFICES ASSUME oldGF # 0, own(1) # 0 PROVE d.gfs[own(1)] \subseteq e.gfs[oldGF]
    <3>1. e.space[new] = d.space[new] /\ e.space[new] # <<>> /\ Head(d.space[new]) = e.space[new][1]
      BY <1>3, <1>9
    <3> QED BY <3>1 DEF Merged
  <2> HIDE DEF e, added, oldGF, own
  <2> QED BY <1>7, <1>9
<1> QED BY <1>10, <1>11

LEMMA ImportNameLater ==
  ASSUME IInv, NEW d \in Draft, NEW i \in 1..Len(mods), NEW u \in UseClause, NEW n \in Name,
         NEW all
  PROVE  LET e == ImportName(d, mods[i], n, u, all) IN
         e \in Later(d) /\ Merged(d, e, i, u, n, all)
<1>1. CASE Importable(mods[i], n, all) = <<>>
  BY <1>1, LaterSelf DEF ImportName, Merged
<1>2. CASE Importable(mods[i], n, all) # <<>> /\ d.space[u.as[n]] = <<>>
  BY <1>2, BindName
<1>3. CASE Importable(mods[i], n, all) # <<>> /\ d.space[u.as[n]] # <<>>
  BY <1>3, MergeName
<1> QED BY <1>1, <1>2, <1>3

----------------------------------------------------------------------------
(* A use clause.                                                           *)

LEMMA InOrder ==
  /\ Len(HashOrder) \in Nat /\ DOMAIN HashOrder = 1..Len(HashOrder)
  /\ \A k \in 1..Len(HashOrder) : HashOrder[k] \in Name
  /\ \A n \in Name : \E k \in 1..Len(HashOrder) : HashOrder[k] = n
<1>1. Cardinality(Name) \in Nat
  BY NamesAssumption, FS_CardinalityType
<1>2. HashOrder \in Seq(Name)
  BY <1>1, NamesAssumption, SeqDef
<1>3. DOMAIN HashOrder = 1..Len(HashOrder) /\ Len(HashOrder) \in Nat
  BY <1>2, LenProperties
<1> QED BY <1>2, <1>3, NamesAssumption, ElementOfSeq

LEMMA FoundModule ==
  ASSUME TypeOK, NEW m, Known(m)
  PROVE  module_binding(m) \in 1..Len(mods)
<1> DEFINE Of == {i \in 1..Len(mods) : mods[i].sym = m}
           first == CHOOSE i \in Of : \A j \in Of : i <= j
<1>1. Of # {} /\ Of \subseteq Nat
  BY Records DEF Known
<1>2. first \in Of /\ \A k \in Of : first <= k
  <2> HIDE DEF Of
  <2> QED BY <1>1, LeastChosen
<1>3. \A j \in 1..first-1 : mods[j].sym # m
  <2> HIDE DEF first
  <2> QED BY <1>2, Records
<1>4. first \in DOMAIN mods /\ mods[first].sym = m
  BY <1>2, Records
<1> HIDE DEF first
<1>5. \E i \in DOMAIN mods : mods[i].sym = m /\ \A j \in 1..(i-1) : mods[j].sym # m
  BY <1>3, <1>4
<1>6. module_binding(m) \in DOMAIN mods
  BY <1>5 DEF module_binding
<1> QED BY <1>6, Records

\* All names of the used module, one after the other.
LEMMA UseModuleLater ==
  ASSUME IInv, NEW d \in Draft, NEW u \in UseClause, Known(u.used), NEW all
  PROVE  LET e == use_module(d, u, all) IN
         /\ e \in Later(d)
         /\ \A n \in Name : Merged(d, e, module_binding(u.used), u, n, all)
<1> DEFINE i == module_binding(u.used)
           N == Len(HashOrder)
           D == Draft
           Step(k, x) == ImportName(x, mods[i], HashOrder[k], u, all)
           step == [p \in (1..N) \X D |-> Step(p[1], p[2])]
           Is(F) == F = [k \in 0..N |-> IF k = 0 THEN d ELSE Step(k, F[k-1])]
           F == CHOOSE f : Is(f)
<1>1. i \in 1..Len(mods)
  BY FoundModule DEF IInv
<1>2. ASSUME NEW k \in 1..N, NEW x \in D
      PROVE  Step(k, x) \in Later(x) /\ Merged(x, Step(k, x), i, u, HashOrder[k], all)
  <2> HIDE DEF i
  <2> QED BY <1>1, InOrder, ImportNameLater
<1>3. step \in [(1..N) \X D -> D]
  <2>1. \A p \in (1..N) \X D : Step(p[1], p[2]) \in D
    <3> HIDE DEF Step, N
    <3> QED BY <1>2 DEF Later
  <2> HIDE DEF Step, D, N
  <2> QED BY <2>1
<1>4. PICK f \in Iteration(N, D, d, step) : TRUE
  <2>1. d \in D /\ N \in Nat
    BY InOrder
  <2> HIDE DEF step, D, N
  <2>2. Iteration(N, D, d, step) # {}
    BY <1>3, <2>1, Iterates
  <2> QED BY <2>2
<1>5. Is(f)
  <2> HIDE DEF Step, N, D
  <2>1. f \in [0..N -> D] /\ f[0] = d /\ \A k \in 1..N : f[k] = step[<<k, f[k-1]>>]
    BY DEF Iteration
  <2>2. ASSUME NEW k \in 0..N PROVE f[k] = IF k = 0 THEN d ELSE Step(k, f[k-1])
    <3>1. CASE k # 0
      <4>1. k \in 1..N /\ k - 1 \in 0..N
        BY <3>1, InOrder DEF N
      <4> QED BY <2>1, <3>1, <4>1
    <3> QED BY <2>1, <3>1
  <2> QED BY <2>1, <2>2
<1>6. Is(F)
  <2> HIDE DEF Is
  <2> QED BY <1>5
<1>7. F[0] = d /\ \A k \in 1..N : F[k] = Step(k, F[k-1])
  <2> HIDE DEF F, Step
  <2> QED BY <1>6, InOrder
<1>8. use_module(d, u, all) = F[N]
  BY DEF use_module
<1> HIDE DEF F, Step, Is
<1>9. ASSUME NEW m \in 0..N, F[m] \in D PROVE F[N] \in Later(F[m])
  <2>1. F[m] \in Later(F[m])
    BY <1>9, LaterSelf
  <2>2. ASSUME NEW k \in m+1..N, F[k-1] \in Later(F[m]) PROVE F[k] \in Later(F[m])
    <3>1. k \in 1..N /\ F[k-1] \in D
      BY <2>2, InOrder DEF Later, N
    <3>2. F[k] \in Later(F[k-1])
      BY <1>2, <1>7, <3>1
    <3> QED BY <1>9, <2>2, <3>2, LaterTransitive
  <2>3. \A k \in m..N : F[k] \in Later(F[m])
    <3>1. m \in Nat /\ N \in Nat
      BY InOrder
    <3> HIDE DEF N
    <3> QED BY <2>1, <2>2, <3>1, Onwards
  <2> QED BY <2>3, InOrder
<1>10. \A k \in 0..N : F[k] \in Later(d)
  <2>1. F[0] \in Later(d)
    BY <1>7, LaterSelf
  <2>2. ASSUME NEW k \in 0+1..N, F[k-1] \in Later(d) PROVE F[k] \in Later(d)
    <3>1. k \in 1..N /\ F[k-1] \in D
      BY <2>2, InOrder DEF Later
    <3>2. F[k] \in Later(F[k-1])
      BY <1>2, <1>7, <3>1
    <3> QED BY <2>2, <3>2, LaterTransitive
  <2>3. 0 \in Nat /\ N \in Nat
    BY InOrder
  <2> HIDE DEF N
  <2> QED BY <2>1, <2>2, <2>3, Onwards
<1>11. F[N] \in Later(d)
  BY <1>10, InOrder
<1>12. ASSUME NEW n \in Name PROVE Merged(d, F[N], i, u, n, all)
  <2>1. PICK k \in 1..N : HashOrder[k] = n
    BY InOrder
  <2>2. k - 1 \in 0..N /\ k \in 0..N
    BY InOrder
  <2>3. F[k-1] \in Later(d) /\ F[k-1] \in D /\ F[k] \in D
    BY <1>10, <2>2 DEF Later
  <2>4. Merged(F[k-1], F[k], i, u, n, all)
    BY <1>2, <1>7, <2>1, <2>3
  <2>5. F[N] \in Later(F[k])
    BY <1>9, <2>2, <2>3
  <2> HIDE DEF i, N
  <2> QED BY <1>1, <2>3, <2>4, <2>5, MergedLater
<1> QED BY <1>8, <1>11, <1>12

----------------------------------------------------------------------------
(* All clauses of a module.                                                *)

AnyClause == ExportClause \cup UseClause

LEMMA ClauseLater ==
  ASSUME IInv, NEW d \in Draft, NEW c \in AnyClause, NEW garbage \in BOOLEAN
  PROVE  LET e == Clause(d, c, garbage) IN
         /\ e \in Later(d)
         /\ c.kind = "use" /\ Known(c.used) =>
              \A n \in Name : Merged(d, e, module_binding(c.used), c, n, c.all \/ garbage)
<1> DEFINE e == Clause(d, c, garbage)
<1>1. CASE c.kind = "use" /\ Known(c.used)
  <2>1. c \in UseClause
    BY <1>1 DEF AnyClause, ExportClause
  <2>2. e = use_module(d, c, c.all \/ garbage)
    BY <1>1 DEF Clause
  <2> QED BY <1>1, <2>1, <2>2, UseModuleLater
<1>2. CASE c.kind = "export"
  <2>1. c.names \in SUBSET Name
    BY <1>2 DEF AnyClause, ExportClause, UseClause
  <2>2. e = [d EXCEPT !.exports = @ \cup c.names]
    BY <1>2 DEF Clause
  <2>3. e \in Draft
    BY <2>1, <2>2 DEF Draft
  <2>4. e.space = d.space /\ e.gfs = d.gfs /\ e.failed = d.failed /\ e.sym = d.sym
    BY <2>2, <2>3 DEF Draft
  <2>5. e \in Later(d)
    <3> HIDE DEF e
    <3> QED BY <2>3, <2>4, DraftFields DEF Later
  <2> QED BY <1>2, <2>5
<1>3. CASE c.kind = "use" /\ ~Known(c.used)
  <2>1. e = d \/ e = [d EXCEPT !.failed = TRUE]
    BY <1>3 DEF Clause
  <2>2. CASE e = [d EXCEPT !.failed = TRUE]
    <3>1. e \in Draft
      BY <2>2 DEF Draft
    <3>2. e.space = d.space /\ e.gfs = d.gfs /\ e.failed /\ e.sym = d.sym
      BY <2>2, <3>1 DEF Draft
    <3>3. e \in Later(d)
      <4> HIDE DEF e
      <4> QED BY <3>1, <3>2, DraftFields DEF Later
    <3> QED BY <1>3, <3>3
  <2>3. CASE e = d
    BY <1>3, <2>3, LaterSelf
  <2> QED BY <2>1, <2>2, <2>3
<1>4. c.kind \in {"use", "export"}
  BY DEF AnyClause, ExportClause, UseClause
<1> QED BY <1>1, <1>2, <1>3, <1>4

EmptyDraft(m) ==
  [sym |-> m, exports |-> {}, space |-> NoBindings, gfs |-> gfs, failed |-> FALSE]

LEMMA EmptyIsDraft ==
  ASSUME IInv, NEW m \in Module
  PROVE  EmptyDraft(m) \in Draft
<1>1. gfs \in [1..Len(gfs) -> SUBSET Method]
  BY LenProperties DEF IInv, TypeOK
<1>2. NoBindings \in [Name -> Seq(Imported)]
  BY EmptySeq DEF NoBindings
<1> QED BY <1>1, <1>2 DEF EmptyDraft, Draft

LEMMA ClausesLater ==
  ASSUME IInv, NEW m \in Module, NEW cs \in Seq(AnyClause), NEW garbage \in BOOLEAN
  PROVE  LET e == Clauses(m, cs, garbage) IN
         /\ e \in Later(EmptyDraft(m))
         /\ ~e.failed => \A k \in 1..Len(cs) :
              cs[k].kind = "use" /\ Known(cs[k].used) =>
                \A n \in Name : Merged(EmptyDraft(m), e, module_binding(cs[k].used), cs[k], n,
                                       cs[k].all \/ garbage)
<1> DEFINE N == Len(cs)
           D == Draft
           d == EmptyDraft(m)
           Step(k, x) == IF x.failed THEN x ELSE Clause(x, cs[k], garbage)
           step == [p \in (1..N) \X D |-> Step(p[1], p[2])]
           Is(F) == F = [k \in 0..N |-> IF k = 0 THEN d ELSE Step(k, F[k-1])]
           F == CHOOSE f : Is(f)
<1>1. N \in Nat /\ \A k \in 1..N : cs[k] \in AnyClause
  BY LenProperties, ElementOfSeq
<1>2. ASSUME NEW k \in 1..N, NEW x \in D PROVE Step(k, x) \in Later(x)
  BY <1>1, ClauseLater, LaterSelf
<1>3. step \in [(1..N) \X D -> D]
  <2>1. \A p \in (1..N) \X D : Step(p[1], p[2]) \in D
    <3> HIDE DEF Step, N
    <3> QED BY <1>2 DEF Later
  <2> HIDE DEF Step, D, N
  <2> QED BY <2>1
<1>4. d \in D
  BY EmptyIsDraft
<1>5. PICK f \in Iteration(N, D, d, step) : TRUE
  <2> HIDE DEF step, D, N, d
  <2>1. Iteration(N, D, d, step) # {}
    BY <1>1, <1>3, <1>4, Iterates
  <2> QED BY <2>1
<1>6. Is(f)
  <2> HIDE DEF Step, N, D, d
  <2>1. f \in [0..N -> D] /\ f[0] = d /\ \A k \in 1..N : f[k] = step[<<k, f[k-1]>>]
    BY DEF Iteration
  <2>2. ASSUME NEW k \in 0..N PROVE f[k] = IF k = 0 THEN d ELSE Step(k, f[k-1])
    <3>1. CASE k # 0
      <4>1. k \in 1..N /\ k - 1 \in 0..N
        BY <1>1, <3>1
      <4> QED BY <2>1, <3>1, <4>1
    <3> QED BY <2>1, <3>1
  <2> QED BY <2>1, <2>2
<1>7. Is(F)
  <2> HIDE DEF Is
  <2> QED BY <1>6
<1>8. F[0] = d /\ \A k \in 1..N : F[k] = Step(k, F[k-1])
  <2> HIDE DEF F, Step, d
  <2> QED BY <1>1, <1>7
<1>9. Clauses(m, cs, garbage) = F[N]
  BY DEF Clauses, EmptyDraft
<1> HIDE DEF F, Is, d
<1>10. ASSUME NEW j \in 0..N, F[j] \in D PROVE \A k \in j..N : F[k] \in Later(F[j])
  <2> HIDE DEF Step
  <2>1. F[j] \in Later(F[j])
    BY <1>10, LaterSelf
  <2>2. ASSUME NEW k \in j+1..N, F[k-1] \in Later(F[j]) PROVE F[k] \in Later(F[j])
    <3>1. k \in 1..N /\ F[k-1] \in D
      BY <1>1, <2>2 DEF Later
    <3>2. F[k] \in Later(F[k-1])
      BY <1>2, <1>8, <3>1
    <3> QED BY <1>10, <2>2, <3>2, LaterTransitive
  <2>3. j \in Nat
    BY <1>1
  <2> HIDE DEF N
  <2> QED BY <1>1, <2>1, <2>2, <2>3, Onwards
<1>11. \A k \in 0..N : F[k] \in Later(d)
  <2>1. 0 \in 0..N /\ F[0] \in D
    BY <1>1, <1>4, <1>8
  <2> HIDE DEF N
  <2> QED BY <1>8, <1>10, <2>1
<1>12. F[N] \in Later(d)
  BY <1>1, <1>11
<1>13. ASSUME ~F[N].failed, NEW k \in 1..N, cs[k].kind = "use", Known(cs[k].used), NEW n \in Name
       PROVE  Merged(d, F[N], module_binding(cs[k].used), cs[k], n, cs[k].all \/ garbage)
  <2>1. k - 1 \in 0..N /\ k \in 0..N /\ N \in k..N /\ N \in k-1..N
    BY <1>1
  <2>2. F[k-1] \in Later(d) /\ F[k-1] \in D /\ F[k] \in D
    BY <1>11, <2>1 DEF Later
  <2>3. F[N] \in Later(F[k-1]) /\ F[N] \in Later(F[k])
    BY <1>10, <2>1, <2>2
  <2>4. ~F[k-1].failed
    BY <1>13, <2>3 DEF Later
  <2>5. F[k] = Clause(F[k-1], cs[k], garbage)
    BY <1>8, <2>4
  <2>6. cs[k] \in AnyClause
    BY <1>1
  <2>7. Merged(F[k-1], F[k], module_binding(cs[k].used), cs[k], n, cs[k].all \/ garbage)
    BY <1>13, <2>2, <2>5, <2>6, ClauseLater
  <2>8. cs[k] \in UseClause
    BY <1>13, <2>6 DEF AnyClause, ExportClause
  <2>9. module_binding(cs[k].used) \in 1..Len(mods)
    BY <1>13, FoundModule DEF IInv
  <2> HIDE DEF N
  <2> QED BY <1>4, <2>2, <2>3, <2>7, <2>8, <2>9, MergedLater
<1> QED BY <1>9, <1>12, <1>13 DEF d

----------------------------------------------------------------------------
(* The steps.                                                              *)

\* No cell is lost, or made another name's; what a module exports stays.
Kept ==
  /\ Len(cells') \in Nat /\ Len(cells) <= Len(cells')
  /\ \A c \in 1..Len(cells) : /\ cells'[c].home = cells[c].home
                              /\ cells'[c].name = cells[c].name
                              /\ cells'[c].const = cells[c].const
  /\ \A i \in 1..Len(mods) : mods'[i].exports = mods[i].exports

LEMMA HomeThere ==
  ASSUME IInv, NEW c \in 1..Len(cells)
  PROVE  cells[c].home \in 1..Len(mods) /\ cells[c].name \in Name /\ cells[c].const \in BOOLEAN
BY Records DEF IInv, Numbered, Cell

LEMMA StaysPlaced ==
  ASSUME IInv, Kept, NEW b, NEW i, NEW n, PlacedAt(b, i, n, mods, cells)
  PROVE  PlacedAt(b, i, n, mods', cells')
<1>1. b.cell \in 1..Len(cells) /\ b.cell \in 1..Len(cells')
  BY Records DEF PlacedAt, Kept, IInv
<1>2. cells[b.cell].home \in 1..Len(mods)
  BY <1>1, HomeThere
<1> QED BY <1>1, <1>2 DEF PlacedAt, Kept

\* Only what the program is at has changed, or the values of cells.
LEMMA NothingBound ==
  ASSUME IInv, UNCHANGED mods,
         cells' \in Seq(Cell), Len(cells') = Len(cells), Kept,
         gfs' \in Seq(SUBSET Method), Len(gfs') = Len(gfs),
         \A c \in 1..Len(cells) : cells'[c].gf \in {cells[c].gf, 0},
         {here', current', prompt'} \subseteq 1..Len(mods), loading' \in BOOLEAN
  PROVE  IInv'
<1>1. TypeOK'
  BY Records DEF IInv, TypeOK
<1>2. Numbered'
  <2> SUFFICES ASSUME NEW c \in 1..Len(cells)
               PROVE  cells'[c].home <= Len(mods) /\ cells'[c].gf <= Len(gfs)
    BY DEF Numbered
  <2>1. Len(gfs) \in Nat /\ cells[c].home <= Len(mods) /\ cells[c].gf <= Len(gfs)
    BY Records DEF IInv, Numbered
  <2>2. cells'[c].home = cells[c].home /\ cells'[c].gf \in {cells[c].gf, 0}
    BY DEF Kept
  <2> QED BY <2>1, <2>2
<1>3. Placed'
  <2> SUFFICES ASSUME NEW i \in 1..Len(mods), NEW n \in Name,
                      NEW k \in 1..Len(mods[i].space[n])
               PROVE  PlacedAt(mods[i].space[n][k], i, n, mods', cells')
    BY DEF Placed
  <2> QED BY StaysPlaced DEF IInv, Placed
<1> QED BY <1>1, <1>2, <1>3 DEF IInv

LEMMA InitIInv == Init => IInv
<1> SUFFICES ASSUME Init PROVE IInv
  OBVIOUS
<1> DEFINE b == [cell |-> 1, const |-> TRUE, exported |-> TRUE]
           c == [home |-> 1, name |-> Kernel, const |-> TRUE, gf |-> 0, assigned |-> FALSE]
<1>1. Kernel \in Name /\ "dylan" \in Module /\ "dylan-user" \in Module
  BY NamesAssumption
<1>2. MaxModules \in Nat /\ MaxModules >= 2 /\ MaxCells \in Nat /\ MaxCells >= 1 /\ MaxGFs \in Nat
  BY LimitsAssumption
<1>3. b \in Binding
  BY <1>2 DEF Binding
<1>4. <<b>> \in Seq(Binding) /\ Len(<<b>>) = 1 /\ <<b>>[1] = b
  BY <1>3
<1>5. OneKernel \in [Name -> Seq(Binding)]
  BY <1>1, <1>4, EmptySeq DEF OneKernel, NoBindings
<1>6. \A n \in Name : OneKernel[n] = IF n = Kernel THEN <<b>> ELSE <<>>
  BY <1>1 DEF OneKernel, NoBindings
<1>7. c \in Cell
  BY <1>1, <1>2 DEF Cell
<1> DEFINE m1 == [sym |-> "dylan", exports |-> Name, space |-> OneKernel]
           m2 == [sym |-> "dylan-user", exports |-> Name, space |-> OneKernel]
<1>8. m1 \in ModuleRecord /\ m2 \in ModuleRecord
  BY <1>1, <1>5 DEF ModuleRecord
<1>9. mods = <<m1, m2>> /\ cells = <<c>> /\ gfs = <<>> /\ here = 2 /\ current = 2 /\ prompt = 2
      /\ loading = FALSE
  BY DEF Init
<1>10. TypeOK
  <2> HIDE DEF m1, m2, c
  <2>1. mods \in Seq(ModuleRecord) /\ Len(mods) = 2 /\ DOMAIN mods = 1..2
    BY <1>8, <1>9
  <2>2. cells \in Seq(Cell) /\ Len(cells) = 1
    BY <1>7, <1>9
  <2>3. gfs \in Seq(SUBSET Method) /\ Len(gfs) = 0
    BY <1>9
  <2>4. {here, current, prompt} \subseteq DOMAIN mods /\ loading \in BOOLEAN
    <3>1. here = 2 /\ current = 2 /\ prompt = 2 /\ loading = FALSE /\ 2 \in DOMAIN mods
      BY <1>9, <2>1
    <3> HIDE <1>9
    <3> QED BY <3>1
  <2>5. Len(mods) <= MaxModules /\ Len(cells) <= MaxCells /\ Len(gfs) <= MaxGFs
    BY <1>2, <2>1, <2>2, <2>3
  <2> HIDE <1>9
  <2> QED BY <2>1, <2>2, <2>3, <2>4, <2>5 DEF TypeOK
<1>11. Len(mods) = 2 /\ Len(cells) = 1 /\ cells[1] = c
  BY <1>9
<1>12. Numbered
  BY <1>9, <1>11 DEF Numbered
<1>13. ASSUME NEW i \in 1..2 PROVE mods[i].exports = Name /\ mods[i].space = OneKernel
  <2>1. i = 1 \/ i = 2
    OBVIOUS
  <2> QED BY <1>9, <2>1
<1>14. Placed
  <2> SUFFICES ASSUME NEW i \in 1..2, NEW n \in Name, NEW k \in 1..Len(OneKernel[n])
               PROVE  PlacedAt(OneKernel[n][k], i, n, mods, cells)
    BY <1>11, <1>13 DEF Placed
  <2>1. n = Kernel /\ k = 1
    <3>1. CASE n # Kernel
      BY <1>6, <3>1
    <3>2. CASE n = Kernel
      <4>1. OneKernel[n] = <<b>>
        BY <1>6, <3>2
      <4> QED BY <1>4, <3>2, <4>1
    <3> QED BY <3>1, <3>2
  <2>2. OneKernel[n][k] = b
    BY <1>4, <1>6, <2>1
  <2>3. PlacedAt(b, i, n, mods, cells)
    BY <1>1, <1>11, <1>13, <2>1 DEF PlacedAt
  <2> QED BY <2>2, <2>3
<1> QED BY <1>10, <1>12, <1>14 DEF IInv

\* A binding in front of its name's, to a cell of its own.
LEMMA BindingAdded ==
  ASSUME IInv, NEW n \in Name, NEW const \in BOOLEAN, NEW gf \in 0..Len(gfs'),
         AddBinding(n, const, gf),
         gfs' \in Seq(SUBSET Method), Len(gfs') >= Len(gfs), Len(gfs') <= MaxGFs,
         {here', current', prompt'} \subseteq 1..Len(mods), loading' \in BOOLEAN
  PROVE  IInv'
<1> DEFINE c == [home |-> here, name |-> n, const |-> const, gf |-> gf, assigned |-> FALSE]
           b == [cell |-> Len(cells) + 1, const |-> const, exported |-> TRUE]
           old == mods[here]
           s == <<b>> \o old.space[n]
           new == [old EXCEPT !.space[n] = s]
<1>1. /\ here \in 1..Len(mods) /\ Len(mods) \in Nat /\ Len(cells) \in Nat
      /\ Len(gfs) \in Nat /\ Len(gfs') \in Nat /\ MaxModules \in Nat
      /\ Len(mods) <= MaxModules /\ MaxCells \in Nat /\ MaxGFs \in Nat /\ Len(cells) < MaxCells
  BY Records, LimitsAssumption, LenProperties DEF IInv, TypeOK, AddBinding
<1>2. c \in Cell
  BY <1>1 DEF Cell
<1>3. b \in Binding
  BY <1>1 DEF Binding
<1>4. old.space[n] \in Seq(Binding) /\ old \in ModuleRecord
  BY <1>1, Chains, Records DEF IInv
<1>5. /\ s \in Seq(Binding) /\ Len(s) = Len(old.space[n]) + 1
      /\ s[1] = b /\ \A k \in 2..Len(s) : s[k] = old.space[n][k-1]
  <2> HIDE DEF b, old
  <2>1. <<b>> \in Seq(Binding) /\ Len(<<b>>) = 1 /\ <<b>>[1] = b
    BY <1>3
  <2>2. Len(old.space[n]) \in Nat
    BY <1>4, LenProperties
  <2> QED BY <1>4, <2>1, <2>2, ConcatProperties
<1>6. /\ new \in ModuleRecord /\ new.exports = old.exports
      /\ new.space = [old.space EXCEPT ![n] = s]
  <2> HIDE DEF old, s
  <2> QED BY <1>4, <1>5 DEF ModuleRecord
<1>7. mods' = [mods EXCEPT ![here] = new] /\ cells' = Append(cells, c)
  BY DEF AddBinding
<1>8. /\ mods' \in Seq(ModuleRecord) /\ Len(mods') = Len(mods) /\ DOMAIN mods' = DOMAIN mods
      /\ mods'[here] = new /\ \A i \in 1..Len(mods) : i # here => mods'[i] = mods[i]
  <2> HIDE DEF new
  <2>1. mods \in Seq(ModuleRecord) /\ DOMAIN mods = 1..Len(mods)
    BY Records DEF IInv, TypeOK
  <2> QED BY <1>1, <1>6, <1>7, <2>1, ExceptSeq
<1>9. /\ cells' \in Seq(Cell) /\ Len(cells') = Len(cells) + 1
      /\ cells'[Len(cells) + 1] = c /\ \A x \in 1..Len(cells) : cells'[x] = cells[x]
  <2> HIDE DEF c
  <2>1. cells \in Seq(Cell)
    BY DEF IInv, TypeOK
  <2> QED BY <1>1, <1>2, <1>7, <2>1, AppendProperties
<1>10. TypeOK'
  <2> HIDE DEF new, c
  <2>1. DOMAIN mods' = 1..Len(mods)
    BY <1>8, Records DEF IInv
  <2> QED BY <1>1, <1>8, <1>9, <2>1 DEF TypeOK
<1>11. Numbered'
  <2> SUFFICES ASSUME NEW x \in 1..Len(cells) + 1
               PROVE  cells'[x].home <= Len(mods) /\ cells'[x].gf <= Len(gfs')
    BY <1>8, <1>9 DEF Numbered
  <2>0. \A y \in 1..Len(cells) : cells'[y] = cells[y]
    BY <1>9
  <2>1. CASE x = Len(cells) + 1
    BY <1>1, <1>9, <2>1
  <2>2. CASE x # Len(cells) + 1
    <3>1. x \in 1..Len(cells)
      BY <1>1, <2>2
    <3>2. cells[x].home <= Len(mods) /\ cells[x].gf <= Len(gfs) /\ cells[x].gf \in Nat
      BY <3>1, NumberOfGF DEF IInv, Numbered
    <3>3. cells'[x] = cells[x]
      BY <2>0, <3>1
    <3> HIDE DEF c, new, old, s, b
    <3>4. Len(gfs) <= Len(gfs') /\ Len(gfs) \in Nat /\ Len(gfs') \in Nat
      BY <1>1
    <3> QED BY <3>2, <3>3, <3>4
  <2> QED BY <2>1, <2>2
<1>12. Kept
  <2>1. \A i \in 1..Len(mods) : mods'[i].exports = mods[i].exports
    <3> HIDE DEF new, s
    <3> QED BY <1>6, <1>8 DEF old
  <2> HIDE DEF c, new, old, s, b
  <2>2. Len(cells') \in Nat /\ Len(cells) <= Len(cells')
    BY <1>1, <1>9
  <2>3. \A x \in 1..Len(cells) : cells'[x] = cells[x]
    BY <1>9
  <2> QED BY <2>1, <2>2, <2>3 DEF Kept
<1>13. PlacedAt(b, here, n, mods', cells')
  <2>1. b.cell = Len(cells) + 1 /\ b.const = const /\ cells'[b.cell] = c
    BY <1>9
  <2>2. b.cell \in 1..Len(cells')
    BY <1>1, <1>9
  <2>3. c.home = here /\ c.name = n /\ c.const = const
    OBVIOUS
  <2> HIDE DEF b, c
  <2> QED BY <2>1, <2>2, <2>3 DEF PlacedAt
<1>14. Placed'
  <2> SUFFICES ASSUME NEW i \in 1..Len(mods), NEW x \in Name,
                      NEW k \in 1..Len(mods'[i].space[x])
               PROVE  PlacedAt(mods'[i].space[x][k], i, x, mods', cells')
    BY <1>8 DEF Placed
  <2>1. CASE i # here \/ x # n
    <3>1. mods'[i].space[x] = mods[i].space[x]
      <4>1. CASE i # here
        BY <1>8, <4>1
      <4>2. CASE i = here
        <5>1. old.space \in [Name -> Seq(Binding)]
          BY <1>4 DEF ModuleRecord
        <5>2. [old.space EXCEPT ![n] = s][x] = old.space[x]
          <6> HIDE DEF old, s
          <6> QED BY <2>1, <4>2, <5>1
        <5> QED BY <1>6, <1>8, <4>2, <5>2
      <4> QED BY <4>1, <4>2
    <3>2. PlacedAt(mods[i].space[x][k], i, x, mods, cells)
      BY <3>1 DEF IInv, Placed
    <3> QED BY <1>12, <3>1, <3>2, StaysPlaced
  <2>2. CASE i = here /\ x = n
    <3>1. mods'[i].space[x] = s
      <4>1. old.space \in [Name -> Seq(Binding)]
        BY <1>4 DEF ModuleRecord
      <4>2. [old.space EXCEPT ![n] = s][n] = s
        <5> HIDE DEF old, s
        <5> QED BY <4>1
      <4> QED BY <1>6, <1>8, <2>2, <4>2
    <3>2. CASE k = 1
      BY <1>5, <1>13, <2>2, <3>1, <3>2
    <3>3. CASE k # 1
      <4>1. Len(s) \in Nat /\ Len(old.space[n]) \in Nat
        BY <1>4, <1>5, LenProperties
      <4>2. k \in 2..Len(s) /\ k - 1 \in 1..Len(old.space[n])
        <5>1. k \in 1..Len(s)
          BY <3>1
        <5> HIDE DEF s, old
        <5> QED BY <1>5, <3>3, <4>1, <5>1
      <4>3. PlacedAt(old.space[n][k-1], here, n, mods, cells)
        BY <1>1, <4>2 DEF IInv, Placed
      <4>4. PlacedAt(old.space[n][k-1], here, n, mods', cells')
        <5> HIDE DEF old
        <5>1. \A o : PlacedAt(o, here, n, mods, cells) => PlacedAt(o, i, x, mods', cells')
          BY <1>12, <2>2, StaysPlaced
        <5> QED BY <2>2, <4>3, <5>1
      <4> QED BY <1>5, <2>2, <3>1, <4>2, <4>4
    <3> QED BY <3>2, <3>3
  <2> QED BY <2>1, <2>2
<1> QED BY <1>10, <1>11, <1>14 DEF IInv

\* A module is defined, whether its clauses fail or not.
LEMMA ModuleAdded ==
  ASSUME IInv, NEW form \in Forms, NEW garbage \in BOOLEAN, DefineModule(form, garbage)
  PROVE  IInv'
<1> DEFINE e == Clauses(form.sym, form.clauses, garbage)
           new == [sym |-> form.sym, exports |-> e.exports, space |-> e.space]
<1> USE Records DEF IInv
<1>1. form.sym \in Module /\ form.clauses \in Seq(AnyClause)
  BY FormsAssumption DEF AnyClause
<1>2. e \in Draft
  BY <1>1, ClausesLater DEF Later
<1>3. /\ e.exports \in SUBSET Name /\ e.space \in [Name -> Seq(Imported)]
      /\ e.gfs \in [1..Len(gfs) -> SUBSET Method] /\ e.failed \in BOOLEAN
  <2> HIDE DEF e
  <2> QED BY <1>2, DraftFields
<1>4. /\ Len(mods) < MaxModules
      /\ mods' = Append(mods, new) /\ gfs' = e.gfs /\ cells' = cells
  BY DEF DefineModule
<1>5. /\ {here', current', prompt'} \subseteq 1..Len(mods) + 1 /\ loading' \in BOOLEAN
  <2> HIDE DEF e
  <2>1. Len(mods) + 1 \in 1..Len(mods) + 1 /\ \A i \in 1..Len(mods) : i \in 1..Len(mods) + 1
    OBVIOUS
  <2>2. here' \in {prompt, current, here} /\ current' \in {current, Len(mods) + 1}
        /\ prompt' \in {prompt, here'} /\ loading' \in {loading, FALSE}
    BY DEF DefineModule, Evaluated, ErrorReset
  <2> QED BY <2>1, <2>2 DEF TypeOK
<1>6. new \in ModuleRecord
  <2> HIDE DEF e
  <2>1. \A n \in Name : e.space[n] \in Seq(Binding)
    <3>1. Imported \subseteq Binding
      BY DEF Imported
    <3> QED BY <1>3, <3>1, SeqMonotonic
  <2>2. e.space \in [Name -> Seq(Binding)]
    BY <1>3, <2>1
  <2> QED BY <1>1, <1>3, <2>2 DEF ModuleRecord
<1>7. /\ mods' \in Seq(ModuleRecord) /\ Len(mods') = Len(mods) + 1
      /\ DOMAIN mods' = 1..Len(mods) + 1
      /\ mods'[Len(mods) + 1] = new /\ \A i \in 1..Len(mods) : mods'[i] = mods[i]
  <2> HIDE DEF new
  <2>1. mods' \in Seq(ModuleRecord) /\ Len(mods') = Len(mods) + 1
    BY <1>4, <1>6, AppendProperties DEF TypeOK
  <2>2. DOMAIN mods' = 1..Len(mods')
    BY <2>1, LenProperties
  <2> QED BY <1>4, <1>6, <2>1, <2>2, AppendProperties DEF TypeOK
<1>8. gfs' \in Seq(SUBSET Method) /\ Len(gfs') = Len(gfs)
  <2> HIDE DEF e
  <2>1. Len(gfs) \in Nat /\ gfs' \in [1..Len(gfs) -> SUBSET Method]
    BY <1>3, <1>4
  <2> HIDE DEF IInv
  <2> QED BY <2>1, IsSequence
<1>9. TypeOK'
  <2> HIDE DEF new, e
  <2>1. Len(mods') <= MaxModules
    BY <1>4, <1>7, LimitsAssumption
  <2>2. cells' \in Seq(Cell) /\ Len(cells') <= MaxCells /\ Len(gfs') <= MaxGFs
    BY <1>4, <1>8 DEF TypeOK
  <2> QED BY <1>5, <1>7, <1>8, <2>1, <2>2 DEF TypeOK
<1>10. Numbered'
  <2> SUFFICES ASSUME NEW c \in 1..Len(cells)
               PROVE  cells[c].home <= Len(mods) + 1 /\ cells[c].gf <= Len(gfs)
    <3> HIDE DEF new, e
    <3> QED BY <1>4, <1>7, <1>8 DEF Numbered
  <2> QED BY HomeThere, NumberOfGF
<1>11. Kept
  <2> HIDE DEF new, e
  <2> QED BY <1>4, <1>7 DEF Kept
<1>12. Placed'
  <2> SUFFICES ASSUME NEW i \in 1..Len(mods) + 1, NEW n \in Name,
                      NEW k \in 1..Len(mods'[i].space[n])
               PROVE  PlacedAt(mods'[i].space[n][k], i, n, mods', cells')
    BY <1>7 DEF Placed
  <2>1. CASE i # Len(mods) + 1
    <3>1. i \in 1..Len(mods) /\ mods'[i] = mods[i]
      BY <1>7, <2>1
    <3>2. PlacedAt(mods[i].space[n][k], i, n, mods, cells)
      BY <3>1 DEF Placed
    <3> QED BY <1>11, <3>1, <3>2, StaysPlaced
  <2>2. CASE i = Len(mods) + 1
    <3> DEFINE b == e.space[n][k]
    <3>1. mods'[i].space[n] = e.space[n]
      BY <1>7, <2>2
    <3>2. b \in Imported
      <4> HIDE DEF e
      <4>1. e.space[n] \in Seq(Imported)
        BY <1>3
      <4> QED BY <3>1, <4>1, ElementOfSeq
    <3> HIDE DEF b
    <3>3. /\ b.cell \in 1..Len(cells)
          /\ cells[b.cell].name \in mods[cells[b.cell].home].exports
          /\ b.exported /\ cells[b.cell].const => b.const
      BY <3>2 DEF Imported
    <3>4. cells[b.cell].home \in 1..Len(mods)
      BY <3>3, HomeThere
    <3>5. PlacedAt(b, i, n, mods', cells')
      <4> HIDE DEF new, e
      <4>1. mods'[cells[b.cell].home].exports = mods[cells[b.cell].home].exports
        BY <1>11, <3>4 DEF Kept
      <4>2. cells[b.cell].home # i
        BY <2>2, <3>4
      <4> QED BY <1>4, <3>3, <4>1, <4>2 DEF PlacedAt
    <3> QED BY <3>1, <3>5 DEF b
  <2> QED BY <2>1, <2>2
<1> QED BY <1>9, <1>10, <1>12

LEMMA NothingChanged ==
  ASSUME IInv, UNCHANGED <<mods, cells, gfs>>,
         {here', current', prompt'} \subseteq 1..Len(mods), loading' \in BOOLEAN
  PROVE  IInv'
<1>1. Kept
  BY Records DEF Kept, IInv
<1> QED BY <1>1, NothingBound DEF IInv, TypeOK

\* What a form does to the globals when it is evaluated, or fails.
LEMMA Globals ==
  ASSUME IInv, Evaluated \/ ErrorReset, UNCHANGED here \/ ErrorReset, UNCHANGED current
  PROVE  {here', current', prompt'} \subseteq 1..Len(mods) /\ loading' \in BOOLEAN
BY Records DEF IInv, Evaluated, ErrorReset, TypeOK

\* define method.
LEMMA MethodDefined ==
  ASSUME IInv, NEW n \in Name, NEW x \in Method, DefineMethod(n, x)
  PROVE  IInv'
<1> DEFINE g == cells[Denoted(n).cell].gf
<1>1. CASE ~Bound(n)
  <2>1. /\ Len(gfs) < MaxGFs /\ AddBinding(n, FALSE, Len(gfs) + 1) /\ gfs' = Append(gfs, {x})
        /\ {here', current', prompt'} \subseteq 1..Len(mods) /\ loading' \in BOOLEAN
    BY <1>1, Globals DEF DefineMethod
  <2>2. gfs' \in Seq(SUBSET Method) /\ Len(gfs') = Len(gfs) + 1
    BY <2>1, AppendProperties DEF IInv, TypeOK
  <2>3. Len(gfs) + 1 \in 0..Len(gfs') /\ Len(gfs') >= Len(gfs) /\ Len(gfs') <= MaxGFs
    BY <2>1, <2>2, Records, LimitsAssumption DEF IInv
  <2> QED BY <2>1, <2>2, <2>3, BindingAdded
<1>2. CASE Bound(n) /\ g # 0
  <2>1. /\ gfs' = [gfs EXCEPT ![g] = @ \cup {x}] /\ UNCHANGED <<mods, cells>>
        /\ {here', current', prompt'} \subseteq 1..Len(mods) /\ loading' \in BOOLEAN
    BY <1>2, Globals DEF DefineMethod
  <2>2. gfs' \in Seq(SUBSET Method) /\ Len(gfs') = Len(gfs)
    <3>1. Denoted(n).cell \in 1..Len(cells)
      <4>1. mods[here].space[n] # <<>> /\ here \in 1..Len(mods)
        BY <1>2, Records DEF Bound, IInv
      <4>2. mods[here].space[n] \in Seq(Binding)
        BY <4>1, Chains DEF IInv
      <4>3. 1 \in 1..Len(mods[here].space[n]) /\ Denoted(n) = mods[here].space[n][1]
        BY <4>1, <4>2, EmptySeq, LenProperties DEF Denoted
      <4>4. PlacedAt(mods[here].space[n][1], here, n, mods, cells)
        BY <4>1, <4>3 DEF IInv, Placed
      <4> QED BY <4>3, <4>4 DEF PlacedAt
    <3>2. g \in 0..Len(gfs)
      BY <3>1, NumberOfGF
    <3>3. g \in 1..Len(gfs)
      <4> HIDE DEF g
      <4> QED BY <1>2, <3>2, Records DEF IInv
    <3>4. gfs[g] \cup {x} \in SUBSET Method
      BY <3>3, Records DEF IInv
    <3> HIDE DEF g
    <3> QED BY <2>1, <3>3, <3>4, ExceptSeq DEF IInv, TypeOK
  <2>3. Kept
    BY <2>1, Records DEF Kept, IInv
  <2> QED BY <2>1, <2>2, <2>3, NothingBound DEF IInv, TypeOK
<1>3. CASE Bound(n) /\ g = 0
  <2>1. UNCHANGED <<mods, cells, gfs>> /\ UNCHANGED current /\ ErrorReset
    BY <1>3 DEF DefineMethod
  <2> QED BY <2>1, Globals, NothingChanged
<1> QED BY <1>1, <1>2, <1>3

\* An assignment.
LEMMA Assigned ==
  ASSUME IInv, NEW n \in Name, Assign(n)
  PROVE  IInv'
<1> DEFINE x == Denoted(n).cell
<1>1. CASE UNCHANGED <<mods, cells, gfs, current>> /\ ErrorReset
  BY <1>1, Globals, NothingChanged
<1>2. CASE /\ UNCHANGED <<mods, gfs, here, current>> /\ Evaluated
           /\ cells' = [cells EXCEPT ![x].assigned = TRUE, ![x].gf = 0]
  <2>1. ASSUME NEW c \in 1..Len(cells)
        PROVE  /\ cells'[c] \in Cell
               /\ cells'[c].home = cells[c].home /\ cells'[c].name = cells[c].name
               /\ cells'[c].const = cells[c].const /\ cells'[c].gf \in {cells[c].gf, 0}
    <3>1. cells[c] \in Cell
      BY Records DEF IInv
    <3>2. 0 \in 0..MaxGFs
      BY LimitsAssumption
    <3>3. cells'[c] = cells[c] \/ cells'[c] = [cells[c] EXCEPT !.assigned = TRUE, !.gf = 0]
      BY <1>2, Records DEF IInv
    <3> QED BY <3>1, <3>2, <3>3 DEF Cell
  <2>2. DOMAIN cells' = 1..Len(cells) /\ Len(cells) \in Nat
    BY <1>2, Records DEF IInv
  <2>3. cells' = [c \in 1..Len(cells) |-> cells'[c]]
    BY <1>2, <2>2
  <2>4. cells' \in [1..Len(cells) -> Cell]
    BY <2>1, <2>3
  <2>5. cells' \in Seq(Cell) /\ Len(cells') = Len(cells)
    <3>1. cells' \in Seq(Cell)
      BY <2>2, <2>4, SeqDef
    <3> QED BY <2>2, <3>1, LenProperties
  <2>6. Kept
    BY <1>2, <2>1, <2>2, <2>5 DEF Kept
  <2>7. {here', current', prompt'} \subseteq 1..Len(mods) /\ loading' \in BOOLEAN
    BY <1>2, Globals
  <2>8. UNCHANGED mods /\ gfs' \in Seq(SUBSET Method) /\ Len(gfs') = Len(gfs)
    BY <1>2 DEF IInv, TypeOK
  <2> QED BY <2>1, <2>5, <2>6, <2>7, <2>8, NothingBound
<1> QED BY <1>1, <1>2 DEF Assign

LEMMA StepIInv == IInv /\ [Next]_vars => IInv'
<1> SUFFICES ASSUME IInv, [Next]_vars PROVE IInv'
  OBVIOUS
<1> USE Records DEF IInv
<1>1. ASSUME NEW n \in Name, NEW const \in BOOLEAN, Define(n, const) PROVE IInv'
  <2>1. /\ AddBinding(n, const, 0) /\ UNCHANGED gfs
        /\ {here', current', prompt'} \subseteq 1..Len(mods) /\ loading' \in BOOLEAN
    BY <1>1, Globals DEF Define
  <2>2. gfs' \in Seq(SUBSET Method) /\ 0 \in 0..Len(gfs') /\ Len(gfs') >= Len(gfs) /\ Len(gfs') <= MaxGFs
    BY <2>1 DEF TypeOK
  <2> HIDE DEF IInv
  <2> QED BY <2>1, <2>2, BindingAdded
<1>2. ASSUME NEW n \in Name, NEW x \in Method, DefineMethod(n, x) PROVE IInv'
  BY <1>2, MethodDefined
<1>3. ASSUME NEW n \in Name, Assign(n) PROVE IInv'
  BY <1>3, Assigned
<1>4. ASSUME NEW form \in Forms, NEW garbage \in BOOLEAN, DefineModule(form, garbage) PROVE IInv'
  BY <1>4, ModuleAdded
<1>5. ASSUME NEW m \in Visited, SetModule(m) \/ SetModuleInBody(m) \/ StartLoad(m) PROVE IInv'
  <2>1. UNCHANGED <<mods, cells, gfs>> /\ Known(m)
    BY <1>5 DEF SetModule, SetModuleInBody, StartLoad
  <2>2. module_binding(m) \in 1..Len(mods)
    BY <2>1, FoundModule
  <2>3. {here', current', prompt'} \subseteq 1..Len(mods) /\ loading' \in BOOLEAN
    BY <1>5, <2>2 DEF SetModule, SetModuleInBody, StartLoad, Evaluated, TypeOK
  <2> QED BY <2>1, <2>3, NothingChanged
<1>6. CASE EndLoad
  BY <1>6, NothingChanged DEF EndLoad
<1>7. CASE Fail
  BY <1>7, Globals, NothingChanged DEF Fail
<1>8. CASE UNCHANGED vars
  BY <1>8, NothingChanged DEF vars, TypeOK
<1> QED BY <1>1, <1>2, <1>3, <1>4, <1>5, <1>6, <1>7, <1>8 DEF Next

LEMMA InvariantHolds == Spec => []IInv
<1> QED BY InitIInv, StepIInv, PTL DEF Spec

----------------------------------------------------------------------------

\* Modules, cells and generic functions are what they should be, and the globals name
\* modules, whatever a program defines, uses, loads and fails at.
THEOREM TypeCorrect == Spec => []TypeOK
<1>1. IInv => TypeOK
  BY DEF IInv
<1> QED BY <1>1, InvariantHolds, PTL

LEMMA OfAChain ==
  ASSUME IInv, NEW i \in 1..Len(mods), NEW b \in Bindings(i)
  PROVE  \E n \in Name : PlacedAt(b, i, n, mods, cells)
<1>1. PICK n \in Name : b \in {mods[i].space[n][k] : k \in DOMAIN mods[i].space[n]}
  BY DEF Bindings
<1>2. PICK k \in DOMAIN mods[i].space[n] : b = mods[i].space[n][k]
  BY <1>1
<1>3. k \in 1..Len(mods[i].space[n])
  BY Chains DEF IInv
<1>4. PlacedAt(b, i, n, mods, cells)
  BY <1>2, <1>3 DEF IInv, Placed
<1> QED BY <1>4

\* What a module does not export is bound nowhere else, however many modules use and
\* re-export one another (use_module, env.c:592-599).
THEOREM HiddenNamesStayHidden == Spec => []HiddenStaysHidden
<1>1. ASSUME IInv PROVE HiddenStaysHidden
  <2> SUFFICES ASSUME NEW i \in DOMAIN mods, NEW b \in Bindings(i), cells[b.cell].home # i
               PROVE  cells[b.cell].name \in mods[cells[b.cell].home].exports
    BY DEF HiddenStaysHidden
  <2>1. \E n \in Name : PlacedAt(b, i, n, mods, cells)
    BY <1>1, OfAChain, Records DEF IInv
  <2> QED BY <2>1 DEF PlacedAt
<1> QED BY <1>1, InvariantHolds, PTL

\* A constant that is imported and exported again is a constant wherever it comes to
\* (import_top_level_binding, env.c:521).
THEOREM ConstantsReexported == Spec => []ReexportedConstants
<1>1. ASSUME IInv PROVE ReexportedConstants
  <2> SUFFICES ASSUME NEW i \in DOMAIN mods, NEW b \in Bindings(i),
                      b.exported, cells[b.cell].const
               PROVE  b.const
    BY DEF ReexportedConstants
  <2>1. \E n \in Name : PlacedAt(b, i, n, mods, cells)
    BY <1>1, OfAChain, Records DEF IInv
  <2> QED BY <2>1 DEF PlacedAt
<1> QED BY <1>1, InvariantHolds, PTL

\* Of generic functions that two used modules export under one name, the one the name
\* denotes in the new module has the methods of both (use_module, env.c:626-638).
THEOREM MethodsMerged == Spec => MergedMethods
<1> DEFINE At(c, n) ==
             LET chain == Importable(mods[module_binding(c.used)], n, c.all)
                 bound == mods'[Len(mods')].space[c.as[n]]
             IN  chain # <<>> /\ cells[bound[1].cell].gf # 0 /\ cells[chain[1].cell].gf # 0
                 => gfs[cells[chain[1].cell].gf] \subseteq gfs'[cells[bound[1].cell].gf]
<1>1. ASSUME IInv, current' = current, NEW form \in Forms, DefineModule(form, FALSE),
             NEW i \in DOMAIN form.clauses, NEW n \in Name,
             form.clauses[i].kind = "use", Known(form.clauses[i].used)
      PROVE  At(form.clauses[i], n)
  <2> DEFINE c   == form.clauses[i]
             e   == Clauses(form.sym, form.clauses, FALSE)
             new == [sym |-> form.sym, exports |-> e.exports, space |-> e.space]
  <2>1. form.sym \in Module /\ form.clauses \in Seq(AnyClause) /\ i \in 1..Len(form.clauses)
    <3>1. form.sym \in Module /\ form.clauses \in Seq(AnyClause)
      BY FormsAssumption DEF AnyClause
    <3> QED BY <3>1, LenProperties
  <2>2. c \in UseClause
    <3>1. c \in AnyClause
      BY <2>1, ElementOfSeq
    <3> QED BY <1>1, <3>1 DEF AnyClause, ExportClause
  <2>3. c.all \in BOOLEAN
    BY <2>2, UseFields
  <2>4. mods' = Append(mods, new) /\ gfs' = e.gfs /\ ~e.failed
    <3>1. Len(mods) + 1 # current
      BY <1>1, Records DEF IInv
    <3> HIDE DEF e
    <3> QED BY <1>1, <3>1 DEF DefineModule, e
  <2>5. Merged(EmptyDraft(form.sym), e, module_binding(c.used), c, n, c.all \/ FALSE)
    <3> HIDE DEF e
    <3> QED BY <1>1, <2>1, <2>4, ClausesLater DEF e
  <2>6. (c.all \/ FALSE) = c.all
    BY <2>3
  <2>7. mods'[Len(mods')].space = e.space
    <3>1. mods'[Len(mods')] = new
      <4> HIDE DEF new
      <4>1. mods \in Seq(ModuleRecord) /\ Len(mods) \in Nat
        BY <1>1, Records DEF IInv, TypeOK
      <4>2. Len(mods') = Len(mods) + 1 /\ mods'[Len(mods) + 1] = new
        BY <2>4, <4>1
      <4> QED BY <4>2
    <3> HIDE DEF e
    <3> QED BY <3>1
  <2>8. EmptyDraft(form.sym).gfs = gfs
    BY DEF EmptyDraft
  <2> HIDE DEF e, c
  <2> QED BY <2>4, <2>5, <2>6, <2>7, <2>8 DEF Merged, c
<1> DEFINE Merges ==
             Len(mods') > Len(mods) /\ current' = current =>
               \A form \in Forms : DefineModule(form, FALSE) =>
                 \A i \in DOMAIN form.clauses : \A n \in Name :
                   LET c == form.clauses[i] IN c.kind = "use" /\ Known(c.used) => At(c, n)
<1>2. ASSUME IInv PROVE Merges
  <2> HIDE DEF At
  <2> QED BY <1>1, <1>2
<1>3. IInv => [Merges]_vars
  BY <1>2
<1> QED BY <1>3, InvariantHolds, PTL DEF MergedMethods
=============================================================================
