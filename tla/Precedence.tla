----------------------------- MODULE Precedence -----------------------------
(***************************************************************************)
(* Class precedence lists (classprec-ll.c, the one the Makefile chooses):  *)
(* the L*LOOPS algorithm, as the code runs it.                             *)
(*                                                                         *)
(* The list of a new class is made from those of its direct superclasses:  *)
(* a graph with an edge from the class to each of these and one for each   *)
(* two neighbours in a list; then a walk that enters a class when no edge  *)
(* into it is left, the counts of which are shared by all of the walk.     *)
(***************************************************************************)
EXTENDS Integers, SequencesExt

\* build_l_graph: the edges, in the order concatenate_successor gets them.
Neighbours(list) == [j \in 1..(Len(list) - 1) |-> <<list[j], list[j+1]>>]

Edges(c, supers, lists) ==
  FlattenSeq([i \in DOMAIN supers |-> << <<c, supers[i]>> >> \o Neighbours(lists[supers[i]])])

\* concatenate_successor: each successor of x once.
Successors(x, edges) ==
  LET succ[i \in 0..Len(edges)] ==
        IF i = 0 THEN <<>>
        ELSE LET before == succ[i-1]
             IN  IF edges[i][1] = x /\ ~Contains(before, edges[i][2])
                 THEN Append(before, edges[i][2]) ELSE before
  IN  succ[Len(edges)]

loops_concatenate(list1, list2) ==
  LET new[i \in 0..Len(list2)] ==
        IF i = 0 THEN list1
        ELSE LET before == new[i-1]
             IN  IF Contains(before, list2[i]) THEN before ELSE Append(before, list2[i])
  IN  new[Len(list2)]

\* Slip: a class is entered when an edge into it has been met.
ReadyOnce(subs, x) == TRUE

\* Every edge into x has been met.
Ready(subs, x) == subs[x] = 0

\* The classes the list must have (CLASSSORTEDPRECS).
Ancestors(c, supers, lists) == {c} \cup UNION {ToSet(lists[supers[i]]) : i \in DOMAIN supers}

\* The successors of each class.
Graph(c, supers, lists) ==
  [x \in Ancestors(c, supers, lists) |-> Successors(x, Edges(c, supers, lists))]

\* The counts at the start.
Into(succ) == [x \in DOMAIN succ |-> Cardinality({p \in DOMAIN succ : Contains(succ[p], x)})]

\* The counts when the edges to the classes ys have been met.
Met(subs, ys) == [y \in DOMAIN subs |-> IF Contains(ys, y) THEN subs[y] - 1 ELSE subs[y]]

\* The walk w comes to the successor y.
Passed(step, w, y) ==
  IF ~Ready(w.subs, y) THEN w
  ELSE LET rest == step[<<y, w.subs>>]
       IN  [list |-> loops_concatenate(w.list, rest.list), subs |-> rest.subs]

\* The walk enters x: it meets the edges from x, then goes on from each successor in turn.
Entered(step, succ, x, subs) ==
  LET walk[i \in 0..Len(succ[x])] ==
        IF i = 0 THEN [list |-> <<x>>, subs |-> Met(subs, succ[x])]
        ELSE Passed(step, walk[i-1], succ[x][i])
  IN  walk[Len(succ[x])]

\* step: the list from a class on, and the counts it leaves.  A class may be entered twice.
Walk(succ, c) ==
  LET step[at \in (DOMAIN succ) \X [DOMAIN succ -> Int]] == Entered(step, succ, at[1], at[2])
  IN  step[<<c, Into(succ)>>].list

\* compute_class_precedence_list: <<>> when a class did not make it into the list.
PrecedenceList(c, supers, lists) ==
  LET list == Walk(Graph(c, supers, lists), c)
  IN  IF Len(list) < Cardinality(Ancestors(c, supers, lists)) THEN <<>> ELSE list

-----------------------------------------------------------------------------
\* The classes that a walk from x comes to.
Reached(succ, x) ==
  {z \in DOMAIN succ : \A S \in SUBSET DOMAIN succ :
     x \in S /\ (\A p \in S : ToSet(succ[p]) \subseteq S) => z \in S}

\* An edge leads past classes that the walk goes through before it comes to that edge, to a
\* class that is not the last.
Shortcut(succ) ==
  \E x \in DOMAIN succ : \E i, j \in DOMAIN succ[x] :
    i < j /\ succ[succ[x][j]] # <<>> /\ succ[x][j] \in Reached(succ, succ[x][i])
=============================================================================
