------------------------------ MODULE Classes -------------------------------
(***************************************************************************)
(* Classes, their slots, and the methods that read them (class.c, slot.c,  *)
(* define class in syntax.c).                                              *)
(*                                                                         *)
(* define class makes a class object and enters it everywhere at once; the *)
(* methods of its getters are made later, when an instance of it or of a   *)
(* class below it is made for the first time.  A getter method is made for *)
(* the class that the name of the class denotes then, and reads a place    *)
(* that is fixed by the class it is made for.                              *)
(*                                                                         *)
(* Setters, types and initial values of slots go the way of the getters.   *)
(* Slots of class, constant and virtual allocation are left out; so are    *)
(* classes that are not instantiable, but for <object>: no other matters   *)
(* to the places of slots.                                                 *)
(***************************************************************************)
EXTENDS Precedence

CONSTANTS
  Name,        \* the names of classes
  Getter,      \* the generic functions that read slots
  SlotLists,   \* the slots of a class definition, each a sequence of Slot
  Redundant,   \* whether a direct superclass may be, or be below, another one
  Unprepared,  \* whether a class without getter methods may be redefined
  Sealable,    \* bound: the classes a program seals, by number
  MaxSupers,   \* bound: direct superclasses
  MaxClasses   \* bound: class objects ever made

Slot == [getter : Getter, each : BOOLEAN]

ASSUME FormsAssumption   == SlotLists \subseteq Seq(Slot)
ASSUME ClassesAssumption == MaxClasses \in Nat \ {0} /\ MaxSupers \in Nat

VARIABLES
  classes,   \* the class objects, by number; the first is <object>
  denoted,   \* the class a name is bound to, 0 if none
  getters    \* getters[g]: the methods of the getter g

vars == <<classes, denoted, getters>>

ClassNumber == 1..MaxClasses

\* supers and cpl are CLASSSUPERS and CLASSPRECLIST, <<>> if it was not made.  own, ins and
\* each: CLASSSLOTDS, CLASSINSLOTDS and CLASSESSLOTDS, as getters.  uninit: CLASSSLOTSUNINIT.
\* made: make_class came to its end.
ClassRecord == [name : Name \cup {"<object>"}, supers : Seq(ClassNumber), cpl : Seq(ClassNumber),
                own : Seq(Getter), ins : Seq(Getter), each : Seq(Getter),
                uninit : BOOLEAN, sealed : BOOLEAN, made : BOOLEAN]

\* The method of a getter for class cls: the element at of the slots of the instance if of
\* is 0, of the class slots of class of otherwise.
GetterMethod == [cls : ClassNumber, of : {0} \cup ClassNumber, at : Nat \ {0}]

TypeOK ==
  /\ classes \in Seq(ClassRecord) /\ Len(classes) <= MaxClasses
  /\ denoted \in [Name -> 0..Len(classes)]
  /\ \A g \in Getter : \A m \in getters[g] : m \in GetterMethod

Init ==
  /\ classes = << [name |-> "<object>", supers |-> <<>>, cpl |-> <<1>>, own |-> <<>>, ins |-> <<>>,
                   each |-> <<>>, uninit |-> FALSE, sealed |-> FALSE, made |-> TRUE] >>
  /\ denoted = [n \in Name |-> 0]
  /\ getters = [g \in Getter |-> {}]

-----------------------------------------------------------------------------
(* define class. *)

Lists == [d \in DOMAIN classes |-> classes[d].cpl]

\* class d is below class e, by CLASSSUPERS: the classes of its precedence list.
Below(d, e) == d # e /\ Contains(classes[d].cpl, e)

\* The descriptors append_slot_descriptors is called with for the superclasses, the most
\* general first, up to a sealed one; each with the list it goes to.
Inherited(supers) ==
  FlattenSeq([i \in DOMAIN supers |->
    [j \in DOMAIN classes[supers[i]].own |-> [getter |-> classes[supers[i]].own[j], to |-> "ins"]] \o
    [j \in DOMAIN classes[supers[i]].each |-> [getter |-> classes[supers[i]].each[j], to |-> "each"]]])

Added(slots) ==
  [i \in DOMAIN slots |->
     [getter |-> slots[i].getter, to |-> IF slots[i].each THEN "each" ELSE "own"]]

\* append_one_slot_descriptor stops at a getter that is there already.
UpToDuplicate(descs) ==
  LET dups == {i \in DOMAIN descs : \E j \in 1..(i-1) : descs[j].getter = descs[i].getter}
  IN  IF dups = {} THEN descs
      ELSE SubSeq(descs, 1, (CHOOSE i \in dups : \A j \in dups : i <= j) - 1)

Going(descs, to) ==
  LET there[i \in 0..Len(descs)] ==
        IF i = 0 THEN <<>>
        ELSE IF descs[i].to = to THEN Append(there[i-1], descs[i].getter) ELSE there[i-1]
  IN  there[Len(descs)]

\* The superclasses in the order make_class goes through them, up to a sealed one.
UpToSealed(general) ==
  LET closed == {i \in DOMAIN general : classes[general[i]].sealed}
  IN  IF closed = {} THEN general
      ELSE SubSeq(general, 1, (CHOOSE i \in closed : \A j \in closed : i <= j) - 1)

\* make_class: the class object as it is left, at its end or by the error on its way.
make_class(n, supers, slots) ==
  LET c       == Len(classes) + 1
      cpl     == PrecedenceList(c, supers, Lists)
      general == Reverse(Tail(cpl))
      open    == UpToSealed(general)
      descs   == Inherited(open) \o (IF open = general THEN Added(slots) ELSE <<>>)
      kept    == UpToDuplicate(descs)
      made    == cpl # <<>> /\ open = general /\ kept = descs
  IN  IF cpl = <<>>
      THEN [name |-> n, supers |-> supers, cpl |-> <<>>, own |-> <<>>, ins |-> <<>>,
            each |-> <<>>, uninit |-> FALSE, sealed |-> FALSE, made |-> FALSE]
      ELSE [name |-> n, supers |-> supers, cpl |-> cpl, own |-> Going(kept, "own"),
            ins |-> Going(kept, "ins"), each |-> Going(kept, "each"),
            uninit |-> made, sealed |-> FALSE, made |-> made]

\* A superclass the program can name and that has a precedence list; one that has none
\* ends the interpreter.
Possible(supers) ==
  /\ \A i \in DOMAIN supers : classes[supers[i]].cpl # <<>>
  /\ Redundant \/ \A i, j \in DOMAIN supers : i # j => ~Contains(classes[supers[i]].cpl, supers[j])

\* The name is bound before anything else is done, and stays bound if there is an error.
DefineClass(n, supers, slots) ==
  /\ Len(classes) < MaxClasses
  /\ denoted[n] # 0 => Unprepared \/ ~classes[denoted[n]].uninit
  /\ Possible(supers)
  /\ classes' = Append(classes, make_class(n, supers, slots))
  /\ denoted' = [denoted EXCEPT ![n] = Len(classes) + 1]
  /\ UNCHANGED getters

seal(c) ==
  /\ ~classes[c].sealed
  /\ classes' = [classes EXCEPT ![c].sealed = TRUE]
  /\ UNCHANGED <<denoted, getters>>

-----------------------------------------------------------------------------
(* make. *)

\* The slots of an instance of c, in order (make_instance).
Layout(c) == classes[c].ins \o classes[c].own

\* Slip: the superclasses are not looked at.
PendingSelfOnly(c) == IF classes[c].uninit THEN <<c>> ELSE <<>>

\* The classes that the direct superclasses ask for, in their order.
Joined(pending, supers) ==
  LET joined[i \in 0..Len(supers)] ==
        IF i = 0 THEN <<>> ELSE loops_concatenate(joined[i-1], pending[supers[i]])
  IN  joined[Len(supers)]

\* initialize_slotds: the classes that get their methods before c, and c; a superclass of
\* one that has them is not looked at.
Pending(c) ==
  LET pending[d \in DOMAIN classes] ==
        IF classes[d].uninit THEN Append(Joined(pending, classes[d].supers), d) ELSE <<>>
  IN  pending[c]

\* The class make_method specializes a getter method of c for.
Specializer(c) == IF c = 1 THEN 1 ELSE denoted[classes[c].name]

\* Slip: the own slots are numbered from the start.
InstanceGettersOwnFirst(c, g) ==
  {[cls |-> Specializer(c), of |-> 0, at |-> i] :
     i \in {i \in 1..Len(Layout(c)) : (classes[c].own \o classes[c].ins)[i] = g}}

\* Slip: the places are numbered from 0.
InstanceGettersFromZero(c, g) ==
  {[cls |-> Specializer(c), of |-> 0, at |-> i - 1] :
     i \in {i \in DOMAIN Layout(c) : Layout(c)[i] = g}}

\* make_getters_setters, for getter g and the slots of an instance.
InstanceGetters(c, g) ==
  {[cls |-> Specializer(c), of |-> 0, at |-> i] : i \in {i \in DOMAIN Layout(c) : Layout(c)[i] = g}}

\* The same for the class slots of c.
ClassGetters(c, g) ==
  {[cls |-> Specializer(c), of |-> c, at |-> i] :
     i \in {i \in DOMAIN classes[c].each : classes[c].each[i] = g}}

\* add_method: a method for a class takes the place of one for the same class.
Replacing(old, new) == {m \in old : \A k \in new : k.cls # m.cls} \cup new

\* The first k of the pending classes get their methods, and if half, those for the instance
\* slots of the one after them.
Prepared(pending, k, half) ==
  LET g0[i \in 0..k] ==
        IF i = 0 THEN getters
        ELSE [g \in Getter |->
                Replacing(g0[i-1][g], InstanceGetters(pending[i], g) \cup ClassGetters(pending[i], g))]
  IN  IF half
      THEN [g \in Getter |-> Replacing(g0[k][g], InstanceGetters(pending[k+1], g))]
      ELSE g0[k]

\* Evaluating the type of a slot of c may signal an error: of an instance slot, or, when the
\* instance slots have their methods, of a class slot.
MayFail(c, half) == IF half THEN classes[c].each # <<>> ELSE classes[c].own # <<>>

\* make (c): all pending classes get their methods, or the next one fails.
Make(c) ==
  LET pending == Pending(c)
  IN  /\ classes[c].cpl # <<>>
      /\ \E k \in 0..Len(pending), half \in BOOLEAN :
           /\ \/ k = Len(pending) /\ ~half
              \/ k < Len(pending) /\ MayFail(pending[k+1], half)
           /\ getters' = Prepared(pending, k, half)
           /\ classes' = [d \in DOMAIN classes |->
                IF \E i \in 1..k : pending[i] = d THEN [classes[d] EXCEPT !.uninit = FALSE]
                ELSE classes[d]]
      /\ UNCHANGED denoted

Next ==
  \/ \E n \in Name, slots \in SlotLists, k \in 1..MaxSupers :
       \E supers \in [1..k -> DOMAIN classes] : DefineClass(n, supers, slots)
  \/ \E c \in Sealable \cap DOMAIN classes : seal(c)
  \/ \E c \in DOMAIN classes \ {1} : Make(c)

Spec == Init /\ [][Next]_vars

-----------------------------------------------------------------------------
(* Properties. *)

Position(list, x) == CHOOSE i \in DOMAIN list : list[i] = x

\* The walk for the list of c met a shortcut.
ShortcutAt(c) == Shortcut(Graph(c, classes[c].supers, Lists))

\* A precedence list has the class and all classes above it, each once, and keeps the order
\* of the precedence list of each of these: it is monotonic (DIFFERENCES:25-28).  It is as
\* long as no walk for it or for the classes above met a shortcut: a class that is entered
\* twice has its edges counted twice, and a class after it may come into the list too early
\* (classprec-ll.c:252-256).
MonotonicLists ==
  \A c \in DOMAIN classes :
    LET list == classes[c].cpl IN
    /\ list # <<>> => ToSet(list) = Ancestors(c, classes[c].supers, Lists)
    /\ \A i, j \in DOMAIN list : list[i] = list[j] => i = j
    /\ (\A d \in ToSet(list) : ~ShortcutAt(d)) =>
         \A d \in ToSet(list) : \A i, j \in DOMAIN classes[d].cpl :
           i < j => Position(list, classes[d].cpl[i]) < Position(list, classes[d].cpl[j])

\* The method a getter call runs for an instance of c: of those for a class above it, the
\* one below the others, or ahead in the precedence list of c (function.c:1199-1267).
Chosen(c, g) ==
  LET app == {m \in getters[g] : m.cls = c \/ Below(c, m.cls)}
  IN  {m \in app : \A p \in app \ {m} :
         \/ Below(m.cls, p.cls)
         \/ /\ ~Below(p.cls, m.cls)
            /\ Position(classes[c].cpl, m.cls) < Position(classes[c].cpl, p.cls)}

\* An instance has each instance slot of its class and of the classes above it in one place,
\* and the getter reads it there; an each-subclass slot is read in the class slots of its
\* own class.  So it is as long as a class has its getter methods before its name is bound
\* to another class (class.c:1209-1214).
SlotsInPlace ==
  \A c \in {d \in DOMAIN classes : classes[d].made /\ ~classes[d].uninit} :
    /\ \A d \in ToSet(classes[c].cpl) : \A i \in DOMAIN classes[d].own :
         LET places == {j \in DOMAIN Layout(c) : Layout(c)[j] = classes[d].own[i]}
         IN  /\ Cardinality(places) = 1
             /\ {[of |-> m.of, at |-> m.at] : m \in Chosen(c, classes[d].own[i])} =
                  {[of |-> 0, at |-> j] : j \in places}
    /\ \A i \in DOMAIN classes[c].each :
         {[of |-> m.of, at |-> m.at] : m \in Chosen(c, classes[c].each[i])} = {[of |-> c, at |-> i]}

\* The classes above one that has its getter methods have theirs, whatever make has failed
\* on its way, unless one between them is left over from a definition that failed
\* (class.c:768-781).
SuperclassesFirst ==
  \A c \in DOMAIN classes :
    ~classes[c].uninit /\ (\A d \in ToSet(classes[c].cpl) : classes[d].made) =>
      \A d \in ToSet(classes[c].cpl) : ~classes[d].uninit
=============================================================================
