----------------------------- MODULE Namespace ------------------------------
(***************************************************************************)
(* Modules and top-level bindings (env.c, the module forms of syntax.c,    *)
(* the read-eval-print loop of main.c, load in file.c).                    *)
(*                                                                         *)
(* A module is a namespace, a chain of bindings for each name, and the set *)
(* of names it exports.  A binding points to a cell that holds the value;  *)
(* a use clause copies the bindings of another module, as they are then,   *)
(* and shares the cells.  Two globals say where the program is: the_env,   *)
(* through which names are looked up and defined, and the_current_module.  *)
(*                                                                         *)
(* A value is a generic function or anything else.  Types of bindings are  *)
(* left out, and that add_method may reject a method: Dispatch has that.   *)
(***************************************************************************)
EXTENDS Integers, Sequences, FiniteSets

CONSTANTS
  Module,      \* the names of modules, dylan and dylan-user among them
  Visited,     \* the modules a program goes to
  Name,        \* the names of bindings
  Kernel,      \* a name the dylan module binds, to a constant
  HashOrder,   \* the names in the order of their hash, in which a use clause meets them
  Method,      \* the methods a program defines
  Forms,       \* the define module forms of a program: [sym, clauses]
  MaxModules,  \* bound: modules ever defined
  MaxCells,    \* bound: cells ever made
  MaxGFs       \* bound: generic functions ever made

ASSUME NamesAssumption  == /\ {"dylan", "dylan-user"} \subseteq Module /\ Visited \subseteq Module
                           /\ Kernel \in Name /\ IsFiniteSet(Name)
                           /\ HashOrder \in [1..Cardinality(Name) -> Name]
                           /\ \A n \in Name : \E i \in DOMAIN HashOrder : HashOrder[i] = n
\* Clauses are explained below.
ExportClause == [kind : {"export"}, names : SUBSET Name]
UseClause    == [kind : {"use"}, used : Module, all : BOOLEAN, as : [Name -> Name],
                 exports : SUBSET Name]
ASSUME FormsAssumption  == Forms \subseteq [sym : Module, clauses : Seq(ExportClause \cup UseClause)]
ASSUME LimitsAssumption == MaxModules \in Nat \ {0, 1} /\ MaxCells \in Nat \ {0} /\ MaxGFs \in Nat

VARIABLES
  mods,     \* modules, oldest first; a module is known by its number
  cells,    \* the value cells, by number
  gfs,      \* the methods of the generic functions, by number
  here,     \* the module whose namespace the_env is
  current,  \* the_current_module
  prompt,   \* cache_env: the module of the_env at the last prompt
  loading   \* whether a file is being evaluated

vars == <<mods, cells, gfs, here, current, prompt, loading>>

\* The bits of props; a props of 0 is no import, not exported and no constant.
Binding == [cell : 1..MaxCells, const : BOOLEAN, exported : BOOLEAN]

\* exports is exported_bindings; `all' is Name.  space[n]: the chain of n, newest first.
ModuleRecord == [sym : Module, exports : SUBSET Name, space : [Name -> Seq(Binding)]]

\* home and name: the module and the name whose definition made the cell, and whether it
\* was a constant's.  gf: the generic function it holds, 0 if none.  assigned: whether an
\* assignment has changed it.
Cell == [home : 1..MaxModules, name : Name, const : BOOLEAN, gf : 0..MaxGFs, assigned : BOOLEAN]

TypeOK ==
  /\ mods \in Seq(ModuleRecord) /\ Len(mods) <= MaxModules
  /\ cells \in Seq(Cell) /\ Len(cells) <= MaxCells
  /\ gfs \in Seq(SUBSET Method) /\ Len(gfs) <= MaxGFs
  /\ {here, current, prompt} \subseteq DOMAIN mods
  /\ loading \in BOOLEAN

NoBindings == [n \in Name |-> <<>>]
OneKernel  == [NoBindings EXCEPT ![Kernel] = <<[cell |-> 1, const |-> TRUE, exported |-> TRUE]>>]

\* The prompt: init.dylan has been evaluated in dylan, and dylan-user uses it.
Init ==
  /\ mods = <<[sym |-> "dylan", exports |-> Name, space |-> OneKernel],
              [sym |-> "dylan-user", exports |-> Name, space |-> OneKernel]>>
  /\ cells = <<[home |-> 1, name |-> Kernel, const |-> TRUE, gf |-> 0, assigned |-> FALSE]>>
  /\ gfs = <<>>
  /\ here = 2 /\ current = 2 /\ prompt = 2
  /\ loading = FALSE

-----------------------------------------------------------------------------
(* Looking up. *)

\* symbol_binding_top_level: the newest binding, as a sequence of one, or <<>>.
Newest(space, n) == IF space[n] = <<>> THEN <<>> ELSE <<Head(space[n])>>

Bound(n)   == mods[here].space[n] # <<>>
Denoted(n) == Head(mods[here].space[n])

\* The module number i that module_binding finds: the first that has the name.
Known(m)          == \E i \in DOMAIN mods : mods[i].sym = m
module_binding(m) == CHOOSE i \in DOMAIN mods : mods[i].sym = m /\ \A j \in 1..(i-1) : mods[j].sym # m

\* A form at the prompt, or one of a file being loaded, has been evaluated.
Evaluated == prompt' = (IF loading THEN prompt ELSE here') /\ UNCHANGED loading

\* An error: the_env is what it was at the last prompt, and no file is being loaded.
ErrorReset == here' = prompt /\ loading' = FALSE /\ UNCHANGED prompt

-----------------------------------------------------------------------------
(* Definitions and assignments. *)

\* add_top_lvl_binding1: a binding and a cell, in front of those the name has.
AddBinding(n, const, gf) ==
  /\ Len(cells) < MaxCells
  /\ cells' = Append(cells, [home |-> here, name |-> n, const |-> const, gf |-> gf,
                             assigned |-> FALSE])
  /\ mods' = [mods EXCEPT ![here].space[n] =
       <<[cell |-> Len(cells) + 1, const |-> const, exported |-> TRUE]>> \o @]

\* define variable, define constant.
Define(n, const) ==
  /\ AddBinding(n, const, 0)
  /\ UNCHANGED <<gfs, here, current>> /\ Evaluated

\* define method: a method for the generic function the name denotes, or for a new one.
DefineMethod(n, x) ==
  \/ /\ ~Bound(n)
     /\ Len(gfs) < MaxGFs
     /\ AddBinding(n, FALSE, Len(gfs) + 1)
     /\ gfs' = Append(gfs, {x})
     /\ UNCHANGED <<here, current>> /\ Evaluated
  \/ /\ Bound(n)
     /\ cells[Denoted(n).cell].gf # 0
     /\ gfs' = [gfs EXCEPT ![cells[Denoted(n).cell].gf] = @ \cup {x}]
     /\ UNCHANGED <<mods, cells, here, current>> /\ Evaluated
  \/ /\ Bound(n)
     /\ cells[Denoted(n).cell].gf = 0
     /\ UNCHANGED <<mods, cells, gfs, current>> /\ ErrorReset

\* n := a value that is no generic function: modify_value.
Assign(n) ==
  \/ /\ Bound(n)
     /\ ~Denoted(n).const
     /\ cells' = [cells EXCEPT ![Denoted(n).cell].assigned = TRUE, ![Denoted(n).cell].gf = 0]
     /\ UNCHANGED <<mods, gfs, here, current>> /\ Evaluated
  \/ /\ Bound(n) => Denoted(n).const
     /\ UNCHANGED <<mods, cells, gfs, current>> /\ ErrorReset

-----------------------------------------------------------------------------
(* define module. *)

\* A clause exports names, or uses a module.  used: the module; all: whether it imports all,
\* or a list; as: the names bindings get (prefix: and rename:); exports: the new names it
\* exports.  exclude: is read and not consulted.

\* The bindings of a chain that are exported, in their order.
Exported(chain) ==
  LET kept[i \in 0..Len(chain)] ==
        IF i = 0 THEN <<>>
        ELSE IF chain[i].exported THEN Append(kept[i-1], chain[i]) ELSE kept[i-1]
  IN  kept[Len(chain)]

\* Slip: what the module exports is not consulted.
ImportableUnlisted(from, n, all) == IF all THEN Exported(from.space[n]) ELSE <<>>

\* The bindings of name n a use clause meets in module `from' and may import.
Importable(from, n, all) ==
  IF all /\ n \in from.exports THEN Exported(from.space[n]) ELSE <<>>

\* Slip: only what the clause says is kept of the props.
CopyFresh(b, exported) == [cell |-> b.cell, const |-> FALSE, exported |-> exported]

\* A copy of a binding, as import_top_level_binding and the exports of the clause leave
\* its props: `props &= !EXPORTED_BINDING' clears them all.
Copy(b, exported) == [cell |-> b.cell, const |-> b.const /\ exported, exported |-> exported]

\* Slip: what a name is bound to already is left as it is.
ImportNameFirstOnly(def, from, n, u, all) ==
  LET chain == Importable(from, n, all)
  IN  IF chain = <<>> \/ def.space[u.as[n]] # <<>> THEN def
      ELSE [def EXCEPT !.space[u.as[n]] =
              [i \in DOMAIN chain |-> Copy(chain[i], u.as[n] \in u.exports)]]

\* One name of a use clause, for the module being defined: def is its space and exports,
\* and the generic functions so far.  The name is bound unless it is already; a generic
\* function it is bound to gets the methods of the one that is not imported.
ImportName(def, from, n, u, all) ==
  LET new   == u.as[n]
      chain == Importable(from, n, all)
      old   == Newest(def.space, new)
      oldGF == IF old = <<>> THEN 0 ELSE cells[old[1].cell].gf
      added == UNION {def.gfs[cells[chain[i].cell].gf] :
                        i \in {j \in DOMAIN chain : cells[chain[j].cell].gf # 0}}
  IN  IF chain = <<>> THEN def
      ELSE IF old = <<>>
      THEN [def EXCEPT !.space[new] =
              [i \in DOMAIN chain |-> Copy(chain[i], new \in u.exports)]]
      ELSE IF oldGF # 0 THEN [def EXCEPT !.gfs[oldGF] = @ \cup added]
      ELSE def

use_module(def, u, all) ==
  LET from == mods[module_binding(u.used)]
      done[i \in 0..Len(HashOrder)] ==
        IF i = 0 THEN def ELSE ImportName(done[i-1], from, HashOrder[i], u, all)
  IN  done[Len(HashOrder)]

\* all_imports is not initialized: a clause with a list imports everything if garbage is
\* true, and nothing if not, for the list is searched for the binding, not for its name.
Clause(def, c, garbage) ==
  CASE c.kind = "export" -> [def EXCEPT !.exports = @ \cup c.names]
    [] c.kind = "use" /\ Known(c.used) -> use_module(def, c, c.all \/ garbage)
    [] c.kind = "use" /\ ~Known(c.used) /\ c.used = def.sym -> def
    [] OTHER -> [def EXCEPT !.failed = TRUE]

Clauses(m, cs, garbage) ==
  LET done[i \in 0..Len(cs)] ==
        IF i = 0 THEN [sym |-> m, exports |-> {}, space |-> NoBindings,
                       gfs |-> gfs, failed |-> FALSE]
        ELSE IF done[i-1].failed THEN done[i-1]
        ELSE Clause(done[i-1], cs[i], garbage)
  IN  done[Len(cs)]

\* Slip: a module whose clauses fail is not kept.
DefineModuleLast(form, garbage) ==
  /\ Len(mods) < MaxModules
  /\ LET def == Clauses(form.sym, form.clauses, garbage) IN
     IF def.failed
     THEN /\ current' = Len(mods) + 1
          /\ UNCHANGED <<mods, gfs>> /\ ErrorReset
     ELSE /\ mods' = Append(mods, [sym |-> form.sym, exports |-> def.exports,
                                    space |-> def.space])
          /\ gfs' = def.gfs
          /\ here' = current
          /\ UNCHANGED current /\ Evaluated
  /\ UNCHANGED cells

\* define_module_eval.  The module is there before its clauses are evaluated, and for a
\* use clause it is the current one; then the_env is that of the current module again.
DefineModule(form, garbage) ==
  /\ Len(mods) < MaxModules
  /\ LET def == Clauses(form.sym, form.clauses, garbage) IN
     /\ mods' = Append(mods, [sym |-> form.sym, exports |-> def.exports, space |-> def.space])
     /\ gfs' = def.gfs
     /\ IF def.failed
        THEN current' = Len(mods) + 1 /\ ErrorReset
        ELSE /\ here' = IF \E i \in DOMAIN form.clauses : form.clauses[i].kind = "use"
                        THEN current ELSE here
             /\ UNCHANGED current /\ Evaluated
  /\ UNCHANGED cells

-----------------------------------------------------------------------------
(* Going from module to module. *)

\* set-module (m:) as a form of its own.
SetModule(m) ==
  /\ Known(m)
  /\ here' = module_binding(m) /\ current' = here'
  /\ UNCHANGED <<mods, cells, gfs>> /\ Evaluated

\* set-module (m:) as the last form of a body or a branch, or anywhere in a method: the
\* combination around it restores the_env.
SetModuleInBody(m) ==
  /\ Known(m)
  /\ current' = module_binding(m)
  /\ UNCHANGED <<mods, cells, gfs, here>> /\ Evaluated

\* load: the scanner meets the header "module: m" before any form is evaluated.
StartLoad(m) ==
  /\ ~loading
  /\ Known(m)
  /\ loading' = TRUE
  /\ here' = module_binding(m) /\ current' = here'
  /\ UNCHANGED <<mods, cells, gfs, prompt>>

\* The file is at its end: NO_LOADING_LIBRARIES is not defined.
EndLoad ==
  /\ loading
  /\ loading' = FALSE
  /\ prompt' = here
  /\ UNCHANGED <<mods, cells, gfs, here, current>>

\* A form that signals an error.
Fail ==
  /\ ErrorReset
  /\ UNCHANGED <<mods, cells, gfs, current>>

Next ==
  \/ \E n \in Name, const \in BOOLEAN : Define(n, const)
  \/ \E n \in Name, x \in Method : DefineMethod(n, x)
  \/ \E n \in Name : Assign(n)
  \/ \E form \in Forms, garbage \in BOOLEAN : DefineModule(form, garbage)
  \/ \E m \in Visited : SetModule(m)
  \/ \E m \in Visited : SetModuleInBody(m)
  \/ \E m \in Visited : StartLoad(m)
  \/ EndLoad
  \/ Fail

Spec == Init /\ [][Next]_vars

-----------------------------------------------------------------------------
(* Properties. *)

Bindings(i) == UNION {{mods[i].space[n][k] : k \in DOMAIN mods[i].space[n]} : n \in Name}

\* What a module does not export is bound in no other module, through however many
\* modules that use and re-export one another it might have come (env.c:592-599).
HiddenStaysHidden ==
  \A i \in DOMAIN mods : \A b \in Bindings(i) :
    cells[b.cell].home # i => cells[b.cell].name \in mods[cells[b.cell].home].exports

\* A constant that a module has imported and exports again is still a constant there,
\* whatever way it has come (env.c:521, 653-664).
ReexportedConstants ==
  \A i \in DOMAIN mods : \A b \in Bindings(i) :
    b.exported /\ cells[b.cell].const => b.const

\* When two used modules export generic functions under one name, the name denotes in the
\* new module one that has the methods of both (env.c:626-638).
MergedMethods ==
  [][Len(mods') > Len(mods) /\ current' = current =>
       \A form \in Forms : DefineModule(form, FALSE) =>
         \A i \in DOMAIN form.clauses : \A n \in Name :
           LET c == form.clauses[i] IN
           c.kind = "use" /\ Known(c.used) =>
             LET chain == Importable(mods[module_binding(c.used)], n, c.all)
                 bound == mods'[Len(mods')].space[c.as[n]]
             IN  chain # <<>> /\ cells[bound[1].cell].gf # 0 /\ cells[chain[1].cell].gf # 0
                 => gfs[cells[chain[1].cell].gf] \subseteq gfs'[cells[bound[1].cell].gf]]_vars

\* The value of a constant does not change: "attempt to modify value of a constant"
\* (env.c:297).  Not so: see the README.
ConstantsKeep == \A c \in DOMAIN cells : cells[c].const => ~cells[c].assigned
=============================================================================
